---------------------------- MODULE OutputProofs ----------------------------
(***************************************************************************)
(* What the writer of a run guarantees for every stream of results, every  *)
(* set of filters and every cap: the LRU holds each key once and just the  *)
(* keys sighted recently, and the output is exactly what is due.           *)
(***************************************************************************)
EXTENDS Output, SequenceTheorems, FiniteSetTheorems, TLAPS

(* A history is a set of positions, at, at each of which a key, key[n],    *)
(* was sighted.  Every sighting of y is followed by one of x:              *)
Follows(x, y, at, key) ==
  \A m \in at : key[m] = y => \E q \in at : q > m /\ key[q] = x

LastSighting(m, k, at, key) ==
  m \in at /\ key[m] = k /\ \A q \in at : q > m => key[q] # k

(* The list ll of an lru with that history: its keys are in the order of   *)
(* their last sightings, and a key that is not in it was sighted before    *)
(* all of a full list.                                                     *)
Ordered(ll, at, key) ==
  \A i, j \in 1..Len(ll) : i < j => ll[i] # ll[j] /\ Follows(ll[i], ll[j], at, key)

Sighted(ll, at, key) ==
  \A j \in 1..Len(ll) : \E m \in at : LastSighting(m, ll[j], at, key)

Outlived(m, ll, cap, at, key) ==
  /\ cap > 0 /\ Len(ll) = cap
  /\ \A j \in 1..Len(ll) : \E q \in at : q > m /\ key[q] = ll[j]

Kept(ll, cap, at, key) ==
  \A m \in at : (\E j \in 1..Len(ll) : ll[j] = key[m]) \/ Outlived(m, ll, cap, at, key)

Recalls(ll, cap, at, key) ==
  /\ Ordered(ll, at, key) /\ Sighted(ll, at, key) /\ Kept(ll, cap, at, key)
  /\ cap > 0 => Len(ll) <= cap
-----------------------------------------------------------------------------
(* The history with k sighted once more, at p; a list new of keys of ll    *)
(* and k; and such a list with k in front and the others in the old order. *)
SightedAgain(at, key, p, k, at2, key2) ==
  /\ at \in SUBSET Nat /\ p \in Nat /\ \A m \in at : m < p
  /\ at2 = at \cup {p}
  /\ key2 = [n \in at2 |-> IF n = p THEN k ELSE key[n]]

Within(new, ll, k) ==
  \A i \in 1..Len(new) : new[i] = k \/ \E j \in 1..Len(ll) : new[i] = ll[j]

Fronted(ll, new, k) ==
  /\ Len(new) >= 1 /\ new[1] = k
  /\ \E old \in [2..Len(new) -> 1..Len(ll)] :
       /\ \A i \in 2..Len(new) : new[i] = ll[old[i]] /\ new[i] # k
       /\ \A i, j \in 2..Len(new) : i < j => old[i] < old[j]

(* A list with k in front, and behind it keys of the old list in the old   *)
(* order, fits the history with k sighted once more.                       *)
LEMMA FrontIsLast ==
  ASSUME NEW Keys, NEW ll \in Seq(Keys), NEW new \in Seq(Keys), NEW k \in Keys,
         NEW at, NEW key, NEW p, NEW at2, NEW key2, SightedAgain(at, key, p, k, at2, key2),
         Ordered(ll, at, key), Sighted(ll, at, key), Fronted(ll, new, k)
  PROVE  Ordered(new, at2, key2) /\ Sighted(new, at2, key2)
<1> USE DEF SightedAgain
<1>0. PICK old \in [2..Len(new) -> 1..Len(ll)] :
        /\ \A i \in 2..Len(new) : new[i] = ll[old[i]] /\ new[i] # k
        /\ \A i, j \in 2..Len(new) : i < j => old[i] < old[j]
  BY DEF Fronted
<1> USE <1>0 DEF Fronted
<1>1. Len(new) \in Nat /\ Len(ll) \in Nat
  OBVIOUS
<1>2. \A m \in at : m \in at2 /\ key2[m] = key[m]
  OBVIOUS
<1>3. p \in at2 /\ key2[p] = k
  OBVIOUS
<1>4. \A i \in 2..Len(new) : \A m \in at2 : key2[m] = new[i] => m \in at
  BY <1>3
<1>5. Ordered(new, at2, key2)
  <2> SUFFICES ASSUME NEW i \in 1..Len(new), NEW j \in 1..Len(new), i < j
               PROVE  new[i] # new[j] /\ Follows(new[i], new[j], at2, key2)
    BY DEF Ordered
  <2>1. j \in 2..Len(new)
    BY <1>1
  <2>2. CASE i = 1
    <3>1. \A m \in at2 : key2[m] = new[j] => p \in at2 /\ p > m /\ key2[p] = new[i]
      BY <1>3, <1>4, <2>1, <2>2
    <3> QED BY <2>1, <2>2, <3>1 DEF Follows
  <2>3. CASE i # 1
    <3>1. i \in 2..Len(new)
      BY <1>1, <2>3
    <3>2. old[i] < old[j] /\ old[i] \in 1..Len(ll) /\ old[j] \in 1..Len(ll)
      BY <2>1, <3>1
    <3>3. ll[old[i]] # ll[old[j]] /\ Follows(ll[old[i]], ll[old[j]], at, key)
      BY <3>2 DEF Ordered
    <3>4. new[i] # new[j] /\ Follows(new[i], new[j], at, key)
      BY <2>1, <3>1, <3>3
    <3>5. ASSUME NEW m \in at2, key2[m] = new[j]
          PROVE  \E q \in at2 : q > m /\ key2[q] = new[i]
      <4>1. m \in at /\ key[m] = new[j]
        BY <1>2, <1>4, <2>1, <3>5
      <4>2. PICK q \in at : q > m /\ key[q] = new[i]
        BY <3>4, <4>1 DEF Follows
      <4> QED BY <1>2, <4>2
    <3> QED BY <3>4, <3>5 DEF Follows
  <2> QED BY <2>2, <2>3
<1>6. Sighted(new, at2, key2)
  <2> SUFFICES ASSUME NEW j \in 1..Len(new)
               PROVE  \E m \in at2 : LastSighting(m, new[j], at2, key2)
    BY DEF Sighted
  <2>1. CASE j = 1
    <3>1. \A q \in at2 : ~(q > p)
      <4>1. \A q \in at : q \in Nat /\ q < p
        OBVIOUS
      <4> QED BY <4>1
    <3> QED BY <1>3, <2>1, <3>1 DEF LastSighting
  <2>2. CASE j # 1
    <3>1. j \in 2..Len(new) /\ old[j] \in 1..Len(ll)
      BY <1>1, <2>2
    <3>2. PICK m \in at : LastSighting(m, ll[old[j]], at, key)
      BY <3>1 DEF Sighted
    <3>3. m \in at2 /\ key2[m] = new[j]
      BY <1>2, <3>1, <3>2 DEF LastSighting
    <3>4. \A q \in at2 : q > m => key2[q] # new[j]
      BY <1>2, <1>4, <3>1, <3>2 DEF LastSighting
    <3> QED BY <3>3, <3>4 DEF LastSighting
  <2> QED BY <2>1, <2>2
<1> QED BY <1>5, <1>6

(* A key that was outlived by a list is outlived by the next one.          *)
LEMMA OutlivedOnce ==
  ASSUME NEW Keys, NEW ll \in Seq(Keys), NEW new \in Seq(Keys), NEW k \in Keys,
         NEW at, NEW key, NEW p, NEW at2, NEW key2, SightedAgain(at, key, p, k, at2, key2),
         NEW cap, NEW m \in at, Outlived(m, ll, cap, at, key), Len(new) = cap,
         Within(new, ll, k)
  PROVE  Outlived(m, new, cap, at2, key2)
<1>1. /\ at \in SUBSET Nat /\ p \in Nat /\ at2 = at \cup {p}
      /\ \A q \in at : q < p /\ q # p /\ q \in at2 /\ key2[q] = key[q]
      /\ p \in at2 /\ key2[p] = k
  BY DEF SightedAgain
<1>2. ASSUME NEW i \in 1..Len(new)
      PROVE  \E q \in at2 : q > m /\ key2[q] = new[i]
  <2>1. CASE new[i] = k
    <3>1. m \in Nat /\ m < p
      BY <1>1
    <3> QED BY <1>1, <2>1, <3>1
  <2>2. CASE \E j \in 1..Len(ll) : new[i] = ll[j]
    <3>1. PICK j \in 1..Len(ll) : new[i] = ll[j]
      BY <2>2
    <3>2. PICK q \in at : q > m /\ key[q] = ll[j]
      BY DEF Outlived
    <3>3. q \in at2 /\ key2[q] = ll[j]
      BY <1>1, <3>2
    <3> QED BY <3>1, <3>2, <3>3
  <2> QED BY <2>1, <2>2 DEF Within
<1> QED BY <1>2 DEF Outlived

(* What a hit leaves of the list, seen from the sightings.                 *)
LEMMA HitRecalls ==
  ASSUME NEW Keys, NEW l, l.ll \in Seq(Keys), NEW k \in Keys,
         NEW at, NEW key, NEW p, NEW at2, NEW key2, SightedAgain(at, key, p, k, at2, key2),
         NEW cap, Recalls(l.ll, cap, at, key), \E i \in 1..Len(l.ll) : l.ll[i] = k
  PROVE  LET new == MoveToFront(l, k)
         IN  /\ new.ll \in Seq(Keys) /\ new.index = l.index
             /\ {new.ll[i] : i \in 1..Len(new.ll)} = {l.ll[i] : i \in 1..Len(l.ll)}
             /\ Recalls(new.ll, cap, at2, key2)
<1> DEFINE ll == l.ll
           pos == Position(ll, k)
           new == MoveToFront(l, k).ll
           old == [i \in 2..Len(new) |-> IF i <= pos THEN i - 1 ELSE i]
<1>1. Len(ll) \in Nat /\ DOMAIN ll = 1..Len(ll) /\ \A i \in 1..Len(ll) : ll[i] \in Keys
  OBVIOUS
<1>2. pos \in 1..Len(ll) /\ ll[pos] = k
  BY <1>1 DEF Position
<1>3. /\ new = [j \in 1..Len(ll) |-> IF j = 1 THEN k
                                     ELSE IF j <= pos THEN ll[j - 1] ELSE ll[j]]
      /\ MoveToFront(l, k).index = l.index
  BY DEF MoveToFront
<1> HIDE DEF ll, pos, new
<1>4. new \in Seq(Keys) /\ Len(new) = Len(ll)
  <2>1. \A j \in 1..Len(ll) : (IF j = 1 THEN k ELSE IF j <= pos THEN ll[j - 1] ELSE ll[j]) \in Keys
    BY <1>1, <1>2
  <2>2. new \in [1..Len(ll) -> Keys]
    BY <1>3, <2>1
  <2> QED BY <1>1, <2>2
<1>5. \A i, j \in 1..Len(ll) : i # j => ll[i] # ll[j]
  BY <1>1 DEF Recalls, Ordered, ll
<1>6. /\ Len(new) >= 1 /\ new[1] = k
      /\ \A i \in 2..Len(new) : new[i] = ll[old[i]] /\ new[i] # k
      /\ \A i \in 2..Len(new) : old[i] \in 1..Len(ll)
      /\ \A i, j \in 2..Len(new) : i < j => old[i] < old[j]
  <2>1. \A i \in 2..Len(new) : old[i] \in 1..Len(ll) /\ old[i] # pos /\ new[i] = ll[old[i]]
    BY <1>1, <1>2, <1>3, <1>4
  <2>2. \A i \in 2..Len(new) : new[i] # k
    BY <1>2, <1>5, <2>1
  <2>3. \A i, j \in 2..Len(new) : i < j => old[i] < old[j]
    BY <1>1, <1>2, <1>4
  <2>4. Len(new) >= 1 /\ new[1] = k
    BY <1>1, <1>2, <1>3, <1>4
  <2> QED BY <2>1, <2>2, <2>3, <2>4
<1>7. Ordered(new, at2, key2) /\ Sighted(new, at2, key2)
  <2>1. old \in [2..Len(new) -> 1..Len(ll)]
    BY <1>6
  <2> HIDE DEF old
  <2>2. Fronted(ll, new, k)
    BY <1>6, <2>1 DEF Fronted
  <2> QED BY <1>4, <2>2, FrontIsLast DEF Recalls, ll
<1>8. \A i \in 1..Len(ll) : \E j \in 1..Len(new) : new[j] = ll[i]
  <2> SUFFICES ASSUME NEW i \in 1..Len(ll) PROVE \E j \in 1..Len(new) : new[j] = ll[i]
    OBVIOUS
  <2>1. CASE i < pos
    BY <1>1, <1>2, <1>3, <1>4, <2>1, i + 1 \in 2..pos, new[i + 1] = ll[i]
  <2>2. CASE i = pos
    BY <1>1, <1>2, <1>4, <1>6, <2>2
  <2>3. CASE i > pos
    BY <1>1, <1>2, <1>3, <1>4, <2>3, new[i] = ll[i]
  <2> QED BY <1>1, <1>2, <2>1, <2>2, <2>3
<1>9. \A i \in 1..Len(new) : \E j \in 1..Len(ll) : new[i] = ll[j]
  BY <1>1, <1>2, <1>4, <1>6
<1>10. Kept(new, cap, at2, key2)
  <2> SUFFICES ASSUME NEW m \in at2
               PROVE  (\E j \in 1..Len(new) : new[j] = key2[m]) \/ Outlived(m, new, cap, at2, key2)
    BY DEF Kept
  <2>1. CASE m = p
    BY <1>4, <1>6, <2>1 DEF SightedAgain
  <2>2. CASE m # p
    <3>1. m \in at /\ key2[m] = key[m]
      BY <2>2 DEF SightedAgain
    <3>2. CASE \E i \in 1..Len(ll) : ll[i] = key[m]
      BY <1>8, <3>1, <3>2
    <3>3. CASE Outlived(m, ll, cap, at, key)
      <4>1. Len(new) = cap
        BY <1>4, <3>3 DEF Outlived
      <4>2. Within(new, ll, k)
        BY <1>9 DEF Within
      <4>3. Outlived(m, new, cap, at2, key2)
        BY <1>4, <3>1, <3>3, <4>1, <4>2, OutlivedOnce DEF ll
      <4> QED BY <4>3
    <3> QED BY <3>1, <3>2, <3>3 DEF Recalls, Kept, ll
  <2> QED BY <2>1, <2>2
<1>11. {new[i] : i \in 1..Len(new)} = {ll[i] : i \in 1..Len(ll)}
  <2>1. \A e \in {new[i] : i \in 1..Len(new)} : e \in {ll[i] : i \in 1..Len(ll)}
    BY <1>9
  <2>2. \A e \in {ll[i] : i \in 1..Len(ll)} : e \in {new[i] : i \in 1..Len(new)}
    BY <1>8
  <2> QED BY <2>1, <2>2
<1>12. Recalls(new, cap, at2, key2)
  <2>1. cap > 0 => Len(new) <= cap
    BY <1>4 DEF Recalls, ll
  <2> QED BY <1>7, <1>10, <2>1 DEF Recalls
<1> QED BY <1>3, <1>4, <1>11, <1>12 DEF new, ll

(* The first n keys of the list ll.                                        *)
LEMMA PushedFront ==
  ASSUME NEW Keys, NEW ll \in Seq(Keys), NEW k \in Keys, NEW n \in 1..Len(ll) + 1
  PROVE  LET new == SubSeq(<<k>> \o ll, 1, n)
         IN  /\ new \in Seq(Keys) /\ Len(new) = n /\ new[1] = k
             /\ \A i \in 2..n : new[i] = ll[i - 1] /\ i - 1 \in 1..Len(ll)
<1> DEFINE pushed == <<k>> \o ll
<1>1. /\ pushed \in Seq(Keys) /\ Len(pushed) = Len(ll) + 1 /\ pushed[1] = k
      /\ \A i \in 2..Len(ll) + 1 : pushed[i] = ll[i - 1]
  OBVIOUS
<1> HIDE DEF pushed
<1>2. SubSeq(pushed, 1, n) = [i \in 1..n |-> pushed[i]]
  BY <1>1
<1>3. \A i \in 1..n : pushed[i] \in Keys
  BY <1>1
<1>4. [i \in 1..n |-> pushed[i]] \in [1..n -> Keys]
  BY <1>3
<1>5. \A i \in 2..n : i \in 2..Len(ll) + 1 /\ i - 1 \in 1..Len(ll)
  OBVIOUS
<1>6. /\ SubSeq(pushed, 1, n) \in Seq(Keys) /\ Len(SubSeq(pushed, 1, n)) = n
      /\ \A i \in 1..n : SubSeq(pushed, 1, n)[i] = pushed[i]
  BY <1>2, <1>4, n \in Nat
<1>7. 1 \in 1..n
  OBVIOUS
<1> QED BY <1>1, <1>5, <1>6, <1>7 DEF pushed

(* A key the list does not hold comes in front; a full list loses its last *)
(* key, which the others have outlived.                                    *)
LEMMA PushRecalls ==
  ASSUME NEW Keys, NEW ll \in Seq(Keys), NEW k \in Keys,
         NEW at, NEW key, NEW p, NEW at2, NEW key2, SightedAgain(at, key, p, k, at2, key2),
         NEW cap \in Nat, Recalls(ll, cap, at, key), \A i \in 1..Len(ll) : ll[i] # k,
         NEW new \in Seq(Keys), Len(new) \in 1..Len(ll) + 1, new[1] = k,
         \A i \in 2..Len(new) : new[i] = ll[i - 1],
         IF cap > 0 /\ Len(ll) + 1 > cap THEN Len(new) = Len(ll) ELSE Len(new) = Len(ll) + 1
  PROVE  Recalls(new, cap, at2, key2)
<1> DEFINE old == [i \in 2..Len(new) |-> i - 1]
<1>1. /\ at \in SUBSET Nat /\ p \in Nat /\ at2 = at \cup {p}
      /\ \A q \in at : q < p /\ q # p /\ q \in at2 /\ key2[q] = key[q]
      /\ p \in at2 /\ key2[p] = k
  BY DEF SightedAgain
<1>2. Len(ll) \in Nat /\ Len(new) \in Nat /\ Len(new) >= 1
  OBVIOUS
<1>3. \A i \in 2..Len(new) : i - 1 \in 1..Len(ll)
  BY <1>2
<1>4. Ordered(new, at2, key2) /\ Sighted(new, at2, key2)
  <2>1. old \in [2..Len(new) -> 1..Len(ll)]
    BY <1>3
  <2>2. \A i \in 2..Len(new) : new[i] = ll[old[i]] /\ new[i] # k
    BY <1>3
  <2>3. \A i, j \in 2..Len(new) : i < j => old[i] < old[j]
    BY <1>2
  <2> HIDE DEF old
  <2>4. Fronted(ll, new, k)
    BY <1>2, <2>1, <2>2, <2>3 DEF Fronted
  <2> QED BY <2>4, FrontIsLast DEF Recalls
<1>5. Within(new, ll, k)
  <2> SUFFICES ASSUME NEW i \in 1..Len(new)
               PROVE  new[i] = k \/ \E j \in 1..Len(ll) : new[i] = ll[j]
    BY DEF Within
  <2>1. CASE i = 1
    BY <2>1
  <2>2. CASE i # 1
    BY <1>2, <1>3, <2>2, i \in 2..Len(new)
  <2> QED BY <2>1, <2>2
<1>6. Len(ll) = cap /\ cap > 0 => Len(new) = cap
  BY <1>2
<1>7. cap > 0 => Len(new) <= cap
  BY <1>2 DEF Recalls
<1>8. Kept(new, cap, at2, key2)
  <2> SUFFICES ASSUME NEW m \in at2
               PROVE  (\E j \in 1..Len(new) : new[j] = key2[m]) \/ Outlived(m, new, cap, at2, key2)
    BY DEF Kept
  <2>1. CASE m = p
    BY <1>1, <1>2, <2>1, 1 \in 1..Len(new)
  <2>2. CASE m # p
    <3>1. m \in at /\ key2[m] = key[m] /\ m \in Nat /\ m < p
      BY <1>1, <2>2
    <3>2. CASE Outlived(m, ll, cap, at, key)
      <4>1. Len(new) = cap
        BY <1>6, <3>2 DEF Outlived
      <4>2. Outlived(m, new, cap, at2, key2)
        BY <1>5, <3>1, <3>2, <4>1, OutlivedOnce
      <4> QED BY <4>2
    <3>3. CASE \E i \in 1..Len(ll) : ll[i] = key[m]
      <4>1. PICK i \in 1..Len(ll) : ll[i] = key[m]
        BY <3>3
      <4>2. CASE i + 1 <= Len(new)
        BY <1>2, <3>1, <4>1, <4>2, i + 1 \in 2..Len(new), new[i + 1] = ll[i]
      <4>3. CASE i + 1 > Len(new)
        <5>1. cap > 0 /\ Len(new) = Len(ll) /\ Len(ll) = cap /\ i = Len(ll)
          BY <1>2, <4>1, <4>3 DEF Recalls
        <5>2. ASSUME NEW j \in 1..Len(new)
              PROVE  \E q \in at2 : q > m /\ key2[q] = new[j]
          <6>1. CASE j = 1
            BY <1>1, <3>1, <6>1
          <6>2. CASE j # 1
            <7>1. j \in 2..Len(new) /\ j - 1 \in 1..Len(ll) /\ j - 1 < i
              BY <1>2, <5>1, <6>2
            <7>2. Follows(ll[j - 1], ll[i], at, key)
              BY <7>1 DEF Recalls, Ordered
            <7>3. PICK q \in at : q > m /\ key[q] = ll[j - 1]
              BY <3>1, <4>1, <7>2 DEF Follows
            <7>4. q \in at2 /\ key2[q] = new[j]
              BY <1>1, <7>1, <7>3
            <7> QED BY <7>3, <7>4
          <6> QED BY <6>1, <6>2
        <5> QED BY <5>1, <5>2 DEF Outlived
      <4> QED BY <1>2, <4>2, <4>3
    <3> QED BY <3>1, <3>2, <3>3 DEF Recalls, Kept
  <2> QED BY <2>1, <2>2
<1> QED BY <1>4, <1>7, <1>8 DEF Recalls

(* The lru l, of keys in Keys, with the history at and key.                *)
Fits(l, Keys, cap, at, key) ==
  /\ l.ll \in Seq(Keys)
  /\ l.index = {l.ll[i] : i \in 1..Len(l.ll)}
  /\ Recalls(l.ll, cap, at, key)

(* What the dedup of the writer does with a key.                           *)
LEMMA AddFits ==
  ASSUME NEW Keys, NEW l, NEW k \in Keys, NEW cap \in Nat,
         NEW at, NEW key, NEW p, NEW at2, NEW key2, SightedAgain(at, key, p, k, at2, key2),
         Fits(l, Keys, cap, at, key), k \notin l.index
  PROVE  Fits(add(l, k, cap), Keys, cap, at2, key2)
<1> DEFINE ll == l.ll
           n == IF cap > 0 /\ Len(ll) + 1 > cap THEN Len(ll) ELSE Len(ll) + 1
           new == SubSeq(<<k>> \o ll, 1, n)
<1>1. /\ ll \in Seq(Keys) /\ Len(ll) \in Nat /\ l.index = {ll[i] : i \in 1..Len(ll)}
      /\ Recalls(ll, cap, at, key) /\ \A i \in 1..Len(ll) : ll[i] # k
      /\ cap > 0 => Len(ll) <= cap
      /\ \A i, j \in 1..Len(ll) : i # j => ll[i] # ll[j]
  <2>1. ll \in Seq(Keys) /\ Len(ll) \in Nat
    BY DEF Fits
  <2>2. \A i, j \in 1..Len(ll) : i # j => ll[i] # ll[j]
    BY <2>1 DEF Fits, Recalls, Ordered
  <2> QED BY <2>1, <2>2 DEF Fits, Recalls
<1>2. n \in 1..Len(ll) + 1
  BY <1>1
<1>3. /\ new \in Seq(Keys) /\ Len(new) = n /\ new[1] = k
      /\ \A i \in 2..n : new[i] = ll[i - 1] /\ i - 1 \in 1..Len(ll)
  <2> HIDE DEF n, ll
  <2> QED BY <1>1, <1>2, PushedFront
<1>4. Recalls(new, cap, at2, key2)
  <2>1. IF cap > 0 /\ Len(ll) + 1 > cap THEN n = Len(ll) ELSE n = Len(ll) + 1
    OBVIOUS
  <2> HIDE DEF n, new, ll
  <2> QED BY <1>1, <1>2, <1>3, <2>1, PushRecalls
<1>5. add(l, k, cap) =
        IF cap > 0 /\ Overfull(PushFront(l, k), cap) THEN Evict(PushFront(l, k)) ELSE PushFront(l, k)
  BY DEF add, contains, Fits
<1>6. /\ PushFront(l, k) = [ll |-> <<k>> \o ll, index |-> l.index \cup {k}]
      /\ Len(<<k>> \o ll) = Len(ll) + 1 /\ <<k>> \o ll \in Seq(Keys)
      /\ \A i \in 1..Len(ll) : (<<k>> \o ll)[i + 1] = ll[i]
      /\ Overfull(PushFront(l, k), cap) <=> Len(ll) + 1 > cap
  BY <1>1 DEF PushFront, Overfull
<1>7. add(l, k, cap).ll = new
  <2>1. CASE cap > 0 /\ Len(ll) + 1 > cap
    BY <1>5, <1>6, <2>1 DEF Evict
  <2>2. CASE ~(cap > 0 /\ Len(ll) + 1 > cap)
    <3>1. add(l, k, cap).ll = <<k>> \o ll
      <4>1. add(l, k, cap) = PushFront(l, k)
        <5> HIDE DEF ll
        <5> QED BY <1>5, <1>6, <2>2
      <4> QED BY <1>6, <4>1
    <3>2. SubSeq(<<k>> \o ll, 1, Len(<<k>> \o ll)) = <<k>> \o ll
      BY <1>6
    <3> QED BY <1>6, <2>2, <3>1, <3>2
  <2> QED BY <2>1, <2>2
<1>8. add(l, k, cap).index = {new[i] : i \in 1..Len(new)}
  <2> DEFINE last == ll[Len(ll)]
  <2>1. {new[i] : i \in 1..n} = {k} \cup {ll[i] : i \in 1..n - 1}
    <3>1. ASSUME NEW i \in 1..n PROVE new[i] \in {k} \cup {ll[j] : j \in 1..n - 1}
      <4>1. i = 1 \/ i \in 2..n
        BY <1>2
      <4> HIDE DEF new, n
      <4>2. i \in 2..n => i - 1 \in 1..n - 1
        BY <1>1, <1>2
      <4> QED BY <1>3, <4>1, <4>2
    <3>2. ASSUME NEW i \in 1..n - 1 PROVE \E j \in 1..n : ll[i] = new[j]
      <4> HIDE DEF new, n
      <4>1. i + 1 \in 2..n /\ i + 1 \in 1..n /\ (i + 1) - 1 = i
        BY <1>1, <1>2
      <4> QED BY <1>3, <4>1
    <3>3. \E j \in 1..n : k = new[j]
      BY <1>2, <1>3, 1 \in 1..n
    <3> HIDE DEF new, n
    <3> QED BY <3>1, <3>2, <3>3
  <2>2. CASE cap > 0 /\ Len(ll) + 1 > cap
    <3>1. n = Len(ll) /\ Len(ll) >= 1
      BY <1>1, <2>2
    <3>2. (<<k>> \o ll)[Len(ll) + 1] = last
      BY <1>6, <3>1
    <3>3. add(l, k, cap).index = (l.index \cup {k}) \ {last}
      BY <1>5, <1>6, <2>2, <3>2 DEF Evict
    <3>4. last # k /\ \A i \in 1..Len(ll) - 1 : i \in 1..Len(ll) /\ ll[i] # last
      BY <1>1, <3>1
    <3>5. \A i \in 1..Len(ll) : i \in 1..Len(ll) - 1 \/ ll[i] = last
      BY <1>1
    <3>6. (l.index \cup {k}) \ {last} = {k} \cup {ll[i] : i \in 1..Len(ll) - 1}
      <4> HIDE DEF ll, last
      <4> QED BY <1>1, <3>4, <3>5
    <3> HIDE DEF new, n, last, ll
    <3> QED BY <1>3, <2>1, <3>1, <3>3, <3>6
  <2>3. CASE ~(cap > 0 /\ Len(ll) + 1 > cap)
    <3>1. add(l, k, cap).index = l.index \cup {k}
      BY <1>5, <1>6, <2>3
    <3>2. n - 1 = Len(ll)
      BY <1>1, <2>3
    <3> HIDE DEF new, n, ll
    <3> QED BY <1>1, <1>3, <2>1, <3>1, <3>2
  <2> QED BY <2>2, <2>3
<1> HIDE DEF new, n
<1> QED BY <1>3, <1>4, <1>7, <1>8 DEF Fits

(* A key seen again that the list has: moved to the front, the list        *)
(* holds the keys recalled with the new sighting.                          *)
LEMMA HitFits ==
  ASSUME NEW Keys, NEW l, NEW k \in Keys, NEW cap \in Nat,
         NEW at, NEW key, NEW p, NEW at2, NEW key2, SightedAgain(at, key, p, k, at2, key2),
         Fits(l, Keys, cap, at, key), k \in l.index
  PROVE  Fits(MoveToFront(l, k), Keys, cap, at2, key2)
<1>1. /\ l.ll \in Seq(Keys) /\ Recalls(l.ll, cap, at, key)
      /\ \E i \in 1..Len(l.ll) : l.ll[i] = k
  BY DEF Fits
<1> DEFINE new == MoveToFront(l, k)
<1>2. /\ new.ll \in Seq(Keys) /\ new.index = l.index
      /\ {new.ll[i] : i \in 1..Len(new.ll)} = {l.ll[i] : i \in 1..Len(l.ll)}
      /\ Recalls(new.ll, cap, at2, key2)
  BY <1>1, HitRecalls
<1> HIDE DEF new
<1>3. Fits(new, Keys, cap, at2, key2)
  BY <1>2 DEF Fits
<1> QED BY <1>3 DEF new

(* The keys sighted after m, without k.                                    *)
KeysAfter(m, k, at, key) == {key[q] : q \in {q \in at : q > m}} \ {k}

SightedWithin(k, cap, at, key) ==
  \E m \in at : /\ key[m] = k
                /\ cap > 0 => Cardinality(KeysAfter(m, k, at, key)) < cap

(* Finitely many sightings show finitely many keys.                        *)
LEMMA KeysAfterFinite ==
  ASSUME NEW at, IsFiniteSet(at), NEW key, NEW m, NEW k
  PROVE  IsFiniteSet(KeysAfter(m, k, at, key))
<1> DEFINE A == {q \in at : q > m}
           K == {key[q] : q \in A}
           f == [q \in A |-> key[q]]
<1>1. IsFiniteSet(A)
  BY FS_Subset, A \in SUBSET at
<1>2. f \in Surjection(A, K)
  BY DEF Surjection
<1>3. IsFiniteSet(K)
  BY <1>1, <1>2, FS_Surjection
<1> QED BY <1>3, FS_Subset, K \ {k} \in SUBSET K DEF KeysAfter

(* The list of an lru holds just the keys that were sighted less than cap  *)
(* other keys ago.                                                         *)
LEMMA HoldsRecent ==
  ASSUME NEW Keys, NEW ll \in Seq(Keys), NEW cap \in Nat, NEW k,
         NEW at \in SUBSET Nat, IsFiniteSet(at), NEW key, Recalls(ll, cap, at, key)
  PROVE  (\E i \in 1..Len(ll) : ll[i] = k) <=> SightedWithin(k, cap, at, key)
<1>1. /\ Len(ll) \in Nat /\ \A i \in 1..Len(ll) : ll[i] \in Keys
      /\ \A i, j \in 1..Len(ll) : i # j => ll[i] # ll[j]
  BY DEF Recalls, Ordered
<1>2. ASSUME NEW j \in 1..Len(ll), ll[j] = k
      PROVE  SightedWithin(k, cap, at, key)
  <2>1. PICK m \in at : LastSighting(m, k, at, key)
    BY <1>2 DEF Recalls, Sighted
  <2> DEFINE front == {ll[i] : i \in 1..j - 1}
             S == KeysAfter(m, k, at, key)
  <2>2. ASSUME NEW q \in at, q > m, key[q] # k PROVE key[q] \in front
    <3>1. ~Outlived(q, ll, cap, at, key)
      <4>1. SUFFICES ASSUME NEW r \in at, r > q, key[r] = k PROVE FALSE
        BY <1>2 DEF Outlived
      <4>2. r > m
        BY <2>2, <4>1
      <4> QED BY <2>1, <4>1, <4>2 DEF LastSighting
    <3>2. PICK i \in 1..Len(ll) : ll[i] = key[q]
      BY <3>1 DEF Recalls, Kept
    <3>3. ~(j < i)
      <4>1. SUFFICES ASSUME j < i PROVE FALSE
        OBVIOUS
      <4>2. PICK r \in at : r > q /\ key[r] = k
        BY <1>2, <3>2, <4>1 DEF Recalls, Ordered, Follows
      <4>3. r > m
        BY <2>2, <4>2
      <4> QED BY <2>1, <4>2, <4>3 DEF LastSighting
    <3>4. i # j
      BY <1>2, <2>2, <3>2
    <3>5. i \in 1..j - 1
      BY <1>1, <3>3, <3>4
    <3> QED BY <3>2, <3>5
  <2>3. S \subseteq front
    BY <2>2 DEF KeysAfter
  <2>4. IsFiniteSet(front) /\ Cardinality(front) <= j - 1
    <3>1. [i \in 1..j - 1 |-> ll[i]] \in Surjection(1..j - 1, front)
      BY DEF Surjection
    <3>2. IsFiniteSet(1..j - 1) /\ Cardinality(1..j - 1) = j - 1
      <4>1. j \in Nat /\ j >= 1 /\ 1 \in Int /\ j - 1 \in Int /\ ~(1 > j)
        BY <1>1
      <4>2. Cardinality(1..j - 1) = IF 1 > j - 1 THEN 0 ELSE (j - 1) - 1 + 1
        BY <4>1, FS_Interval
      <4>3. IsFiniteSet(1..j - 1)
        BY <4>1, FS_Interval
      <4> QED BY <4>1, <4>2, <4>3
    <3> HIDE DEF front
    <3> QED BY <3>1, <3>2, FS_Surjection
  <2>5. Cardinality(S) <= Cardinality(front) /\ IsFiniteSet(S)
    BY <2>3, <2>4, FS_Subset
  <2>6. Cardinality(S) \in Nat /\ Cardinality(front) \in Nat
    BY <2>4, <2>5, FS_CardinalityType
  <2>7. cap > 0 => j - 1 < cap
    BY <1>1 DEF Recalls
  <2>8. cap > 0 => Cardinality(S) < cap
    <3> HIDE DEF S, front
    <3> QED BY <1>1, <2>4, <2>5, <2>6, <2>7
  <2>9. key[m] = k
    BY <2>1 DEF LastSighting
  <2> QED BY <2>8, <2>9 DEF SightedWithin
<1>3. ASSUME SightedWithin(k, cap, at, key), \A i \in 1..Len(ll) : ll[i] # k
      PROVE  FALSE
  <2>0. PICK m \in at : /\ key[m] = k
                        /\ cap > 0 => Cardinality(KeysAfter(m, k, at, key)) < cap
    BY <1>3 DEF SightedWithin
  <2> DEFINE S == KeysAfter(m, k, at, key)
  <2>1. Outlived(m, ll, cap, at, key)
    BY <1>3, <2>0 DEF Recalls, Kept
  <2>2. \A i \in 1..Len(ll) : ll[i] \in S
    BY <1>3, <2>0, <2>1 DEF Outlived, KeysAfter
  <2>3. IsFiniteSet(S)
    BY KeysAfterFinite
  <2> HIDE DEF S
  <2>4. [i \in 1..cap |-> ll[i]] \in Injection(1..cap, S)
    BY <1>1, <2>1, <2>2 DEF Outlived, Injection, IsInjective
  <2>5. Cardinality(1..cap) <= Cardinality(S) /\ Cardinality(1..cap) = cap
    BY <2>3, <2>4, FS_Injection, FS_Interval
  <2>6. Cardinality(S) \in Nat
    BY <2>3, FS_CardinalityType
  <2>7. cap > 0 /\ Cardinality(S) < cap
    BY <2>0, <2>1 DEF Outlived, S
  <2> QED BY <2>5, <2>6, <2>7
<1> QED BY <1>2, <1>3
-----------------------------------------------------------------------------
(* The history of the writer's lru: the results that reached the dedup.    *)
PageKeys == {PageOf[u].key : u \in RawUrls}

SightedAt(n) == {m \in 1..n : Sighting(m)}

KeyAt(n) == [m \in SightedAt(n) |-> Page(m).key]

(* A step that leaves the options alone and takes nothing back.            *)
HistoryKept ==
  /\ opts' = opts
  /\ received \in Seq(Incoming) /\ received' \in Seq(Incoming)
  /\ Len(received) <= Len(received')
  /\ \A n \in 1..Len(received) : received'[n] = received[n]

(* A longer stream has the same results where the shorter had them, so     *)
(* each is a sighting as before.                                           *)
LEMMA SightingsKept ==
  ASSUME HistoryKept
  PROVE  \A n \in 1..Len(received) : /\ Page(n)' = Page(n)
                                     /\ Sighting(n)' <=> Sighting(n)
  BY DEF HistoryKept, Page, Sighting, passesFilters, matchesAnyExt, matchesAnyRegex,
         isBlacklisted, urlExt

(* Whether a key was recent at a result that has arrived depends on the    *)
(* results before it alone.                                                *)
LEMMA RecencyKept ==
  ASSUME HistoryKept, NEW k, NEW n \in 1..Len(received) + 1
  PROVE  Recent(k, n)' <=> Recent(k, n)
<1>0. Len(received) \in Nat
  BY DEF HistoryKept
<1>1. \A m \in 1..n - 1 : m \in 1..Len(received)
  BY <1>0
<1>2. \A m \in 1..n - 1 : Page(m)' = Page(m) /\ (Sighting(m)' <=> Sighting(m))
  BY <1>1, SightingsKept
<1>3. \A m \in 1..n - 1 : KeysSince(m, n)' = KeysSince(m, n)
  <2> SUFFICES ASSUME NEW m \in 1..n - 1 PROVE KeysSince(m, n)' = KeysSince(m, n)
    OBVIOUS
  <2>1. \A q \in m + 1..n - 1 : q \in 1..n - 1
    BY <1>0
  <2>2. {q \in m + 1..n - 1 : Sighting(q)}' = {q \in m + 1..n - 1 : Sighting(q)}
    BY <1>2, <2>1
  <2>3. \A q \in {q \in m + 1..n - 1 : Sighting(q)} : Page(q)' = Page(q)
    BY <1>2, <2>1
  <2> QED BY <2>2, <2>3 DEF KeysSince
<1>4. opts'.cap = opts.cap
  BY DEF HistoryKept
<1> QED BY <1>2, <1>3, <1>4 DEF Recent

(* So the lines due of what has arrived stay due, in the same places.      *)
LEMMA RanksKept ==
  ASSUME HistoryKept
  PROVE  /\ \A n \in 1..Len(received) : Due(n)' <=> Due(n)
         /\ \A n \in 0..Len(received) : Rank(n)' = Rank(n)
<1>0. Len(received) \in Nat
  BY DEF HistoryKept
<1>1. ASSUME NEW n \in 1..Len(received)
      PROVE  Due(n)' <=> Due(n)
  <2>1. Page(n)' = Page(n) /\ (Sighting(n)' <=> Sighting(n))
    BY SightingsKept
  <2>2. Recent(Page(n).key, n)' <=> Recent(Page(n).key, n)
    <3> DEFINE k == Page(n).key
    <3>1. Recent(Page(n).key, n)' <=> (\E x : x = Page(n)'.key /\ Recent(x, n)')
      BY DEF Recent
    <3> QED BY <2>1, <3>1, RecencyKept
  <2> QED BY <2>1, <2>2 DEF Due, HistoryKept
<1>2. ASSUME NEW n \in 0..Len(received)
      PROVE  Rank(n)' = Rank(n)
  <2>1. \A m \in 1..n : m \in 1..Len(received)
    BY <1>0
  <2>2. {m \in 1..n : Due(m)}' = {m \in 1..n : Due(m)}
    BY <1>1, <2>1
  <2> QED BY <2>2 DEF Rank
<1> QED BY <1>1, <1>2

(* A rank grows by one at each result that is due, and at no other.        *)
LEMMA RankCounts ==
  /\ Rank(0) = 0
  /\ \A n \in Nat : /\ Rank(n) \in 0..n
                    /\ Rank(n + 1) = IF Due(n + 1) THEN Rank(n) + 1 ELSE Rank(n)
<1> DEFINE Dues(n) == {m \in 1..n : Due(m)}
<1>1. Rank(0) = 0
  <2>1. Dues(0) = {}
    OBVIOUS
  <2> QED BY <2>1, FS_EmptySet DEF Rank
<1>2. ASSUME NEW n \in Nat
      PROVE  IsFiniteSet(Dues(n)) /\ Rank(n) \in 0..n
  <2>1. IsFiniteSet(1..n) /\ Cardinality(1..n) = n
    BY FS_Interval
  <2>2. IsFiniteSet(Dues(n)) /\ Cardinality(Dues(n)) <= n
    BY <2>1, FS_Subset, Dues(n) \in SUBSET (1..n)
  <2>3. Cardinality(Dues(n)) \in Nat
    BY <2>2, FS_CardinalityType
  <2> QED BY <2>2, <2>3 DEF Rank
<1>3. ASSUME NEW n \in Nat
      PROVE  Rank(n + 1) = IF Due(n + 1) THEN Rank(n) + 1 ELSE Rank(n)
  <2>1. CASE Due(n + 1)
    <3>1. Dues(n + 1) = Dues(n) \cup {n + 1} /\ n + 1 \notin Dues(n)
      BY <2>1
    <3> QED BY <1>2, <2>1, <3>1, FS_AddElement DEF Rank
  <2>2. CASE ~Due(n + 1)
    <3>1. Dues(n + 1) = Dues(n)
      BY <2>2
    <3> QED BY <2>2, <3>1 DEF Rank
  <2> QED BY <2>1, <2>2
<1> QED BY <1>1, <1>2, <1>3

(* Two results that are due have different places in the output.           *)
LEMMA RankIncreases ==
  ASSUME NEW m \in Nat, NEW n \in Nat, m < n, Due(n)
  PROVE  Rank(m) < Rank(n)
<1> DEFINE Dues(i) == {j \in 1..i : Due(j)}
<1>1. IsFiniteSet(Dues(n))
  <2>1. IsFiniteSet(1..n)
    BY FS_Interval
  <2> QED BY <2>1, FS_Subset, Dues(n) \in SUBSET (1..n)
<1>2. Dues(m) \in SUBSET Dues(n) /\ n \in Dues(n) /\ n \notin Dues(m)
  OBVIOUS
<1> HIDE DEF Dues
<1>3. Cardinality(Dues(m)) <= Cardinality(Dues(n)) /\ Cardinality(Dues(m)) # Cardinality(Dues(n))
  BY <1>1, <1>2, FS_Subset
<1>4. Cardinality(Dues(m)) \in Nat /\ Cardinality(Dues(n)) \in Nat
  BY <1>1, <1>2, FS_Subset, FS_CardinalityType
<1>5. Cardinality(Dues(m)) < Cardinality(Dues(n))
  BY <1>3, <1>4
<1> QED BY <1>5 DEF Rank, Dues

(* The lru holds the keys that are recent at the next result.              *)
LEMMA HeldIsRecent ==
  ASSUME received \in Seq(Incoming), opts.cap \in Nat, NEW n \in 0..Len(received),
         Fits(dedup, PageKeys, opts.cap, SightedAt(n), KeyAt(n)), NEW k
  PROVE  k \in dedup.index <=> Recent(k, n + 1)
<1> DEFINE at == SightedAt(n)
           key == KeyAt(n)
<1>1. at \in SUBSET Nat /\ IsFiniteSet(at)
  <2>1. IsFiniteSet(1..n)
    BY FS_Interval
  <2> QED BY <2>1, FS_Subset, at \in SUBSET (1..n) DEF SightedAt
<1>2. k \in dedup.index <=> \E i \in 1..Len(dedup.ll) : dedup.ll[i] = k
  BY DEF Fits
<1>3. k \in dedup.index <=> SightedWithin(k, opts.cap, at, key)
  <2>1. dedup.ll \in Seq(PageKeys) /\ Recalls(dedup.ll, opts.cap, at, key)
    BY DEF Fits
  <2> HIDE DEF at, key
  <2> QED BY <1>1, <1>2, <2>1, HoldsRecent
<1>4. (n + 1) - 1 = n /\ n \in Nat
  OBVIOUS
<1>5. ASSUME NEW m \in 1..n
      PROVE  KeysAfter(m, k, at, key) = KeysSince(m, n + 1) \ {k}
  <2>1. {q \in at : q > m} = {q \in m + 1..n : Sighting(q)}
    BY <1>4 DEF SightedAt
  <2>2. \A q \in at : key[q] = Page(q).key
    BY DEF KeyAt
  <2>3. {q \in at : q > m} \subseteq at
    OBVIOUS
  <2> QED BY <1>4, <2>1, <2>2, <2>3 DEF KeysAfter, KeysSince
<1>6. \A m : m \in at <=> m \in 1..n /\ Sighting(m)
  BY DEF SightedAt
<1>7. \A m \in at : key[m] = Page(m).key
  BY DEF KeyAt
<1>8. SightedWithin(k, opts.cap, at, key) <=>
        \E m \in 1..n : /\ Sighting(m) /\ Page(m).key = k
                        /\ opts.cap > 0 => Cardinality(KeysAfter(m, k, at, key)) < opts.cap
  <2> HIDE DEF at, key
  <2> QED BY <1>6, <1>7 DEF SightedWithin
<1>9. Recent(k, n + 1) <=>
        \E m \in 1..n : /\ Sighting(m) /\ Page(m).key = k
                        /\ opts.cap > 0 => Cardinality(KeysSince(m, n + 1) \ {k}) < opts.cap
  BY <1>4 DEF Recent
<1> HIDE DEF at, key
<1> QED BY <1>3, <1>5, <1>8, <1>9
-----------------------------------------------------------------------------
(* The inductive invariant: the types, the lru against its history, and    *)
(* the lines against what is due.                                          *)
WriterTypes ==
  /\ opts \in {ProviderConfig(f) : f \in FlagSets}
  /\ resultsClosed \in BOOLEAN
  /\ writer \in {"range", "filter", "write", "done"}
  /\ writeErr \in {"none", "nil", "error"}
  /\ lost \in Nat /\ received \in Seq(Incoming) /\ lines \in Seq(Incoming)

DedupInv ==
  IF opts.removeParameters
  THEN Fits(dedup, PageKeys, opts.cap, SightedAt(Processed), KeyAt(Processed))
  ELSE dedup = newLRU

Pending == IF writer = "write" THEN 1 ELSE 0

LinesInv ==
  /\ writer \in {"filter", "write"} => received # <<>>
  /\ writer = "write" => Due(Len(received))
  /\ Rank(Processed) = Len(lines) + Pending + lost
  /\ \A n \in 1..Processed :
       Due(n) /\ Rank(n) <= Len(lines) => lines[Rank(n)] = received[n]
  /\ ~opts.json /\ lost > 0 => lost = 1 /\ writer = "done" /\ writeErr = "error"

WriterInv == WriterTypes /\ DedupInv /\ LinesInv

(* The steps of the writer and the channel, however many results there are.*)
WriterStep == CloseResults \/ (\E r \in Incoming : Receives(r)) \/ Writer

(* The options that ProviderConfig derives are of their types.             *)
LEMMA OptionTypes ==
  ASSUME OutputConstants, WriterTypes
  PROVE  opts.cap \in Nat /\ opts.removeParameters \in BOOLEAN /\ opts.json \in BOOLEAN
<1>1. PICK f \in FlagSets : opts = ProviderConfig(f)
  BY DEF WriterTypes
<1> QED BY <1>1 DEF OutputConstants, ProviderConfig

(* The writer has decided on some of the results it has received.          *)
LEMMA ProcessedType ==
  ASSUME WriterTypes, LinesInv
  PROVE  Processed \in 0..Len(received) /\ Len(received) \in Nat
  BY DEF WriterTypes, LinesInv, Processed

(* A surviving result is a due one.                                        *)
LEMMA SurvivorIsDue ==
  ASSUME OutputConstants, WriterInv, writer = "filter"
  PROVE  Survives(PageOf[Current.url]) <=> Due(Len(received))
<1>1. Len(received) \in Nat /\ Len(received) > 0 /\ Processed = Len(received) - 1
  BY DEF WriterInv, WriterTypes, LinesInv, Processed
<1>2. Page(Len(received)) = PageOf[Current.url]
  BY DEF Page, Current
<1> DEFINE k == PageOf[Current.url].key
<1>3. opts.removeParameters => (contains(dedup, k) <=> Recent(k, Len(received)))
  <2> SUFFICES ASSUME opts.removeParameters
               PROVE  contains(dedup, k) <=> Recent(k, Len(received))
    OBVIOUS
  <2>1. Fits(dedup, PageKeys, opts.cap, SightedAt(Processed), KeyAt(Processed))
    BY DEF WriterInv, DedupInv
  <2>2. Processed \in 0..Len(received) /\ Processed + 1 = Len(received)
    BY <1>1
  <2>3. opts.cap \in Nat /\ received \in Seq(Incoming)
    BY OptionTypes DEF WriterInv, WriterTypes
  <2>4. k \in dedup.index <=> Recent(k, Processed + 1)
    BY <2>1, <2>2, <2>3, HeldIsRecent
  <2> QED BY <2>2, <2>4 DEF contains
<1> QED BY <1>2, <1>3 DEF Survives, Due, Sighting

(* The invariant holds when WriteURLs starts.                              *)
LEMMA WriterInitially ==
  ASSUME OutputConstants, WriterInit
  PROVE  WriterInv
<1>1. received = <<>> /\ lines = <<>> /\ lost = 0 /\ writer = "range" /\ dedup = newLRU
  BY DEF WriterInit
<1>2. Processed = 0 /\ Len(received) = 0 /\ Len(lines) = 0
  BY <1>1 DEF Processed
<1>3. WriterTypes
  <2>1. \E f \in FlagSets : opts = ProviderConfig(f)
    BY DEF WriterInit
  <2>2. <<>> \in Seq(Incoming)
    OBVIOUS
  <2>3. opts \in {ProviderConfig(f) : f \in FlagSets}
    BY <2>1
  <2>4. /\ resultsClosed \in BOOLEAN /\ writeErr \in {"none", "nil", "error"}
        /\ writer \in {"range", "filter", "write", "done"} /\ lost \in Nat
    BY DEF WriterInit
  <2> QED BY <1>1, <2>2, <2>3, <2>4 DEF WriterTypes
<1>4. LinesInv
  BY <1>1, <1>2, RankCounts DEF LinesInv, Pending
<1>5. SightedAt(0) = {}
  BY DEF SightedAt
<1>6. Fits(newLRU, PageKeys, opts.cap, {}, KeyAt(0))
  <2>1. newLRU.ll \in Seq(PageKeys) /\ Len(newLRU.ll) = 0 /\ newLRU.index = {}
    BY DEF newLRU
  <2>2. Recalls(newLRU.ll, opts.cap, {}, KeyAt(0))
    <3>1. opts.cap \in Nat
      BY <1>3, OptionTypes
    <3> QED BY <2>1, <3>1 DEF Recalls, Ordered, Sighted, Kept
  <2>3. newLRU.index = {newLRU.ll[i] : i \in 1..Len(newLRU.ll)}
    BY <2>1
  <2> QED BY <2>1, <2>2, <2>3 DEF Fits
<1> QED BY <1>1, <1>2, <1>3, <1>4, <1>5, <1>6 DEF WriterInv, DedupInv

(* Every step keeps the types, the options and what was received before.   *)
LEMMA WriterNextTypes ==
  ASSUME OutputConstants, WriterInv, WriterStep
  PROVE  WriterTypes' /\ HistoryKept
<1> USE DEF WriterInv, WriterTypes, HistoryKept
<1>1. CASE CloseResults
  BY <1>1 DEF CloseResults
<1>2. ASSUME NEW r \in Incoming, Receives(r)
      PROVE  WriterTypes' /\ HistoryKept
  BY <1>2 DEF Receives
<1>3. CASE Filters
  BY <1>3 DEF Filters
<1>4. CASE Writes
  <2>1. Current \in Incoming
    BY <1>4 DEF Writes, LinesInv, Current
  <2> QED BY <1>4, <2>1 DEF Writes
<1>5. CASE WriteFails
  BY <1>5 DEF WriteFails, AfterFailedRecord
<1>6. CASE WriterReturns
  BY <1>6 DEF WriterReturns
<1> QED BY <1>1, <1>2, <1>3, <1>4, <1>5, <1>6 DEF WriterStep, Writer

(* The history of the lru grows by a key that reached the dedup, and by    *)
(* nothing when the filters end without one.                               *)
LEMMA HistoryOf ==
  ASSUME HistoryKept, NEW n \in 0..Len(received)
  PROVE  SightedAt(n)' = SightedAt(n) /\ KeyAt(n)' = KeyAt(n)
<1>0. Len(received) \in Nat
  BY DEF HistoryKept
<1>1. \A m \in 1..n : m \in 1..Len(received)
  BY <1>0
<1>2. {m \in 1..n : Sighting(m)}' = {m \in 1..n : Sighting(m)}
  BY <1>1, SightingsKept
<1>3. SightedAt(n)' = SightedAt(n)
  BY <1>2 DEF SightedAt
<1>4. \A m \in SightedAt(n) : Page(m)' = Page(m)
  BY <1>1, SightingsKept DEF SightedAt
<1> QED BY <1>3, <1>4 DEF KeyAt

(* A sighting extends the history of the keys by itself.                   *)
LEMMA HistoryAdds ==
  ASSUME NEW n \in Nat, Sighting(n + 1)
  PROVE  SightedAgain(SightedAt(n), KeyAt(n), n + 1, Page(n + 1).key,
                      SightedAt(n + 1), KeyAt(n + 1))
<1>1. SightedAt(n + 1) = SightedAt(n) \cup {n + 1}
  BY DEF SightedAt
<1>2. \A m \in SightedAt(n) : m \in Nat /\ m < n + 1
  BY DEF SightedAt
<1>3. KeyAt(n + 1) = [m \in SightedAt(n + 1) |->
                        IF m = n + 1 THEN Page(n + 1).key ELSE KeyAt(n)[m]]
  <2>1. \A m \in SightedAt(n + 1) :
          Page(m).key = IF m = n + 1 THEN Page(n + 1).key ELSE KeyAt(n)[m]
    BY <1>1 DEF KeyAt
  <2> QED BY <2>1 DEF KeyAt
<1> QED BY <1>1, <1>2, <1>3 DEF SightedAgain

(* A result the filters stop leaves the history of the keys alone.         *)
LEMMA HistorySkips ==
  ASSUME NEW n \in Nat, ~Sighting(n + 1)
  PROVE  SightedAt(n + 1) = SightedAt(n) /\ KeyAt(n + 1) = KeyAt(n)
<1>1. SightedAt(n + 1) = SightedAt(n)
  BY DEF SightedAt
<1> QED BY <1>1 DEF KeyAt

(* The dedup of a result the filters let through, by both of its paths.    *)
LEMMA FiltersKeepDedup ==
  ASSUME OutputConstants, WriterInv, Filters
  PROVE  DedupInv'
<1> DEFINE n == Len(received)
           page == PageOf[Current.url]
<1>1. /\ n \in Nat /\ n > 0 /\ Processed = n - 1 /\ n - 1 \in Nat /\ n - 1 \in 0..n
      /\ (n - 1) + 1 = n /\ n \in 0..n /\ n \in 1..n
  BY DEF WriterInv, WriterTypes, LinesInv, Processed, Filters
<1>2. HistoryKept /\ received' = received /\ opts' = opts
  BY WriterNextTypes DEF WriterStep, Writer, Filters
<1>3. Processed' = n
  BY <1>2 DEF Filters, Processed
<1>4. Page(n) = page /\ page.key \in PageKeys
  <2>1. received[n].url \in RawUrls
    <3>1. received[n] \in Incoming
      BY <1>1 DEF WriterInv, WriterTypes
    <3> QED BY <3>1 DEF Incoming
  <2> QED BY <2>1 DEF Page, Current, PageKeys
<1>5. SightedAt(n)' = SightedAt(n) /\ KeyAt(n)' = KeyAt(n)
  BY <1>1, <1>2, HistoryOf
<1>6. ReachesDedup(page) <=> Sighting(n)
  BY <1>4 DEF ReachesDedup, Sighting
<1>7. CASE opts.removeParameters
  <2>1. Fits(dedup, PageKeys, opts.cap, SightedAt(n - 1), KeyAt(n - 1)) /\ opts.cap \in Nat
    BY <1>1, <1>7, OptionTypes DEF WriterInv, DedupInv
  <2>2. Fits(dedup', PageKeys, opts.cap, SightedAt(n), KeyAt(n))
    <3>1. CASE ~Sighting(n)
      <4>1. dedup' = dedup
        BY <1>6, <3>1 DEF Filters
      <4>2. SightedAt(n) = SightedAt(n - 1) /\ KeyAt(n) = KeyAt(n - 1)
        BY <1>1, <3>1, HistorySkips
      <4> QED BY <2>1, <4>1, <4>2
    <3>2. CASE Sighting(n)
      <4>1. SightedAgain(SightedAt(n - 1), KeyAt(n - 1), n, page.key, SightedAt(n), KeyAt(n))
        BY <1>1, <1>4, <3>2, HistoryAdds
      <4>2. dedup' = IF page.key \in dedup.index THEN MoveToFront(dedup, page.key)
                     ELSE add(dedup, page.key, opts.cap)
        BY <1>6, <1>7, <3>2 DEF Filters, contains
      <4> HIDE DEF page, n
      <4>3. CASE page.key \in dedup.index
        BY <1>4, <2>1, <4>1, <4>2, <4>3, HitFits
      <4>4. CASE page.key \notin dedup.index
        BY <1>4, <2>1, <4>1, <4>2, <4>4, AddFits
      <4> QED BY <4>3, <4>4
    <3> QED BY <3>1, <3>2
  <2> QED BY <1>2, <1>3, <1>5, <1>7, <2>2 DEF DedupInv
<1>8. CASE ~opts.removeParameters
  BY <1>2, <1>8 DEF Filters, WriterInv, DedupInv
<1> QED BY <1>7, <1>8

(* Every step keeps the accounting of the lines written and lost.          *)
LEMMA WriterKeepsLines ==
  ASSUME OutputConstants, WriterInv, WriterStep
  PROVE  LinesInv'
<1>1. WriterTypes' /\ HistoryKept
  BY WriterNextTypes
<1>2. /\ Processed \in 0..Len(received) /\ Len(received) \in Nat /\ opts' = opts
      /\ Len(lines) \in Nat /\ lost \in Nat
  BY <1>1, ProcessedType DEF WriterInv, WriterTypes, HistoryKept
<1>3. \A n \in 1..Len(received) : Due(n)' <=> Due(n)
  BY <1>1, RanksKept
<1>4. \A n \in 0..Len(received) : Rank(n)' = Rank(n)
  BY <1>1, RanksKept
<1>5. \A n \in 0..Len(received) : n = Processed' => Rank(Processed)' = Rank(n)
  BY <1>4 DEF Rank
<1>6. \A n \in 1..Len(received) : received'[n] = received[n]
  BY <1>1 DEF HistoryKept
<1>7. Len(received') = Len(received) =>
        (Due(Len(received))' <=> \E n \in 1..Len(received) : n = Len(received) /\ Due(n))
        \/ Len(received) = 0
  <2>1. ASSUME Len(received') = Len(received), NEW n \in 1..Len(received), n = Len(received)
        PROVE  Due(Len(received))' <=> Due(n)
    <3>1. Due(Len(received))' <=> Due(n)'
      BY <2>1 DEF Due, Recent, KeysSince
    <3> QED BY <1>3, <3>1
  <2> QED BY <1>2, <2>1
(* The channel is closed, the writer returns or it takes a result.         *)
<1>8. CASE CloseResults \/ WriterReturns \/ \E r \in Incoming : Receives(r)
  <2>1. /\ Processed' = Processed /\ Pending' = Pending /\ lines' = lines /\ lost' = lost
        /\ writer' = "write" => writer = "write" /\ received' = received
        /\ writer' = "filter" =>
             (writer = "filter" /\ received' = received) \/ received' # <<>>
        /\ writeErr' = writeErr \/ writer = "range"
        /\ writer' = writer \/ writer = "range"
    <3>1. CASE CloseResults \/ WriterReturns
      BY <3>1 DEF CloseResults, WriterReturns, Processed, Pending
    <3>2. ASSUME NEW r \in Incoming, Receives(r)
          PROVE  /\ Processed' = Processed /\ Len(received') = Len(received) + 1
                 /\ received' # <<>> /\ writer' = "filter" /\ writer = "range"
      <4>1. Len(received') = Len(received) + 1 /\ received' # <<>>
        BY <3>2 DEF Receives, WriterInv, WriterTypes
      <4> QED BY <1>2, <3>2, <4>1 DEF Receives, Processed
    <3>3. ASSUME NEW r \in Incoming, Receives(r)
          PROVE  lines' = lines /\ lost' = lost /\ writeErr' = writeErr
      BY <3>3 DEF Receives
    <3> QED BY <1>8, <3>1, <3>2, <3>3 DEF Pending
  <2>2. Rank(Processed)' = Rank(Processed)
    BY <1>2, <1>4, <1>5, <2>1
  <2>3. writer' = "write" => Due(Len(received))'
    BY <1>2, <1>7, <2>1 DEF WriterInv, LinesInv
  <2>4. \A n \in 1..Processed' :
          Due(n)' /\ Rank(n)' <= Len(lines') => lines'[Rank(n)'] = received'[n]
    <3> SUFFICES ASSUME NEW n \in 1..Processed', Due(n)', Rank(n)' <= Len(lines')
                 PROVE  lines'[Rank(n)'] = received'[n]
      OBVIOUS
    <3>1. n \in 1..Processed /\ n \in 1..Len(received) /\ n \in 0..Len(received)
      BY <1>2, <2>1
    <3>2. Due(n) /\ Rank(n)' = Rank(n) /\ received'[n] = received[n]
      BY <1>3, <1>4, <1>6, <3>1
    <3> QED BY <2>1, <3>1, <3>2 DEF WriterInv, LinesInv
  <2>5. ~opts'.json /\ lost' > 0 => lost' = 1 /\ writer' = "done" /\ writeErr' = "error"
    BY <1>2, <2>1 DEF WriterInv, LinesInv
  <2> QED BY <2>1, <2>2, <2>3, <2>4, <2>5 DEF WriterInv, LinesInv
<1>9. CASE Filters
  <2> DEFINE n == Len(received)
  <2>1. /\ n \in Nat /\ n \in 1..n /\ n \in 0..n /\ n - 1 \in Nat /\ (n - 1) + 1 = n
        /\ writer = "filter" /\ Processed = n - 1 /\ received # <<>>
    BY <1>9, <1>2 DEF WriterInv, WriterTypes, LinesInv, Filters, Processed
  <2>2. /\ received' = received /\ lines' = lines /\ lost' = lost /\ Processed' = n
        /\ writer' = IF Due(n) THEN "write" ELSE "range"
    BY <1>9, <2>1, SurvivorIsDue DEF Filters, Processed
  <2>3. Rank(n) = (IF Due(n) THEN Rank(n - 1) + 1 ELSE Rank(n - 1)) /\ Rank(n - 1) = Len(lines) + lost
    <3>1. Rank((n - 1) + 1) = IF Due((n - 1) + 1) THEN Rank(n - 1) + 1 ELSE Rank(n - 1)
      BY <2>1, RankCounts
    <3>2. Rank(n - 1) = Len(lines) + lost
      BY <1>2, <2>1 DEF WriterInv, LinesInv, Pending
    <3> QED BY <2>1, <3>1, <3>2
  <2>4. Rank(Processed)' = Rank(n)
    BY <1>5, <2>1, <2>2
  <2>5. Rank(Processed)' = Len(lines') + Pending' + lost'
    BY <1>2, <2>2, <2>3, <2>4 DEF Pending
  <2>6. writer' = "write" => Due(Len(received))'
    <3>1. Due(n) => \E m \in 1..Len(received) : m = Len(received) /\ Due(m)
      BY <2>1
    <3>2. Len(received') = Len(received) /\ Len(received) # 0
      BY <2>1, <2>2
    <3>3. writer' = "write" => Due(n)
      BY <2>2
    <3> QED BY <1>7, <3>1, <3>2, <3>3
  <2>7. \A m \in 1..Processed' :
          Due(m)' /\ Rank(m)' <= Len(lines') => lines'[Rank(m)'] = received'[m]
    <3> SUFFICES ASSUME NEW m \in 1..n, Due(m)', Rank(m)' <= Len(lines)
                 PROVE  lines[Rank(m)'] = received[m]
      BY <2>2
    <3>1. Due(m) /\ Rank(m)' = Rank(m) /\ m \in Nat
      BY <1>3, <1>4, <2>1, m \in 0..n
    <3>2. CASE m = n
      BY <1>2, <2>3, <3>1, <3>2
    <3>3. CASE m # n
      <4>1. m \in 1..Processed
        <5> HIDE DEF n
        <5> QED BY <2>1, <3>3
      <4>2. Rank(m) <= Len(lines)
        BY <3>1
      <4> QED BY <3>1, <4>1, <4>2 DEF WriterInv, LinesInv
    <3> QED BY <3>2, <3>3
  <2>8. ~(~opts'.json /\ lost' > 0)
    BY <1>2, <2>1, <2>2 DEF WriterInv, LinesInv
  <2> HIDE DEF n
  <2> QED BY <2>1, <2>2, <2>5, <2>6, <2>7, <2>8 DEF LinesInv
<1>10. CASE Writes
  <2> DEFINE n == Len(received)
  <2>1. /\ n \in Nat /\ n \in 1..n /\ n \in 0..n /\ Processed = n /\ writer = "write"
        /\ Due(n) /\ Rank(n) = Len(lines) + 1 + lost /\ lost = 0
    BY <1>10, <1>2 DEF WriterInv, WriterTypes, LinesInv, Writes, Processed, Pending
  <2>2. /\ received' = received /\ lost' = lost /\ Processed' = n /\ writer' = "range"
        /\ lines' = Append(lines, received[n])
    BY <1>10, <2>1 DEF Writes, Processed, Current
  <2>3. /\ Len(lines') = Len(lines) + 1 /\ lines'[Len(lines) + 1] = received[n]
        /\ \A i \in 1..Len(lines) : lines'[i] = lines[i]
    <3>1. received[n] \in Incoming /\ lines \in Seq(Incoming)
      BY <2>1 DEF WriterInv, WriterTypes
    <3> QED BY <2>2, <3>1
  <2>4. Rank(Processed)' = Rank(n)
    BY <1>5, <2>1, <2>2
  <2>5. Rank(Processed)' = Len(lines') + Pending' + lost'
    BY <1>2, <2>1, <2>2, <2>3, <2>4 DEF Pending
  <2>6. \A m \in 1..Processed' :
          Due(m)' /\ Rank(m)' <= Len(lines') => lines'[Rank(m)'] = received'[m]
    <3> SUFFICES ASSUME NEW m \in 1..n, Due(m)', Rank(m)' <= Len(lines')
                 PROVE  lines'[Rank(m)'] = received[m]
      BY <2>2
    <3>1. Due(m) /\ Rank(m)' = Rank(m) /\ m \in Nat /\ m >= 1 /\ Rank(m) \in Nat
      BY <1>3, <1>4, <2>1, m \in 0..n, RankCounts
    <3>2. Rank(m) >= 1
      BY <3>1, RankCounts, RankIncreases, 0 \in Nat, 0 < m
    <3>3. CASE m = n
      BY <2>1, <2>3, <3>1, <3>3
    <3>4. CASE m # n
      <4>1. Rank(m) < Rank(n)
        BY <2>1, <3>1, <3>4, RankIncreases, m < n
      <4>2. Rank(m) \in 1..Len(lines)
        BY <1>2, <2>1, <3>1, <3>2, <4>1
      <4>3. lines[Rank(m)] = received[m]
        BY <2>1, <3>1, <4>2 DEF WriterInv, LinesInv
      <4> QED BY <2>3, <3>1, <4>2, <4>3
    <3> QED BY <3>3, <3>4
  <2>7. ~(~opts'.json /\ lost' > 0)
    BY <1>2, <2>1, <2>2 DEF WriterInv, LinesInv
  <2> HIDE DEF n
  <2> QED BY <2>2, <2>5, <2>6, <2>7 DEF LinesInv
<1>11. CASE WriteFails
  <2>1. /\ Processed = Len(received) /\ writer = "write" /\ Rank(Processed) = Len(lines) + 1 + lost
    BY <1>11 DEF WriterInv, LinesInv, WriteFails, Processed, Pending
  <2>2. /\ received' = received /\ lines' = lines /\ lost' = lost + 1
        /\ Processed' = Processed /\ Pending' = 0 /\ writer' \in {"range", "done"}
        /\ ~opts.json => writer' = "done" /\ writeErr' = "error"
    BY <1>11, <2>1 DEF WriteFails, AfterFailedRecord, Processed, Pending
  <2>3. Rank(Processed)' = Rank(Processed)
    BY <1>2, <1>5, <2>2
  <2>4. Rank(Processed)' = Len(lines') + Pending' + lost'
    BY <1>2, <2>1, <2>2, <2>3
  <2>5. ~opts.json => lost = 0
    BY <1>2, <2>1 DEF WriterInv, LinesInv
  <2>6. \A n \in 1..Processed' :
          Due(n)' /\ Rank(n)' <= Len(lines') => lines'[Rank(n)'] = received'[n]
    <3> SUFFICES ASSUME NEW n \in 1..Processed, Due(n)', Rank(n)' <= Len(lines)
                 PROVE  lines[Rank(n)'] = received[n]
      BY <2>2
    <3>1. Due(n) /\ Rank(n)' = Rank(n)
      BY <1>2, <1>3, <1>4, <2>1
    <3> QED BY <3>1 DEF WriterInv, LinesInv
  <2> QED BY <1>2, <2>2, <2>4, <2>5, <2>6 DEF LinesInv
<1> QED BY <1>8, <1>9, <1>10, <1>11 DEF WriterStep, Writer

(* Every step of the writer keeps its invariant.                           *)
LEMMA WriterInvStep ==
  ASSUME OutputConstants, WriterInv, WriterStep
  PROVE  WriterInv'
<1>1. WriterTypes' /\ HistoryKept
  BY WriterNextTypes
<1>2. Processed \in 0..Len(received) /\ Len(received) \in Nat /\ opts' = opts
  BY <1>1, ProcessedType DEF WriterInv, HistoryKept
<1>3. \A n \in 1..Len(received) : Due(n)' <=> Due(n)
  BY <1>1, RanksKept
<1>4. \A n \in 0..Len(received) : Rank(n)' = Rank(n)
  BY <1>1, RanksKept
<1>5. DedupInv'
  <2>1. CASE Filters
    BY <2>1, FiltersKeepDedup
  <2>2. CASE ~Filters
    <3>1. dedup' = dedup
      BY <2>2 DEF WriterStep, CloseResults, Receives, Writer, Writes, WriteFails, WriterReturns
    <3>2. Processed' = Processed
      <4>1. CASE CloseResults \/ Writes \/ WriteFails \/ WriterReturns
        BY <4>1 DEF CloseResults, Writes, WriteFails, AfterFailedRecord, WriterReturns, Processed
      <4>2. ASSUME NEW r \in Incoming, Receives(r) PROVE Processed' = Processed
        <5>1. Len(received') = Len(received) + 1
          BY <4>2 DEF Receives, WriterInv, WriterTypes
        <5> QED BY <1>2, <4>2, <5>1 DEF Receives, Processed
      <4> QED BY <2>2, <4>1, <4>2 DEF WriterStep, Writer
    <3>3. SightedAt(Processed)' = SightedAt(Processed) /\ KeyAt(Processed)' = KeyAt(Processed)
      <4>1. ASSUME NEW n \in 0..Len(received), n = Processed, n = Processed'
            PROVE  SightedAt(Processed)' = SightedAt(Processed) /\ KeyAt(Processed)' = KeyAt(Processed)
        <5>1. SightedAt(n)' = SightedAt(n) /\ KeyAt(n)' = KeyAt(n)
          BY <1>1, HistoryOf
        <5>2. SightedAt(Processed)' = SightedAt(n)' /\ KeyAt(Processed)' = KeyAt(n)'
          BY <4>1 DEF SightedAt, KeyAt
        <5> QED BY <4>1, <5>1, <5>2
      <4> QED BY <1>2, <3>2, <4>1
    <3> QED BY <1>2, <3>1, <3>3 DEF WriterInv, DedupInv
  <2> QED BY <2>1, <2>2
<1>6. LinesInv'
  BY WriterKeepsLines
<1> QED BY <1>1, <1>5, <1>6 DEF WriterInv

(* The invariant speaks of the writer's variables only.                    *)
LEMMA WriterInvStutter ==
  ASSUME WriterInv, UNCHANGED writerVars
  PROVE  WriterInv'
<1>1. /\ opts' = opts /\ resultsClosed' = resultsClosed /\ writer' = writer /\ dedup' = dedup
      /\ lines' = lines /\ writeErr' = writeErr /\ received' = received /\ lost' = lost
  BY DEF writerVars
<1>2. Processed' = Processed /\ Pending' = Pending
  BY <1>1 DEF Processed, Pending
<1>3. \A n : Page(n)' = Page(n) /\ (Sighting(n)' <=> Sighting(n))
  BY <1>1 DEF Page, Sighting, passesFilters, matchesAnyExt, matchesAnyRegex, isBlacklisted, urlExt
<1>4. \A m, n : KeysSince(m, n)' = KeysSince(m, n)
  BY <1>3 DEF KeysSince
<1>5. \A k, n : Recent(k, n)' <=> Recent(k, n)
  BY <1>1, <1>3, <1>4 DEF Recent
<1>6. \A n : Due(n)' <=> Due(n)
  BY <1>1, <1>3, <1>5 DEF Due, Page
<1>7. \A n : Rank(n)' = Rank(n)
  BY <1>6 DEF Rank
<1>8. SightedAt(Processed)' = SightedAt(Processed) /\ KeyAt(Processed)' = KeyAt(Processed)
  BY <1>2, <1>3 DEF SightedAt, KeyAt
<1>9. Rank(Processed)' = Rank(Processed) /\ (Due(Len(received))' <=> Due(Len(received)))
  <2>1. Rank(Processed)' = Cardinality({m \in 1..Processed : Due(m)'})
    BY <1>2 DEF Rank
  <2>2. Due(Len(received))' <=> Due(Len(received))
    BY <1>1, <1>3, <1>5 DEF Due, Page
  <2> QED BY <1>6, <2>1, <2>2 DEF Rank
<1>10. WriterTypes' /\ DedupInv'
  BY <1>1, <1>8 DEF WriterInv, WriterTypes, DedupInv
<1>11. LinesInv'
  BY <1>1, <1>2, <1>6, <1>7, <1>9 DEF WriterInv, LinesInv
<1> QED BY <1>10, <1>11 DEF WriterInv

(* As formulas, with the assumption they need, for the modules that run    *)
(* the writer with other goroutines.                                       *)
LEMMA WriterInvInit == OutputConstants /\ WriterInit => WriterInv
  BY WriterInitially

(* The two together, in the form a composition with the writer cites.      *)
LEMMA WriterInvNext ==
  OutputConstants /\ WriterInv /\ (WriterStep \/ UNCHANGED writerVars) => WriterInv'
  BY WriterInvStep, WriterInvStutter

(* The invariant says of the list, of the recent keys and of the stream    *)
(* what the properties of Output say.                                      *)
LEMMA WriterInvMeans ==
  OutputConstants /\ WriterInv => WriterTypeOK /\ LruSound /\ RemembersRecent /\ StreamExact
<1> SUFFICES ASSUME OutputConstants, WriterInv
             PROVE  WriterTypeOK /\ LruSound /\ RemembersRecent /\ StreamExact
  OBVIOUS
<1>1. /\ opts.cap \in Nat /\ opts.removeParameters \in BOOLEAN
      /\ Processed \in 0..Len(received) /\ Len(received) \in Nat /\ Processed \in Nat
      /\ received \in Seq(Incoming) /\ lines \in Seq(Incoming) /\ lost \in Nat
      /\ Len(lines) \in Nat
  BY OptionTypes, ProcessedType DEF WriterInv, WriterTypes
<1>2. dedup.ll \in Seq(PageKeys) /\ dedup.index = {dedup.ll[i] : i \in 1..Len(dedup.ll)}
  <2>1. CASE opts.removeParameters
    BY <2>1 DEF WriterInv, DedupInv, Fits
  <2>2. CASE ~opts.removeParameters
    <3>1. dedup.ll = <<>> /\ dedup.index = {}
      BY <2>2 DEF WriterInv, DedupInv, newLRU
    <3>2. <<>> \in Seq(PageKeys) /\ {<<>>[i] : i \in 1..Len(<<>>)} = {}
      OBVIOUS
    <3> QED BY <3>1, <3>2
  <2> QED BY <1>1, <2>1, <2>2
<1>3. StreamExact
  BY DEF WriterInv, LinesInv, StreamExact, Pending
<1>4. WriterTypeOK
  <2>1. Rank(Processed) <= Processed
    BY <1>1, RankCounts
  <2>2. lost \in 0..Len(received)
    BY <1>1, <2>1 DEF WriterInv, LinesInv, Pending
  <2>3. dedup.index \subseteq PageKeys
    BY <1>2
  <2> QED BY <2>2, <2>3 DEF WriterInv, WriterTypes, WriterTypeOK, PageKeys
<1>5. LruSound
  <2>1. CASE ~opts.removeParameters
    <3>1. dedup.ll = <<>> /\ dedup.index = {} /\ Len(dedup.ll) = 0
      BY <2>1 DEF WriterInv, DedupInv, newLRU
    <3>2. Cardinality(dedup.index) = Len(dedup.ll)
      BY <3>1, FS_EmptySet
    <3> QED BY <1>1, <1>2, <3>1, <3>2 DEF LruSound
  <2>2. CASE opts.removeParameters
    <3>1. Recalls(dedup.ll, opts.cap, SightedAt(Processed), KeyAt(Processed))
      BY <2>2 DEF WriterInv, DedupInv, Fits
    <3>2. \A i, j \in 1..Len(dedup.ll) : i # j => dedup.ll[i] # dedup.ll[j]
      BY <1>2, <3>1 DEF Recalls, Ordered
    <3>3. [i \in 1..Len(dedup.ll) |-> dedup.ll[i]] \in Bijection(1..Len(dedup.ll), dedup.index)
      BY <1>2, <3>2 DEF Bijection, Injection, Surjection, IsInjective
    <3>4. Cardinality(dedup.index) = Len(dedup.ll)
      BY <1>2, <3>3, FS_CountingElements, Len(dedup.ll) \in Nat DEF ExistsBijection
    <3> QED BY <1>2, <3>1, <3>4 DEF LruSound, Recalls
  <2> QED BY <1>1, <2>1, <2>2
<1>6. RemembersRecent
  <2> SUFFICES ASSUME opts.removeParameters
               PROVE  dedup.index = {k \in {Page(n).key : n \in 1..Processed} :
                                       Recent(k, Processed + 1)}
    BY DEF RemembersRecent
  <2>1. Fits(dedup, PageKeys, opts.cap, SightedAt(Processed), KeyAt(Processed))
    BY DEF WriterInv, DedupInv
  <2>2. \A k : k \in dedup.index <=> Recent(k, Processed + 1)
    BY <1>1, <2>1, HeldIsRecent
  <2>3. \A k : Recent(k, Processed + 1) => k \in {Page(n).key : n \in 1..Processed}
    BY <1>1 DEF Recent
  <2> QED BY <2>2, <2>3
<1> QED BY <1>3, <1>4, <1>5, <1>6

(* The invariant holds throughout every run of the writer.                 *)
LEMMA WriterInvariant == WriterSpec => []WriterInv
<1>1. OutputConstants
  BY OutputAssumption
<1>2. WriterInit => WriterInv
  BY <1>1, WriterInvInit
<1>3. WriterInv /\ [WriterNext]_writerVars => WriterInv'
  BY <1>1, WriterInvNext DEF WriterNext, WriterStep, WriterStopped
<1> QED BY <1>2, <1>3, PTL DEF WriterSpec

(* The writer's variables have their types, and it loses no more records   *)
(* than it receives, whatever the results, the filters and the failures.   *)
THEOREM WriterTypeCorrect == WriterSpec => []WriterTypeOK
  BY WriterInvariant, WriterInvMeans, OutputAssumption, PTL

(* The list and the index of the lru agree and stay within the cap         *)
(* (output.go:204-243), for every cap and every stream.                    *)
THEOREM LruIsSound == WriterSpec => []LruSound
  BY WriterInvariant, WriterInvMeans, OutputAssumption, PTL

(* What the lru holds after any number of hits, additions and evictions is *)
(* what was sighted within the last cap keys (output.go:82-88, 221-243).   *)
THEOREM LruRemembersRecent == WriterSpec => []RemembersRecent
  BY WriterInvariant, WriterInvMeans, OutputAssumption, PTL

(* The output is exactly the results that are due, in their order, up to   *)
(* the records whose write failed (output.go:72-133).                      *)
THEOREM StreamIsExact == WriterSpec => []StreamExact
  BY WriterInvariant, WriterInvMeans, OutputAssumption, PTL
=============================================================================
