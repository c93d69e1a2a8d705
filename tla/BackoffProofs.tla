--------------------------- MODULE BackoffProofs ---------------------------
(***************************************************************************)
(* The durations of Backoff for every base, cap, unit and width.  What a   *)
(* shift leaves when it wraps takes a little arithmetic of the powers of   *)
(* two, which come from counting the subsets of an interval.               *)
(***************************************************************************)
EXTENDS Backoff, FiniteSetTheorems, TLAPS

(* There are 2^n subsets of n numbers.                                     *)
LEMMA PowerCounts ==
  ASSUME NEW m \in Nat, NEW n \in Nat
  PROVE  /\ IsFiniteSet(SUBSET (m + 1..m + n))
         /\ Cardinality(SUBSET (m + 1..m + n)) = 2^n
         /\ 2^n \in Nat /\ 2^n >= 1
<1> DEFINE I == m + 1..m + n
<1>1. IsFiniteSet(I) /\ Cardinality(I) = n
  <2>1. m + 1 \in Int /\ m + n \in Int
    OBVIOUS
  <2>2. IsFiniteSet(I) /\ Cardinality(I) = IF m + 1 > m + n THEN 0 ELSE m + n - (m + 1) + 1
    BY <2>1, FS_Interval
  <2> QED BY <2>2
<1> HIDE DEF I
<1>2. IsFiniteSet(SUBSET I) /\ Cardinality(SUBSET I) = 2^n
  BY <1>1, FS_SUBSET
<1>3. Cardinality(SUBSET I) \in Nat /\ Cardinality(SUBSET I) # 0
  <2>1. SUBSET I # {}
    OBVIOUS
  <2> QED BY <1>2, <2>1, FS_CardinalityType, FS_EmptySet
<1> QED BY <1>2, <1>3 DEF I

(* A set of a + b numbers is split by cutting each subset in two.          *)
LEMMA PowersAdd ==
  ASSUME NEW a \in Nat, NEW b \in Nat
  PROVE  2^(a + b) = 2^a * 2^b
<1> DEFINE A == 0 + 1..0 + a
           B == a + 1..a + b
           C == 0 + 1..0 + (a + b)
           f == [p \in (SUBSET A) \X (SUBSET B) |-> p[1] \cup p[2]]
<1>1. /\ IsFiniteSet(SUBSET A) /\ Cardinality(SUBSET A) = 2^a
      /\ IsFiniteSet(SUBSET B) /\ Cardinality(SUBSET B) = 2^b
      /\ Cardinality(SUBSET C) = 2^(a + b)
  <2>1. 0 \in Nat /\ a + b \in Nat
    OBVIOUS
  <2>2. IsFiniteSet(SUBSET A) /\ Cardinality(SUBSET A) = 2^a
    BY <2>1, PowerCounts
  <2>3. IsFiniteSet(SUBSET B) /\ Cardinality(SUBSET B) = 2^b
    BY PowerCounts
  <2>4. Cardinality(SUBSET C) = 2^(a + b)
    BY <2>1, PowerCounts
  <2> QED BY <2>2, <2>3, <2>4
<1>2. C = A \cup B /\ A \cap B = {}
  OBVIOUS
<1> HIDE DEF A, B, C
<1>3. f \in Bijection((SUBSET A) \X (SUBSET B), SUBSET C)
  <2>1. f \in [(SUBSET A) \X (SUBSET B) -> SUBSET C]
    BY <1>2
  <2>2. ASSUME NEW p \in (SUBSET A) \X (SUBSET B), NEW q \in (SUBSET A) \X (SUBSET B),
               f[p] = f[q]
        PROVE  p = q
    <3>1. p[1] = f[p] \cap A /\ p[2] = f[p] \cap B
      BY <1>2
    <3>2. q[1] = f[q] \cap A /\ q[2] = f[q] \cap B
      BY <1>2
    <3>3. p = <<p[1], p[2]>> /\ q = <<q[1], q[2]>>
      OBVIOUS
    <3> QED BY <2>2, <3>1, <3>2, <3>3
  <2>3. ASSUME NEW c \in SUBSET C
        PROVE  \E p \in (SUBSET A) \X (SUBSET B) : f[p] = c
    <3>1. <<c \cap A, c \cap B>> \in (SUBSET A) \X (SUBSET B)
      OBVIOUS
    <3>2. f[<<c \cap A, c \cap B>>] = (c \cap A) \cup (c \cap B)
      BY <3>1
    <3>3. (c \cap A) \cup (c \cap B) = c
      BY <1>2
    <3> QED BY <3>1, <3>2, <3>3
  <2> HIDE DEF f
  <2> QED BY <2>1, <2>2, <2>3 DEF Bijection, Injection, Surjection, IsInjective
<1>4. /\ IsFiniteSet((SUBSET A) \X (SUBSET B))
      /\ Cardinality((SUBSET A) \X (SUBSET B)) = 2^a * 2^b
  BY <1>1, FS_Product
<1> HIDE DEF f
<1>5. Cardinality(SUBSET C) = 2^a * 2^b
  <2>1. ExistsBijection((SUBSET A) \X (SUBSET B), SUBSET C)
    BY <1>3 DEF ExistsBijection
  <2> QED BY <1>4, <2>1, FS_Bijection
<1> QED BY <1>1, <1>5

(* So the modulus is even.                                                 *)
LEMMA ModulusEven == Modulus \in Nat \ {0} /\ Modulus % 2 = 0
<1>1. Width - 1 \in Nat /\ Width = 1 + (Width - 1) /\ 1 \in Nat
  BY BackoffAssumption
<1>2. Modulus = 2^1 * 2^(Width - 1)
  BY <1>1, PowersAdd DEF Modulus
<1>3. 2^1 = 2
  OBVIOUS
<1>4. 2^(Width - 1) \in Nat /\ 2^(Width - 1) >= 1
  BY <1>1, PowerCounts
<1> HIDE DEF Modulus
<1> QED BY <1>2, <1>3, <1>4
-----------------------------------------------------------------------------

(* Conversion to a signed integer yields an integer, and leaves what fits  *)
(* as it is.                                                               *)
LEMMA SignedInt == ASSUME NEW n \in Int PROVE Signed(n) \in Int
<1>1. n % Modulus \in 0..Modulus - 1
  BY ModulusEven
<1> QED BY <1>1, BackoffAssumption, ModulusEven DEF Signed, MaxDuration

(* A value that fits in a duration is not changed by the arithmetic.       *)
LEMMA SignedFits == ASSUME NEW n \in 0..MaxDuration PROVE Signed(n) = n
<1>1. n \in 0..Modulus - 1
  BY BackoffAssumption, ModulusEven DEF MaxDuration
<1>2. n % Modulus = n
  BY <1>1, ModulusEven
<1> QED BY <1>2, BackoffAssumption, ModulusEven DEF Signed, MaxDuration

(* However the shift has wrapped, the delay and its jitter are between one *)
(* unit and one and a half times the cap.                                  *)
LEMMA BackoffBounds ==
  ASSUME NEW k \in Nat \ {0}, NEW d \in backoffFor(k)
  PROVE  d \in 1..backoffMax + backoffMax \div 2
<1> DEFINE shifted == Signed(backoffBase * 2^(k - 1))
<1>1. backoffBase * 2^(k - 1) \in Int
  BY BackoffAssumption, ModulusEven DEF MaxDuration
<1>2. shifted \in Int
  BY <1>1, SignedInt
<1> HIDE DEF shifted
<1>3. Capped(shifted) \in 1..backoffMax
  BY <1>2, BackoffAssumption, ModulusEven DEF Capped, MaxDuration
<1>4. PICK j \in 0..Capped(shifted) \div 2 : d = Capped(shifted) + j
  BY DEF backoffFor, shifted
<1> QED BY <1>3, <1>4, BackoffAssumption, ModulusEven DEF MaxDuration

(* A Retry-After yields an integer, and itself when it fits in a duration. *)
LEMMA RetryAfterInt ==
  ASSUME NEW h \in [form : {"absent", "garbage", "seconds", "date"}, n : Int]
  PROVE  parseRetryAfter(h) \in Int
<1>1. h.n * Second \in Int
  BY BackoffAssumption, ModulusEven DEF MaxDuration
<1>2. Signed(h.n * Second) \in Int
  BY <1>1, SignedInt
<1> QED BY <1>2 DEF parseRetryAfter

(* A hint that fits in a duration is read exactly (client.go:264-282).     *)
LEMMA RetryAfterFits ==
  ASSUME NEW h \in [form : {"absent", "garbage", "seconds", "date"}, n : Int],
         Asked(h) \in 1..MaxDuration
  PROVE  parseRetryAfter(h) = Asked(h)
<1>1. CASE h.form = "seconds"
  <2>1. h.n * Second = Asked(h)
    BY <1>1 DEF Asked
  <2>2. Signed(h.n * Second) = Asked(h)
    BY <2>1, SignedFits, BackoffAssumption, ModulusEven DEF MaxDuration
  <2>3. \A m \in Int, s \in Nat : s >= 1 /\ m * s >= 1 => m >= 1 /\ m <= m * s
    OBVIOUS
  <2>4. Second \in Nat /\ Second >= 1 /\ MaxDuration \in Int
    BY BackoffAssumption, ModulusEven DEF MaxDuration
  <2>5. h.n \in 0..MaxDuration
    BY <2>1, <2>3, <2>4
  <2> QED BY <1>1, <2>2, <2>5 DEF parseRetryAfter
<1>2. CASE h.form = "date"
  BY <1>2, BackoffAssumption, ModulusEven DEF Asked, parseRetryAfter, MaxDuration
<1>3. CASE h.form \in {"absent", "garbage"}
  BY <1>3, BackoffAssumption, ModulusEven DEF Asked, MaxDuration
<1> QED BY <1>1, <1>2, <1>3
(* What the modulus leaves of a multiple of 2^s is a multiple of it too.   *)
LEMMA RemainderIsMultiple ==
  ASSUME NEW s \in Nat, NEW b \in Nat
  PROVE  \E r \in Nat : (b * 2^s) % Modulus = r * 2^s
<1> DEFINE E == 2^s
           M == Modulus
<1>1. E \in Nat /\ E >= 1 /\ M \in Nat /\ M >= 1
  <2>1. 2^s \in Nat /\ 2^s >= 1
    BY PowerCounts, 0 \in Nat
  <2>2. Modulus \in Nat /\ Modulus >= 1
    BY ModulusEven
  <2> QED BY <2>1, <2>2
<1>2. CASE s >= Width
  <2>1. s - Width \in Nat /\ Width \in Nat /\ s = Width + (s - Width)
    BY <1>2, BackoffAssumption
  <2> DEFINE F == 2^(s - Width)
  <2>2. E = M * F
    BY <2>1, PowersAdd DEF Modulus
  <2>3. F \in Nat
    BY <2>1, PowerCounts
  <2> HIDE DEF E, F, M
  <2> DEFINE k == b * F
  <2>4. b * E = M * k /\ k \in Nat
    BY <1>1, <2>2, <2>3
  <2> HIDE DEF k
  <2>5. (M * k) % M = 0
    BY <1>1, <2>4
  <2>6. (b * E) % M = 0 * E
    BY <1>1, <2>4, <2>5
  <2>7. 0 \in Nat
    OBVIOUS
  <2> QED BY <2>6, <2>7 DEF E, M
<1>3. CASE s < Width
  <2>1. Width - s \in Nat /\ Width = s + (Width - s)
    BY <1>3, BackoffAssumption
  <2> DEFINE F == 2^(Width - s)
             q == (b * E) \div M
             m == (b * E) % M
  <2>2. M = E * F
    BY <2>1, PowersAdd DEF Modulus
  <2>3. F \in Nat
    BY <2>1, PowerCounts
  <2> HIDE DEF E, F, M
  <2>4. b * E \in Nat
    BY <1>1
  <2>5. q \in Nat /\ m \in Nat /\ b * E = M * q + m
    BY <1>1, <2>4
  <2> HIDE DEF q, m
  <2>6. m = E * (b - F * q) /\ b - F * q \in Int
    <3>1. M * q = E * (F * q) /\ F * q \in Nat
      BY <1>1, <2>2, <2>3, <2>5
    <3> DEFINE y == F * q
    <3> HIDE DEF y
    <3>2. E * (b - y) = b * E - E * y /\ b - y \in Int
      BY <1>1, <3>1 DEF y
    <3>3. b * E = E * y + m
      BY <2>5, <3>1 DEF y
    <3>4. E * y \in Nat
      BY <1>1, <3>1 DEF y
    <3>5. m = E * (b - y)
      BY <2>4, <2>5, <3>2, <3>3, <3>4
    <3> QED BY <3>2, <3>5 DEF y
  <2> DEFINE r == b - F * q
  <2>7. r \in Int /\ m = E * r
    BY <2>6
  <2> HIDE DEF r
  <2>8. r >= 0
    <3>1. r < 0 => E * r < 0
      BY <1>1, <2>7
    <3> QED BY <2>5, <2>7, <3>1
  <2>9. r \in Nat /\ m = r * E
    BY <1>1, <2>7, <2>8
  <2> QED BY <2>9 DEF m, E, M
<1> QED BY <1>2, <1>3, BackoffAssumption

(* A shift that has wrapped shows: as zero, a negative or a delay above    *)
(* the cap, so that the cap is what is left of it (client.go:129-132).     *)
LEMMA ShiftIsCapped ==
  ASSUME NEW s \in 0..MaxRetries
  PROVE  Capped(Signed(backoffBase * 2^s))
           = IF backoffBase * 2^s > backoffMax THEN backoffMax ELSE backoffBase * 2^s
<1> DEFINE E == 2^s
           x == backoffBase * E
<1>1. s \in Nat /\ E \in Nat /\ E >= 1
  <2>1. s \in Nat /\ 0 \in Nat
    BY BackoffAssumption
  <2> QED BY <2>1, PowerCounts
<1>2. /\ backoffBase \in Nat /\ backoffBase >= 1 /\ backoffMax \in Nat /\ backoffMax >= 1
      /\ MaxDuration \in Nat /\ backoffMax <= MaxDuration
      /\ Modulus \in Nat /\ Modulus >= 1 /\ MaxDuration < Modulus
  BY BackoffAssumption, ModulusEven DEF MaxDuration
<1>3. x > MaxDuration => E > backoffMax
  BY ShiftAssumption
<1>4. PICK r \in Nat : x % Modulus = r * E
  BY <1>1, <1>2, RemainderIsMultiple
<1> HIDE DEF E
<1>5. x \in Nat /\ x >= E
  BY <1>1, <1>2
<1>6. Signed(x) = IF x % Modulus > MaxDuration THEN (x % Modulus) - Modulus ELSE x % Modulus
  BY DEF Signed
<1>7. x % Modulus \in 0..Modulus - 1
  BY <1>2, <1>5
<1> HIDE DEF x
<1>8. CASE x <= MaxDuration
  <2>1. Signed(x) = x
    BY <1>2, <1>5, <1>8, SignedFits
  <2>2. x > 0
    BY <1>1, <1>5
  <2> QED BY <1>2, <1>5, <2>1, <2>2 DEF Capped, x, E
<1>9. CASE x > MaxDuration
  <2>1. r = 0 \/ r * E >= E
    BY <1>1
  <2>2. x % Modulus = 0 \/ x % Modulus > backoffMax
    BY <1>1, <1>2, <1>3, <1>4, <1>9, <2>1
  <2>3. Signed(x) <= 0 \/ Signed(x) > backoffMax
    BY <1>2, <1>6, <1>7, <2>2
  <2>4. Capped(Signed(x)) = backoffMax
    BY <2>3 DEF Capped
  <2>5. x > backoffMax
    BY <1>2, <1>5, <1>9
  <2> QED BY <2>4, <2>5 DEF x, E
<1> QED BY <1>2, <1>5, <1>8, <1>9

(* Hence the delays of attempt k are the planned one and its jitter.       *)
LEMMA BackoffIsPlanned ==
  ASSUME NEW k \in 1..MaxRetries, NEW d \in backoffFor(k)
  PROVE  d \in Planned(k)..Planned(k) + Planned(k) \div 2
<1> DEFINE x == backoffBase * 2^(k - 1)
<1>1. k - 1 \in 0..MaxRetries /\ k - 1 \in Nat
  BY BackoffAssumption
<1>2. x \in Nat /\ backoffMax \in Nat
  <2>1. 2^(k - 1) \in Nat
    BY <1>1, PowerCounts, 0 \in Nat
  <2> QED BY <2>1, BackoffAssumption, ModulusEven DEF MaxDuration
<1>3. Capped(Signed(x)) = IF x > backoffMax THEN backoffMax ELSE x
  BY <1>1, ShiftIsCapped
<1> HIDE DEF x
<1>4. Min({x, backoffMax}) = IF x > backoffMax THEN backoffMax ELSE x
  BY <1>2 DEF Min
<1>5. Planned(k) = Capped(Signed(x)) /\ Planned(k) \in Nat
  BY <1>2, <1>3, <1>4 DEF Planned, x
<1>6. PICK j \in 0..Planned(k) \div 2 : d = Planned(k) + j
  BY <1>5 DEF backoffFor, x
<1> HIDE DEF Planned
<1> QED BY <1>5, <1>6
-----------------------------------------------------------------------------
(* The inductive invariant: beside the properties it only types what they  *)
(* are about.                                                              *)
BackoffInv ==
  /\ attempt \in 0..MaxRetries
  /\ header \in [form : {"absent", "garbage", "seconds", "date"}, n : Int]
  /\ EveryRetryWaits
  /\ BackoffGrows
  /\ HintsAreWaitedFor

(* A retry establishes the properties, whatever  came before it: the cap   *)
(* bounds a hint, BackoffBounds everything else.                           *)
LEMMA RetryKeepsInv ==
  ASSUME BackoffInv, NEW isLimited \in BOOLEAN,
         NEW h \in [form : {"absent", "garbage", "seconds", "date"}, n : Int],
         ~isLimited => h = Absent,
         Retries(isLimited, h)
  PROVE  BackoffInv'
<1>1. /\ attempt' = attempt + 1 /\ attempt' \in Nat \ {0}
      /\ attempt' \in 1..MaxRetries
      /\ header' = h
      /\ hint' = parseRetryAfter(h)
  BY BackoffAssumption DEF BackoffInv, Retries
<1>2. hint' \in Int
  BY <1>1, RetryAfterInt
<1>3. delay' \in delayFor(isLimited, hint', attempt')
  BY DEF Retries
<1>4. EveryRetryWaits'
  <2>1. CASE HasHint(isLimited, hint')
    <3>1. delay' = HintCapped(hint')
      BY <1>3, <2>1 DEF delayFor
    <3> QED BY <1>2, <2>1, <3>1, BackoffAssumption
            DEF HasHint, HintCapped, EveryRetryWaits, MaxDuration
  <2>2. CASE ~HasHint(isLimited, hint')
    <3>1. delay' \in backoffFor(attempt')
      BY <1>3, <2>2 DEF delayFor
    <3>2. delay' \in 1..backoffMax + backoffMax \div 2
      BY <1>1, <3>1, BackoffBounds
    <3> QED BY <3>2 DEF EveryRetryWaits
  <2> QED BY <2>1, <2>2
<1>5. HintsAreWaitedFor'
  <2> SUFFICES ASSUME Asked(h) \in 1..MaxDuration
               PROVE  delay' = Min({Asked(h), backoffMax})
    BY <1>1 DEF HintsAreWaitedFor, Asked
  <2>1. hint' = Asked(h)
    BY <1>1, RetryAfterFits
  <2>2. isLimited
    BY BackoffAssumption, ModulusEven DEF Asked, Absent, MaxDuration
  <2>3. delay' = HintCapped(Asked(h))
    BY <1>3, <2>1, <2>2, BackoffAssumption, ModulusEven DEF delayFor, HasHint, MaxDuration
  <2>4. Min({Asked(h), backoffMax}) = HintCapped(Asked(h))
    BY BackoffAssumption, ModulusEven DEF Min, HintCapped, MaxDuration
  <2> QED BY <2>3, <2>4
<1>6. BackoffGrows'
  <2> SUFFICES ASSUME h \in {Absent, Garbage}
               PROVE  delay' \in Planned(attempt')..Planned(attempt') + Planned(attempt') \div 2
    BY <1>1 DEF BackoffGrows, Planned
  <2>1. hint' = 0
    BY <1>1 DEF parseRetryAfter, Absent, Garbage
  <2>2. delay' \in backoffFor(attempt')
    BY <1>3, <2>1 DEF delayFor, HasHint
  <2> QED BY <1>1, <2>2, BackoffIsPlanned
<1> QED BY <1>1, <1>4, <1>5, <1>6 DEF BackoffInv

(* Every step of MakeRequest keeps the invariant of the delays.            *)
LEMMA BackoffInvNext == BackoffInv /\ [BackoffNext]_backoffVars => BackoffInv'
<1> SUFFICES ASSUME BackoffInv, [BackoffNext]_backoffVars PROVE BackoffInv'
  OBVIOUS
<1>1. CASE FailsOtherwise
  <2>1. Retries(FALSE, Absent)
    BY <1>1 DEF FailsOtherwise
  <2>2. Absent \in [form : {"absent", "garbage", "seconds", "date"}, n : Int]
    BY DEF Absent
  <2> QED BY <2>1, <2>2, RetryKeepsInv
<1>2. CASE RateLimited
  <2>1. PICK h \in Headers : Retries(TRUE, h)
    BY <1>2 DEF RateLimited
  <2>2. h \in [form : {"absent", "garbage", "seconds", "date"}, n : Int]
    BY <2>1, BackoffAssumption
  <2> QED BY <2>1, <2>2, RetryKeepsInv
<1>3. CASE UNCHANGED backoffVars
  BY <1>3 DEF backoffVars, BackoffInv, EveryRetryWaits, HintsAreWaitedFor, Asked,
                BackoffGrows, Planned
<1> QED BY <1>1, <1>2, <1>3 DEF BackoffNext, CallEnds

(* It holds before the first attempt.                                      *)
LEMMA BackoffInvInit == BackoffInit => BackoffInv
  BY BackoffAssumption
  DEF BackoffInit, BackoffInv, EveryRetryWaits, BackoffGrows, HintsAreWaitedFor, Absent

(* Every retry waits between one unit and one and a half times the cap,    *)
(* for every number of retries, so however the shift or a Retry-After      *)
(* wraps (client.go:125-142, 272).                                         *)
THEOREM RetriesWait == BackoffSpec => []EveryRetryWaits
<1>1. BackoffInv => EveryRetryWaits
  BY DEF BackoffInv
<1> QED BY <1>1, BackoffInvInit, BackoffInvNext, PTL DEF BackoffSpec

(* Without a hint the delays double up to the cap and never fall back, for *)
(* every number of retries: where the shift wraps, what it leaves is not   *)
(* mistaken for a shorter delay (client.go:122-142).                       *)
THEOREM DelaysGrow == BackoffSpec => []BackoffGrows
<1>1. BackoffInv => BackoffGrows
  BY DEF BackoffInv
<1> QED BY <1>1, BackoffInvInit, BackoffInvNext, PTL DEF BackoffSpec

(* A Retry-After that fits in a duration is waited for up to the cap, for  *)
(* every header (client.go:108-119, 264-282).                              *)
THEOREM HintsHold == BackoffSpec => []HintsAreWaitedFor
<1>1. BackoffInv => HintsAreWaitedFor
  BY DEF BackoffInv
<1> QED BY <1>1, BackoffInvInit, BackoffInvNext, PTL DEF BackoffSpec

(* The division of the code finds exactly the timeouts whose product would *)
(* not fit (client.go:229-235).                                            *)
LEMMA TimeoutFits ==
  ASSUME NEW t \in Nat
  PROVE  timeoutDuration(t) = Min({t * Second, MaxDuration})
<1> DEFINE q == MaxDuration \div Second
<1>1. /\ q \in Nat
      /\ q * Second <= MaxDuration /\ MaxDuration < (q + 1) * Second
  BY BackoffAssumption, ModulusEven DEF MaxDuration
<1> HIDE DEF q
<1>2. t > q <=> t * Second > MaxDuration
  <2>1. t <= q => t * Second <= q * Second
    BY <1>1, BackoffAssumption, ModulusEven DEF MaxDuration
  <2>2. t > q => (q + 1) * Second <= t * Second
    BY <1>1, BackoffAssumption, ModulusEven DEF MaxDuration
  <2> QED BY <1>1, <2>1, <2>2, BackoffAssumption, ModulusEven DEF MaxDuration
<1>3. timeoutDuration(t) = IF t * Second > MaxDuration THEN MaxDuration ELSE t * Second
  BY <1>1, <1>2, BackoffAssumption DEF timeoutDuration, q
<1> QED BY <1>3, BackoffAssumption, ModulusEven DEF Min, MaxDuration

(* No value of Timeout wraps to a shorter one.                             *)
THEOREM TimeoutsHold == BackoffSpec => []TimeoutNeverShort
<1>1. BackoffInit => TimeoutNeverShort
  <2> SUFFICES ASSUME BackoffInit PROVE TimeoutNeverShort
    OBVIOUS
  <2>1. timeout \in Nat /\ allowed = timeoutDuration(timeout)
    BY BackoffAssumption DEF BackoffInit
  <2> QED BY <2>1, TimeoutFits DEF TimeoutNeverShort
<1>2. TimeoutNeverShort /\ [BackoffNext]_backoffVars => TimeoutNeverShort'
  BY DEF TimeoutNeverShort, BackoffNext, FailsOtherwise, RateLimited, Retries,
         CallEnds, backoffVars
<1> QED BY <1>1, <1>2, PTL DEF BackoffSpec
=============================================================================
