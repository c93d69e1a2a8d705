-------------------------------- MODULE Lru --------------------------------
(***************************************************************************)
(* The string-keyed LRU set of pkg/output/output.go: lru, newLRU, contains *)
(* and add: a list with the last sighted key in front and an index         *)
(* of the keys in it, kept apart as the code keeps them.  A cap of 0 means *)
(* unbounded.                                                              *)
(***************************************************************************)
EXTENDS Naturals, Sequences

newLRU == [ll |-> <<>>, index |-> {}]

(* contains answers from the index.                                        *)
contains(l, k) == k \in l.index

(* list.MoveToFront on the element the index holds for k: those before it  *)
(* move back by one.                                                       *)
Unmoved(l, k) == l     (* a mutant: a hit does not refresh its key *)

Position(s, k) == CHOOSE i \in DOMAIN s : s[i] = k

MoveToFront(l, k) ==
  LET at == Position(l.ll, k)
  IN  [ll |-> [j \in 1..Len(l.ll) |-> IF j = 1 THEN k
                                     ELSE IF j <= at THEN l.ll[j - 1] ELSE l.ll[j]],
       index |-> l.index]

PushFront(l, k) == [ll |-> <<k>> \o l.ll, index |-> l.index \cup {k}]

(* Remove the Back of the list, from the index too.                        *)
EvictListOnly(l) ==     (* a mutant: delete(l.index, ...) forgotten *)
  [l EXCEPT !.ll = SubSeq(@, 1, Len(@) - 1)]

Evict(l) == [ll |-> SubSeq(l.ll, 1, Len(l.ll) - 1),
             index |-> l.index \ {l.ll[Len(l.ll)]}]

Overfull(l, cap) == Len(l.ll) > cap

add(l, k, cap) ==
  IF contains(l, k) THEN MoveToFront(l, k)
  ELSE LET pushed == PushFront(l, k)
       IN  IF cap > 0 /\ Overfull(pushed, cap) THEN Evict(pushed) ELSE pushed
=============================================================================
