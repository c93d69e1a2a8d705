----------------------------- MODULE MCBackoff -----------------------------
(***************************************************************************)
(* Units of 250 ms, so 500 ms and 30 s are 2 and 120, in 24 bits: the      *)
(* delay reaches the cap at the seventh retry, and the shift leaves the    *)
(* width at the twenty-third.                                              *)
(*                                                                         *)
(* 3000000 s wrap to a negative duration, 4194305 s to one second.         *)
(***************************************************************************)
EXTENDS Backoff

MCHeaders ==
  {Absent, Garbage, Date(-7), Date(42), Date(121), Date(MaxDuration)}
    \cup {Seconds(n) : n \in {-1, 0, 1, 29, 30, 31, 2097151, 3000000, 4194305,
                                 MaxDuration, MaxDuration + 1}}

(* Around the largest number of seconds that is a duration, and around the *)
(* largest that is a signed integer.                                       *)
MCTimeouts ==
  {0, 45, MaxDuration \div Second, MaxDuration \div Second + 1, 5000000,
   MaxDuration, MaxDuration + 1, 2 * MaxDuration + 1}
=============================================================================
