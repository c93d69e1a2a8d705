------------------------------- MODULE Harvest -------------------------------
(***************************************************************************)
(* What any Fetch promises of the URLs it sends: the wanted rows of the    *)
(* archive, each at most once, in the archive's order, none passed over,   *)
(* and nothing any more once it has returned.                              *)
(***************************************************************************)
EXTENDS Naturals, Sequences

VARIABLES wanted, sent, ret

Before(t, u) == t[1] < u[1] \/ (t[1] = u[1] /\ t[2] < u[2])

IsSent(t) == \E i \in 1..Len(sent) : sent[i] = t

Init == sent = <<>> /\ ret = "none"

Send(t) ==
  /\ ret = "none"
  /\ \A i \in 1..Len(sent) : Before(sent[i], t)
  /\ \A u \in wanted : Before(u, t) => IsSent(u)
  /\ sent' = Append(sent, t)
  /\ UNCHANGED <<wanted, ret>>

Return ==
  /\ ret = "none"
  /\ ret' \in {"nil", "error"}
  /\ UNCHANGED <<wanted, sent>>

Next == (\E t \in wanted : Send(t)) \/ Return

Spec == Init /\ [][Next]_<<wanted, sent, ret>>
=============================================================================
