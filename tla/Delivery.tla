------------------------------ MODULE Delivery ------------------------------
(***************************************************************************)
(* What the worker pool of runner/runner.go promises to its client,        *)
(* whatever workers, bridges and forwarders do inside: the URLs a          *)
(* provider's Fetch produces for a work item reach the Result channel in   *)
(* the order they were produced, each once and with the name of that       *)
(* provider; the item is reported (OnWorkComplete) once, after its last    *)
(* URL; only a cancelled context lets a report overtake URLs, and then     *)
(* what did reach the channel is still a prefix of what was produced.      *)
(***************************************************************************)
EXTENDS Naturals, Sequences

CONSTANTS Items, ProviderOf, MaxUrls

VARIABLES
  emitted,   (* item -> number of URLs its Fetch has produced so far       *)
  out,       (* item -> the Results that reached the Result channel        *)
  report,    (* item -> "none" before OnWorkComplete, then its err         *)
  cancelled  (* the context is done                                        *)

Url(i, n) == [item |-> i, n |-> n]
Tagged(i, n) == [url |-> Url(i, n), provider |-> ProviderOf[i]]

Init ==
  /\ emitted = [i \in Items |-> 0]
  /\ out = [i \in Items |-> <<>>]
  /\ report = [i \in Items |-> "none"]
  /\ cancelled = FALSE

Produce(i) ==
  /\ report[i] = "none"
  /\ emitted[i] < MaxUrls
  /\ emitted' = [emitted EXCEPT ![i] = @ + 1]
  /\ UNCHANGED <<out, report, cancelled>>

Forward(i) ==
  /\ report[i] = "none"
  /\ Len(out[i]) < emitted[i]
  /\ out' = [out EXCEPT ![i] = Append(@, Tagged(i, Len(@) + 1))]
  /\ UNCHANGED <<emitted, report, cancelled>>

Report(i, err) ==
  /\ report[i] = "none"
  /\ cancelled \/ Len(out[i]) = emitted[i]
  /\ report' = [report EXCEPT ![i] = err]
  /\ UNCHANGED <<emitted, out, cancelled>>

Cancel ==
  /\ cancelled' = TRUE
  /\ UNCHANGED <<emitted, out, report>>

Next ==
  \/ Cancel
  \/ \E i \in Items : \/ Produce(i)
                      \/ Forward(i)
                      \/ \E err \in {"nil", "error"} : Report(i, err)

Spec == Init /\ [][Next]_<<emitted, out, report, cancelled>>
=============================================================================
