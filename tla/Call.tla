-------------------------------- MODULE Call --------------------------------
(***************************************************************************)
(* What a call of MakeRequest (pkg/httpclient/client.go) promises its      *)
(* caller, whatever goroutines and pooled objects do inside: a bounded     *)
(* number of attempts, none after one that cannot get better, and then one *)
(* answer, which stays as it is: the reply to the last attempt, the error  *)
(* of the last attempt, or, only when the context has ended, the context's *)
(* error.                                                                  *)
(***************************************************************************)
EXTENDS Naturals, Sequences

CONSTANTS Callers, MaxAttempts, HasLimiter, HasDeadline

VARIABLES
  tried,    (* caller -> the outcomes of its attempts                      *)
  result,   (* caller -> "none", then the error returned, "nil" for none   *)
  reply,    (* caller -> the reply in the body it returned                 *)
  cancelled (* the context has ended                                       *)

Retryable == {"network", "nilResponse", "rateLimited", "non200"}

NoReply == <<>>

Init ==
  /\ tried = [c \in Callers |-> <<>>]
  /\ result = [c \in Callers |-> "none"]
  /\ reply = [c \in Callers |-> NoReply]
  /\ cancelled = FALSE

MayTry(c) == result[c] = "none" /\ Len(tried[c]) < MaxAttempts

Try(c, err) ==
  /\ MayTry(c)
  /\ tried' = [tried EXCEPT ![c] = Append(@, err)]
  /\ UNCHANGED <<result, reply, cancelled>>

Returns(c, err) ==
  /\ result[c] = "none"
  /\ result' = [result EXCEPT ![c] = err]

(* An attempt that need not or must not be repeated.                       *)
Succeed(c) ==
  /\ MayTry(c)
  /\ tried' = [tried EXCEPT ![c] = Append(@, "nil")]
  /\ Returns(c, "nil")
  /\ reply' = [reply EXCEPT ![c] = <<c, Len(tried[c])>>]
  /\ UNCHANGED cancelled

Fail(c, err) ==
  /\ MayTry(c)
  /\ tried' = [tried EXCEPT ![c] = Append(@, err)]
  /\ Returns(c, err)
  /\ UNCHANGED <<reply, cancelled>>

(* No attempt is left. If there never was one there is no error either.    *)
GiveUp(c) ==
  /\ Len(tried[c]) = MaxAttempts
  /\ Returns(c, IF tried[c] = <<>> THEN "nil" ELSE tried[c][Len(tried[c])])
  /\ UNCHANGED <<tried, reply, cancelled>>

Stop(c) ==
  /\ cancelled
  /\ Returns(c, "ctx")
  /\ UNCHANGED <<tried, reply, cancelled>>

(* The limiter's wait would outlast the context's deadline.                *)
Refuse(c) ==
  /\ HasLimiter /\ HasDeadline /\ ~cancelled
  /\ Returns(c, "limiter")
  /\ UNCHANGED <<tried, reply, cancelled>>

Cancel ==
  /\ cancelled' = TRUE
  /\ UNCHANGED <<tried, result, reply>>

Next ==
  \/ Cancel
  \/ \E c \in Callers :
       \/ \E err \in Retryable : Try(c, err)
       \/ \E err \in {"badRequest", "auth"} : Fail(c, err)
       \/ Succeed(c) \/ GiveUp(c) \/ Stop(c) \/ Refuse(c)

Spec == Init /\ [][Next]_<<tried, result, reply, cancelled>>
=============================================================================
