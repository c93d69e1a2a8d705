----------------------------- MODULE HttpClient -----------------------------
(***************************************************************************)
(* MakeRequest and doOnce of pkg/httpclient/client.go, for the workers     *)
(* that call them at the same time.  Every attempt runs its HTTP I/O in a  *)
(* goroutine of its own, which outlives a call whose context ends; request *)
(* and response objects come from fasthttp's pool and go back to it.       *)
(*                                                                         *)
(* A reply is named by the call and attempt it answers.  How long a retry  *)
(* waits is the subject of Backoff; here a sleep ends at any time.         *)
(***************************************************************************)
EXTENDS Integers, Sequences, FiniteSets

CONSTANTS
  Callers,    (* concurrent calls of MakeRequest                           *)
  MaxRetries, (* opts.MaxRetries                                           *)
  Modulus,    (* where uint and int wrap, 2^64 in a build                  *)
  HasLimiter, (* opts.Limiter # nil                                        *)
  HasDeadline,(* the caller's context has a deadline                       *)
  Statuses,   (* what the archives may answer                              *)
  Buffers,    (* pooled fasthttp objects, as many as can be in use         *)
  NoBuffer

Slots == 0..MaxRetries + 1     (* one more than the attempts of a call *)
Replies == Callers \X Slots
NoReply == <<>>

(* A body is a copy of a reply, or the buffer a reply was read into.       *)
Copy(reply) == [copyOf |-> reply]
Alias(b) == [in |-> b]
NoBody == Copy(NoReply)

(* An HTTP status, or 0 when Do or DoDeadline returns an error.            *)
classifyResponse(status) ==
  CASE status = 0 -> {"network"}
    [] status = 200 -> {"nil", "nilResponse"}
    [] status = 400 -> {"badRequest"}
    [] status \in {401, 403} -> {"auth"}
    [] status = 429 -> {"rateLimited"}
    [] OTHER -> {"non200"}

ASSUME HttpAssumption ==
  /\ MaxRetries \in Nat
  /\ Modulus \in Nat \ {0} /\ Modulus % 2 = 0
  /\ HasLimiter \in BOOLEAN /\ HasDeadline \in BOOLEAN
  /\ NoBuffer \notin Buffers
  /\ IsFiniteSet(Buffers)

VARIABLES
  ctxDone,
  call,     (* control point of a call of MakeRequest                      *)
  attempt,  (* its loop variable                                           *)
  lastErr,  (* its lastErr, or what it returned                            *)
  body,     (* the body it returned                                        *)
  tried,    (* history: the outcomes of the attempts it waited for         *)
  io,       (* control point of an attempt's goroutine                     *)
  buf,      (* the pooled object that goroutine works on                   *)
  outcome,  (* the error the goroutine found, "nil" for a body             *)
  ch,       (* its channel of one result                                   *)
  content,  (* what a pooled object holds                                  *)
  free      (* the objects in the pool                                     *)

callVars == <<call, attempt, lastErr, body, tried>>
ioVars == <<io, buf, outcome, ch, content, free>>
httpVars == <<ctxDone, callVars, ioVars>>

HttpInit ==
  /\ ctxDone = FALSE
  /\ call = [c \in Callers |-> "start"]
  /\ attempt = [c \in Callers |-> 0]
  /\ lastErr = [c \in Callers |-> "nil"]
  /\ body = [c \in Callers |-> NoBody]
  /\ tried = [c \in Callers |-> <<>>]
  /\ io = [r \in Replies |-> "none"]
  /\ buf = [r \in Replies |-> NoBuffer]
  /\ outcome = [r \in Replies |-> "none"]
  /\ ch = [r \in Replies |-> <<>>]
  /\ content = [b \in Buffers |-> NoReply]
  /\ free = Buffers

Cancel ==
  /\ ~ctxDone
  /\ ctxDone' = TRUE
  /\ UNCHANGED <<callVars, ioVars>>
-----------------------------------------------------------------------------
(* MakeRequest.                                                            *)

(* int(opts.MaxRetries) + 1, in two's complement.                          *)
Signed(n) ==
  LET m == n % Modulus IN IF m >= Modulus \div 2 THEN m - Modulus ELSE m

InitialAndOneMore == Signed(Signed(MaxRetries) + 2)     (* a mutant *)

Attempts == Signed(Signed(MaxRetries) + 1)

GoTo(c, point) == call' = [call EXCEPT ![c] = point]

ReturnErr(c, err) ==
  /\ GoTo(c, "returned")
  /\ lastErr' = [lastErr EXCEPT ![c] = err]

(* ctx.Err() on entry.                                                     *)
Enter(c) ==
  /\ call[c] = "start"
  /\ IF ctxDone THEN ReturnErr(c, "ctx") ELSE GoTo(c, "loop") /\ UNCHANGED lastErr
  /\ UNCHANGED <<ctxDone, attempt, body, tried, ioVars>>

(* The loop's condition; a retry sleeps first.                             *)
Loop(c) ==
  /\ call[c] = "loop"
  /\ GoTo(c, IF attempt[c] >= Attempts THEN "returned"
             ELSE IF attempt[c] > 0 THEN "sleep" ELSE "limiter")
  /\ UNCHANGED <<ctxDone, attempt, lastErr, body, tried, ioVars>>

(* The timer fires, or ctx ends the sleep.                                 *)
Wake(c) ==
  /\ call[c] = "sleep"
  /\ GoTo(c, "limiter")
  /\ UNCHANGED <<ctxDone, attempt, lastErr, body, tried, ioVars>>

SleepCancelled(c) ==
  /\ call[c] = "sleep"
  /\ ctxDone
  /\ ReturnErr(c, "ctx")
  /\ UNCHANGED <<ctxDone, attempt, body, tried, ioVars>>

(* Limiter.Wait fails with the context's error when ctx is done, with one  *)
(* of its own when the wait would outlast the context's deadline, and      *)
(* otherwise lets the call go on.                                          *)
LimiterErrs ==
  IF ctxDone THEN {"ctx"} ELSE IF HasDeadline THEN {"limiter"} ELSE {}

LimiterRefuses(c) ==
  /\ call[c] = "limiter"
  /\ HasLimiter
  /\ \E err \in LimiterErrs : ReturnErr(c, err)
  /\ UNCHANGED <<ctxDone, attempt, body, tried, ioVars>>

(* doOnce takes pooled objects and starts the goroutine.                   *)
StartAttempt(c, b) ==
  LET r == <<c, attempt[c]>>
  IN  /\ call[c] = "limiter"
      /\ b \in free
      /\ free' = free \ {b}
      /\ content' = [content EXCEPT ![b] = NoReply]
      /\ buf' = [buf EXCEPT ![r] = b]
      /\ io' = [io EXCEPT ![r] = "do"]
      /\ GoTo(c, "select")
      /\ UNCHANGED <<ctxDone, attempt, lastErr, body, tried, outcome, ch>>

(* doOnce gives up on its attempt; what the attempt holds stays with it.   *)
ReleasesOnAbort(r) == free \cup {buf[r]}     (* a mutant: defer in doOnce *)

FreeAfterAbort(r) == free

WaitsForResult == FALSE     (* a mutant *)

SelectsCtx == ctxDone

Abort(c) ==
  LET r == <<c, attempt[c]>>
  IN  /\ call[c] = "select"
      /\ SelectsCtx
      /\ ReturnErr(c, "ctx")
      /\ free' = FreeAfterAbort(r)
      /\ UNCHANGED <<ctxDone, attempt, body, tried, io, buf, outcome, ch, content>>

(* The errors that are returned at once.                                   *)
OnlyBadRequest == {"badRequest"}     (* a mutant *)

NonRetryable == {"badRequest", "auth"}

TakeResult(c) ==
  LET r == <<c, attempt[c]>>
      err == outcome[r]
      done == err = "nil" \/ err \in NonRetryable
  IN  /\ call[c] = "select"
      /\ ch[r] # <<>>
      /\ tried' = [tried EXCEPT ![c] = Append(@, err)]
      /\ lastErr' = [lastErr EXCEPT ![c] = err]
      /\ body' = [body EXCEPT ![c] = IF err = "nil" THEN Head(ch[r]) ELSE @]
      /\ GoTo(c, IF done THEN "returned" ELSE "loop")
      /\ attempt' = [attempt EXCEPT ![c] = IF done THEN @ ELSE @ + 1]
      /\ UNCHANGED <<ctxDone, ioVars>>
-----------------------------------------------------------------------------
(* The goroutine of an attempt.                                            *)

(* Do returns: the reply, if there is one, is in the response object.      *)
Do(r) ==
  /\ io[r] = "do"
  /\ \E status \in Statuses : \E err \in classifyResponse(status) :
       /\ outcome' = [outcome EXCEPT ![r] = err]
       /\ content' = [content EXCEPT ![buf[r]] = IF status = 0 THEN @ ELSE r]
  /\ io' = [io EXCEPT ![r] = "send"]
  /\ UNCHANGED <<ctxDone, callVars, buf, ch, free>>

(* The body is copied out of the response before it is sent.               *)
BodyNotCopied(r) == Alias(buf[r])     (* a mutant *)

BodyOf(r) == Copy(content[buf[r]])

(* The channel has room for the one result, received or not.               *)
Unbuffered(r) ==     (* a mutant *)
  call[r[1]] = "select" /\ attempt[r[1]] = r[2]

Room(r) == TRUE

(* An error is sent as well, without a body.                               *)
SilentOnError(r) ==     (* a mutant *)
  IF outcome[r] = "nil" THEN <<BodyOf(r)>> ELSE <<>>

Sent(r) == <<IF outcome[r] = "nil" THEN BodyOf(r) ELSE NoBody>>

SendResult(r) ==
  /\ io[r] = "send"
  /\ Room(r)
  /\ ch' = [ch EXCEPT ![r] = Sent(r)]
  /\ io' = [io EXCEPT ![r] = "release"]
  /\ UNCHANGED <<ctxDone, callVars, buf, outcome, content, free>>

(* The deferred releases put the objects back into the pool.               *)
Release(r) ==
  /\ io[r] = "release"
  /\ free' = free \cup {buf[r]}
  /\ io' = [io EXCEPT ![r] = "done"]
  /\ UNCHANGED <<ctxDone, callVars, buf, outcome, ch, content>>
-----------------------------------------------------------------------------
CallStep(c) ==
  \/ Enter(c) \/ Loop(c)
  \/ Wake(c) \/ SleepCancelled(c)
  \/ LimiterRefuses(c) \/ \E b \in Buffers : StartAttempt(c, b)
  \/ Abort(c) \/ TakeResult(c)

(* The program may end with its last call, goroutines or not.              *)
AllOver == (\A c \in Callers : call[c] = "returned") /\ UNCHANGED httpVars

HttpNext ==
  \/ Cancel
  \/ \E c \in Callers : CallStep(c)
  \/ \E r \in Replies : Do(r) \/ SendResult(r) \/ Release(r)
  \/ AllOver

HttpSpec == HttpInit /\ [][HttpNext]_httpVars

(* Goroutines run and timers fire.  Do need not return.                    *)
CallFairness ==
  /\ \A c \in Callers : WF_httpVars(CallStep(c))
  /\ \A r \in Replies : WF_httpVars(SendResult(r)) /\ WF_httpVars(Release(r))

FairHttpSpec == HttpSpec /\ CallFairness

(* With opts.Timeout > 0, DoDeadline returns.                              *)
HasTimeout == \A r \in Replies : WF_httpVars(Do(r))
-----------------------------------------------------------------------------
HttpTypeOK ==
  /\ ctxDone \in BOOLEAN
  /\ \A c \in Callers :
       /\ call[c] \in {"start", "loop", "sleep", "limiter", "select", "returned"}
       /\ attempt[c] \in 0..MaxRetries + 1
  /\ \A r \in Replies :
       /\ io[r] \in {"none", "do", "send", "release", "done"}
       /\ buf[r] \in Buffers \cup {NoBuffer}
       /\ Len(ch[r]) <= 1
  /\ free \subseteq Buffers
  /\ content \in [Buffers -> Replies \cup {NoReply}]

(* An object in use is in use by one goroutine and not in the pool, even   *)
(* when the call that started it has returned (client.go:195-227).         *)
InUse(r) == io[r] \in {"do", "send", "release"}

BuffersExclusive ==
  \A r \in Replies : InUse(r) =>
    /\ buf[r] \notin free
    /\ \A q \in Replies : InUse(q) /\ buf[q] = buf[r] => q = r

(* A call that returns no error returns the reply to its own last attempt, *)
(* and the body stays so while other calls go on (client.go:237-260); but  *)
(* a MaxRetries that leaves no positive number of attempts returns neither *)
(* body nor error (client.go:77).                                          *)
Reading(b) == IF "in" \in DOMAIN b THEN content[b.in] ELSE b.copyOf

AttemptsFit == MaxRetries + 1 < Modulus \div 2

BodyIsOwnReply ==
  AttemptsFit =>
    \A c \in Callers :
      call[c] = "returned" /\ lastErr[c] = "nil" => Reading(body[c]) = <<c, attempt[c]>>

(* However its goroutines and pooled objects interleave, a call is one of  *)
(* Call: at most MaxRetries + 1 attempts, none after one that cannot get   *)
(* better, the error or the reply of the last one, "ctx" only of an ended  *)
(* context, and nothing of it changes afterwards (client.go:60-106).       *)
Results == [c \in Callers |-> IF call[c] = "returned" THEN lastErr[c] ELSE "none"]
Bodies == [c \in Callers |-> Reading(body[c])]

A == INSTANCE Call WITH
       MaxAttempts <- IF Attempts > 0 THEN Attempts ELSE 0,
       result <- Results, reply <- Bodies, cancelled <- ctxDone
CallsAnswer == A!Spec

(* A done context ends every call, even when the archive never answers and *)
(* there is no timeout (client.go:64-67, 219-223).                         *)
CancelEndsCalls == ctxDone ~> \A c \in Callers : call[c] = "returned"

(* With a timeout every call returns and every attempt's goroutine ends    *)
(* and gives its objects back (client.go:171-174).                         *)
CallsReturn == HasTimeout => \A c \in Callers : <>(call[c] = "returned")

GoroutinesEnd ==
  HasTimeout => \A r \in Replies : io[r] # "none" ~> io[r] = "done"
=============================================================================
