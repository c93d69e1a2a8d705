------------------------------- MODULE Runner -------------------------------
(***************************************************************************)
(* The worker pool of runner/runner.go: Start, worker and runWork, with    *)
(* the bridge channel and the forwarder goroutine of every work item.      *)
(*                                                                         *)
(* The pool is an open component.  Its client sends items on workChan      *)
(* (WorkerReceives is the rendezvous of that unbuffered channel), closes   *)
(* it (CloseWork), receives from results (ForwarderSends is the send that  *)
(* some receiver or buffer slot accepts) and may cancel the context at     *)
(* any time (Cancel).  A provider's Fetch is any sequence of sends on the  *)
(* bridge followed by a return with or without an error.                   *)
(***************************************************************************)
EXTENDS Naturals, Sequences

CONSTANTS
  Workers,    (* the goroutines Start spawns, r.threads of them            *)
  Items,      (* the work items, one per value sent on workChan            *)
  Providers,
  ProviderOf, (* the provider of a work item                               *)
  BridgeCap,  (* capacity of the bridge channel, 64 in the code            *)
  MaxUrls,    (* bound: URLs one Fetch sends                               *)
  Stubborn,   (* items whose Fetch sends everything it has, deaf to ctx    *)
  NoItem, NoUrl

Urls == [item : Items, n : 1..MaxUrls]
Results == [url : Urls, provider : Providers]
Errs == {"nil", "error"}

ASSUME RunnerAssumption ==
  /\ ProviderOf \in [Items -> Providers]
  /\ BridgeCap \in Nat \ {0}
  /\ MaxUrls \in Nat
  /\ Stubborn \subseteq Items
  /\ NoItem \notin Items
  /\ NoUrl \notin Urls

VARIABLES
  ctxDone,    (* the context is cancelled                                  *)
  unsent,     (* items the client has not sent                             *)
  workClosed, (* workChan is closed                                        *)
  worker,     (* control point of a worker goroutine                       *)
  job,        (* the Work a worker runs, or ran last                       *)
  fetchErr,   (* what Fetch returned                                       *)
  bridge, bridgeClosed,
  forwarder,  (* control point of the forwarder goroutine of runWork       *)
  held,       (* the URL the forwarder has taken off the bridge            *)
  emitted, out, report (* history, see Delivery                            *)

poolVars == <<worker, job, fetchErr, bridge, bridgeClosed, forwarder, held>>
clientVars == <<ctxDone, unsent, workClosed>>
history == <<emitted, out, report>>
runnerVars == <<clientVars, poolVars, history>>

RunnerTypeOK ==
  /\ ctxDone \in BOOLEAN
  /\ unsent \subseteq Items
  /\ workClosed \in BOOLEAN
  /\ worker \in [Workers -> {"select", "fetch", "join", "exited"}]
  /\ job \in [Workers -> Items \cup {NoItem}]
  /\ fetchErr \in [Workers -> Errs]
  /\ bridge \in [Workers -> Seq(Urls)]
  /\ bridgeClosed \in [Workers -> BOOLEAN]
  /\ forwarder \in [Workers -> {"range", "send", "drain", "done"}]
  /\ held \in [Workers -> Urls \cup {NoUrl}]
  /\ emitted \in [Items -> 0..MaxUrls]
  /\ out \in [Items -> Seq(Results)]
  /\ report \in [Items -> Errs \cup {"none"}]

(* Start: every worker goroutine is running and at its select.             *)
RunnerInit ==
  /\ ctxDone = FALSE
  /\ unsent = Items
  /\ workClosed = FALSE
  /\ worker = [w \in Workers |-> "select"]
  /\ job = [w \in Workers |-> NoItem]
  /\ fetchErr = [w \in Workers |-> "nil"]
  /\ bridge = [w \in Workers |-> <<>>]
  /\ bridgeClosed = [w \in Workers |-> FALSE]
  /\ forwarder = [w \in Workers |-> "done"]
  /\ held = [w \in Workers |-> NoUrl]
  /\ emitted = [i \in Items |-> 0]
  /\ out = [i \in Items |-> <<>>]
  /\ report = [i \in Items |-> "none"]
-----------------------------------------------------------------------------
(* The client's side of the pool.                                          *)

Cancel ==
  /\ ~ctxDone
  /\ ctxDone' = TRUE
  /\ UNCHANGED <<unsent, workClosed, poolVars, history>>

CloseWork ==
  /\ ~workClosed
  /\ workClosed' = TRUE
  /\ UNCHANGED <<ctxDone, unsent, poolVars, history>>

(* r.Wait() of the embedded WaitGroup returns.                             *)
AllExited == \A w \in Workers : worker[w] = "exited"
-----------------------------------------------------------------------------
(* The select of worker: a ready receive may win although ctx is done too. *)

WorkerReceives(w, i) ==
  /\ worker[w] = "select"
  /\ ~workClosed
  /\ i \in unsent
  /\ unsent' = unsent \ {i}
  /\ worker' = [worker EXCEPT ![w] = "fetch"]
  /\ job' = [job EXCEPT ![w] = i]
  /\ bridge' = [bridge EXCEPT ![w] = <<>>]
  /\ bridgeClosed' = [bridgeClosed EXCEPT ![w] = FALSE]
  /\ forwarder' = [forwarder EXCEPT ![w] = "range"]
  /\ UNCHANGED <<ctxDone, workClosed, fetchErr, held, history>>

IgnoresClosedChannel == ctxDone     (* a mutant: the ok of the receive *)

MayExit == ctxDone \/ workClosed

WorkerExits(w) ==
  /\ worker[w] = "select"
  /\ MayExit
  /\ worker' = [worker EXCEPT ![w] = "exited"]
  /\ UNCHANGED <<clientVars, job, fetchErr, bridge, bridgeClosed, forwarder,
                 held, history>>
-----------------------------------------------------------------------------
(* A provider's Fetch, running on the worker goroutine.                    *)

FetchSends(w) ==
  LET i == job[w]
  IN  /\ worker[w] = "fetch"
      /\ Len(bridge[w]) < BridgeCap
      /\ emitted[i] < MaxUrls
      /\ emitted' = [emitted EXCEPT ![i] = @ + 1]
      /\ bridge' = [bridge EXCEPT ![w] =
                      Append(@, [item |-> i, n |-> emitted[i] + 1])]
      /\ UNCHANGED <<clientVars, worker, job, fetchErr, bridgeClosed,
                     forwarder, held, out, report>>

(* Fetch returns and the worker closes the bridge, error or not.           *)
FetchErrorLeavesBridgeOpen(err) == err = "nil"     (* a mutant *)

ClosesBridge(err) == TRUE

FetchReturns(w, err) ==
  /\ worker[w] = "fetch"
  /\ job[w] \in Stubborn => emitted[job[w]] = MaxUrls
  /\ fetchErr' = [fetchErr EXCEPT ![w] = err]
  /\ bridgeClosed' = [bridgeClosed EXCEPT ![w] = ClosesBridge(err)]
  /\ worker' = [worker EXCEPT ![w] = "join"]
  /\ UNCHANGED <<clientVars, job, bridge, forwarder, held, history>>

(* The worker waits at <-forwarded until the forwarder has ended, then     *)
(* calls OnWorkComplete and is back at its select.                         *)
ForwardedOrCancelled(w) == forwarder[w] = "done" \/ ctxDone  (* a mutant *)

Forwarded(w) == forwarder[w] = "done"

WorkCompletes(w) ==
  /\ worker[w] = "join"
  /\ Forwarded(w)
  /\ report' = [report EXCEPT ![job[w]] = fetchErr[w]]
  /\ worker' = [worker EXCEPT ![w] = "select"]
  /\ fetchErr' = [fetchErr EXCEPT ![w] = "nil"]
  /\ UNCHANGED <<clientVars, job, bridge, bridgeClosed, forwarder, held,
                 emitted, out>>
-----------------------------------------------------------------------------
(* The forwarder goroutine of runWork.                                     *)

ForwarderReceives(w) ==
  /\ forwarder[w] = "range"
  /\ bridge[w] # <<>>
  /\ held' = [held EXCEPT ![w] = Head(bridge[w])]
  /\ bridge' = [bridge EXCEPT ![w] = Tail(@)]
  /\ forwarder' = [forwarder EXCEPT ![w] = "send"]
  /\ UNCHANGED <<clientVars, worker, job, fetchErr, bridgeClosed, history>>

(* The Result the forwarder offers: its URL with the provider's name.      *)
OfferUntagged(w) == [url |-> held[w]]     (* a mutant *)

Offer(w) == [url |-> held[w], provider |-> ProviderOf[job[w]]]

ForwarderSends(w) ==
  /\ forwarder[w] = "send"
  /\ out' = [out EXCEPT ![job[w]] = Append(@, Offer(w))]
  /\ held' = [held EXCEPT ![w] = NoUrl]
  /\ forwarder' = [forwarder EXCEPT ![w] = "range"]
  /\ UNCHANGED <<clientVars, worker, job, fetchErr, bridge, bridgeClosed,
                 emitted, report>>

(* The ctx.Done arm of the forwarder's select: drop the URL, then drain    *)
(* the bridge so that a Fetch blocked on it can go on.                     *)
GivesUpWhenBusy == TRUE     (* a mutant: a default arm in the select *)

GivesUp == ctxDone

ReturnsAtOnce == "done"     (* a mutant: no drain loop *)

AfterGivingUp == "drain"

ForwarderCancelled(w) ==
  /\ forwarder[w] = "send"
  /\ GivesUp
  /\ held' = [held EXCEPT ![w] = NoUrl]
  /\ forwarder' = [forwarder EXCEPT ![w] = AfterGivingUp]
  /\ UNCHANGED <<clientVars, worker, job, fetchErr, bridge, bridgeClosed,
                 history>>

ForwarderDrains(w) ==
  /\ forwarder[w] = "drain"
  /\ bridge[w] # <<>>
  /\ bridge' = [bridge EXCEPT ![w] = Tail(@)]
  /\ UNCHANGED <<clientVars, worker, job, fetchErr, bridgeClosed, forwarder,
                 held, history>>

(* A range over the bridge ends when it is closed and empty.               *)
RangeEnds(w) == bridgeClosed[w] /\ bridge[w] = <<>>

ForwarderExits(w) ==
  /\ forwarder[w] \in {"range", "drain"}
  /\ RangeEnds(w)
  /\ forwarder' = [forwarder EXCEPT ![w] = "done"]
  /\ UNCHANGED <<clientVars, worker, job, fetchErr, bridge, bridgeClosed,
                 held, history>>
-----------------------------------------------------------------------------
(* The steps of one worker and its forwarder that need nobody else.        *)
Fetch(w) == FetchSends(w) \/ \E err \in Errs : FetchReturns(w, err)

Forwarder(w) == \/ ForwarderReceives(w)
                \/ ForwarderCancelled(w)
                \/ ForwarderDrains(w)
                \/ ForwarderExits(w)

(* Nobody has a step left: Wait has returned and the client is done too.   *)
Stopped == AllExited /\ ctxDone /\ workClosed /\ UNCHANGED runnerVars

RunnerNext ==
  \/ Cancel
  \/ CloseWork
  \/ \E w \in Workers : \/ \E i \in Items : WorkerReceives(w, i)
                        \/ WorkerExits(w)
                        \/ Fetch(w)
                        \/ WorkCompletes(w)
                        \/ Forwarder(w)
                        \/ ForwarderSends(w)
  \/ Stopped

RunnerSpec == RunnerInit /\ [][RunnerNext]_runnerVars

(* The Go scheduler runs every goroutine that can take a step.  Nothing    *)
(* is assumed about the client: it may never send, close or receive.       *)
PoolFairness ==
  \A w \in Workers : /\ WF_runnerVars(WorkerExits(w))
                     /\ WF_runnerVars(Fetch(w))
                     /\ WF_runnerVars(WorkCompletes(w))
                     /\ WF_runnerVars(Forwarder(w))

FairRunnerSpec == RunnerSpec /\ PoolFairness

(* A client that keeps receiving from the Result channel.                  *)
ClientReceives == \A w \in Workers : WF_runnerVars(ForwarderSends(w))
-----------------------------------------------------------------------------
(* A worker inside runWork.                                                *)
Busy(w) == worker[w] \in {"fetch", "join"}

(* The tokens of item i that come after the first n.                       *)
UrlAfter(i, n) == [item |-> i, n |-> n + 1]

HeldCount(w) == IF forwarder[w] = "send" THEN 1 ELSE 0

(* The worker and its forwarder agree on where they are (runner.go:123-140). *)
PipelineInv(w) ==
  /\ Busy(w) => job[w] \in Items \ unsent /\ report[job[w]] = "none"
  /\ ~Busy(w) => forwarder[w] = "done"
  /\ worker[w] = "fetch" => ~bridgeClosed[w] /\ forwarder[w] # "done"
  /\ forwarder[w] = "done" => bridge[w] = <<>>
  /\ forwarder[w] # "send" <=> held[w] = NoUrl
  /\ forwarder[w] = "drain" => ctxDone

(* No URL of the item has been dropped, as far as the state tells.         *)
Faithful(w) == forwarder[w] # "drain" /\ (forwarder[w] = "done" => ~ctxDone)

(* Unless it has given up, what worker w has not forwarded of its item is  *)
(* exactly the held URL followed by the bridge, in order (119-135).        *)
StreamInv(w) ==
  LET i == job[w]
      sent == Len(out[i])
  IN  Busy(w) =>
        /\ sent <= emitted[i]
        /\ Faithful(w) =>
             /\ emitted[i] = sent + HeldCount(w) + Len(bridge[w])
             /\ forwarder[w] = "send" => held[w] = UrlAfter(i, sent)
             /\ \A k \in 1..Len(bridge[w]) :
                  bridge[w][k] = UrlAfter(i, sent + HeldCount(w) + k - 1)

(* Every item is unsent, in exactly one worker's hands, or reported (68-76, *)
(* 101-113).                                                                *)
ItemInv(i) ==
  /\ i \in unsent => report[i] = "none" /\ emitted[i] = 0 /\ out[i] = <<>>
  /\ i \notin unsent /\ report[i] = "none" =>
       \E w \in Workers : Busy(w) /\ job[w] = i

OneWorkerPerItem ==
  \A v, w \in Workers : Busy(v) /\ Busy(w) /\ job[v] = job[w] => v = w

(* The inductive invariant of the pool: no URL is lost, duplicated or      *)
(* overtaken between a provider's send on its bridge and the forwarder's   *)
(* send on results, and no item is in two workers' hands.                  *)
RunnerInv ==
  /\ \A w \in Workers : PipelineInv(w) /\ StreamInv(w)
  /\ \A i \in Items : ItemInv(i)
  /\ OneWorkerPerItem

(* When Wait has returned (runner.go:68-76 with main.go:135) no goroutine  *)
(* of the pool is left that could still send on results, and every item a  *)
(* worker took has been reported.  This is what makes close(results) safe. *)
WaitMeansQuiescent ==
  AllExited =>
    /\ \A w \in Workers : forwarder[w] = "done" /\ held[w] = NoUrl
    /\ \A i \in Items \ unsent : report[i] # "none"

(* The pool implements Delivery: in order, once, tagged, reported last     *)
(* unless cancelled (runner.go:118-149).                                   *)
D == INSTANCE Delivery WITH cancelled <- ctxDone
RunnerDelivers == D!Spec

(* The drain loop's purpose (runner.go:128-131): after a cancellation the  *)
(* whole pool ends, even if nobody ever receives from results and a        *)
(* Fetch that never looks at ctx still has URLs to send.                   *)
CancelStopsWorkers == ctxDone ~> AllExited

(* With a client that keeps receiving, every item a worker takes is        *)
(* reported, whatever its Fetch returned (runner.go:138-148).              *)
TakenIsReported ==
  ClientReceives => \A i \in Items : i \notin unsent ~> report[i] # "none"
=============================================================================
