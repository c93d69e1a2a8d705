----------------------------- MODULE RunProofs -----------------------------
(***************************************************************************)
(* From the providers to the output: what a nil return of runGau and a     *)
(* printed summary say of the lines that were written.  The run's writer   *)
(* is the one OutputProofs is about, its pool the one of RunnerProofs.     *)
(***************************************************************************)
EXTENDS GauProofs, SequenceTheorems

WP == INSTANCE OutputProofs WITH RawUrls <- Urls, MaxReceived <- NumProviders * NumDomains * MaxUrls

(* The results that reached the writer: those the forwarders sent, each    *)
(* URL once.                                                               *)
ReceivedInv ==
  /\ \A n \in 1..Len(received) :
       /\ received[n].url \in Urls
       /\ received[n].url.n <= Len(out[received[n].url.item])
  /\ \A i \in Items : \A k \in 1..Len(out[i]) :
       \E n \in 1..Len(received) : received[n].url = [item |-> i, n |-> k]
  /\ \A m, n \in 1..Len(received) : received[m].url = received[n].url => m = n

(* While the context lives an item is reported after its last URL.         *)
FetchedInv == \A i \in Items : report[i] # "none" => Len(out[i]) = emitted[i]

(* Main goes past the join only when the writer is done, so neither the    *)
(* summary nor what runGau returns is overtaken by it.                     *)
EndInv ==
  /\ ctxDone => Gone
  /\ writer = "done" <=> writeErr # "none"
  /\ main \in {"display", "writeErr", "returned"} => writer = "done"
  /\ closer = "summarized" => main \in {"writeErr", "returned"} /\ summary = counts
  /\ returned = "nil" => Gone /\ writeErr = "nil"
-----------------------------------------------------------------------------
(* A worker that is about to forward a URL.                                *)
LEMMA OfferOf ==
  ASSUME RunnerTypeOK, RunnerInv, NEW w \in Workers, forwarder[w] = "send"
  PROVE  /\ job[w] \in Items /\ report[job[w]] = "none" /\ Busy(w)
         /\ Len(out[job[w]]) \in Nat
         /\ held[w] = UrlAfter(job[w], Len(out[job[w]])) /\ held[w] \in Urls
         /\ Offer(w) \in Results
<1>1. PipelineInv(w) /\ StreamInv(w)
  BY DEF RunnerInv
<1>2. Busy(w) /\ job[w] \in Items /\ report[job[w]] = "none" /\ held[w] # NoUrl
  BY <1>1 DEF PipelineInv
<1>3. held[w] \in Urls /\ out[job[w]] \in Seq(Results)
  BY <1>2 DEF RunnerTypeOK
<1>4. Faithful(w)
  BY DEF Faithful
<1>5. held[w] = UrlAfter(job[w], Len(out[job[w]]))
  BY <1>1, <1>2, <1>4 DEF StreamInv
<1>6. Offer(w) \in Results
  BY <1>2, <1>3, RunnerAssumption DEF Offer, Results
<1> QED
  BY <1>2, <1>3, <1>5, <1>6

(* A step of a run is a step of the writer, or none.                       *)
LEMMA StepOfWriter ==
  ASSUME RunnerTypeOK, RunnerInv, [GauNext]_gauVars
  PROVE  WP!WriterStep \/ UNCHANGED WP!writerVars
<1> USE DEF WP!writerVars, writerVars
<1>1. CASE CloseResultChan
  <2>1. WP!CloseResults
    BY <1>1 DEF CloseResultChan, W!CloseResults, WP!CloseResults
  <2> QED
    BY <2>1 DEF WP!WriterStep
<1>2. ASSUME NEW w \in Workers, Deliver(w) PROVE WP!WriterStep
  <2>1. Offer(w) \in WP!Incoming
    BY <1>2, OfferOf DEF Deliver, ForwarderSends, Results, WP!Incoming
  <2>2. WP!Receives(Offer(w))
    BY <1>2 DEF Deliver, W!Receives, WP!Receives
  <2> QED
    BY <2>1, <2>2 DEF WP!WriterStep
<1>3. CASE Filter
  <2>1. WP!Filters
    BY <1>3 DEF Filter, W!Filters, WP!Filters, W!Current, WP!Current,
      W!Survives, WP!Survives, W!ReachesDedup, WP!ReachesDedup,
      W!passesFilters, WP!passesFilters, W!matchesAnyExt, WP!matchesAnyExt,
      W!matchesAnyRegex, WP!matchesAnyRegex, W!isBlacklisted, WP!isBlacklisted,
      W!urlExt, WP!urlExt, W!contains, WP!contains, W!add, WP!add,
      W!MoveToFront, WP!MoveToFront, W!Position, WP!Position,
      W!PushFront, WP!PushFront, W!Evict, WP!Evict, W!Overfull, WP!Overfull
  <2> QED
    BY <2>1 DEF WP!WriterStep, WP!Writer
<1>4. CASE WriterOnly
  <2>1. WP!Writes \/ WP!WriteFails \/ WP!WriterReturns
    BY <1>4 DEF WriterOnly, W!Writes, WP!Writes, W!Current, WP!Current,
      W!WriteFails, WP!WriteFails, W!AfterFailedRecord, WP!AfterFailedRecord,
      W!WriterReturns, WP!WriterReturns
  <2> QED
    BY <2>1 DEF WP!WriterStep, WP!Writer
<1>5. CASE \/ QueueAll \/ Scan \/ ScanEnds \/ ScanFails \/ AllSent
           \/ CloseWorkChan \/ CloseDisplay \/ Summarize
           \/ ReturnScanError \/ Return
  BY <1>5 DEF QueueAll, Scan, ScanEnds, ScanFails, AllSent, CloseWorkChan,
              CloseDisplay, Summarize, ReturnScanError, Return
<1>6. ASSUME NEW w \in Workers,
             SendWork(w) \/ WorkerOnly(w) \/ ForwarderOnly(w) \/ Complete(w)
      PROVE  UNCHANGED writerVars
  BY <1>6 DEF SendWork, WorkerOnly, ForwarderOnly, Complete
<1>7. CASE DisplayOnly \/ Exited \/ UNCHANGED gauVars
  BY <1>7 DEF DisplayOnly, Exited, gauVars
<1> QED
  BY <1>1, <1>2, <1>3, <1>4, <1>5, <1>6, <1>7 DEF GauNext, Main

(* The writer of the run has the constants OutputProofs asks for.          *)
LEMMA WriterConstants ==
  WP!OutputConstants /\ NumProviders * NumDomains * MaxUrls \in Nat
<1>1. WP!OutputConstants
  BY GauAssumption DEF W!OutputConstants, WP!OutputConstants
<1>2. NumProviders \in Nat /\ NumDomains \in Nat /\ MaxUrls \in Nat
  BY GauAssumption, RunnerAssumption
<1>3. \A m, n \in Nat : m * n \in Nat
  OBVIOUS
<1>4. NumProviders * NumDomains \in Nat
  BY <1>2, <1>3
<1> QED
  BY <1>1, <1>2, <1>3, <1>4

(* So what OutputProofs shows of the writer holds in the run.              *)
LEMMA WriterInvariantOfRun == GauSpec => []WP!WriterInv
<1>1. WP!OutputConstants /\ NumProviders * NumDomains * MaxUrls \in Nat
  BY WriterConstants
<1>2. GauInit => WP!WriterInv
  <2>1. GauInit => WP!WriterInit
    BY DEF GauInit, W!WriterInit, WP!WriterInit, W!ProviderConfig, WP!ProviderConfig,
           W!lowerSlice, WP!lowerSlice, W!newLRU, WP!newLRU
  <2> QED
    BY <1>1, <2>1, WP!WriterInvInit
<1>3. RunInv /\ WP!WriterInv /\ [GauNext]_gauVars => WP!WriterInv'
  BY <1>1, StepOfWriter, WP!WriterInvNext DEF RunInv
<1> QED
  BY <1>2, <1>3, RunInvariant, PTL DEF GauSpec

(* In a run the lru agrees with its index and remembers what was sighted   *)
(* last, and the lines are exactly what is due of what was received, for   *)
(* every interleaving of the pool with the writer (output.go:72-133).      *)
THEOREM RunWritesExactly ==
  GauSpec => [](WP!LruSound /\ WP!RemembersRecent /\ WP!StreamExact)
<1>1. WP!OutputConstants /\ NumProviders * NumDomains * MaxUrls \in Nat
  BY WriterConstants
<1>2. WP!WriterInv => WP!LruSound /\ WP!RemembersRecent /\ WP!StreamExact
  BY <1>1, WP!WriterInvMeans
<1> QED
  BY <1>2, WriterInvariantOfRun, PTL
-----------------------------------------------------------------------------
(* What the writer's invariant says of the types of its variables.         *)
LEMMA WriterTyped ==
  ASSUME WP!WriterInv
  PROVE  /\ received \in Seq(WP!Incoming) /\ lines \in Seq(WP!Incoming)
         /\ Len(received) \in Nat /\ Len(lines) \in Nat /\ lost \in Nat
         /\ writer \in {"range", "filter", "write", "done"}
         /\ writer \in {"filter", "write"} => W!Current \in WP!Incoming
<1>1. /\ received \in Seq(WP!Incoming) /\ lines \in Seq(WP!Incoming) /\ lost \in Nat
      /\ writer \in {"range", "filter", "write", "done"}
      /\ writer \in {"filter", "write"} => received # <<>>
  BY DEF WP!WriterInv, WP!WriterTypes, WP!LinesInv
<1>2. received # <<>> => received[Len(received)] \in WP!Incoming
  BY <1>1
<1> QED
  BY <1>1, <1>2 DEF W!Current

(* A step of a run delivers a URL to the writer, or leaves the results     *)
(* where they are.                                                         *)
LEMMA StepDeliversOrNot ==
  ASSUME RunnerTypeOK, RunnerInv, [GauNext]_gauVars
  PROVE  \/ \E w \in Workers : Deliver(w)
         \/ UNCHANGED <<out, received>>
<1> USE DEF writerVars, runnerVars, history
<1>1. CASE Main
  BY <1>1 DEF Main, QueueAll, Scan, ScanEnds, ScanFails, AllSent,
              CloseWorkChan, CloseWork, CloseResultChan, W!CloseResults,
              CloseDisplay, Summarize, ReturnScanError, Return, Cancel
<1>2. ASSUME NEW w \in Workers, SendWork(w) \/ WorkerOnly(w) \/ ForwarderOnly(w) \/ Complete(w)
      PROVE  UNCHANGED <<out, received>>
  BY <1>2 DEF SendWork, WorkerReceives, WorkerOnly, WorkerExits, Fetch, FetchSends,
              FetchReturns, ForwarderOnly, Forwarder, ForwarderReceives,
              ForwarderCancelled, ForwarderDrains, ForwarderExits, Complete,
              WorkCompletes
<1>3. CASE Filter \/ WriterOnly \/ DisplayOnly \/ Exited \/ UNCHANGED gauVars
  BY <1>3 DEF Filter, W!Filters, WriterOnly, W!Writes, W!WriteFails, W!WriterReturns,
              DisplayOnly, Exited, gauVars
<1> QED
  BY <1>1, <1>2, <1>3 DEF GauNext

(* A delivered URL is the next of its item.                                *)
LEMMA ReceivedNext ==
  ASSUME RunnerTypeOK, RunnerInv, WP!WriterInv, ReceivedInv, [GauNext]_gauVars
  PROVE  ReceivedInv'
<1>1. ASSUME NEW w \in Workers, Deliver(w) PROVE ReceivedInv'
  <2> DEFINE i == job[w]
             u == held[w]
             n == Len(received) + 1
  <2>1. /\ i \in Items /\ Len(out[i]) \in Nat /\ u \in Urls
        /\ u = [item |-> i, n |-> Len(out[i]) + 1] /\ Offer(w) \in Results
        /\ forwarder[w] = "send"
    BY <1>1, OfferOf DEF Deliver, ForwarderSends, UrlAfter
  <2>2. /\ Len(received) \in Nat /\ received \in Seq(WP!Incoming)
        /\ received' = Append(received, Offer(w)) /\ Offer(w).url = u
    BY <1>1, WriterTyped DEF Deliver, W!Receives, Offer
  <2>3. /\ out \in [Items -> Seq(Results)]
        /\ out' = [out EXCEPT ![i] = Append(@, Offer(w))]
    BY <1>1 DEF Deliver, ForwarderSends, RunnerTypeOK
  <2> HIDE DEF i, u
  <2>4. /\ Len(received') = n /\ received'[n].url = u
        /\ \A m \in 1..Len(received) : received'[m] = received[m]
    BY <2>2
  <2>5. /\ Len(out'[i]) = Len(out[i]) + 1
        /\ \A j \in Items : j # i => out'[j] = out[j]
    BY <2>1, <2>3
  <2>6. u.item = i /\ u.n = Len(out[i]) + 1
    BY <2>1
  <2>7. n \in Nat /\ \A m \in 1..n : m = n \/ m \in 1..Len(received)
    BY <2>2
  <2> HIDE DEF n
  <2>8. ASSUME NEW m \in 1..Len(received)
        PROVE  /\ received[m].url \in Urls /\ received[m].url.item \in Items
               /\ received[m].url.n \in Nat
               /\ received[m].url.n <= Len(out[received[m].url.item])
               /\ Len(out[received[m].url.item]) <= Len(out'[received[m].url.item])
               /\ Len(out'[received[m].url.item]) \in Nat
               /\ received[m].url # u
    <3>1. /\ received[m].url \in Urls
          /\ received[m].url.n <= Len(out[received[m].url.item])
      BY DEF ReceivedInv
    <3>2. received[m].url.item \in Items /\ received[m].url.n \in Nat
      BY <3>1, RunnerAssumption DEF Urls
    <3>3. Len(out[received[m].url.item]) \in Nat
      BY <2>3, <3>2
    <3>4. CASE received[m].url.item = i
      BY <2>1, <2>5, <2>6, <3>1, <3>2, <3>3, <3>4
    <3>5. CASE received[m].url.item # i
      BY <2>1, <2>5, <2>6, <3>1, <3>2, <3>3, <3>5
    <3> QED
      BY <3>4, <3>5
  <2>9. \A m \in 1..n :
          /\ received'[m].url \in Urls
          /\ received'[m].url.n <= Len(out'[received'[m].url.item])
    <3> SUFFICES ASSUME NEW m \in 1..n
                 PROVE  /\ received'[m].url \in Urls
                        /\ received'[m].url.n <= Len(out'[received'[m].url.item])
      OBVIOUS
    <3>1. CASE m = n
      BY <2>1, <2>4, <2>5, <2>6, <3>1
    <3>2. CASE m \in 1..Len(received)
      <4>1. received'[m] = received[m]
        BY <2>4, <3>2
      <4>2. Len(out[received[m].url.item]) \in Nat
        BY <2>3, <2>8, <3>2
      <4> QED
        BY <2>8, <3>2, <4>1, <4>2
    <3> QED
      BY <2>7, <3>1, <3>2
  <2>10. ASSUME NEW j \in Items, NEW k \in 1..Len(out'[j])
         PROVE  \E m \in 1..n : received'[m].url = [item |-> j, n |-> k]
    <3>1. CASE k \in 1..Len(out[j])
      <4>1. PICK m \in 1..Len(received) : received[m].url = [item |-> j, n |-> k]
        BY <3>1 DEF ReceivedInv
      <4>2. m \in 1..n
        BY <2>2 DEF n
      <4> QED
        BY <2>4, <4>1, <4>2
    <3>2. CASE k \notin 1..Len(out[j])
      <4>1. j = i /\ k = Len(out[i]) + 1
        BY <2>1, <2>5, <3>2
      <4>2. n \in 1..n
        BY <2>2 DEF n
      <4> QED
        BY <2>1, <2>4, <4>1, <4>2
    <3> QED
      BY <3>1, <3>2
  <2>11. ASSUME NEW m \in 1..n, NEW k \in 1..n, received'[m].url = received'[k].url
         PROVE  m = k
    <3>1. CASE m = n /\ k = n
      BY <3>1
    <3>2. CASE m \in 1..Len(received) /\ k \in 1..Len(received)
      BY <2>4, <2>11, <3>2 DEF ReceivedInv
    <3>3. CASE m = n /\ k \in 1..Len(received)
      BY <2>4, <2>8, <2>11, <3>3
    <3>4. CASE k = n /\ m \in 1..Len(received)
      BY <2>4, <2>8, <2>11, <3>4
    <3> QED
      BY <2>7, <3>1, <3>2, <3>3, <3>4
  <2> QED
    BY <2>4, <2>9, <2>10, <2>11 DEF ReceivedInv
<1>2. CASE UNCHANGED <<out, received>>
  BY <1>2 DEF ReceivedInv
<1> QED
  BY <1>1, <1>2, StepDeliversOrNot

(* A report while the context lives finds the bridge empty and all sent.   *)
LEMMA FetchedNext ==
  ASSUME RunInv, EndInv, FetchedInv, [GauNext]_gauVars
  PROVE  FetchedInv'
<1> USE DEF runnerVars, history
<1>0. /\ RunnerTypeOK /\ RunnerInv
      /\ emitted \in [Items -> 0..MaxUrls] /\ out \in [Items -> Seq(Results)]
      /\ report \in [Items -> Errs \cup {"none"}]
  BY DEF RunInv, RunnerTypeOK
<1>1. ASSUME NEW w \in Workers, Complete(w) PROVE FetchedInv'
  <2>1. /\ worker[w] = "join" /\ forwarder[w] = "done"
        /\ report' = [report EXCEPT ![job[w]] = fetchErr[w]]
        /\ UNCHANGED <<emitted, out>>
    BY <1>1 DEF Complete, WorkCompletes, Forwarded
  <2>2. ~ctxDone
    BY <2>1 DEF EndInv, Gone, RunInv, MainInv, Joined, AllExited
  <2>3. PipelineInv(w) /\ StreamInv(w)
    BY <1>0 DEF RunnerInv
  <2>4. job[w] \in Items /\ bridge[w] = <<>>
    BY <2>1, <2>3 DEF PipelineInv, Busy
  <2>5. emitted[job[w]] = Len(out[job[w]]) + 0 + Len(bridge[w])
    BY <2>1, <2>2, <2>3 DEF StreamInv, Busy, Faithful, HeldCount
  <2>6. emitted[job[w]] = Len(out[job[w]])
    <3>1. Len(bridge[w]) = 0 /\ Len(out[job[w]]) \in Nat
      BY <1>0, <2>4
    <3> QED
      BY <2>5, <3>1
  <2> QED
    BY <1>0, <2>1, <2>4, <2>6 DEF FetchedInv
<1>2. ASSUME NEW w \in Workers, Deliver(w) PROVE FetchedInv'
  <2>1. /\ job[w] \in Items /\ report[job[w]] = "none" /\ UNCHANGED <<emitted, report>>
        /\ out' = [out EXCEPT ![job[w]] = Append(@, Offer(w))]
    BY <1>0, <1>2, OfferOf DEF Deliver, ForwarderSends
  <2> QED
    BY <1>0, <2>1 DEF FetchedInv
<1>3. ASSUME NEW w \in Workers, FetchSends(w) PROVE FetchedInv'
  <2>1. job[w] \in Items /\ report[job[w]] = "none"
    BY <1>0, <1>3 DEF FetchSends, RunnerInv, PipelineInv, Busy
  <2>2. /\ UNCHANGED <<out, report>>
        /\ emitted' = [emitted EXCEPT ![job[w]] = @ + 1]
    BY <1>3 DEF FetchSends
  <2> QED
    BY <1>0, <2>1, <2>2 DEF FetchedInv
<1>4. CASE UNCHANGED <<emitted, out, report>>
  BY <1>4 DEF FetchedInv
<1>5. CASE Main
  <2>1. UNCHANGED <<emitted, out, report>>
    BY <1>5 DEF Main, QueueAll, Scan, ScanEnds, ScanFails, AllSent,
                CloseWorkChan, CloseWork, CloseResultChan,
                CloseDisplay, Summarize, ReturnScanError, Return, Cancel
  <2> QED
    BY <1>4, <2>1
<1>6. ASSUME NEW w \in Workers, SendWork(w) \/ WorkerOnly(w) \/ ForwarderOnly(w), ~FetchSends(w)
      PROVE  UNCHANGED <<emitted, out, report>>
  BY <1>6 DEF SendWork, WorkerReceives, WorkerOnly, WorkerExits, Fetch,
              FetchReturns, ForwarderOnly, Forwarder, ForwarderReceives,
              ForwarderCancelled, ForwarderDrains, ForwarderExits
<1>7. CASE Filter \/ WriterOnly \/ DisplayOnly \/ Exited \/ UNCHANGED gauVars
  <2>1. UNCHANGED <<emitted, out, report>>
    BY <1>7 DEF Filter, WriterOnly, DisplayOnly, Exited, gauVars
  <2> QED
    BY <1>4, <2>1
<1> QED
  BY <1>1, <1>2, <1>3, <1>4, <1>5, <1>6, <1>7 DEF GauNext
(* Nothing happens to the writer, the counters or the summary behind       *)
(* main's back.                                                            *)
LEMMA EndNext ==
  ASSUME RunInv, EndInv, [GauNext]_gauVars
  PROVE  EndInv'
<1> USE DEF EndInv, Gone, clientVars, writerVars, progressVars
<1>1. CASE QueueAll \/ Scan \/ ScanEnds \/ ScanFails \/ AllSent \/ CloseWorkChan
  <2>1. /\ main \in {"queue", "scan", "send", "close"}
        /\ main' \in {"send", "scan", "close", "wait"}
        /\ returned' \in {returned, "scan error"}
        /\ UNCHANGED <<ctxDone, writer, writeErr, closer>>
    BY <1>1 DEF QueueAll, Scan, Queue, P!WorkQueued, ScanEnds, ScanFails, AllSent,
                CloseWorkChan, CloseWork, runnerVars
  <2> QED
    BY <2>1
<1>2. CASE CloseResultChan
  <2>1. /\ main = "wait" /\ main' = "join"
        /\ UNCHANGED <<ctxDone, writer, writeErr, closer, returned>>
    BY <1>2 DEF CloseResultChan, W!CloseResults, runnerVars
  <2> QED
    BY <2>1
<1>3. CASE CloseDisplay
  <2>1. /\ main = "join" /\ main' = "display" /\ writer = "done"
        /\ UNCHANGED <<ctxDone, writer, writeErr, returned>>
        /\ closer' \in {closer, "joining"}
    BY <1>3 DEF CloseDisplay, WriterDone, P!Close, runnerVars
  <2> QED
    BY <2>1
<1>4. CASE Summarize
  <2>1. /\ main = "display" /\ main' = "writeErr"
        /\ UNCHANGED <<ctxDone, writer, writeErr, returned, counts>>
        /\ closer' = closer \/ summary' = counts
    BY <1>4 DEF Summarize, P!WriteSummary, runnerVars
  <2> QED
    BY <2>1
<1>5. CASE ReturnScanError \/ Return
  <2>1. /\ main \in {"display", "writeErr"} /\ main' = "returned"
        /\ UNCHANGED <<writer, writeErr, closer, counts, summary>>
        /\ returned' = "nil" => returned = "nil" \/ writeErr = "nil"
    BY <1>5 DEF ReturnScanError, Return
  <2> QED
    BY <2>1
<1>6. ASSUME NEW w \in Workers,
             SendWork(w) \/ WorkerOnly(w) \/ ForwarderOnly(w) \/ Deliver(w)
      PROVE  EndInv'
  <2>1. UNCHANGED <<main, returned, ctxDone, writeErr, closer, counts, summary>>
    BY <1>6 DEF SendWork, WorkerReceives, WorkerOnly, WorkerExits, Fetch,
                FetchSends, FetchReturns, ForwarderOnly, Forwarder,
                ForwarderReceives, ForwarderCancelled, ForwarderDrains,
                ForwarderExits, Deliver, ForwarderSends, W!Receives, mainVars
  <2>2. writer' = writer \/ (writer = "range" /\ writer' = "filter")
    BY <1>6 DEF SendWork, WorkerOnly, ForwarderOnly, Deliver, W!Receives
  <2> QED
    BY <2>1, <2>2
<1>7. ASSUME NEW w \in Workers, Complete(w) PROVE EndInv'
  <2>1. /\ UNCHANGED <<main, returned, ctxDone, writer, writeErr, summary>>
        /\ closer' = closer /\ worker[w] = "join"
    BY <1>7 DEF Complete, WorkCompletes, P!WorkCompleted, mainVars
  <2>2. ~Joined
    BY <2>1 DEF RunInv, MainInv, AllExited
  <2>3. closer # "summarized"
    BY <2>2 DEF Joined
  <2> QED
    BY <2>1, <2>3
<1>8. CASE Filter
  <2>1. /\ UNCHANGED <<main, returned, ctxDone, writeErr, closer>>
        /\ writer = "filter" /\ writer' \in {"range", "write"}
    BY <1>8 DEF Filter, W!Filters, P!URLEmitted, mainVars, runnerVars
  <2> QED
    BY <2>1
<1>9. CASE WriterOnly
  <2>1. /\ UNCHANGED <<main, returned, ctxDone, closer, counts, summary>>
        /\ writer \in {"range", "write"}
        /\ \/ writer' = "range" /\ writeErr' = writeErr
           \/ writer' = "done" /\ writeErr' \in {"nil", "error"}
    BY <1>9 DEF WriterOnly, W!Writes, W!WriteFails, W!AfterFailedRecord,
                W!WriterReturns, mainVars, runnerVars
  <2> QED
    BY <2>1
<1>10. CASE DisplayOnly
  <2>1. /\ UNCHANGED <<main, returned, ctxDone, writer, writeErr, counts, summary>>
        /\ closer' \in {closer, "final", "closed"}
    BY <1>10 DEF DisplayOnly, P!Running, P!Tick, P!Update, P!StopsRunning,
                 P!Closing, P!CloseSnapshots, P!CloseFinishes, mainVars, runnerVars
  <2> QED
    BY <2>1
<1>11. CASE Exited \/ UNCHANGED gauVars
  BY <1>11 DEF Exited, gauVars, mainVars, runnerVars
<1> QED
  BY <1>1, <1>2, <1>3, <1>4, <1>5, <1>6, <1>7, <1>8, <1>9, <1>10, <1>11
  DEF GauNext, Main
-----------------------------------------------------------------------------
(* The counters against the output: what the writer has let through is     *)
(* counted, in total and, unless a write has failed, by provider.          *)
PerProvider(p) == Cardinality({k \in 1..Len(lines) : lines[k].provider = p})

Pending == IF writer = "write" THEN 1 ELSE 0
PendingOf(p) == IF writer = "write" /\ W!Current.provider = p THEN 1 ELSE 0

TalliesInv ==
  ShowProgress =>
    /\ counts.urls = Len(lines) + Pending + lost
    /\ lost = 0 => \A p \in Providers :
                     P!Get(counts.byProvider, p) = PerProvider(p) + PendingOf(p)

(* A count that is put can be got, and the others are as they were.        *)
LEMMA PutThenGet ==
  \A m, q, v, p : P!Get(P!Put(m, q, v), p) = IF p = q THEN v ELSE P!Get(m, p)
BY DEF P!Get, P!Put

(* The counts by provider after a callback.                                *)
LEMMA TalliesAfter ==
  ASSUME IsCounts(counts)
  PROVE  /\ \A n \in Nat : P!WorkQueued(n) =>
              counts'.urls = counts.urls /\ counts'.byProvider = counts.byProvider
         /\ \A q, err : P!WorkCompleted(q, err) =>
              /\ counts'.urls = counts.urls
              /\ \A p : P!Get(counts'.byProvider, p) = P!Get(counts.byProvider, p)
         /\ \A q, ext : P!URLEmitted(q, ext) =>
              /\ counts'.urls = counts.urls + 1
              /\ \A p : P!Get(counts'.byProvider, p)
                          = IF p = q THEN P!Get(counts.byProvider, p) + 1
                                     ELSE P!Get(counts.byProvider, p)
<1> USE DEF IsCounts
<1>1. ASSUME NEW n \in Nat, P!WorkQueued(n)
      PROVE  counts'.urls = counts.urls /\ counts'.byProvider = counts.byProvider
  BY <1>1 DEF P!WorkQueued
<1>2. ASSUME NEW q, NEW err, P!WorkCompleted(q, err)
      PROVE  /\ counts'.urls = counts.urls
             /\ \A p : P!Get(counts'.byProvider, p) = P!Get(counts.byProvider, p)
  <2> DEFINE m == P!Put(counts.byProvider, q, P!Get(counts.byProvider, q))
             e == IF err # "nil" THEN counts.errors + 1 ELSE counts.errors
  <2>1. counts' = [counts EXCEPT !.done = @ + 1, !.errors = e, !.byProvider = m]
    BY <1>2 DEF P!WorkCompleted
  <2>2. \A p : P!Get(m, p) = P!Get(counts.byProvider, p)
    BY PutThenGet
  <2> HIDE DEF m, e
  <2>3. counts' = [total |-> counts.total, done |-> counts.done + 1,
                   errors |-> e, urls |-> counts.urls,
                   byProvider |-> m, byExtension |-> counts.byExtension]
    BY <2>1
  <2> QED
    BY <2>2, <2>3
<1>3. ASSUME NEW q, NEW ext, P!URLEmitted(q, ext)
      PROVE  /\ counts'.urls = counts.urls + 1
             /\ \A p : P!Get(counts'.byProvider, p)
                         = IF p = q THEN P!Get(counts.byProvider, p) + 1
                                    ELSE P!Get(counts.byProvider, p)
  <2> DEFINE m == P!Put(counts.byProvider, q, P!Get(counts.byProvider, q) + 1)
             b == P!Bucket(ext)
             e == P!Put(counts.byExtension, b, P!Get(counts.byExtension, b) + 1)
  <2>1. counts' = [counts EXCEPT !.urls = @ + 1, !.byProvider = m, !.byExtension = e]
    BY <1>3 DEF P!URLEmitted
  <2>2. \A p : P!Get(m, p) = IF p = q THEN P!Get(counts.byProvider, p) + 1
                                      ELSE P!Get(counts.byProvider, p)
    BY PutThenGet
  <2> HIDE DEF m, e
  <2>3. counts' = [total |-> counts.total, done |-> counts.done,
                   errors |-> counts.errors, urls |-> counts.urls + 1,
                   byProvider |-> m, byExtension |-> e]
    BY <2>1
  <2> QED
    BY <2>2, <2>3
<1> QED
  BY <1>1, <1>2, <1>3

(* Steps that neither write a line nor count a URL.                        *)
LEMMA TalliesFrame ==
  ASSUME TalliesInv, UNCHANGED <<lines, lost>>,
         writer # "write", writer' # "write",
         ShowProgress => counts'.urls = counts.urls,
         ShowProgress => \A p : P!Get(counts'.byProvider, p) = P!Get(counts.byProvider, p)
  PROVE  TalliesInv'
BY DEF TalliesInv, Pending, PendingOf, PerProvider

(* Likewise while the writer waits for its Write to return.                *)
LEMMA TalliesWait ==
  ASSUME TalliesInv, UNCHANGED <<lines, lost, writer, received>>,
         ShowProgress => counts'.urls = counts.urls,
         ShowProgress => \A p : P!Get(counts'.byProvider, p) = P!Get(counts.byProvider, p)
  PROVE  TalliesInv'
BY DEF TalliesInv, Pending, PendingOf, PerProvider, W!Current

(* The lines of a provider can be counted.                                 *)
LEMMA LinesCounted ==
  ASSUME NEW S, lines \in Seq(S)
  PROVE  \A p : /\ IsFiniteSet({k \in 1..Len(lines) : lines[k].provider = p})
                /\ PerProvider(p) \in Nat
<1>1. IsFiniteSet(1..Len(lines))
  BY FS_Interval, Len(lines) \in Nat
<1>2. \A p : {k \in 1..Len(lines) : lines[k].provider = p} \subseteq 1..Len(lines)
  OBVIOUS
<1> QED
  BY <1>1, <1>2, FS_Subset, FS_CardinalityType DEF PerProvider

(* One more line of the provider of r.                                     *)
LEMMA PerProviderGrows ==
  ASSUME NEW S, lines \in Seq(S), NEW r, lines' = Append(lines, r), r \in S
  PROVE  \A p : /\ PerProvider(p) \in Nat
                /\ PerProvider(p)' = PerProvider(p) + (IF r.provider = p THEN 1 ELSE 0)
<1> SUFFICES ASSUME NEW p
             PROVE  /\ PerProvider(p) \in Nat
                    /\ PerProvider(p)' = PerProvider(p) + (IF r.provider = p THEN 1 ELSE 0)
  OBVIOUS
<1> DEFINE n == Len(lines)
           old == {k \in 1..n : lines[k].provider = p}
           new == {k \in 1..n + 1 : lines'[k].provider = p}
<1>1. /\ n \in Nat /\ Len(lines') = n + 1 /\ lines'[n + 1] = r
      /\ \A k \in 1..n : lines'[k] = lines[k]
  OBVIOUS
<1>2. IsFiniteSet(old) /\ Cardinality(old) \in Nat
  BY LinesCounted DEF PerProvider
<1>3. n + 1 \notin old
  BY <1>1
<1>4. new = IF r.provider = p THEN old \cup {n + 1} ELSE old
  <2> HIDE DEF n
  <2>1. \A k : k \in 1..n + 1 <=> k \in 1..n \/ k = n + 1
    BY <1>1
  <2> QED
    BY <1>1, <2>1
<1>5. Cardinality(new) = Cardinality(old) + (IF r.provider = p THEN 1 ELSE 0)
  <2> HIDE DEF new, old
  <2>1. CASE r.provider = p
    BY <1>2, <1>3, <1>4, <2>1, FS_AddElement
  <2>2. CASE r.provider # p
    BY <1>2, <1>4, <2>2
  <2> QED
    BY <2>1, <2>2
<1> QED
  BY <1>1, <1>2, <1>5 DEF PerProvider

(* Every URL that survives is counted once, and becomes a line or is lost. *)
LEMMA TalliesNext ==
  ASSUME RunInv, WP!WriterInv, TalliesInv, [GauNext]_gauVars
  PROVE  TalliesInv'
<1> USE DEF writerVars, progressVars
<1>0. /\ IsCounts(counts) /\ RunnerTypeOK /\ RunnerInv
      /\ received \in Seq(WP!Incoming) /\ lines \in Seq(WP!Incoming)
      /\ Len(lines) \in Nat /\ lost \in Nat /\ counts.urls \in Nat
      /\ writer \in {"filter", "write"} => W!Current \in WP!Incoming
  BY WriterTyped DEF RunInv, DisplayInv, IsCounts
<1>1. CASE \/ QueueAll \/ Scan
  <2>1. /\ NumDomains * NumProviders \in Nat /\ NumProviders \in Nat
        /\ UNCHANGED <<lines, lost, writer, received>>
    <3>1. NumDomains \in Nat /\ NumProviders \in Nat
      BY GauAssumption
    <3> QED
      BY <1>1, <3>1 DEF QueueAll, Scan
  <2>2. PICK n \in Nat : Queue(n)
    BY <1>1, <2>1 DEF QueueAll, Scan
  <2>3. counts'.urls = counts.urls /\ counts'.byProvider = counts.byProvider
    BY <1>0, <2>2, TalliesAfter DEF Queue
  <2> QED
    BY <2>1, <2>3, TalliesWait
<1>2. CASE \/ ScanEnds \/ ScanFails \/ AllSent \/ CloseWorkChan \/ CloseResultChan
           \/ CloseDisplay \/ Summarize \/ ReturnScanError \/ Return
  <2>1. UNCHANGED <<lines, lost, writer, received, counts>>
    BY <1>2 DEF ScanEnds, ScanFails, AllSent, CloseWorkChan, CloseResultChan,
                W!CloseResults, CloseDisplay, P!Close, Summarize, P!WriteSummary,
                ReturnScanError, Return
  <2> QED
    BY <2>1, TalliesWait
<1>3. ASSUME NEW w \in Workers, SendWork(w) \/ WorkerOnly(w) \/ ForwarderOnly(w)
      PROVE  TalliesInv'
  <2>1. UNCHANGED <<lines, lost, writer, received, counts>>
    BY <1>3 DEF SendWork, WorkerOnly, ForwarderOnly
  <2> QED
    BY <2>1, TalliesWait
<1>4. ASSUME NEW w \in Workers, Deliver(w) PROVE TalliesInv'
  <2>1. /\ writer = "range" /\ writer' = "filter" /\ UNCHANGED <<lines, lost, counts>>
    BY <1>4 DEF Deliver, W!Receives
  <2> QED
    BY <2>1, TalliesFrame
<1>5. ASSUME NEW w \in Workers, Complete(w) PROVE TalliesInv'
  <2>1. UNCHANGED <<lines, lost, writer, received>>
    BY <1>5 DEF Complete
  <2>2. /\ ShowProgress => counts'.urls = counts.urls
        /\ ShowProgress => \A p : P!Get(counts'.byProvider, p)
                                    = P!Get(counts.byProvider, p)
    BY <1>0, <1>5, TalliesAfter DEF Complete
  <2> QED
    BY <2>1, <2>2, TalliesWait
<1>6. CASE Filter
  <2>1. /\ writer = "filter" /\ writer' \in {"range", "write"}
        /\ UNCHANGED <<lines, lost, received>>
    BY <1>6 DEF Filter, W!Filters
  <2>2. CASE writer' = "range"
    <3>1. counts' = counts
      BY <1>6, <2>2 DEF Filter
    <3> QED
      BY <2>1, <2>2, <3>1, TalliesFrame
  <2>3. CASE writer' = "write" /\ ShowProgress
    <3> DEFINE q == W!Current.provider
    <3>1. P!URLEmitted(q, ExtOf[W!Current.url])
      BY <1>6, <2>3 DEF Filter
    <3>2. W!Current' = W!Current
      BY <2>1 DEF W!Current
    <3> HIDE DEF q
    <3>3. /\ counts'.urls = counts.urls + 1
          /\ \A p : P!Get(counts'.byProvider, p)
                      = IF p = q THEN P!Get(counts.byProvider, p) + 1
                                 ELSE P!Get(counts.byProvider, p)
      BY <1>0, <3>1, TalliesAfter
    <3>4. \A p : PerProvider(p)' = PerProvider(p)
      BY <2>1 DEF PerProvider
    <3>5. \A p : PerProvider(p) \in Nat
      BY <1>0, LinesCounted
    <3>6. \A p : PendingOf(p) = 0 /\ PendingOf(p)' = IF p = q THEN 1 ELSE 0
      BY <2>1, <2>3, <3>2 DEF PendingOf, q
    <3>7. Pending = 0 /\ Pending' = 1
      BY <2>1, <2>3 DEF Pending
    <3>8. counts'.urls = Len(lines') + Pending' + lost'
      BY <1>0, <2>1, <2>3, <3>3, <3>7 DEF TalliesInv
    <3>9. ASSUME lost' = 0, NEW p \in Providers
          PROVE  P!Get(counts'.byProvider, p) = PerProvider(p)' + PendingOf(p)'
      <4>1. P!Get(counts.byProvider, p) = PerProvider(p) + PendingOf(p)
        BY <2>1, <2>3, <3>9 DEF TalliesInv
      <4> QED
        BY <3>3, <3>4, <3>5, <3>6, <4>1
    <3> QED
      BY <3>8, <3>9 DEF TalliesInv
  <2>4. CASE ~ShowProgress
    BY <2>4 DEF TalliesInv
  <2> QED
    BY <2>1, <2>2, <2>3, <2>4
<1>7. CASE WriterOnly
  <2>1. counts' = counts
    BY <1>7 DEF WriterOnly
  <2>2. CASE W!Writes
    <3> DEFINE q == W!Current.provider
    <3>1. /\ writer = "write" /\ writer' = "range" /\ lost' = lost
          /\ lines' = Append(lines, W!Current) /\ W!Current \in WP!Incoming
      BY <1>0, <2>2 DEF W!Writes
    <3>2. \A p : /\ PerProvider(p) \in Nat
                 /\ PerProvider(p)' = PerProvider(p) + (IF q = p THEN 1 ELSE 0)
      BY <1>0, <3>1, PerProviderGrows
    <3>3. \A p : PendingOf(p) = (IF q = p THEN 1 ELSE 0) /\ PendingOf(p)' = 0
      BY <3>1 DEF PendingOf
    <3>4. Pending = 1 /\ Pending' = 0 /\ Len(lines') = Len(lines) + 1
      BY <1>0, <3>1 DEF Pending
    <3> HIDE DEF q
    <3>5. ASSUME ShowProgress PROVE counts'.urls = Len(lines') + Pending' + lost'
      BY <1>0, <2>1, <3>1, <3>4, <3>5 DEF TalliesInv
    <3>6. ASSUME ShowProgress, lost' = 0, NEW p \in Providers
          PROVE  P!Get(counts'.byProvider, p) = PerProvider(p)' + PendingOf(p)'
      <4>1. P!Get(counts.byProvider, p) = PerProvider(p) + PendingOf(p)
        BY <3>1, <3>6 DEF TalliesInv
      <4> QED
        BY <2>1, <3>2, <3>3, <4>1
    <3> QED
      BY <3>5, <3>6 DEF TalliesInv
  <2>3. CASE W!WriteFails
    <3>1. /\ writer = "write" /\ writer' \in {"range", "done"} /\ lost' = lost + 1
          /\ lines' = lines
      BY <2>3 DEF W!WriteFails, W!AfterFailedRecord
    <3>2. Pending = 1 /\ Pending' = 0
      BY <3>1 DEF Pending
    <3> QED
      BY <1>0, <2>1, <3>1, <3>2 DEF TalliesInv
  <2>4. CASE W!WriterReturns
    <3>1. writer = "range" /\ writer' = "done" /\ UNCHANGED <<lines, lost>>
      BY <2>4 DEF W!WriterReturns
    <3> QED
      BY <2>1, <3>1, TalliesFrame
  <2> QED
    BY <1>7, <2>2, <2>3, <2>4 DEF WriterOnly
<1>8. CASE DisplayOnly \/ Exited \/ UNCHANGED gauVars
  <2>1. UNCHANGED <<lines, lost, writer, received, counts>>
    BY <1>8 DEF DisplayOnly, P!Running, P!Tick, P!Update, P!StopsRunning,
                P!Closing, P!CloseSnapshots, P!CloseFinishes, Exited, gauVars
  <2> QED
    BY <2>1, TalliesWait
<1> QED
  BY <1>1, <1>2, <1>3, <1>4, <1>5, <1>6, <1>7, <1>8 DEF GauNext, Main
-----------------------------------------------------------------------------
(* What a run keeps from the providers to the output.                      *)
OutputInv == RunInv /\ WP!WriterInv /\ ReceivedInv /\ FetchedInv /\ EndInv /\ TalliesInv

(* A run starts with nothing received, reported, counted or written.       *)
LEMMA OutputInit ==
  ASSUME GauInit
  PROVE  ReceivedInv /\ FetchedInv /\ EndInv /\ TalliesInv
<1>1. /\ received = <<>> /\ lines = <<>> /\ lost = 0 /\ writer = "range"
      /\ writeErr = "none" /\ ~ctxDone /\ closer = "open" /\ returned = "none"
      /\ main = IF FromStdin THEN "scan" ELSE "queue"
      /\ out = [i \in Items |-> <<>>] /\ report = [i \in Items |-> "none"]
      /\ counts.urls = 0 /\ counts.byProvider = <<>>
  BY DEF GauInit, RunnerInit, W!WriterInit, P!ProgressInit, P!NoCounts
<1>2. Len(received) = 0 /\ Len(lines) = 0 /\ \A i \in Items : Len(out[i]) = 0
  BY <1>1
<1>3. ReceivedInv /\ FetchedInv /\ EndInv
  BY <1>1, <1>2 DEF ReceivedInv, FetchedInv, EndInv
<1>4. \A p : PerProvider(p) = 0 /\ PendingOf(p) = 0 /\ P!Get(counts.byProvider, p) = 0
  <2>1. \A p : {k \in 1..Len(lines) : lines[k].provider = p} = {}
    BY <1>2
  <2>2. \A p : PerProvider(p) = 0
    BY <2>1, FS_EmptySet DEF PerProvider
  <2>3. \A p : P!Get(counts.byProvider, p) = 0
    BY <1>1 DEF P!Get
  <2> QED
    BY <1>1, <2>2, <2>3 DEF PendingOf
<1>5. TalliesInv
  BY <1>1, <1>2, <1>4 DEF TalliesInv, Pending
<1> QED
  BY <1>3, <1>5

(* The invariant of a run with its output.                                 *)
THEOREM OutputInvariant == GauSpec => []OutputInv
<1>1. GauInit => ReceivedInv /\ FetchedInv /\ EndInv /\ TalliesInv
  BY OutputInit
<1>2. /\ RunInv /\ WP!WriterInv /\ ReceivedInv /\ FetchedInv /\ EndInv /\ TalliesInv
      /\ [GauNext]_gauVars
      => ReceivedInv' /\ FetchedInv' /\ EndInv' /\ TalliesInv'
  BY ReceivedNext, FetchedNext, EndNext, TalliesNext DEF RunInv
<1> QED
  BY <1>1, <1>2, RunInvariant, WriterInvariantOfRun, PTL DEF GauSpec, OutputInv

(* The writer's modules count sets as the others do.                       *)
LEMMA SameCardinality ==
  \A S : W!Cardinality(S) = Cardinality(S) /\ WP!Cardinality(S) = Cardinality(S)
BY DEF Cardinality, W!Cardinality, WP!Cardinality

(* Hence, in every state of a run, what OutputProofs says of the writer.   *)
LEMMA WriterExact ==
  ASSUME OutputInv
  PROVE  W!Rank(W!Processed)
           = Len(lines) + (IF writer = "write" THEN 1 ELSE 0) + lost
<1>1. WP!Rank(WP!Processed) = Len(lines) + (IF writer = "write" THEN 1 ELSE 0) + lost
  BY DEF OutputInv, WP!WriterInv, WP!LinesInv, WP!Pending
<1>2. W!Processed = WP!Processed
  BY DEF W!Processed, WP!Processed
<1>3. \A n : W!Page(n) = WP!Page(n) /\ (W!Sighting(n) <=> WP!Sighting(n))
  BY DEF W!Page, WP!Page, W!Sighting, WP!Sighting, W!passesFilters, WP!passesFilters,
         W!matchesAnyExt, WP!matchesAnyExt, W!matchesAnyRegex, WP!matchesAnyRegex,
         W!isBlacklisted, WP!isBlacklisted, W!urlExt, WP!urlExt
<1>4. \A m, n : W!KeysSince(m, n) = WP!KeysSince(m, n)
  BY <1>3 DEF W!KeysSince, WP!KeysSince
<1>5. \A k, n : W!Recent(k, n) <=> WP!Recent(k, n)
  BY <1>3, <1>4, SameCardinality DEF W!Recent, WP!Recent
<1>6. \A n : W!Due(n) <=> WP!Due(n)
  BY <1>3, <1>5 DEF W!Due, WP!Due
<1>7. \A n : W!Rank(n) = WP!Rank(n)
  BY <1>6, SameCardinality DEF W!Rank, WP!Rank
<1> QED
  BY <1>1, <1>2, <1>7

(* The results received, when every report is in, are what was emitted.    *)
LEMMA AllReceived ==
  ASSUME OutputInv, \A i \in Items : report[i] # "none"
  PROVE  /\ {received[k].url : k \in 1..Len(received)} = Emitted
         /\ Len(received) = Cardinality(Emitted)
<1> DEFINE n == Len(received)
<1>1. /\ n \in Nat /\ received \in Seq(WP!Incoming)
      /\ ReceivedInv /\ RunnerTypeOK
  BY WriterTyped DEF OutputInv, RunInv
<1>2. \A i \in Items : Len(out[i]) = emitted[i] /\ Len(out[i]) \in Nat
  BY <1>1 DEF OutputInv, FetchedInv, RunnerTypeOK
<1>3. ASSUME NEW k \in 1..n PROVE received[k].url \in Emitted
  <2>1. received[k].url \in Urls /\ received[k].url.n <= Len(out[received[k].url.item])
    BY <1>1 DEF ReceivedInv
  <2>2. received[k].url.item \in Items
    BY <2>1 DEF Urls
  <2> QED
    BY <1>2, <2>1, <2>2 DEF Emitted
<1>4. ASSUME NEW u \in Emitted PROVE \E k \in 1..n : received[k].url = u
  <2>1. /\ u \in Urls /\ u.n <= emitted[u.item]
        /\ u.item \in Items /\ u.n \in 1..MaxUrls /\ u = [item |-> u.item, n |-> u.n]
    BY DEF Emitted, Urls
  <2>2. u.n \in 1..Len(out[u.item])
    BY <1>2, <2>1, RunnerAssumption
  <2> QED
    BY <1>1, <2>1, <2>2 DEF ReceivedInv
<1>5. {received[k].url : k \in 1..n} = Emitted
  BY <1>3, <1>4
<1>6. [k \in 1..n |-> received[k].url] \in Bijection(1..n, Emitted)
  <2> DEFINE f == [k \in 1..n |-> received[k].url]
  <2>1. f \in [1..n -> Emitted]
    BY <1>3
  <2>2. \A k, m \in 1..n : f[k] = f[m] => k = m
    BY <1>1 DEF ReceivedInv
  <2>3. \A u \in Emitted : \E k \in 1..n : f[k] = u
    BY <1>4
  <2> HIDE DEF f
  <2>4. f \in Bijection(1..n, Emitted)
    BY <2>1, <2>2, <2>3 DEF Bijection, Injection, Surjection, IsInjective
  <2> QED
    BY <2>4 DEF f
<1>7. Cardinality(Emitted) = n
  <2> HIDE DEF n
  <2> QED
    BY <1>1, <1>6, FS_CountingElements DEF ExistsBijection
<1> QED
  BY <1>5, <1>7

(* runGau returns nil only after every item was fetched and reported,      *)
(* every URL of every provider went through the writer, each once, and     *)
(* every URL that is due was written or lost to a failed write             *)
(* (main.go:102-152).                                                      *)
THEOREM NilCompletes == GauSpec => []NilMeansComplete
<1>1. ASSUME OutputInv, returned = "nil" PROVE NilMeansComplete
  <2>1. main = "returned" /\ writeErr = "nil" /\ writer = "done"
    BY <1>1 DEF OutputInv, EndInv, Gone
  <2>2. next = Total + 1 /\ AllExited
    BY <1>1, <2>1 DEF OutputInv, RunInv, MainInv, Finishing, Joined, ScanFailed
  <2>3. unsent = {}
    <3>1. scanned \in Nat
      <4>1. NumDomains \in Nat
        BY GauAssumption
      <4> QED
        BY <1>1, <4>1 DEF OutputInv, RunInv, MainInv, SendInv
    <3>2. Items = 1..Total /\ Total \in Nat
      BY <3>1, Products
    <3>3. unsent \subseteq Items /\ \A i \in Items : i \in unsent <=> i >= next
      BY <1>1 DEF OutputInv, RunInv, MainInv, SendInv
    <3> QED
      BY <2>2, <3>2, <3>3
  <2>4. \A i \in Items : report[i] # "none"
    <3>1. \A w \in Workers : ~Busy(w)
      BY <2>2 DEF Busy, AllExited
    <3>2. \A i \in Items : ItemInv(i)
      BY <1>1 DEF OutputInv, RunInv, RunnerInv
    <3> QED
      BY <2>3, <3>1, <3>2 DEF ItemInv
  <2>5. \A i \in Items : Len(out[i]) = emitted[i]
    BY <1>1, <2>4 DEF OutputInv, FetchedInv
  <2>6. /\ {received[k].url : k \in 1..Len(received)} = Emitted
        /\ Len(received) = Cardinality(Emitted)
    BY <1>1, <2>4, AllReceived
  <2>7. Len(lines) + lost = Cardinality({n \in 1..Len(received) : W!Due(n)})
    <3>1. W!Processed = Len(received)
      BY <2>1 DEF W!Processed
    <3>2. W!Rank(Len(received)) = Len(lines) + 0 + lost
      BY <1>1, <2>1, <3>1, WriterExact
    <3>3. Len(lines) \in Nat /\ lost \in Nat
      BY <1>1, WriterTyped DEF OutputInv
    <3>4. W!Rank(Len(received)) = Cardinality({n \in 1..Len(received) : W!Due(n)})
      BY SameCardinality DEF W!Rank
    <3> QED
      BY <3>2, <3>3, <3>4
  <2> QED
    BY <2>4, <2>5, <2>6, <2>7 DEF NilMeansComplete
<1>2. OutputInv => NilMeansComplete
  BY <1>1 DEF NilMeansComplete
<1> QED
  BY <1>2, OutputInvariant, PTL

(* The summary counts what is in the output, and the writer has finished   *)
(* when main prints it (main.go:137-146).                                  *)
THEOREM SummaryTellsOutput == GauSpec => []SummaryIsOutput
<1>1. ASSUME OutputInv, closer = "summarized" PROVE SummaryIsOutput
  <2>1. summary = counts /\ writer = "done"
    BY <1>1 DEF OutputInv, EndInv
  <2>2. ShowProgress
    BY <1>1 DEF OutputInv, RunInv, CountInv, DisplayIs
  <2>3. /\ lines \in Seq(WP!Incoming) /\ Len(lines) \in Nat /\ lost \in Nat
        /\ \A p : PerProvider(p) \in Nat
    BY <1>1, WriterTyped, LinesCounted DEF OutputInv
  <2>4. Pending = 0 /\ \A p : PendingOf(p) = 0
    BY <2>1 DEF Pending, PendingOf
  <2>5. counts.urls = Len(lines) + lost
    BY <1>1, <2>2, <2>3, <2>4 DEF OutputInv, TalliesInv
  <2>6. lost = 0 => \A p \in Providers : P!Get(counts.byProvider, p) = PerProvider(p)
    BY <1>1, <2>2, <2>3, <2>4 DEF OutputInv, TalliesInv
  <2> QED
    BY <2>1, <2>5, <2>6 DEF SummaryIsOutput, PerProvider
<1>2. OutputInv => SummaryIsOutput
  BY <1>1 DEF SummaryIsOutput
<1> QED
  BY <1>2, OutputInvariant, PTL
=============================================================================
