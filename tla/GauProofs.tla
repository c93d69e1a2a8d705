----------------------------- MODULE GauProofs -----------------------------
(***************************************************************************)
(* A run of the command uses the worker pool as Runner says a client may,  *)
(* so what RunnerProofs shows of the pool holds in the run; main closes    *)
(* the Result channel only when nobody can send on it any more; and what   *)
(* the user sees of it: the bar never goes back and stands still once the  *)
(* summary may be printed, the work done never exceeds the work announced, *)
(* and a summary tells of all items.                                       *)
(***************************************************************************)
EXTENDS Gau, RunnerProofs, FiniteSetTheorems

USE DEF gauVars, mainVars, runnerVars, clientVars, poolVars, history

(* Every step of a run is a step of the pool and its client, or none.      *)
LEMMA StepOfPool ==
  ASSUME unsent \subseteq Items, [GauNext]_gauVars
  PROVE  [RunnerNext]_runnerVars /\ (unsent \subseteq Items)'
<1> DEFINE Goal == [RunnerNext]_runnerVars /\ (unsent \subseteq Items)'
<1>1. ASSUME Main PROVE Goal
  <2>1. CASE CloseWorkChan
    BY <2>1 DEF CloseWorkChan, CloseWork, RunnerNext
  <2>2. CASE ReturnScanError \/ Return
    BY <2>2 DEF ReturnScanError, Return, Cancel, RunnerNext
  <2>3. CASE QueueAll \/ Scan \/ ScanEnds \/ ScanFails \/ AllSent
    BY <2>3 DEF QueueAll, Scan, ScanEnds, ScanFails, AllSent
  <2>4. CASE CloseResultChan \/ CloseDisplay \/ Summarize
    BY <2>4 DEF CloseResultChan, CloseDisplay, Summarize
  <2> QED
    BY <1>1, <2>1, <2>2, <2>3, <2>4 DEF Main
<1>2. ASSUME NEW w \in Workers, SendWork(w) PROVE Goal
  <2>1. WorkerReceives(w, next) /\ next \in Items
    BY <1>2 DEF SendWork, WorkerReceives
  <2> QED
    BY <2>1 DEF WorkerReceives, RunnerNext
<1>3. ASSUME NEW w \in Workers, WorkerOnly(w) PROVE Goal
  <2>1. WorkerExits(w) \/ Fetch(w)
    BY <1>3 DEF WorkerOnly
  <2>2. RunnerNext
    BY <2>1 DEF RunnerNext
  <2>3. UNCHANGED unsent
    BY <2>1 DEF WorkerExits, Fetch, FetchSends, FetchReturns
  <2> QED
    BY <2>2, <2>3
<1>4. ASSUME NEW w \in Workers, ForwarderOnly(w) PROVE Goal
  <2>1. Forwarder(w)
    BY <1>4 DEF ForwarderOnly
  <2>2. RunnerNext
    BY <2>1 DEF RunnerNext
  <2>3. UNCHANGED unsent
    BY <2>1 DEF Forwarder, ForwarderReceives, ForwarderCancelled,
                ForwarderDrains, ForwarderExits
  <2> QED
    BY <2>2, <2>3
<1>5. ASSUME NEW w \in Workers, Deliver(w) PROVE Goal
  BY <1>5 DEF Deliver, ForwarderSends, RunnerNext
<1>6. ASSUME NEW w \in Workers, Complete(w) PROVE Goal
  BY <1>6 DEF Complete, WorkCompletes, RunnerNext
<1>7. ASSUME Filter \/ WriterOnly \/ DisplayOnly PROVE Goal
  BY <1>7 DEF Filter, WriterOnly, DisplayOnly
<1>8. ASSUME Exited \/ UNCHANGED gauVars PROVE Goal
  BY <1>8 DEF Exited
<1> QED
  BY <1>1, <1>2, <1>3, <1>4, <1>5, <1>6, <1>7, <1>8 DEF GauNext

(* A run is a behaviour of the pool's specification.                       *)
THEOREM RunIsOfPool == GauSpec => RunnerSpec
<1>1. GauInit => RunnerInit /\ unsent \subseteq Items
  BY DEF GauInit, RunnerInit
<1>2. unsent \subseteq Items /\ [GauNext]_gauVars
        => [RunnerNext]_runnerVars /\ (unsent \subseteq Items)'
  BY StepOfPool
<1> QED
  BY <1>1, <1>2, PTL DEF GauSpec, RunnerSpec

(* Only main closes results, and only when Wait has returned.              *)
ClosedMeansExited == resultsClosed => AllExited

(* No step of a run breaks that.                                           *)
LEMMA ClosedMeansExitedNext ==
  ASSUME RunnerTypeOK, ClosedMeansExited, [GauNext]_gauVars
  PROVE  ClosedMeansExited'
<1> USE DEF ClosedMeansExited, AllExited
<1>1. ASSUME Main PROVE ClosedMeansExited'
  <2>1. CASE CloseResultChan
    BY <2>1 DEF CloseResultChan, WaitReturns
  <2>2. CASE CloseWorkChan
    BY <2>2 DEF CloseWorkChan, CloseWork, writerVars
  <2>3. CASE ReturnScanError \/ Return
    BY <2>3 DEF ReturnScanError, Return, Cancel, writerVars
  <2>4. CASE QueueAll \/ Scan \/ ScanEnds \/ ScanFails \/ AllSent
             \/ CloseDisplay \/ Summarize
    BY <2>4 DEF QueueAll, Scan, ScanEnds, ScanFails, AllSent, CloseDisplay,
                Summarize, writerVars
  <2> QED
    BY <1>1, <2>1, <2>2, <2>3, <2>4 DEF Main
<1>2. ASSUME NEW w \in Workers, SendWork(w) PROVE ClosedMeansExited'
  BY <1>2 DEF SendWork, WorkerReceives, writerVars
<1>3. ASSUME NEW w \in Workers, WorkerOnly(w) PROVE ClosedMeansExited'
  <2>1. UNCHANGED resultsClosed
    BY <1>3 DEF WorkerOnly, writerVars
  <2>2. resultsClosed => worker[w] = "exited"
    OBVIOUS
  <2> QED
    BY <1>3, <2>1, <2>2 DEF WorkerOnly, WorkerExits, Fetch, FetchSends, FetchReturns
<1>4. ASSUME NEW w \in Workers, ForwarderOnly(w) PROVE ClosedMeansExited'
  BY <1>4 DEF ForwarderOnly, Forwarder, ForwarderReceives, ForwarderCancelled,
              ForwarderDrains, ForwarderExits, writerVars
<1>5. ASSUME NEW w \in Workers, Deliver(w) PROVE ClosedMeansExited'
  BY <1>5 DEF Deliver, ForwarderSends, W!Receives
<1>6. ASSUME NEW w \in Workers, Complete(w) PROVE ClosedMeansExited'
  BY <1>6 DEF Complete, WorkCompletes, writerVars
<1>7. ASSUME Filter \/ WriterOnly \/ DisplayOnly PROVE ClosedMeansExited'
  BY <1>7 DEF Filter, WriterOnly, DisplayOnly, W!Filters, W!Writes, W!WriteFails,
              W!WriterReturns, writerVars
<1>8. ASSUME Exited \/ UNCHANGED gauVars PROVE ClosedMeansExited'
  BY <1>8 DEF Exited, writerVars
<1> QED
  BY <1>1, <1>2, <1>3, <1>4, <1>5, <1>6, <1>7, <1>8 DEF GauNext

(* When results is closed no forwarder has a URL left to send: the send on *)
(* a closed channel that would panic the run cannot happen.                *)
THEOREM NoSendPanics == GauSpec => []NoSendOnClosedResults
<1>1. GauInit => ClosedMeansExited
  BY DEF GauInit, W!WriterInit, ClosedMeansExited
<1>2. RunnerTypeOK /\ ClosedMeansExited /\ [GauNext]_gauVars
        => ClosedMeansExited'
  BY ClosedMeansExitedNext
<1>3. ClosedMeansExited /\ RunnerTypeOK /\ RunnerInv => NoSendOnClosedResults
  BY DEF ClosedMeansExited, AllExited, RunnerInv, PipelineInv, Busy,
         NoSendOnClosedResults
<1> QED
  BY <1>1, <1>2, <1>3, RunIsOfPool, RunnerInvariance, PTL DEF GauSpec
-----------------------------------------------------------------------------
HIDE DEF gauVars, mainVars, runnerVars, clientVars, poolVars, history

(* What a step of a run is to the Tracker and the Display.                 *)
ProgressStep ==
  \/ \E n \in Nat : P!WorkQueued(n)
  \/ \E p, err : P!WorkCompleted(p, err)
  \/ \E p, ext : P!URLEmitted(p, ext)
  \/ P!Running \/ P!Close \/ P!Closing \/ P!WriteSummary
  \/ UNCHANGED progressVars

IsCounts(c) ==
  /\ c = [total |-> c.total, done |-> c.done, errors |-> c.errors,
          urls |-> c.urls,
          byProvider |-> c.byProvider, byExtension |-> c.byExtension]
  /\ c.total \in Nat /\ c.done \in Nat /\ c.errors \in Nat /\ c.urls \in Nat

Within(s, c) == s.total <= c.total /\ s.done <= c.done /\ s.urls <= c.urls

Under(b, c) == b.max <= c.total /\ b.done <= c.done /\ b.urls <= c.urls

(* A snapshot lies between the bar and the counters while it waits to be   *)
(* rendered; Close takes its own only after the goroutine has stopped.     *)
DisplayInv ==
  /\ IsCounts(counts) /\ IsCounts(snap) /\ IsCounts(last)
  /\ bar \in [max : Nat, done : Nat, urls : Nat]
  /\ Under(bar, counts)
  /\ display = "update" => Under(bar, snap) /\ Within(snap, counts)
  /\ closer = "final" => Under(bar, last) /\ Within(last, counts)
  /\ closer \in {"final", "closed", "summarized"} => display = "stopped"

NoStepBack == bar'.done >= bar.done /\ bar'.urls >= bar.urls /\ bar'.max >= bar.max

StandsStill == closer \in {"closed", "summarized"} => bar' = bar
-----------------------------------------------------------------------------
(* A step of a run is one of these to the progress component.              *)
LEMMA StepOfProgress ==
  ASSUME [GauNext]_gauVars
  PROVE  ProgressStep
<1> USE DEF progressVars
<1>1. NumDomains * NumProviders \in Nat /\ NumProviders \in Nat
  BY GauAssumption
<1>2. \A n \in Nat : Queue(n) => ProgressStep
  BY DEF Queue, ProgressStep
<1>3. ASSUME Main PROVE ProgressStep
  <2>1. CASE QueueAll
    BY <1>1, <1>2, <2>1 DEF QueueAll
  <2>2. CASE Scan
    BY <1>1, <1>2, <2>2 DEF Scan
  <2>3. CASE CloseDisplay
    BY <2>3 DEF CloseDisplay, ProgressStep
  <2>4. CASE Summarize
    BY <2>4 DEF Summarize, ProgressStep
  <2>5. CASE \/ ScanEnds \/ ScanFails \/ AllSent \/ CloseWorkChan
             \/ CloseResultChan \/ ReturnScanError \/ Return
    BY <2>5 DEF ScanEnds, ScanFails, AllSent, CloseWorkChan, CloseResultChan,
                ReturnScanError, Return, ProgressStep
  <2> QED
    BY <1>3, <2>1, <2>2, <2>3, <2>4, <2>5 DEF Main
<1>4. ASSUME NEW w \in Workers, Complete(w) PROVE ProgressStep
  BY <1>4 DEF Complete, ProgressStep
<1>5. ASSUME NEW w \in Workers,
             SendWork(w) \/ WorkerOnly(w) \/ ForwarderOnly(w) \/ Deliver(w)
      PROVE  ProgressStep
  BY <1>5 DEF SendWork, WorkerOnly, ForwarderOnly, Deliver, ProgressStep
<1>6. CASE Filter
  BY <1>6 DEF Filter, ProgressStep
<1>7. CASE WriterOnly \/ DisplayOnly \/ Exited \/ UNCHANGED gauVars
  BY <1>7 DEF WriterOnly, DisplayOnly, Exited, gauVars, ProgressStep
<1> QED
  BY <1>3, <1>4, <1>5, <1>6, <1>7 DEF GauNext

(* The counters after a callback.                                          *)
LEMMA CountsAfter ==
  ASSUME IsCounts(counts)
  PROVE  /\ \A p, err : P!WorkCompleted(p, err) =>
              /\ IsCounts(counts)' /\ counts'.total = counts.total
              /\ counts'.done = counts.done + 1 /\ counts'.urls = counts.urls
              /\ counts'.errors = IF err # "nil" THEN counts.errors + 1
                                                ELSE counts.errors
         /\ \A p, ext : P!URLEmitted(p, ext) =>
              /\ IsCounts(counts)' /\ counts'.total = counts.total
              /\ counts'.done = counts.done /\ counts'.urls = counts.urls + 1
              /\ counts'.errors = counts.errors
<1> USE DEF IsCounts
<1>1. ASSUME NEW p, NEW err, P!WorkCompleted(p, err)
      PROVE  /\ IsCounts(counts)' /\ counts'.total = counts.total
             /\ counts'.done = counts.done + 1 /\ counts'.urls = counts.urls
             /\ counts'.errors = IF err # "nil" THEN counts.errors + 1
                                               ELSE counts.errors
  <2>1. PICK m : counts' = [counts EXCEPT
                   !.done = @ + 1,
                   !.errors = IF err # "nil" THEN @ + 1 ELSE @,
                   !.byProvider = m]
    BY <1>1 DEF P!WorkCompleted
  <2>2. counts' = [total |-> counts.total, done |-> counts.done + 1,
                   errors |-> IF err # "nil" THEN counts.errors + 1
                                             ELSE counts.errors,
                   urls |-> counts.urls,
                   byProvider |-> m, byExtension |-> counts.byExtension]
    <3> DEFINE e == IF err # "nil" THEN counts.errors + 1 ELSE counts.errors
    <3>1. counts' = [counts EXCEPT !.done = @ + 1, !.errors = e, !.byProvider = m]
      BY <2>1
    <3> HIDE DEF e
    <3>2. counts' = [total |-> counts.total, done |-> counts.done + 1,
                     errors |-> e, urls |-> counts.urls,
                     byProvider |-> m, byExtension |-> counts.byExtension]
      BY <3>1
    <3> QED
      BY <3>2 DEF e
  <2> QED
    BY <2>2
<1>2. ASSUME NEW p, NEW ext, P!URLEmitted(p, ext)
      PROVE  /\ IsCounts(counts)' /\ counts'.total = counts.total
             /\ counts'.done = counts.done /\ counts'.urls = counts.urls + 1
             /\ counts'.errors = counts.errors
  <2>1. PICK m, e : counts' = [counts EXCEPT
                      !.urls = @ + 1, !.byProvider = m, !.byExtension = e]
    BY <1>2 DEF P!URLEmitted
  <2>2. counts' = [total |-> counts.total, done |-> counts.done,
                   errors |-> counts.errors, urls |-> counts.urls + 1,
                   byProvider |-> m, byExtension |-> e]
    BY <2>1
  <2> QED
    BY <2>2
<1> QED
  BY <1>1, <1>2

(* No such step breaks the invariant, moves the bar back, or moves it at   *)
(* all once Close is done.                                                 *)
LEMMA DisplayNext ==
  ASSUME DisplayInv, ProgressStep
  PROVE  DisplayInv' /\ NoStepBack /\ StandsStill
<1> USE DEF DisplayInv, IsCounts, Within, Under, NoStepBack, StandsStill
<1>1. ASSUME NEW n \in Nat, P!WorkQueued(n)
      PROVE  DisplayInv' /\ NoStepBack /\ StandsStill
  BY <1>1 DEF P!WorkQueued
<1>2. ASSUME NEW p, NEW err, P!WorkCompleted(p, err)
      PROVE  DisplayInv' /\ NoStepBack /\ StandsStill
  <2>1. /\ IsCounts(counts)' /\ counts'.total = counts.total
        /\ counts'.done = counts.done + 1 /\ counts'.urls = counts.urls
    BY <1>2, CountsAfter
  <2> QED
    BY <1>2, <2>1 DEF P!WorkCompleted
<1>3. ASSUME NEW p, NEW ext, P!URLEmitted(p, ext)
      PROVE  DisplayInv' /\ NoStepBack /\ StandsStill
  <2>1. /\ IsCounts(counts)' /\ counts'.total = counts.total
        /\ counts'.done = counts.done /\ counts'.urls = counts.urls + 1
    BY <1>3, CountsAfter
  <2> QED
    BY <1>3, <2>1 DEF P!URLEmitted
<1>4. CASE P!Tick
  BY <1>4 DEF P!Tick
<1>5. CASE P!Update
  BY <1>5 DEF P!Update, P!Updated
<1>6. CASE P!StopsRunning
  BY <1>6 DEF P!StopsRunning
<1>7. CASE P!Close
  BY <1>7 DEF P!Close
<1>8. CASE P!CloseSnapshots
  BY <1>8 DEF P!CloseSnapshots, P!DisplayDone
<1>9. CASE P!CloseFinishes
  BY <1>9 DEF P!CloseFinishes, P!Updated
<1>10. CASE P!WriteSummary
  BY <1>10 DEF P!WriteSummary
<1>11. CASE UNCHANGED progressVars
  BY <1>11 DEF progressVars
<1> QED
  BY <1>1, <1>2, <1>3, <1>4, <1>5, <1>6, <1>7, <1>8, <1>9, <1>10, <1>11
  DEF ProgressStep, P!Running, P!Closing

(* The invariant holds where a run begins, hence throughout.               *)
THEOREM DisplayInvariant == GauSpec => []DisplayInv
<1>1. GauInit => DisplayInv
  BY DEF GauInit, P!ProgressInit, P!NoCounts, P!EmptyBar, DisplayInv, IsCounts,
         Under
<1>2. DisplayInv /\ [GauNext]_gauVars => DisplayInv'
  BY StepOfProgress, DisplayNext
<1> QED
  BY <1>1, <1>2, PTL DEF GauSpec

(* What the bar shows never goes back.                                     *)
THEOREM BarOnlyGrows == GauSpec => FramesNeverGoBack
<1>1. DisplayInv /\ [GauNext]_gauVars
        => [/\ bar'.done >= bar.done
            /\ bar'.urls >= bar.urls
            /\ bar'.max >= bar.max]_progressVars
  BY StepOfProgress, DisplayNext DEF NoStepBack
<1> QED
  BY <1>1, DisplayInvariant, PTL
  DEF GauSpec, FramesNeverGoBack, P!FramesNeverGoBack, progressVars,
      P!progressVars

(* Once Close has returned the display draws no frame.                     *)
THEOREM SummaryIsLast == GauSpec => NoFrameAfterSummary
<1>1. DisplayInv /\ [GauNext]_gauVars
        => [(closer \in {"closed", "summarized"}) => bar' = bar]_progressVars
  BY StepOfProgress, DisplayNext DEF StandsStill
<1> QED
  BY <1>1, DisplayInvariant, PTL
  DEF GauSpec, NoFrameAfterSummary, P!NoFrameAfterSummary, progressVars,
      P!progressVars
-----------------------------------------------------------------------------
(* The items in the order main sends them.                                 *)
Total == NumDomains * NumProviders

Announced == IF FromStdin THEN scanned * NumProviders
             ELSE IF main = "queue" THEN 0 ELSE Total

Reported == {i \in Items : report[i] # "none"}
Erroneous == {i \in Items : report[i] = "error"}

ScanFailed == returned = "scan error"
Undecided == returned = "none"

Finishing ==
  main \in {"close", "wait", "join", "display", "writeErr", "returned"}
Joined == main \in {"join", "display", "writeErr", "returned"}
Gone == main = "returned"

(* Main has sent the items before next, no more than it has announced, and *)
(* closes the channel only when it has sent all or the scan has failed.    *)
SendInv ==
  /\ next \in Nat /\ next >= 1 /\ scanned \in 0..NumDomains
  /\ unsent \subseteq Items /\ \A i \in Items : i \in unsent <=> i >= next
  /\ next <= Announced + 1
  /\ main = "queue" => ~FromStdin
  /\ main = "scan" => FromStdin /\ next = Announced + 1

MainInv ==
  /\ SendInv
  /\ Finishing => ScanFailed \/ (next = Total + 1 /\ Announced = Total)
  /\ main = "writeErr" => Undecided
  /\ ~Gone => ScanFailed \/ Undecided
  /\ Joined => AllExited

DisplayIs(on) == IF on THEN display # "off"
                       ELSE display = "off" /\ closer = "open"

(* The counters are those of the items reported; the summary is one of     *)
(* them when nothing is left to report.                                    *)
CountInv ==
  /\ ShowProgress => /\ counts.total = Announced
                     /\ counts.done = Cardinality(Reported)
                     /\ counts.errors = Cardinality(Erroneous)
  /\ ~ShowProgress => counts.total = 0 /\ counts.done = 0
  /\ DisplayIs(ShowProgress)
  /\ closer = "summarized" =>
       /\ Joined /\ unsent = {} /\ Announced = Total
       /\ summary.total = counts.total /\ summary.done = counts.done
       /\ summary.errors = counts.errors

(* No snapshot has more done than announced, nor has the bar.              *)
BarInv ==
  /\ snap.done <= snap.total /\ last.done <= last.total
  /\ bar.done <= bar.max
-----------------------------------------------------------------------------
(* What main has announced, and up to where it sends, are numbers of items. *)
LEMMA Products ==
  ASSUME scanned \in Nat
  PROVE  /\ NumDomains \in Nat /\ NumProviders \in Nat /\ Total \in Nat
         /\ FromStdin \in BOOLEAN
         /\ Items = 1..Total /\ Items \subseteq Nat
         /\ Announced \in Nat
         /\ FromStdin => /\ Announced = scanned * NumProviders
                         /\ (scanned + 1) * NumProviders
                              = Announced + NumProviders
                         /\ scanned = NumDomains => Announced = Total
         /\ main # "queue" => LastToSend = Announced
<1>1. NumDomains \in Nat /\ NumProviders \in Nat /\ FromStdin \in BOOLEAN
  BY GauAssumption
<1>2. Total \in Nat
  BY <1>1 DEF Total
<1>3. Items = 1..Total
  <2>1. NumProviders * NumDomains = Total
    BY <1>1 DEF Total
  <2> QED
    BY <2>1, GauAssumption
<1>4. scanned * NumProviders \in Nat
  BY <1>1
<1>5. Announced \in Nat
  BY <1>1, <1>2, <1>4 DEF Announced
<1>6. FromStdin => Announced = scanned * NumProviders
  BY DEF Announced
<1>7. (scanned + 1) * NumProviders = scanned * NumProviders + NumProviders
  BY <1>1
<1>8. scanned = NumDomains => scanned * NumProviders = Total
  BY DEF Total
<1>9. main # "queue" => LastToSend = Announced
  BY <1>1 DEF LastToSend, Announced, Total
<1>10. Items \subseteq Nat
  BY <1>2, <1>3
<1> QED
  BY <1>1, <1>2, <1>3, <1>5, <1>6, <1>7, <1>8, <1>9, <1>10

(* Steps that leave the items to main's later steps.                       *)
LEMMA MainFrame ==
  ASSUME MainInv, UNCHANGED <<next, scanned, unsent>>,
         Announced' = Announced,
         main' = "queue" => main = "queue", main' = "scan" => main = "scan",
         Finishing' =>
           \/ Finishing \/ ScanFailed'
           \/ next = Total + 1 /\ Announced = Total,
         main' = "writeErr" => Undecided',
         ScanFailed => ScanFailed' \/ ~Finishing',
         ~Gone' => ScanFailed' \/ Undecided',
         Joined' => AllExited'
  PROVE  MainInv'
<1>1. SendInv'
  BY DEF MainInv, SendInv
<1>2. Finishing' => ScanFailed' \/ (next' = Total + 1 /\ Announced' = Total)
  BY DEF MainInv
<1> QED
  BY <1>1, <1>2 DEF MainInv

(* Only main and the channel it sends on touch what MainInv speaks of.     *)
LEMMA MainNext ==
  ASSUME MainInv, [GauNext]_gauVars
  PROVE  MainInv'
<1> USE DEF mainVars
<1>0. scanned \in Nat
  <2>1. NumDomains \in Nat
    BY GauAssumption
  <2> QED
    BY <2>1 DEF MainInv, SendInv
<1>1. CASE QueueAll
  <2>1. /\ main = "queue" /\ main' = "send"
        /\ UNCHANGED <<next, scanned, returned, unsent>>
    BY <1>1 DEF QueueAll, runnerVars, clientVars
  <2>2. Announced = 0 /\ Announced' = Total /\ Total \in Nat
    BY <1>0, <2>1, Products DEF Announced, MainInv, SendInv
  <2>3. SendInv'
    BY <2>1, <2>2 DEF MainInv, SendInv
  <2> QED
    BY <2>1, <2>3
    DEF MainInv, Finishing, Joined, Gone, ScanFailed, Undecided
<1>2. CASE Scan
  <2>1. /\ main = "scan" /\ main' = "send" /\ scanned' = scanned + 1
        /\ scanned < NumDomains
        /\ UNCHANGED <<next, returned, unsent>>
    BY <1>2 DEF Scan, runnerVars, clientVars
  <2>2. FromStdin /\ next = Announced + 1
    BY <2>1 DEF MainInv, SendInv
  <2>3. /\ Announced \in Nat /\ Announced' = Announced + NumProviders
        /\ NumProviders \in Nat /\ NumDomains \in Nat
    <3>1. Announced' = (scanned + 1) * NumProviders
      BY <2>1, <2>2 DEF Announced
    <3> QED
      BY <1>0, <2>2, <3>1, Products
  <2>4. SendInv'
    BY <1>0, <2>1, <2>2, <2>3 DEF MainInv, SendInv
  <2> QED
    BY <2>1, <2>4 DEF MainInv, Finishing, Joined, Gone, ScanFailed, Undecided
<1>3. CASE ScanEnds
  <2>1. /\ main = "scan" /\ main' = "close" /\ scanned = NumDomains
        /\ UNCHANGED <<next, scanned, returned, unsent>>
    BY <1>3 DEF ScanEnds, runnerVars, clientVars
  <2>2. next = Total + 1 /\ Announced = Total /\ Announced' = Announced
    BY <1>0, <2>1, Products DEF MainInv, SendInv, Announced
  <2> QED
    BY <2>1, <2>2, MainFrame
    DEF MainInv, Finishing, Joined, Gone, ScanFailed, Undecided
<1>4. CASE ScanFails
  <2>1. /\ main = "scan" /\ main' = "close" /\ returned' = "scan error"
        /\ UNCHANGED <<next, scanned, unsent>>
    BY <1>4 DEF ScanFails, runnerVars, clientVars
  <2>2. Announced' = Announced
    BY <2>1 DEF Announced
  <2> QED
    BY <2>1, <2>2, MainFrame
    DEF MainInv, Finishing, Joined, Gone, ScanFailed, Undecided
<1>5. CASE AllSent
  <2>1. /\ main = "send" /\ next > LastToSend
        /\ main' = IF FromStdin THEN "scan" ELSE "close"
        /\ UNCHANGED <<next, scanned, returned, unsent>>
    BY <1>5 DEF AllSent, runnerVars, clientVars
  <2>2. LastToSend = Announced /\ Announced' = Announced /\ Announced \in Nat
    BY <1>0, <2>1, Products DEF Announced
  <2>3. next = Announced + 1
    BY <2>1, <2>2 DEF MainInv, SendInv
  <2>4. ~FromStdin => Announced = Total
    BY <2>1 DEF Announced
  <2>5. SendInv'
    BY <2>1, <2>2, <2>3 DEF MainInv, SendInv
  <2> QED
    BY <2>1, <2>2, <2>3, <2>4, <2>5
    DEF MainInv, Finishing, Joined, Gone, ScanFailed, Undecided
<1>6. CASE CloseWorkChan \/ CloseResultChan \/ CloseDisplay
  <2>1. /\ main \in {"close", "wait", "join"}
        /\ main' \in {"wait", "join", "display"}
        /\ main' \in {"join", "display"} => AllExited
        /\ UNCHANGED <<next, scanned, returned, unsent, worker>>
    BY <1>6 DEF CloseWorkChan, CloseWork, CloseResultChan, WaitReturns,
                CloseDisplay, MainInv, Joined, runnerVars, clientVars, poolVars
  <2>2. Announced' = Announced /\ (AllExited => AllExited')
    BY <2>1 DEF Announced, AllExited
  <2> QED
    BY <2>1, <2>2, MainFrame
    DEF MainInv, Finishing, Joined, Gone, ScanFailed, Undecided
<1>7. CASE Summarize
  <2>1. /\ main = "display" /\ main' = "writeErr" /\ ~Failed(returned)
        /\ UNCHANGED <<next, scanned, returned, unsent, worker>>
    BY <1>7 DEF Summarize, runnerVars, clientVars, poolVars
  <2>2. Announced' = Announced /\ (AllExited => AllExited')
    BY <2>1 DEF Announced, AllExited
  <2>3. Undecided /\ ~ScanFailed
    BY <2>1 DEF MainInv, Gone, Failed, ScanFailed
  <2> QED
    BY <2>1, <2>2, <2>3, MainFrame
    DEF MainInv, Finishing, Joined, Gone, ScanFailed, Undecided
<1>8. CASE ReturnScanError \/ Return
  <2>1. /\ main \in {"display", "writeErr"} /\ main' = "returned"
        /\ main = "display" => returned' = returned
        /\ UNCHANGED <<next, scanned, unsent, worker>>
    BY <1>8 DEF ReturnScanError, Return, Cancel, poolVars
  <2>2. Announced' = Announced /\ (AllExited => AllExited')
    BY <2>1 DEF Announced, AllExited
  <2>3. ScanFailed => ScanFailed'
    BY <2>1 DEF MainInv, ScanFailed, Undecided
  <2>4. Finishing /\ Joined
    BY <2>1 DEF Finishing, Joined
  <2> QED
    BY <2>1, <2>2, <2>3, <2>4, MainFrame DEF MainInv, Gone
<1>9. ASSUME NEW w \in Workers, SendWork(w) PROVE MainInv'
  <2>1. /\ main = "send" /\ next <= LastToSend /\ next' = next + 1
        /\ unsent' = unsent \ {next} /\ UNCHANGED <<main, scanned, returned>>
    BY <1>9 DEF SendWork, WorkerReceives
  <2>2. LastToSend = Announced /\ Announced' = Announced /\ Announced \in Nat
    BY <1>0, <2>1, Products DEF Announced
  <2>3. /\ unsent' \subseteq Items
        /\ \A i \in Items : i \in unsent' <=> i >= next + 1
    <3>1. /\ unsent \subseteq Items /\ next \in Nat
          /\ \A i \in Items : i \in unsent <=> i >= next
      BY DEF MainInv, SendInv
    <3>2. Items \subseteq Nat
      BY <1>0, Products
    <3>3. \A i \in Items : i \in Nat /\ (i >= next + 1 <=> i >= next /\ i # next)
      BY <3>1, <3>2
    <3> QED
      BY <2>1, <3>1, <3>3
  <2>4. SendInv'
    BY <2>1, <2>2, <2>3 DEF MainInv, SendInv
  <2> QED
    BY <2>1, <2>4 DEF MainInv, Finishing, Joined, Gone, ScanFailed, Undecided
<1>10. ASSUME NEW w \in Workers,
              WorkerOnly(w) \/ ForwarderOnly(w) \/ Deliver(w) \/ Complete(w)
       PROVE  MainInv'
  <2>1. UNCHANGED <<mainVars, unsent>>
    BY <1>10 DEF WorkerOnly, WorkerExits, Fetch, FetchSends, FetchReturns,
                 ForwarderOnly, Forwarder, ForwarderReceives,
                 ForwarderCancelled, ForwarderDrains, ForwarderExits,
                 Deliver, ForwarderSends, Complete, WorkCompletes, clientVars
  <2>2. AllExited => AllExited'
    BY <1>10 DEF AllExited, WorkerOnly, WorkerExits, Fetch, FetchSends,
                 FetchReturns, ForwarderOnly, Forwarder, ForwarderReceives,
                 ForwarderCancelled, ForwarderDrains, ForwarderExits,
                 Deliver, ForwarderSends, Complete, WorkCompletes
  <2>3. Announced' = Announced
    BY <2>1 DEF Announced
  <2> QED
    BY <2>1, <2>2, <2>3, MainFrame
    DEF MainInv, Finishing, Joined, Gone, ScanFailed, Undecided
<1>11. CASE \/ Filter \/ WriterOnly \/ DisplayOnly \/ Exited
            \/ UNCHANGED gauVars
  <2>1. UNCHANGED <<mainVars, unsent, worker>>
    BY <1>11 DEF Filter, WriterOnly, DisplayOnly, Exited, gauVars, runnerVars,
                 clientVars, poolVars
  <2>2. Announced' = Announced /\ (AllExited => AllExited')
    BY <2>1 DEF Announced, AllExited
  <2> QED
    BY <2>1, <2>2, MainFrame
    DEF MainInv, Finishing, Joined, Gone, ScanFailed, Undecided
<1> QED
  BY <1>1, <1>2, <1>3, <1>4, <1>5, <1>6, <1>7, <1>8, <1>9, <1>10, <1>11
  DEF GauNext, Main
-----------------------------------------------------------------------------
(* Steps that report nothing keep the counters what they are.              *)
LEMMA CountFrame ==
  ASSUME CountInv, report' = report, Announced' = Announced, unsent' = unsent,
         counts'.total = counts.total, counts'.done = counts.done,
         counts'.errors = counts.errors, summary' = summary,
         DisplayIs(ShowProgress)', Joined => Joined',
         closer' = "summarized" => closer = "summarized"
  PROVE  CountInv'
BY DEF CountInv, Reported, Erroneous

(* There are Total items.                                                  *)
LEMMA ItemsCounted ==
  IsFiniteSet(Items) /\ Cardinality(Items) = Total /\ Total \in Nat
<1>1. NumDomains \in Nat /\ NumProviders \in Nat
  BY GauAssumption
<1>2. Total \in Nat /\ NumProviders * NumDomains = Total
  BY <1>1 DEF Total
<1>3. Items = 1..Total
  BY <1>2, GauAssumption
<1>4. IsFiniteSet(1..Total) /\ Cardinality(1..Total) = Total
  BY <1>2, FS_Interval
<1> QED
  BY <1>2, <1>3, <1>4

(* Hence what is reported of them can be counted.                          *)
LEMMA ReportedCounted ==
  /\ IsFiniteSet(Reported) /\ IsFiniteSet(Erroneous)
  /\ Cardinality(Reported) \in Nat /\ Cardinality(Erroneous) \in Nat
<1>1. Reported \in SUBSET Items /\ Erroneous \in SUBSET Items
  BY DEF Reported, Erroneous
<1> QED
  BY <1>1, ItemsCounted, FS_Subset, FS_CardinalityType

(* A worker that completes its item reports it, for the first time.        *)
LEMMA ReportedGrows ==
  ASSUME RunnerTypeOK, RunnerInv, NEW w \in Workers, WorkCompletes(w)
  PROVE  /\ Cardinality(Reported') = Cardinality(Reported) + 1
         /\ Cardinality(Erroneous') = IF fetchErr[w] # "nil"
                                      THEN Cardinality(Erroneous) + 1
                                      ELSE Cardinality(Erroneous)
<1>1. /\ job[w] \in Items /\ report[job[w]] = "none"
      /\ fetchErr[w] \in {"nil", "error"}
      /\ report' = [report EXCEPT ![job[w]] = fetchErr[w]]
      /\ report \in [Items -> {"nil", "error", "none"}]
  BY DEF WorkCompletes, RunnerTypeOK, RunnerInv, PipelineInv, Busy, Errs
<1>2. Reported' = Reported \cup {job[w]} /\ job[w] \notin Reported
  BY <1>1 DEF Reported
<1>3. CASE fetchErr[w] # "nil"
  <2>1. Erroneous' = Erroneous \cup {job[w]} /\ job[w] \notin Erroneous
    BY <1>1, <1>3 DEF Erroneous
  <2> QED
    BY <1>2, <1>3, <2>1, ReportedCounted, FS_AddElement
<1>4. CASE fetchErr[w] = "nil"
  <2>1. Erroneous' = Erroneous
    BY <1>1, <1>4 DEF Erroneous
  <2> QED
    BY <1>2, <1>4, <2>1, ReportedCounted, FS_AddElement
<1> QED
  BY <1>3, <1>4

(* A step of the display, which no client takes part in.                   *)
LEMMA DisplayCounts ==
  ASSUME CountInv, P!Running \/ P!Closing,
         UNCHANGED <<mainVars, runnerVars>>
  PROVE  CountInv'
<1>1. /\ report' = report /\ unsent' = unsent /\ main' = main
      /\ scanned' = scanned
  BY DEF runnerVars, history, clientVars, mainVars
<1>2. /\ counts' = counts /\ summary' = summary
      /\ closer' = "summarized" => closer = "summarized"
      /\ DisplayIs(ShowProgress) => DisplayIs(ShowProgress)'
  <2>1. CASE P!Running
    BY <2>1 DEF P!Running, P!Tick, P!Update, P!StopsRunning, DisplayIs
  <2>2. CASE P!Closing
    BY <2>2 DEF P!Closing, P!CloseSnapshots, P!CloseFinishes, DisplayIs
  <2> QED
    BY <2>1, <2>2
<1>3. Announced' = Announced /\ (Joined => Joined')
  BY <1>1 DEF Announced, Joined
<1>4. DisplayIs(ShowProgress)'
  BY <1>2 DEF CountInv
<1> QED
  BY <1>1, <1>2, <1>3, <1>4, CountFrame

(* Announcing n items.                                                     *)
LEMMA QueueCounts ==
  ASSUME CountInv, IsCounts(counts), NEW n \in Nat, Queue(n), ~Joined,
         Announced \in Nat, Announced' = Announced + n,
         report' = report, unsent' = unsent
  PROVE  CountInv'
<1>1. /\ closer' = closer /\ display' = display
      /\ ShowProgress => counts'.total = counts.total + n
      /\ ~ShowProgress => counts' = counts
      /\ counts'.done = counts.done /\ counts'.errors = counts.errors
  BY DEF Queue, P!WorkQueued, progressVars, IsCounts
<1>2. closer # "summarized"
  BY DEF CountInv
<1> QED
  BY <1>1, <1>2 DEF CountInv, Reported, Erroneous, DisplayIs

(* A step of a run counts what it reports.                                 *)
LEMMA CountNext ==
  ASSUME RunnerTypeOK, RunnerInv, MainInv, DisplayInv, CountInv,
         [GauNext]_gauVars
  PROVE  CountInv'
<1> USE DEF mainVars
<1>0. /\ scanned \in Nat /\ IsCounts(counts)
      /\ DisplayIs(ShowProgress)
  <2>1. NumDomains \in Nat
    BY GauAssumption
  <2> QED
    BY <2>1 DEF MainInv, SendInv, DisplayInv, CountInv
<1>1. CASE QueueAll
  <2>1. /\ main = "queue" /\ main' = "send" /\ Queue(Total)
        /\ UNCHANGED <<scanned, unsent, report>>
    BY <1>1 DEF QueueAll, Total, runnerVars, clientVars, history
  <2>2. Announced = 0 /\ Announced' = Announced + Total /\ Total \in Nat
    BY <1>0, <2>1, Products DEF Announced, MainInv, SendInv
  <2> QED
    BY <1>0, <2>1, <2>2, QueueCounts DEF Joined
<1>2. CASE Scan
  <2>1. /\ main = "scan" /\ main' = "send" /\ Queue(NumProviders)
        /\ scanned' = scanned + 1 /\ UNCHANGED <<unsent, report>>
    BY <1>2 DEF Scan, runnerVars, clientVars, history
  <2>2. FromStdin
    BY <2>1 DEF MainInv, SendInv
  <2>3. /\ NumProviders \in Nat /\ Announced \in Nat
        /\ Announced' = Announced + NumProviders
    <3>1. Announced' = (scanned + 1) * NumProviders
      BY <2>1, <2>2 DEF Announced
    <3> QED
      BY <1>0, <2>2, <3>1, Products
  <2> QED
    BY <1>0, <2>1, <2>3, QueueCounts DEF Joined
<1>3. CASE ScanEnds \/ ScanFails \/ AllSent \/ CloseWorkChan \/ CloseResultChan
  <2>1. /\ UNCHANGED <<scanned, unsent, report, counts, display, closer, summary>>
        /\ main # "queue" /\ main' # "queue" /\ ~Joined
    BY <1>3 DEF ScanEnds, ScanFails, AllSent, CloseWorkChan, CloseWork,
                CloseResultChan, runnerVars, clientVars, history, progressVars,
                Joined
  <2>2. Announced' = Announced
    BY <2>1 DEF Announced
  <2> QED
    BY <1>0, <2>1, <2>2, CountFrame DEF DisplayIs
<1>4. CASE CloseDisplay
  <2>1. /\ UNCHANGED <<scanned, unsent, report, counts, summary>>
        /\ main # "queue" /\ main' # "queue" /\ (Joined => Joined')
    BY <1>4 DEF CloseDisplay, P!Close, runnerVars, clientVars, history,
                progressVars, Joined
  <2>2. Announced' = Announced
    BY <2>1 DEF Announced
  <2>3. /\ closer' = "summarized" => closer = "summarized"
        /\ DisplayIs(ShowProgress)'
    BY <1>0, <1>4 DEF CloseDisplay, P!Close, progressVars, DisplayIs
  <2> QED
    BY <2>1, <2>2, <2>3, CountFrame
<1>5. CASE Summarize
  <2>1. /\ main = "display" /\ main' = "writeErr" /\ ~Failed(returned)
        /\ UNCHANGED <<scanned, unsent, report>>
        /\ IF ShowProgress THEN P!WriteSummary ELSE UNCHANGED progressVars
    BY <1>5 DEF Summarize, runnerVars, clientVars, history
  <2>2. Announced' = Announced /\ Joined' /\ Joined /\ Finishing
    BY <2>1 DEF Announced, Joined, Finishing
  <2>3. next = Total + 1 /\ Announced = Total
    BY <2>1, <2>2 DEF MainInv, Failed, ScanFailed
  <2>4. unsent = {}
    <3>1. /\ unsent \subseteq Items /\ \A i \in Items : i \in unsent <=> i >= next
      BY DEF MainInv, SendInv
    <3>2. Items = 1..Total /\ Total \in Nat
      BY <1>0, Products
    <3> QED
      BY <2>3, <3>1, <3>2
  <2>5. CASE ShowProgress
    <3>1. /\ counts' = counts /\ summary' = counts /\ display' = display
      BY <2>1, <2>5 DEF P!WriteSummary
    <3>2. DisplayIs(ShowProgress)'
      BY <1>0, <2>5, <3>1 DEF DisplayIs
    <3> QED
      BY <2>1, <2>2, <2>3, <2>4, <2>5, <3>1, <3>2
      DEF CountInv, Reported, Erroneous
  <2>6. CASE ~ShowProgress
    <3>1. UNCHANGED <<counts, display, closer, summary>>
      BY <2>1, <2>6 DEF progressVars
    <3> QED
      BY <1>0, <2>1, <2>2, <3>1, CountFrame DEF DisplayIs
  <2> QED
    BY <2>5, <2>6
<1>6. CASE ReturnScanError \/ Return
  <2>1. /\ UNCHANGED <<scanned, unsent, report, counts, display, closer, summary>>
        /\ main # "queue" /\ main' # "queue" /\ (Joined => Joined')
    BY <1>6 DEF ReturnScanError, Return, Cancel, history, progressVars, Joined
  <2>2. Announced' = Announced
    BY <2>1 DEF Announced
  <2> QED
    BY <1>0, <2>1, <2>2, CountFrame DEF DisplayIs
<1>7. ASSUME NEW w \in Workers, SendWork(w) PROVE CountInv'
  <2>1. /\ main = "send" /\ unsent' = unsent \ {next}
        /\ UNCHANGED <<main, scanned, report, counts, display, closer, summary>>
    BY <1>7 DEF SendWork, WorkerReceives, history, progressVars
  <2>2. Announced' = Announced /\ ~Joined
    BY <2>1 DEF Announced, Joined
  <2>3. closer # "summarized"
    BY <2>2 DEF CountInv
  <2> QED
    BY <1>0, <2>1, <2>2, <2>3 DEF CountInv, Reported, Erroneous, DisplayIs
<1>8. ASSUME NEW w \in Workers,
             WorkerOnly(w) \/ ForwarderOnly(w) \/ Deliver(w)
      PROVE  CountInv'
  <2>1. UNCHANGED <<main, scanned, unsent, report, counts, display, closer,
                    summary>>
    BY <1>8 DEF WorkerOnly, WorkerExits, Fetch, FetchSends, FetchReturns,
                ForwarderOnly, Forwarder, ForwarderReceives,
                ForwarderCancelled, ForwarderDrains, ForwarderExits,
                Deliver, ForwarderSends, clientVars, history, progressVars
  <2>2. Announced' = Announced /\ (Joined => Joined')
    BY <2>1 DEF Announced, Joined
  <2> QED
    BY <1>0, <2>1, <2>2, CountFrame DEF DisplayIs
<1>9. ASSUME NEW w \in Workers, Complete(w) PROVE CountInv'
  <2>1. /\ WorkCompletes(w) /\ UNCHANGED <<main, scanned, unsent>>
        /\ worker[w] = "join"
    BY <1>9 DEF Complete, WorkCompletes, clientVars
  <2>2. ~Joined
    BY <2>1 DEF MainInv, AllExited
  <2>3. closer # "summarized"
    BY <2>2 DEF CountInv
  <2>4. Announced' = Announced
    BY <2>1 DEF Announced
  <2>5. CASE ShowProgress
    <3>1. P!WorkCompleted(ProviderOf[job[w]], fetchErr[w])
      BY <1>9, <2>5 DEF Complete
    <3>2. /\ counts'.total = counts.total /\ counts'.done = counts.done + 1
          /\ counts'.errors = IF fetchErr[w] # "nil" THEN counts.errors + 1
                                                    ELSE counts.errors
      BY <1>0, <3>1, CountsAfter
    <3>3. display' = display /\ closer' = closer
      BY <3>1 DEF P!WorkCompleted
    <3> QED
      BY <1>0, <2>1, <2>3, <2>4, <2>5, <3>2, <3>3, ReportedGrows
      DEF CountInv, DisplayIs
  <2>6. CASE ~ShowProgress
    <3>1. UNCHANGED <<counts, display, closer, summary>>
      BY <1>9, <2>6 DEF Complete, progressVars
    <3> QED
      BY <2>3, <2>6, <3>1 DEF CountInv, DisplayIs
  <2> QED
    BY <2>5, <2>6
<1>10. CASE Filter
  <2>1. UNCHANGED <<main, scanned, unsent, report>>
    BY <1>10 DEF Filter, runnerVars, clientVars, history
  <2>2. Announced' = Announced /\ (Joined => Joined')
    BY <2>1 DEF Announced, Joined
  <2>3. /\ counts'.total = counts.total /\ counts'.done = counts.done
        /\ counts'.errors = counts.errors
        /\ UNCHANGED <<display, closer, summary>>
    <3>1. CASE UNCHANGED progressVars
      BY <3>1 DEF progressVars
    <3>2. ASSUME NEW p, NEW ext, P!URLEmitted(p, ext)
          PROVE  /\ counts'.total = counts.total /\ counts'.done = counts.done
                 /\ counts'.errors = counts.errors
                 /\ UNCHANGED <<display, closer, summary>>
      BY <1>0, <3>2, CountsAfter DEF P!URLEmitted
    <3> QED
      BY <1>10, <3>1, <3>2 DEF Filter
  <2> QED
    BY <1>0, <2>1, <2>2, <2>3, CountFrame DEF DisplayIs
<1>11. CASE DisplayOnly
  BY <1>11, DisplayCounts DEF DisplayOnly
<1>12. CASE WriterOnly \/ Exited \/ UNCHANGED gauVars
  <2>1. UNCHANGED <<main, scanned, unsent, report, counts, display, closer,
                    summary>>
    BY <1>12 DEF WriterOnly, Exited, gauVars, runnerVars, clientVars, history,
                 progressVars
  <2>2. Announced' = Announced /\ (Joined => Joined')
    BY <2>1 DEF Announced, Joined
  <2> QED
    BY <1>0, <2>1, <2>2, CountFrame DEF DisplayIs
<1> QED
  BY <1>1, <1>2, <1>3, <1>4, <1>5, <1>6, <1>7, <1>8, <1>9, <1>10, <1>11, <1>12
  DEF GauNext, Main
-----------------------------------------------------------------------------
(* What a run keeps, all in all.                                           *)
RunInv == RunnerTypeOK /\ RunnerInv /\ DisplayInv /\ MainInv /\ CountInv

(* The items and the counters start with nothing sent and nothing done.    *)
LEMMA MainInit ==
  ASSUME GauInit
  PROVE  MainInv /\ CountInv
<1>1. /\ NumDomains \in Nat /\ NumProviders \in Nat
      /\ main = (IF FromStdin THEN "scan" ELSE "queue")
      /\ next = 1 /\ scanned = 0 /\ unsent = Items
      /\ report = [i \in Items |-> "none"]
  BY GauAssumption DEF GauInit, RunnerInit
<1>2. Announced = 0
  BY <1>1 DEF Announced
<1>3. Items = 1..Total /\ Total \in Nat
  BY <1>1, Products
<1>4. SendInv
  BY <1>1, <1>2, <1>3 DEF SendInv
<1>5. Undecided /\ ~Finishing /\ ~Joined /\ main # "writeErr"
  <2>1. Undecided
    BY DEF GauInit, Undecided
  <2>2. ~Finishing /\ ~Joined /\ main # "writeErr"
    BY <1>1 DEF Finishing, Joined
  <2> QED
    BY <2>1, <2>2
<1>6. MainInv
  BY <1>4, <1>5 DEF MainInv
<1>7. Reported = {} /\ Erroneous = {}
  BY <1>1 DEF Reported, Erroneous
<1>8. Cardinality(Reported) = 0 /\ Cardinality(Erroneous) = 0
  BY <1>7, FS_EmptySet
<1>9. /\ counts.total = 0 /\ counts.done = 0 /\ counts.errors = 0
      /\ DisplayIs(ShowProgress) /\ closer # "summarized"
  BY DEF GauInit, P!ProgressInit, P!NoCounts, DisplayIs
<1> QED
  BY <1>2, <1>6, <1>8, <1>9 DEF CountInv

(* The invariant of a run.                                                 *)
THEOREM RunInvariant == GauSpec => []RunInv
<1>1. GauInit => MainInv /\ CountInv
  BY MainInit
<1>2. /\ RunnerTypeOK /\ RunnerInv /\ DisplayInv /\ MainInv /\ CountInv
      /\ [GauNext]_gauVars
      => MainInv' /\ CountInv'
  BY MainNext, CountNext
<1> QED
  BY <1>1, <1>2, RunIsOfPool, RunnerInvariance, DisplayInvariant, PTL
  DEF GauSpec, RunInv

(* An item that is reported has been sent, and an item is sent only once   *)
(* it has been announced.                                                  *)
LEMMA DoneIsAnnounced ==
  ASSUME RunInv
  PROVE  counts.done <= counts.total
<1>1. /\ scanned \in Nat /\ next \in Nat /\ next >= 1 /\ next <= Announced + 1
  <2>1. NumDomains \in Nat
    BY GauAssumption
  <2> QED
    BY <2>1 DEF RunInv, MainInv, SendInv
<1>2. Announced \in Nat /\ Items \subseteq Nat /\ Items = 1..Total
  BY <1>1, Products
<1>3. Reported \in SUBSET (1..next - 1)
  <2>1. SUFFICES ASSUME NEW i \in Reported PROVE i \in 1..next - 1
    OBVIOUS
  <2>2. i \in Items /\ report[i] # "none"
    BY DEF Reported
  <2>3. i \notin unsent
    BY <2>2 DEF RunInv, RunnerInv, ItemInv
  <2>4. ~(i >= next)
    BY <2>2, <2>3 DEF RunInv, MainInv, SendInv
  <2>5. i \in Nat /\ i >= 1
    BY <1>2, <2>2, ItemsCounted
  <2> QED
    BY <1>1, <2>4, <2>5
<1>4. IsFiniteSet(1..next - 1) /\ Cardinality(1..next - 1) = next - 1
  BY <1>1, FS_Interval
<1>5. Cardinality(Reported) <= next - 1
  BY <1>3, <1>4, FS_Subset
<1>6. Cardinality(Reported) <= Announced
  BY <1>1, <1>2, <1>5, ReportedCounted
<1> QED
  BY <1>6 DEF RunInv, CountInv

(* So no snapshot has more done than announced, and neither has the bar.   *)
LEMMA BarNext ==
  ASSUME DisplayInv, BarInv, counts.done <= counts.total, ProgressStep
  PROVE  BarInv'
<1> USE DEF DisplayInv, BarInv, IsCounts, Within, Under
<1>1. CASE \E n \in Nat : P!WorkQueued(n)
  BY <1>1 DEF P!WorkQueued
<1>2. CASE \E p, err : P!WorkCompleted(p, err)
  BY <1>2 DEF P!WorkCompleted
<1>3. CASE \E p, ext : P!URLEmitted(p, ext)
  BY <1>3 DEF P!URLEmitted
<1>4. CASE P!Running
  <2>1. CASE P!Tick
    BY <2>1 DEF P!Tick
  <2>2. CASE P!Update
    BY <2>2 DEF P!Update, P!Updated
  <2>3. CASE P!StopsRunning
    BY <2>3 DEF P!StopsRunning
  <2> QED
    BY <1>4, <2>1, <2>2, <2>3 DEF P!Running
<1>5. CASE P!Closing
  <2>1. CASE P!CloseSnapshots
    BY <2>1 DEF P!CloseSnapshots
  <2>2. CASE P!CloseFinishes
    BY <2>2 DEF P!CloseFinishes, P!Updated
  <2> QED
    BY <1>5, <2>1, <2>2 DEF P!Closing
<1>6. CASE P!Close \/ P!WriteSummary \/ UNCHANGED progressVars
  BY <1>6 DEF P!Close, P!WriteSummary, progressVars
<1> QED
  BY <1>1, <1>2, <1>3, <1>4, <1>5, <1>6 DEF ProgressStep

(* The work done never exceeds the work announced, in the counters and on  *)
(* the bar, though stdin announces it line by line.                        *)
THEOREM DoneIsWithinTotal == GauSpec => []DoneWithinTotal
<1>1. GauInit => BarInv
  BY DEF GauInit, P!ProgressInit, P!NoCounts, P!EmptyBar, BarInv
<1>2. RunInv /\ BarInv /\ [GauNext]_gauVars => BarInv'
  BY DoneIsAnnounced, BarNext, StepOfProgress DEF RunInv
<1>3. RunInv /\ BarInv => DoneWithinTotal
  BY DoneIsAnnounced DEF BarInv, DoneWithinTotal
<1> QED
  BY <1>1, <1>2, <1>3, RunInvariant, PTL DEF GauSpec

(* The summary is printed when every work item is done, and its errors are *)
(* those the providers returned.                                           *)
THEOREM SummaryTellsAll == GauSpec => []SummaryIsComplete
<1>1. ASSUME RunInv, closer = "summarized"
      PROVE  /\ summary.done = Cardinality(Items)
             /\ summary.total = summary.done
             /\ summary.errors = Cardinality(Erroneous)
  <2>1. /\ AllExited /\ unsent = {} /\ Announced = Total
        /\ summary.total = counts.total /\ summary.done = counts.done
        /\ summary.errors = counts.errors
    BY <1>1 DEF RunInv, CountInv, MainInv
  <2>2. ShowProgress
    BY <1>1 DEF RunInv, CountInv, DisplayIs
  <2>3. Reported = Items
    <3>1. \A w \in Workers : ~Busy(w)
      BY <2>1 DEF Busy, AllExited
    <3>2. \A i \in Items : ItemInv(i)
      BY <1>1 DEF RunInv, RunnerInv
    <3>3. \A i \in Items : report[i] # "none"
      BY <2>1, <3>1, <3>2 DEF ItemInv
    <3> QED
      BY <3>3 DEF Reported
  <2>4. /\ counts.total = Announced /\ counts.done = Cardinality(Reported)
        /\ counts.errors = Cardinality(Erroneous)
    BY <1>1, <2>2 DEF RunInv, CountInv
  <2> QED
    BY <2>1, <2>3, <2>4, ItemsCounted
<1>2. RunInv => SummaryIsComplete
  BY <1>1 DEF SummaryIsComplete, Erroneous
<1> QED
  BY <1>2, RunInvariant, PTL
=============================================================================
