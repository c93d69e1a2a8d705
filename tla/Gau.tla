-------------------------------- MODULE Gau --------------------------------
(***************************************************************************)
(* A run of the command: runGau of cmd/gau/main.go with the worker pool    *)
(* (Runner), the writer goroutine (Output) and the progress display        *)
(* (Progress) it starts.  The three components share no state; they meet   *)
(* in the steps of this module, each the rendezvous of one channel, the    *)
(* call of one callback or one step of the main goroutine.                 *)
(*                                                                         *)
(* Items are numbered in the order main sends them: item n is a provider   *)
(* and a domain, all domains of a provider first when the domains are      *)
(* arguments, all providers of a domain first when they are lines of       *)
(* stdin.                                                                  *)
(***************************************************************************)
EXTENDS Runner, Integers, FiniteSets

CONSTANTS
  NumProviders, NumDomains,
  FromStdin,     (* the domains are lines of stdin                         *)
  ScanMayFail,   (* reading stdin may fail                                 *)
  ShowProgress, WriteMayFail,
  PageOf, Lower, FlagSets,
  ExtOf          (* what urlExt yields for a URL                           *)

VARIABLES
  main,     (* control point of the main goroutine                         *)
  next,     (* the item main sends next                                    *)
  scanned,  (* the line of stdin main is at                                *)
  returned, (* what runGau returned                                        *)
  opts, resultsClosed, writer, dedup, lines, writeErr, received, lost,
  counts, display, snap, stop, closer, last, bar, summary

W == INSTANCE Output WITH RawUrls <- Urls, MaxReceived <- NumProviders * NumDomains * MaxUrls
P == INSTANCE Progress WITH Extensions <- {ExtOf[u] : u \in Urls}

writerVars == <<opts, resultsClosed, writer, dedup, lines, writeErr, received, lost>>
progressVars == <<counts, display, snap, stop, closer, last, bar, summary>>
mainVars == <<main, next, scanned, returned>>
gauVars == <<mainVars, runnerVars, writerVars, progressVars>>

ASSUME GauAssumption ==
  /\ NumProviders \in Nat /\ NumDomains \in Nat
  /\ FromStdin \in BOOLEAN /\ ScanMayFail \in BOOLEAN
  /\ Items = 1..(NumProviders * NumDomains)
  (* one provider per consecutive block of items, or one per position in it *)
  /\ \A i, j \in Items :
       ProviderOf[i] = ProviderOf[j] <=>
         IF FromStdin THEN i % NumProviders = j % NumProviders
                      ELSE (i - 1) \div NumDomains = (j - 1) \div NumDomains
  /\ \A u \in Urls : ExtOf[u] = W!urlExt(PageOf[u])
  /\ W!OutputConstants
  /\ P!ProgressConstants

Failed(r) == r \in {"scan error", "write error"}

GauInit ==
  /\ RunnerInit
  /\ W!WriterInit
  /\ P!ProgressInit
  /\ main = IF FromStdin THEN "scan" ELSE "queue"
  /\ next = 1
  /\ scanned = 0
  /\ returned = "none"
-----------------------------------------------------------------------------
(* Main: the queueing of the work.                                         *)

QueuesOnce(n) ==     (* a mutant: only the first line is announced *)
  IF ShowProgress /\ counts.total = 0 THEN P!WorkQueued(n) ELSE UNCHANGED progressVars

Queue(n) == IF ShowProgress THEN P!WorkQueued(n) ELSE UNCHANGED progressVars

(* Domains from the arguments: the total is known at once.                 *)
QueueAll ==
  /\ main = "queue"
  /\ Queue(NumDomains * NumProviders)
  /\ main' = "send"
  /\ UNCHANGED <<next, scanned, returned, runnerVars, writerVars>>

(* A line of stdin: its items are queued, then sent.                       *)
Scan ==
  /\ main = "scan"
  /\ scanned < NumDomains
  /\ Queue(NumProviders)
  /\ scanned' = scanned + 1
  /\ main' = "send"
  /\ UNCHANGED <<next, returned, runnerVars, writerVars>>

ScanEnds ==
  /\ main = "scan"
  /\ scanned = NumDomains
  /\ main' = "close"
  /\ UNCHANGED <<next, scanned, returned, runnerVars, writerVars, progressVars>>

(* sc.Scan returns false and sc.Err is not nil.                            *)
ScanFails ==
  /\ main = "scan"
  /\ ScanMayFail
  /\ returned' = "scan error"
  /\ main' = "close"
  /\ UNCHANGED <<next, scanned, runnerVars, writerVars, progressVars>>

(* The last item of the loops main is in.                                  *)
LoopsStopEarly == IF FromStdin THEN scanned * NumProviders - 1    (* a mutant *)
                               ELSE NumDomains * NumProviders - 1

LastToSend == IF FromStdin THEN scanned * NumProviders
                           ELSE NumDomains * NumProviders

(* workChan <- NewWork(...): a worker at its select receives it.           *)
SendWork(w) ==
  /\ main = "send"
  /\ next <= LastToSend
  /\ WorkerReceives(w, next)
  /\ next' = next + 1
  /\ UNCHANGED <<main, scanned, returned, writerVars, progressVars>>

AllSent ==
  /\ main = "send"
  /\ next > LastToSend
  /\ main' = IF FromStdin THEN "scan" ELSE "close"
  /\ UNCHANGED <<next, scanned, returned, runnerVars, writerVars, progressVars>>
-----------------------------------------------------------------------------
(* Main: the end of the run.                                               *)

CloseWorkChan ==
  /\ main = "close"
  /\ CloseWork
  /\ main' = "wait"
  /\ UNCHANGED <<next, scanned, returned, writerVars, progressVars>>

(* gau.Wait() returns and main closes results.                             *)
WaitSkipped == TRUE     (* a mutant *)

WaitReturns == AllExited

CloseResultChan ==
  /\ main = "wait"
  /\ WaitReturns
  /\ W!CloseResults
  /\ main' = "join"
  /\ UNCHANGED <<next, scanned, returned, runnerVars, progressVars>>

(* writeWg.Wait() returns.                                                 *)
WriterNotAwaited == TRUE     (* a mutant *)

WriterDone == writer = "done"

CloseDisplay ==
  /\ main = "join"
  /\ WriterDone
  /\ IF ShowProgress THEN P!Close ELSE UNCHANGED progressVars
  /\ main' = "display"
  /\ UNCHANGED <<next, scanned, returned, runnerVars, writerVars>>

(* display.Close() goes on in P!Closing; then the summary, unless the scan *)
(* failed.                                                                 *)
Summarize ==
  /\ main = "display"
  /\ ~Failed(returned)
  /\ IF ShowProgress THEN P!WriteSummary ELSE UNCHANGED progressVars
  /\ main' = "writeErr"
  /\ UNCHANGED <<next, scanned, returned, runnerVars, writerVars>>

(* runGau returns; its deferred cancel ends the context.                   *)
ReturnScanError ==
  /\ main = "display"
  /\ Failed(returned)
  /\ ShowProgress => closer = "closed"
  /\ Cancel
  /\ main' = "returned"
  /\ UNCHANGED <<next, scanned, returned, writerVars, progressVars>>

Return ==
  /\ main = "writeErr"
  /\ writeErr # "none"
  /\ Cancel
  /\ returned' = IF writeErr = "nil" THEN "nil" ELSE "write error"
  /\ main' = "returned"
  /\ UNCHANGED <<next, scanned, writerVars, progressVars>>

Main ==
  \/ QueueAll \/ Scan \/ ScanEnds \/ ScanFails \/ AllSent
  \/ CloseWorkChan \/ CloseResultChan
  \/ CloseDisplay \/ Summarize \/ ReturnScanError \/ Return
-----------------------------------------------------------------------------
(* The pool: what it does alone, the channel to the writer, the callback.  *)

WorkerOnly(w) ==
  /\ WorkerExits(w) \/ Fetch(w)
  /\ UNCHANGED <<mainVars, writerVars, progressVars>>

ForwarderOnly(w) ==
  /\ Forwarder(w)
  /\ UNCHANGED <<mainVars, writerVars, progressVars>>

Deliver(w) ==
  /\ ForwarderSends(w)
  /\ W!Receives(Offer(w))
  /\ UNCHANGED <<mainVars, progressVars>>

(* OnWorkComplete is WorkCompleted of the Tracker, or nil.                 *)
Complete(w) ==
  /\ WorkCompletes(w)
  /\ IF ShowProgress
     THEN P!WorkCompleted(ProviderOf[job[w]], fetchErr[w])
     ELSE UNCHANGED progressVars
  /\ UNCHANGED <<mainVars, writerVars>>

(* The writer filters a result and counts it if it survives.               *)
Filter ==
  /\ W!Filters
  /\ IF writer' = "write" /\ ShowProgress
     THEN P!URLEmitted(W!Current.provider, ExtOf[W!Current.url])
     ELSE UNCHANGED progressVars
  /\ UNCHANGED <<mainVars, runnerVars>>

WriterOnly ==
  /\ W!Writes \/ W!WriteFails \/ W!WriterReturns
  /\ UNCHANGED <<mainVars, runnerVars, progressVars>>

DisplayOnly ==
  /\ P!Running \/ P!Closing
  /\ UNCHANGED <<mainVars, runnerVars, writerVars>>

Exited == main = "returned" /\ UNCHANGED gauVars

GauNext ==
  \/ Main
  \/ \E w \in Workers : \/ SendWork(w)
                        \/ WorkerOnly(w)
                        \/ ForwarderOnly(w)
                        \/ Deliver(w)
                        \/ Complete(w)
  \/ Filter
  \/ WriterOnly
  \/ DisplayOnly
  \/ Exited

GauSpec == GauInit /\ [][GauNext]_gauVars

(* Every goroutine that can take a step takes one: the main goroutine, the *)
(* workers and forwarders, the writer.  A channel that has a sender and a  *)
(* receiver waiting pairs them; which of several senders is served is left *)
(* open.  The display's select picks among ready cases at random, so its   *)
(* stop case is not passed over for ever by a ticker that is always ready. *)
GauFairness ==
  /\ WF_gauVars(Main)
  /\ WF_gauVars(\E w \in Workers : SendWork(w))
  /\ WF_gauVars(\E w \in Workers : Deliver(w))
  /\ \A w \in Workers : /\ WF_gauVars(WorkerOnly(w))
                        /\ WF_gauVars(ForwarderOnly(w))
                        /\ WF_gauVars(Complete(w))
  /\ WF_gauVars(Filter)
  /\ WF_gauVars(WriterOnly)
  /\ SF_gauVars(DisplayOnly /\ P!StopsRunning)
  /\ WF_gauVars(DisplayOnly /\ (P!Update \/ P!Closing))

FairGauSpec == GauSpec /\ GauFairness
-----------------------------------------------------------------------------
(* A send on a closed channel panics: when main closes results, no         *)
(* forwarder may still have a URL to send (main.go:133-136).               *)
NoSendOnClosedResults ==
  resultsClosed => \A w \in Workers : forwarder[w] = "done"

(* The work done never exceeds the work announced, in the counters and on  *)
(* the bar, though stdin announces it line by line (main.go:103-119,       *)
(* progress.go:321-327).                                                   *)
DoneWithinTotal == counts.done <= counts.total /\ bar.done <= bar.max

(* What the providers sent on their bridges.                               *)
Emitted == {u \in Urls : u.n <= emitted[u.item]}

(* runGau returns nil only after every item was fetched and reported,      *)
(* every URL of every provider went through the writer, each once, and     *)
(* every URL that is due was written or lost to a failed write             *)
(* (main.go:102-152).                                                      *)
NilMeansComplete ==
  returned = "nil" =>
    /\ \A i \in Items : report[i] # "none" /\ Len(out[i]) = emitted[i]
    /\ {received[k].url : k \in 1..Len(received)} = Emitted
    /\ Len(received) = Cardinality(Emitted)
    /\ Len(lines) + lost = Cardinality({n \in 1..Len(received) : W!Due(n)})

(* README.md:138-140: "Counts reflect URLs that survived every active      *)
(* filter [...] - i.e. what's actually in the output stream", in total and *)
(* by provider, but for the records a failed write lost; and the writer    *)
(* has finished when main prints it (main.go:137-146).                     *)
SummaryIsOutput ==
  closer = "summarized" =>
    /\ summary = counts
    /\ summary.urls = Len(lines) + lost
    /\ lost = 0 =>
         \A p \in Providers : P!Get(summary.byProvider, p)
                                = Cardinality({k \in 1..Len(lines) : lines[k].provider = p})

(* The summary is printed when every work item is done, and its errors are *)
(* those the providers returned (main.go:72-74, 139-146).                  *)
SummaryIsComplete ==
  closer = "summarized" =>
    /\ summary.done = Cardinality(Items) /\ summary.total = summary.done
    /\ summary.errors = Cardinality({i \in Items : report[i] = "error"})

(* What the user sees never goes back, not even when Close renders its own *)
(* snapshot after the goroutine's last one (progress.go:304-347).          *)
FramesNeverGoBack == P!FramesNeverGoBack

(* "Close stops the goroutine ... so the summary block renders cleanly     *)
(* underneath" (progress.go:236-240): no frame after the summary.          *)
NoFrameAfterSummary == P!NoFrameAfterSummary

(* A run ends, whatever the providers, the filters and stdin do.           *)
RunEnds == <>(main = "returned")

(* "Returning an error here makes cobra print it and Execute return        *)
(* non-nil" (main.go:29-30): the write error main.go:148-150 wraps comes   *)
(* back from runGau.                                                       *)
WriteErrorIsReturned == writeErr = "error" ~> returned = "write error"
=============================================================================
