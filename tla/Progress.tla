------------------------------ MODULE Progress ------------------------------
(***************************************************************************)
(* pkg/progress/progress.go: the Tracker the runner and the writer feed,   *)
(* the Display goroutine that renders snapshots of it, and the end of a    *)
(* run, where Close stops the display and WriteSummary prints the totals.  *)
(*                                                                         *)
(* Every method of Tracker is one critical section of its mutex, hence one *)
(* step here.  The component is open: its clients queue and complete work  *)
(* and emit URLs when they like, and one of them closes the display.       *)
(***************************************************************************)
EXTENDS Naturals

CONSTANTS
  Extensions,   (* lower-cased path extensions; "" is a URL without one     *)
  ShowProgress  (* --progress: there is a Tracker and a Display            *)

(* What the constants must be, wherever the component is used.             *)
ProgressConstants ==
  /\ ShowProgress \in BOOLEAN
  /\ "(no ext)" \notin Extensions

VARIABLES
  counts,  (* the fields of Tracker                                        *)
  display, (* the run goroutine: "off", "select", "update", "stopped"      *)
  snap,    (* the Stats that goroutine has taken but not yet rendered      *)
  stop,    (* d.stop is closed                                             *)
  closer,  (* the caller of Close: "open", "joining", "final", "closed"    *)
  last,    (* the Stats Close takes for its own last update                *)
  bar,     (* what the bar shows                                           *)
  summary  (* what WriteSummary printed                                    *)

progressVars == <<counts, display, snap, stop, closer, last, bar, summary>>

NoCounts == [total |-> 0, done |-> 0, errors |-> 0, urls |-> 0,
             byProvider |-> <<>>, byExtension |-> <<>>]
EmptyBar == [max |-> 0, done |-> 0, urls |-> 0]

ProgressInit ==
  /\ counts = NoCounts
  /\ display = IF ShowProgress THEN "select" ELSE "off"
  /\ snap = NoCounts
  /\ stop = FALSE
  /\ closer = "open"
  /\ last = NoCounts
  /\ bar = EmptyBar
  /\ summary = NoCounts
-----------------------------------------------------------------------------
(* The Tracker.  A nil Tracker (ShowProgress off) is never called.         *)

(* A Go map read gives 0 for a key it does not have.                       *)
Get(m, k) == IF k \in DOMAIN m THEN m[k] ELSE 0

Put(m, k, v) == [x \in DOMAIN m \cup {k} |-> IF x = k THEN v ELSE m[x]]

WorkQueued(n) ==
  /\ counts' = IF n > 0 THEN [counts EXCEPT !.total = @ + n] ELSE counts
  /\ UNCHANGED <<display, snap, stop, closer, last, bar, summary>>

WorkCompleted(p, err) ==
  /\ counts' = [counts EXCEPT
       !.done = @ + 1,
       !.errors = IF err # "nil" THEN @ + 1 ELSE @,
       !.byProvider = Put(@, p, Get(@, p))]
  /\ UNCHANGED <<display, snap, stop, closer, last, bar, summary>>

Bucket(ext) == IF ext = "" THEN "(no ext)" ELSE ext

URLEmitted(p, ext) ==
  /\ counts' = [counts EXCEPT
       !.urls = @ + 1,
       !.byProvider = Put(@, p, Get(@, p) + 1),
       !.byExtension = Put(@, Bucket(ext), Get(@, Bucket(ext)) + 1)]
  /\ UNCHANGED <<display, snap, stop, closer, last, bar, summary>>
-----------------------------------------------------------------------------
(* The Display: a goroutine that polls, and Close on the caller's.         *)

(* The bar's maximum follows the total; a total of 0 leaves it.            *)
Updated(s) == [max |-> IF s.total > 0 THEN s.total ELSE bar.max,
               done |-> s.done, urls |-> s.urls]

Tick ==
  /\ display = "select"
  /\ snap' = counts
  /\ display' = "update"
  /\ UNCHANGED <<counts, stop, closer, last, bar, summary>>

Update ==
  /\ display = "update"
  /\ bar' = Updated(snap)
  /\ display' = "select"
  /\ UNCHANGED <<counts, snap, stop, closer, last, summary>>

StopsRunning ==
  /\ display = "select"
  /\ stop
  /\ display' = "stopped"
  /\ UNCHANGED <<counts, snap, stop, closer, last, bar, summary>>

Close ==
  /\ display # "off"
  /\ closer = "open"
  /\ stop' = TRUE
  /\ closer' = "joining"
  /\ UNCHANGED <<counts, display, snap, last, bar, summary>>

(* <-d.done                                                                *)
JoinSkipped == TRUE     (* a mutant *)

DisplayDone == display = "stopped"

CloseSnapshots ==
  /\ closer = "joining"
  /\ DisplayDone
  /\ last' = counts
  /\ closer' = "final"
  /\ UNCHANGED <<counts, display, snap, stop, bar, summary>>

CloseFinishes ==
  /\ closer = "final"
  /\ bar' = Updated(last)
  /\ closer' = "closed"
  /\ UNCHANGED <<counts, display, snap, stop, last, summary>>

WriteSummary ==
  /\ closer = "closed"
  /\ summary' = counts
  /\ closer' = "summarized"
  /\ UNCHANGED <<counts, display, snap, stop, last, bar>>

(* The goroutine's own steps, and those of the caller of Close.            *)
Running == Tick \/ Update \/ StopsRunning

Closing == CloseSnapshots \/ CloseFinishes
-----------------------------------------------------------------------------
(* What the user sees never goes back, not even when Close renders its own *)
(* snapshot after the goroutine's last one (progress.go:304-347).          *)
FramesNeverGoBack ==
  [][/\ bar'.done >= bar.done
     /\ bar'.urls >= bar.urls
     /\ bar'.max >= bar.max]_progressVars

(* "Close stops the goroutine ... so the summary block renders cleanly     *)
(* underneath" (progress.go:236-240): no frame after the summary.          *)
NoFrameAfterSummary ==
  [][(closer \in {"closed", "summarized"}) => bar' = bar]_progressVars
=============================================================================
