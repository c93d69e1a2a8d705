------------------------------- MODULE Wayback -------------------------------
(* Fetch of pkg/providers/wayback/wayback.go.  CDX does not say how many   *)
(* pages there are: the loop asks for one more than there is.              *)
EXTENDS Fetch

AtWayback == config.provider = "wayback"

EveryErrorIsReported(fault) == "error"     (* a mutant *)

WaybackReturn(fault) == IF fault = "badRequest" THEN "nil" ELSE "error"

WaybackRefused ==
  /\ AtWayback
  /\ page <= Len(archive.pages)
  /\ \E fault \in RequestFaults : Refused(fault, WaybackReturn(fault))

(* Past the end CDX answers 400, an empty page or nothing but the header;  *)
(* asking may fail as it may for any page.                                 *)
EmptyPageGoesOn == /\ fetch' = "loop"      (* a mutant: no len(result) test *)
                   /\ UNCHANGED <<inputVars, ctxDone, page, row, sent, ret>>

OnEmptyPage == Ends("nil")

WaybackPastEnd ==
  /\ AtWayback
  /\ page > Len(archive.pages)
  /\ fetch = "request"
  /\ \/ OnEmptyPage /\ UNCHANGED faults
     \/ Ends(WaybackReturn("badRequest")) /\ UNCHANGED faults
     \/ \E fault \in RequestFaults \ {"badRequest"} :
          Refused(fault, WaybackReturn(fault))

WaybackServed == AtWayback /\ page <= Len(archive.pages) /\ Served

(* An empty row has no URL and is skipped.                                 *)
WaybackSkips == AtWayback /\ AtRow /\ Row = "blank" /\ SkipRow

WaybackSends == AtWayback /\ AtRow /\ Row # "blank" /\ SendRow

WaybackSendCancelled == AtWayback /\ AtRow /\ Row # "blank" /\ SendCancelled

WaybackPageEnds == AtWayback /\ AtEnd /\ NextPage /\ UNCHANGED faults

WaybackRequest == WaybackRefused \/ WaybackPastEnd \/ WaybackServed

WaybackStep == WaybackSkips \/ WaybackSendCancelled \/ WaybackPageEnds
=============================================================================
