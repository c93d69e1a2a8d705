----------------------------- MODULE CommonCrawl -----------------------------
(***************************************************************************)
(* Fetch of pkg/providers/commoncrawl/commoncrawl.go: the index says first *)
(* how many pages there are; every page is lines of JSON.                  *)
(***************************************************************************)
EXTENDS Fetch

AtCommonCrawl == config.provider = "commoncrawl"

(* getPagination, and p.Pages == 0.                                        *)
NumPages == Len(archive.pages)

CommonCrawlPagination ==
  /\ AtCommonCrawl
  /\ fetch = "pagination"
  /\ UNCHANGED faults
  /\ IF NumPages = 0 THEN Ends("nil")
     ELSE /\ fetch' = "loop"
          /\ UNCHANGED <<inputVars, ctxDone, page, row, sent, ret>>

CommonCrawlRefused ==
  /\ AtCommonCrawl
  /\ \E fault \in RequestFaults : Refused(fault, "error")

CommonCrawlServed == AtCommonCrawl /\ Served

CommonCrawlSends == AtCommonCrawl /\ AtRow /\ Row \in Hosts /\ SendRow

CommonCrawlSendCancelled ==
  AtCommonCrawl /\ AtRow /\ Row \in Hosts /\ SendCancelled

(* A line that does not decode, or carries an error.                       *)
CommonCrawlBadLine ==
  /\ AtCommonCrawl
  /\ AtRow
  /\ Row \in {"garbage", "error"}
  /\ Ends("error")
  /\ faults' = faults \cup {"badLine"}

(* sc.Scan gives up at a line longer than its buffer; nobody asks sc.Err,  *)
(* and the loop goes on with the next page.                                *)
CommonCrawlLongLine ==
  /\ AtCommonCrawl
  /\ AtRow
  /\ Row = "long"
  /\ NextPage
  /\ faults' = faults \cup {"longLine"}

CommonCrawlPageEnds == AtCommonCrawl /\ AtEnd /\ NextPage /\ UNCHANGED faults

(* page < p.Pages fails.                                                   *)
CommonCrawlEnds ==
  /\ AtCommonCrawl
  /\ fetch = "loop"
  /\ page > NumPages
  /\ Ends("nil")
  /\ UNCHANGED faults

CommonCrawlBegins == AtCommonCrawl /\ page <= NumPages /\ BeginPage

CommonCrawlRequest ==
  CommonCrawlPagination \/ CommonCrawlRefused \/ CommonCrawlServed

CommonCrawlStep ==
  \/ CommonCrawlBegins \/ CommonCrawlEnds
  \/ CommonCrawlSendCancelled
  \/ CommonCrawlBadLine \/ CommonCrawlLongLine \/ CommonCrawlPageEnds
=============================================================================
