------------------------------- MODULE UrlScan -------------------------------
(***************************************************************************)
(* Fetch of pkg/providers/urlscan: the next page is asked for by the sort  *)
(* key of the last result of the one before (search_after).  parseSort     *)
(* keeps the strings of a key and drops its numbers.                       *)
(***************************************************************************)
EXTENDS Fetch

AtUrlScan == config.provider = "urlscan"

(* 429, as a status or in the body, is a graceful stop.                    *)
UrlScanReturn(fault) == IF fault = "rateLimited" THEN "nil" ELSE "error"

UrlScanRefused ==
  /\ AtUrlScan
  /\ \E fault \in RequestFaults : Refused(fault, UrlScanReturn(fault))

SuffixMatches ==     (* a mutant: --subs not asked *)
  config.canonical /\ Row \in {"url", "subdomain", "lookalike"}

(* "lookalike" stands for otherexample.com against example.com. The names  *)
(* are compared as they are spelled.                                       *)
matchesDomain ==
  /\ config.canonical
  /\ \/ Row = "url"
     \/ config.IncludeSubdomains /\ Row \in {"subdomain", "lookalike"}

UrlScanSkips == AtUrlScan /\ AtRow /\ ~matchesDomain /\ SkipRow

UrlScanSends == AtUrlScan /\ AtRow /\ matchesDomain /\ SendRow

UrlScanSendCancelled == AtUrlScan /\ AtRow /\ matchesDomain /\ SendCancelled

(* What is left of the last result's sort key; "" for a page of none.      *)
parseSort(key) == CASE key = "string" -> "complete"
                    [] key = "mixed" -> "partial"
                    [] OTHER -> ""

nextSearchAfter ==
  IF PageRows = <<>> THEN "" ELSE parseSort(archive.pages[page].key)

UrlScanPageEnds ==
  /\ AtUrlScan
  /\ AtEnd
  /\ IF ~HasNext THEN Ends("nil") /\ UNCHANGED faults
     ELSE IF nextSearchAfter = ""
     THEN Ends("nil") /\ faults' = faults \cup {"noCursor"}
     ELSE NextPage /\ UNCHANGED faults

(* The service continues after a complete key; one it wants in two parts   *)
(* and gets in one it refuses.                                             *)
UrlScanServed ==
  /\ AtUrlScan
  /\ page > 1 => parseSort(archive.pages[page - 1].key) = "complete"
  /\ Served

UrlScanRequest == UrlScanRefused \/ UrlScanServed

UrlScanStep == UrlScanSkips \/ UrlScanSendCancelled \/ UrlScanPageEnds
=============================================================================
