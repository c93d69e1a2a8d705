--------------------------- MODULE ProvidersProofs ---------------------------
(***************************************************************************)
(* What the Fetch of a provider sends and returns, for every archive: the  *)
(* invariant says that what was sent are the wanted rows before the        *)
(* position of the loop.  From it follow the order and completeness of     *)
(* what is sent (Harvest), what a nil return means and when there is an    *)
(* error.                                                                  *)
(***************************************************************************)
EXTENDS Providers, TLAPS

Position == <<page, row>>

Behind(p, r) == p < page \/ (p = page /\ r < row)

KindAt(a, p, r) == a.pages[p].rows[r]

InArchive(a, p, r) == p \in 1..Len(a.pages) /\ r \in 1..Len(a.pages[p].rows)

ArchiveInv ==
  /\ archive.pages \in Seq(Pages)
  /\ archive.endless \in BOOLEAN
  /\ archive.endless => config.provider = "otx"
  /\ config.provider \in Names
  /\ \A p, r : InArchive(archive, p, r) =>
       /\ KindAt(archive, p, r) \in RowsOf(config.provider)
       /\ KindAt(archive, p, r) \in Queries \cup (Rows \ Hosts)

(* Sent are wanted rows behind the loop's position, and all of those; a    *)
(* long line is not behind it, unless it was counted as a fault.           *)
SentInv ==
  \A i \in 1..Len(sent) : \E p, r \in Nat :
    /\ sent[i] = <<p, r>>
    /\ <<p, r>> \in Readable(config, archive)
    /\ Behind(p, r)

PassedInv ==
  \A p, r : <<p, r>> \in Readable(config, archive) /\ Behind(p, r)
    => H!IsSent(<<p, r>>)

NoLongPassed ==
  \A p, r : InArchive(archive, p, r) /\ Behind(p, r)
               /\ (p = page \/ "longLine" \notin faults)
    => KindAt(archive, p, r) # "long"

(* Until it returns, a Fetch has met no fault but long lines.              *)
FaultsInv ==
  ret = "none" => /\ faults \subseteq {"longLine"}
                  /\ faults # {} => AtCommonCrawl

LoopInv == fetch \in {"pagination", "loop", "request"} => row = 1

FetchInv ==
  /\ FetchTypeOK /\ LoopInv /\ ArchiveInv
  /\ SentInv /\ PassedInv /\ NoLongPassed /\ FaultsInv
  /\ NilIsComplete /\ ErrorIffFault
-----------------------------------------------------------------------------
(* The kinds of step a Fetch makes.                                        *)
Kept == config' = config /\ archive' = archive

(* Nothing but the control point changes, or the context ends.             *)
Quiet ==
  /\ Kept
  /\ page' = page /\ row' = row /\ sent' = sent
  /\ ret' = ret /\ faults' = faults
  /\ fetch' \in {"pagination", "loop", "request", "rows", "returned"}
  /\ (fetch' = "returned") = (fetch = "returned")
  /\ fetch' \in {"pagination", "loop", "request"} => row = 1
  /\ ctxDone' \in BOOLEAN
  /\ ctxDone => ctxDone'

AllBehind ==
  /\ ~archive.endless
  /\ \A p, r : InArchive(archive, p, r) => Behind(p, r)

(* Fetch returns, for a reason.                                            *)
Stop ==
  /\ Kept
  /\ page' = page /\ row' = row /\ sent' = sent /\ ctxDone' = ctxDone
  /\ ret = "none" /\ ret' \in {"nil", "error"} /\ fetch' = "returned"
  /\ faults \subseteq faults' /\ faults' \subseteq Faults
  /\ (ret' = "error") = (faults' \ TakenForEnd # {})
  /\ ret' = "nil" => \/ ctxDone
                     \/ faults' \cap TakenForEnd # {}
                     \/ AllBehind

(* The inner loop moves past a row.                                        *)
Move ==
  /\ Kept
  /\ AtRow
  /\ page' = page /\ row' = row + 1 /\ ctxDone' = ctxDone
  /\ fetch' = fetch /\ ret' = ret /\ faults' = faults
  /\ Row # "long"

Skip == Move /\ sent' = sent
             /\ (Row \in Welcome(config) => ~Comparable(config))

Take == Move /\ sent' = Append(sent, Position)
             /\ Row \in Welcome(config) /\ Comparable(config)

(* The outer loop moves past the page.                                     *)
Turn ==
  /\ Kept
  /\ fetch = "rows" /\ fetch' = "loop"
  /\ page' = Advance /\ row' = 1
  /\ sent' = sent /\ ctxDone' = ctxDone /\ ret' = ret
  /\ \/ AtEnd /\ faults' = faults
     \/ /\ AtRow /\ Row = "long" /\ AtCommonCrawl
        /\ faults' = faults \cup {"longLine"}
-----------------------------------------------------------------------------
(* A wanted row is one of the archive that is welcome; it is readable if   *)
(* names compare and no long line comes before it.                         *)
LEMMA InWanted ==
  ASSUME NEW c, NEW a
  PROVE  /\ \A t : t \in Wanted(c, a) <=>
              \E p, r : /\ InArchive(a, p, r)
                        /\ KindAt(a, p, r) \in Welcome(c)
                        /\ t = <<p, r>>
         /\ \A p, r : <<p, r>> \in Wanted(c, a) <=>
              InArchive(a, p, r) /\ KindAt(a, p, r) \in Welcome(c)
<1>1. \A t : t \in Wanted(c, a) <=>
        \E p \in 1..Len(a.pages) :
          \E r \in 1..Len(a.pages[p].rows) :
            a.pages[p].rows[r] \in Welcome(c) /\ t = <<p, r>>
  BY DEF Wanted
<1>2. \A t : t \in Wanted(c, a) <=>
        \E p, r : /\ InArchive(a, p, r)
                  /\ KindAt(a, p, r) \in Welcome(c)
                  /\ t = <<p, r>>
  BY <1>1 DEF InArchive, KindAt
<1> QED
  BY <1>2

(* When a row is one a Fetch should send.                                  *)
LEMMA InReadable ==
  ASSUME NEW c, NEW a
  PROVE  /\ \A t \in Readable(c, a) : \E p, r : t = <<p, r>>
         /\ \A p, r : <<p, r>> \in Readable(c, a) <=>
              /\ InArchive(a, p, r)
              /\ KindAt(a, p, r) \in Welcome(c)
              /\ Comparable(c)
              /\ \A k \in 1..r : KindAt(a, p, k) # "long"
<1>1. \A p, r : LongBefore(a, <<p, r>>)
               <=> \E k \in 1..r : KindAt(a, p, k) = "long"
  BY DEF LongBefore, KindAt
<1> QED
  BY <1>1, InWanted DEF Readable
-----------------------------------------------------------------------------
(* What the loop's position stands for.                                    *)
LEMMA PositionFacts ==
  ASSUME FetchTypeOK, ArchiveInv
  PROVE  /\ page \in Nat /\ row \in Nat /\ Len(archive.pages) \in Nat
         /\ \A p \in 1..Len(archive.pages) :
              Len(archive.pages[p].rows) \in Nat
         /\ page <= Len(archive.pages) => PageRows = archive.pages[page].rows
         /\ AtRow => /\ InArchive(archive, page, row)
                     /\ Row = KindAt(archive, page, row)
                     /\ Row \in RowsOf(config.provider)
                     /\ Row \in Queries \cup (Rows \ Hosts)
         /\ AtEnd => \A p, r : InArchive(archive, p, r) /\ p <= page
                                => Behind(p, r)
<1>1. page \in 1..Len(archive.pages) + 1 /\ row \in 1..Len(PageRows) + 1
  BY DEF FetchTypeOK
<1>2. /\ Len(archive.pages) \in Nat
      /\ \A p \in 1..Len(archive.pages) : archive.pages[p] \in Pages
  BY DEF ArchiveInv
<1>3. \A p \in 1..Len(archive.pages) : Len(archive.pages[p].rows) \in Nat
  BY <1>2 DEF Pages
<1>4. page <= Len(archive.pages) => PageRows = archive.pages[page].rows
  BY DEF PageRows
<1>5. page > Len(archive.pages) => Len(PageRows) = 0
  BY <1>1, <1>2 DEF PageRows
<1>6. ASSUME AtRow
      PROVE  InArchive(archive, page, row) /\ Row = KindAt(archive, page, row)
  <2>1. row \in 1..Len(PageRows)
    BY <1>1, <1>2, <1>3, <1>4, <1>5, <1>6 DEF AtRow, MoreRows
  <2>2. page \in 1..Len(archive.pages)
    BY <1>1, <1>2, <1>5, <2>1
  <2> QED
    BY <1>2, <1>4, <2>1, <2>2 DEF InArchive, KindAt, Row
<1>7. AtRow => /\ Row \in RowsOf(config.provider)
              /\ Row \in Queries \cup (Rows \ Hosts)
  BY <1>6 DEF ArchiveInv
<1>8. ASSUME AtEnd, NEW p, NEW r, InArchive(archive, p, r), p <= page
      PROVE  Behind(p, r)
  <2>1. p \in 1..Len(archive.pages) /\ r \in 1..Len(archive.pages[p].rows)
    BY <1>8 DEF InArchive
  <2>2. CASE p = page
    <3>1. ~(row <= Len(archive.pages[p].rows))
      BY <1>2, <1>4, <1>8, <2>1, <2>2 DEF AtEnd, MoreRows
    <3> QED
      BY <1>1, <1>3, <2>1, <2>2, <3>1 DEF Behind
  <2>3. CASE p # page
    BY <1>1, <1>2, <1>8, <2>1, <2>3 DEF Behind
  <2> QED
    BY <2>2, <2>3
<1> QED
  BY <1>1, <1>2, <1>3, <1>4, <1>6, <1>7, <1>8
-----------------------------------------------------------------------------
(* Where the archive has nothing more, all of it is behind the loop.       *)
LEMMA EndIsBehind ==
  ASSUME FetchTypeOK, ArchiveInv, ~archive.endless,
         \/ page > Len(archive.pages)
         \/ AtEnd /\ page >= Len(archive.pages)
  PROVE  AllBehind
<1>1. /\ page \in Nat /\ Len(archive.pages) \in Nat
      /\ AtEnd => \A p, r : InArchive(archive, p, r) /\ p <= page
                            => Behind(p, r)
  BY PositionFacts
<1>2. ASSUME NEW p, NEW r, InArchive(archive, p, r)
      PROVE  Behind(p, r)
  <2>1. p \in Nat /\ p <= Len(archive.pages)
    BY <1>1, <1>2 DEF InArchive
  <2>2. CASE page > Len(archive.pages)
    BY <1>1, <2>1, <2>2 DEF Behind
  <2>3. CASE AtEnd /\ page >= Len(archive.pages)
    BY <1>1, <1>2, <2>1, <2>3
  <2> QED
    BY <2>2, <2>3
<1> QED
  BY <1>2 DEF AllBehind

(* A failed request ends Fetch with the value the provider chose for it.   *)
LEMMA RefusedStops ==
  ASSUME FetchTypeOK, ArchiveInv, FaultsInv,
         NEW fault \in RequestFaults, NEW value \in {"nil", "error"},
         (value = "nil") = (fault \in TakenForEnd),
         Refused(fault, value)
  PROVE  Stop
<1>1. ret = "none"
  BY DEF FetchTypeOK, Refused
<1>2. fault \in {"badRequest", "rateLimited", "failed", "garbage", "limiter"}
  BY DEF RequestFaults
<1>3. faults \subseteq TakenForEnd
  BY <1>1 DEF FaultsInv, AtCommonCrawl, TakenForEnd
<1>4. (value = "error") = (faults' \ TakenForEnd # {})
  BY <1>3 DEF Refused
<1>5. value = "nil" => faults' \cap TakenForEnd # {}
  BY DEF Refused
<1>6. faults \subseteq faults' /\ faults' \subseteq Faults
  BY <1>2 DEF Refused, FetchTypeOK, Faults
<1> QED
  BY <1>1, <1>4, <1>5, <1>6 DEF Stop, Refused, Returns, Kept, inputVars

(* So does a return without a fault, once the context or the archive has   *)
(* ended.                                                                  *)
LEMMA ReturnStops ==
  ASSUME FetchTypeOK, ArchiveInv, FaultsInv,
         ret = "none", ctxDone \/ AllBehind,
         Returns("nil"),
         UNCHANGED <<inputVars, ctxDone, page, row, sent, faults>>
  PROVE  Stop
<1>1. faults \subseteq TakenForEnd
  BY DEF FaultsInv, AtCommonCrawl, TakenForEnd
<1>2. faults' \subseteq Faults /\ faults' \ TakenForEnd = {}
  BY <1>1 DEF FetchTypeOK
<1> QED
  BY <1>2 DEF Stop, Returns, Kept, inputVars

(* The steps the four loops share are of these kinds.                      *)
LEMMA SendCancelledStops ==
  ASSUME FetchTypeOK, ArchiveInv, FaultsInv, SendCancelled
  PROVE  Stop
<1>1. ret = "none" /\ ctxDone
  BY DEF SendCancelled, SelectsCtx, AtRow, FetchTypeOK
<1> QED
  BY <1>1, ReturnStops DEF SendCancelled

(* A page that arrives only opens the loop over its rows.                  *)
LEMMA ServedIsQuiet ==
  ASSUME FetchTypeOK, LoopInv, Served
  PROVE  Quiet
<1>1. row = 1 /\ row' = 1
  BY DEF Served, FirstRow, LoopInv
<1> QED
  BY <1>1 DEF Served, Quiet, Kept, inputVars, FetchTypeOK

(* A select that sends takes the row at hand.                              *)
LEMMA SendTakes ==
  ASSUME SendRow, Row \in Welcome(config), Comparable(config), Row # "long"
  PROVE  Take
BY DEF SendRow, AtRow, Take, Move, Kept, inputVars, Position

(* A continue passes over a row nobody wants.                              *)
LEMMA SkipSkips ==
  ASSUME SkipRow, Row # "long", Row \in Welcome(config) => ~Comparable(config)
  PROVE  Skip
BY DEF SkipRow, AtRow, Skip, Move, Kept, inputVars

(* The end of the row loop turns the page.                                 *)
LEMMA PageEndTurns ==
  ASSUME AtEnd, NextPage, UNCHANGED faults
  PROVE  Turn
BY DEF NextPage, AtEnd, Turn, Kept, inputVars
-----------------------------------------------------------------------------
(* Every step of a provider is of one of these kinds.                      *)
LEMMA WaybackKinds ==
  ASSUME FetchTypeOK, ArchiveInv, LoopInv, FaultsInv,
         WaybackRequest \/ WaybackSends \/ WaybackStep
  PROVE  Quiet \/ Stop \/ Skip \/ Take \/ Turn
<1>1. config.provider = "wayback" /\ ~archive.endless
  BY DEF ArchiveInv, AtWayback, WaybackRequest, WaybackRefused, WaybackPastEnd,
         WaybackServed, WaybackSends, WaybackStep, WaybackSkips,
         WaybackSendCancelled, WaybackPageEnds
<1>2. TakenForEnd = {"badRequest"}
  BY <1>1 DEF TakenForEnd
<1>3. \A fault : /\ WaybackReturn(fault) \in {"nil", "error"}
                 /\ (WaybackReturn(fault) = "nil") = (fault \in TakenForEnd)
  BY <1>2 DEF WaybackReturn
<1>4. CASE WaybackRefused
  BY <1>3, <1>4, RefusedStops DEF WaybackRefused
<1>5. CASE WaybackPastEnd
  <2>1. ret = "none" /\ AllBehind
    BY <1>1, <1>5, EndIsBehind DEF WaybackPastEnd, FetchTypeOK
  <2>2. CASE Ends("nil") /\ UNCHANGED faults
    BY <2>1, <2>2, ReturnStops DEF Ends
  <2>3. CASE Ends(WaybackReturn("badRequest")) /\ UNCHANGED faults
    BY <2>1, <2>3, ReturnStops DEF Ends, WaybackReturn
  <2>4. CASE \E fault \in RequestFaults \ {"badRequest"} :
               Refused(fault, WaybackReturn(fault))
    BY <1>3, <2>4, RefusedStops
  <2> QED
    BY <1>5, <2>2, <2>3, <2>4 DEF WaybackPastEnd, OnEmptyPage
<1>6. CASE WaybackServed
  BY <1>6, ServedIsQuiet DEF WaybackServed
<1>7. CASE WaybackSends
  <2>1. AtRow /\ Row # "blank" /\ SendRow
    BY <1>7 DEF WaybackSends, SendRow
  <2>2. Row \in Hosts /\ Row \in Queries
    BY <1>1, <2>1, PositionFacts DEF RowsOf, Hosts, Rows
  <2>3. Row \in Welcome(config) /\ Comparable(config)
    BY <1>1, <2>2 DEF Queries, CdxQueries, Welcome, Asked, Comparable
  <2> QED
    BY <2>1, <2>2, <2>3, SendTakes DEF Hosts
<1>8. CASE WaybackSkips
  BY <1>1, <1>8, SkipSkips DEF WaybackSkips, Welcome, Asked
<1>9. CASE WaybackSendCancelled
  BY <1>9, SendCancelledStops DEF WaybackSendCancelled
<1>10. CASE WaybackPageEnds
  BY <1>10, PageEndTurns DEF WaybackPageEnds
<1> QED
  BY <1>4, <1>5, <1>6, <1>7, <1>8, <1>9, <1>10 DEF WaybackRequest, WaybackStep

(* The same for otx, whose pages may never end.                            *)
LEMMA OtxKinds ==
  ASSUME FetchTypeOK, ArchiveInv, LoopInv, FaultsInv,
         OtxRequest \/ OtxSends \/ OtxStep
  PROVE  Quiet \/ Stop \/ Skip \/ Take \/ Turn
<1>1. config.provider = "otx"
  BY DEF AtOtx, OtxRequest, OtxRefused, OtxServed, OtxSends, OtxStep,
         OtxSendCancelled, OtxPageEnds
<1>2. CASE OtxRefused
  BY <1>1, <1>2, RefusedStops DEF OtxRefused, TakenForEnd
<1>3. CASE OtxServed
  BY <1>3, ServedIsQuiet DEF OtxServed
<1>4. CASE OtxSends
  <2>1. AtRow /\ SendRow
    BY <1>4 DEF OtxSends, SendRow
  <2>2. Row \in Hosts
    BY <1>1, <2>1, PositionFacts DEF RowsOf
  <2> QED
    BY <1>1, <2>1, <2>2, SendTakes DEF Welcome, Comparable, Hosts
<1>5. CASE OtxSendCancelled
  BY <1>5, SendCancelledStops DEF OtxSendCancelled
<1>6. CASE OtxPageEnds
  <2>1. CASE HasNext
    BY <1>6, <2>1, PageEndTurns DEF OtxPageEnds, AfterPage
  <2>2. CASE ~HasNext
    <3>1. page >= Len(archive.pages) /\ ~archive.endless
      BY <2>2, PositionFacts DEF HasNext
    <3>2. AllBehind /\ ret = "none"
      BY <1>6, <3>1, EndIsBehind DEF OtxPageEnds, AtEnd, FetchTypeOK
    <3> QED
      BY <1>6, <2>2, <3>2, ReturnStops DEF OtxPageEnds, AfterPage, Ends
  <2> QED
    BY <2>1, <2>2
<1> QED
  BY <1>2, <1>3, <1>4, <1>5, <1>6 DEF OtxRequest, OtxStep

(* The same for urlscan, whose cursor may be lost.                         *)
LEMMA UrlScanKinds ==
  ASSUME FetchTypeOK, ArchiveInv, LoopInv, FaultsInv,
         UrlScanRequest \/ UrlScanSends \/ UrlScanStep
  PROVE  Quiet \/ Stop \/ Skip \/ Take \/ Turn
<1>1. config.provider = "urlscan" /\ ~archive.endless
  BY DEF ArchiveInv, AtUrlScan, UrlScanRequest, UrlScanRefused, UrlScanServed,
         UrlScanSends, UrlScanStep, UrlScanSkips, UrlScanSendCancelled,
         UrlScanPageEnds
<1>2. TakenForEnd = {"rateLimited", "noCursor"}
  BY <1>1 DEF TakenForEnd
<1>3. AtRow => Row \in Hosts /\ Row # "long"
  BY <1>1, PositionFacts DEF RowsOf, Hosts
<1>4. matchesDomain <=> Row \in Welcome(config) /\ Comparable(config)
  BY <1>1 DEF matchesDomain, Welcome, Asked, Comparable
<1>5. CASE UrlScanRefused
  <2>1. PICK fault \in RequestFaults : Refused(fault, UrlScanReturn(fault))
    BY <1>5 DEF UrlScanRefused
  <2>2. /\ UrlScanReturn(fault) \in {"nil", "error"}
        /\ (UrlScanReturn(fault) = "nil") = (fault \in TakenForEnd)
    BY <1>2 DEF UrlScanReturn, RequestFaults
  <2> QED
    BY <2>1, <2>2, RefusedStops
<1>6. CASE UrlScanServed
  BY <1>6, ServedIsQuiet DEF UrlScanServed
<1>7. CASE UrlScanSends
  BY <1>3, <1>4, <1>7, SendTakes DEF UrlScanSends
<1>8. CASE UrlScanSkips
  BY <1>3, <1>4, <1>8, SkipSkips DEF UrlScanSkips
<1>9. CASE UrlScanSendCancelled
  BY <1>9, SendCancelledStops DEF UrlScanSendCancelled
<1>10. CASE UrlScanPageEnds
  <2>1. AtEnd /\ ret = "none"
    BY <1>10 DEF UrlScanPageEnds, AtEnd, FetchTypeOK
  <2>2. CASE ~HasNext
    <3>1. page >= Len(archive.pages)
      BY <2>2, PositionFacts DEF HasNext
    <3>2. AllBehind
      BY <1>1, <2>1, <3>1, EndIsBehind
    <3> QED
      BY <1>10, <2>1, <2>2, <3>2, ReturnStops DEF UrlScanPageEnds, Ends
  <2>3. CASE HasNext /\ nextSearchAfter = ""
    <3>1. faults = {}
      BY <1>1, <2>1 DEF FaultsInv, AtCommonCrawl
    <3>2. Ends("nil") /\ faults' = {"noCursor"}
      BY <1>10, <2>3, <3>1 DEF UrlScanPageEnds
    <3>3. /\ faults' \ TakenForEnd = {} /\ faults' \cap TakenForEnd # {}
          /\ faults \subseteq faults' /\ faults' \subseteq Faults
      BY <1>2, <3>1, <3>2 DEF Faults
    <3> QED
      BY <2>1, <3>2, <3>3 DEF Stop, Ends, Returns, Kept, inputVars
  <2>4. CASE HasNext /\ nextSearchAfter # ""
    BY <1>10, <2>1, <2>4, PageEndTurns DEF UrlScanPageEnds
  <2> QED
    BY <2>2, <2>3, <2>4
<1> QED
  BY <1>5, <1>6, <1>7, <1>8, <1>9, <1>10 DEF UrlScanRequest, UrlScanStep

(* The same for Common Crawl, whose lines may be bad or too long.          *)
LEMMA CommonCrawlKinds ==
  ASSUME FetchTypeOK, ArchiveInv, LoopInv, FaultsInv,
         CommonCrawlRequest \/ CommonCrawlSends \/ CommonCrawlStep
  PROVE  Quiet \/ Stop \/ Skip \/ Take \/ Turn
<1>1. config.provider = "commoncrawl" /\ ~archive.endless
  BY DEF ArchiveInv, AtCommonCrawl, CommonCrawlRequest, CommonCrawlPagination,
         CommonCrawlRefused, CommonCrawlServed, CommonCrawlSends,
         CommonCrawlStep, CommonCrawlBegins, CommonCrawlEnds,
         CommonCrawlSendCancelled, CommonCrawlBadLine, CommonCrawlLongLine,
         CommonCrawlPageEnds
<1>2. TakenForEnd = {"longLine"}
  BY <1>1 DEF TakenForEnd
<1>3. CASE CommonCrawlPagination
  <2>1. CASE NumPages = 0
    <3>1. page > Len(archive.pages) /\ ret = "none"
      BY <1>3, <2>1 DEF CommonCrawlPagination, FetchTypeOK, NumPages
    <3> QED
      BY <1>1, <1>3, <2>1, <3>1, EndIsBehind, ReturnStops
      DEF CommonCrawlPagination, Ends
  <2>2. CASE NumPages # 0
    BY <1>3, <2>2 DEF CommonCrawlPagination, Quiet, Kept, inputVars, FetchTypeOK,
                      LoopInv
  <2> QED
    BY <2>1, <2>2
<1>4. CASE CommonCrawlRefused
  <2>1. PICK fault \in RequestFaults : Refused(fault, "error")
    BY <1>4 DEF CommonCrawlRefused
  <2>2. fault \notin TakenForEnd
    BY <1>2 DEF RequestFaults
  <2> QED
    BY <2>1, <2>2, RefusedStops
<1>5. CASE CommonCrawlServed
  BY <1>5, ServedIsQuiet DEF CommonCrawlServed
<1>6. CASE CommonCrawlSends
  <2>1. AtRow /\ SendRow /\ Row \in Hosts
    BY <1>6 DEF CommonCrawlSends
  <2>2. Row \in Queries /\ Row # "long"
    BY <2>1, PositionFacts DEF Hosts, Rows
  <2>3. Row \in Welcome(config) /\ Comparable(config)
    BY <1>1, <2>2 DEF Queries, CdxQueries, Welcome, Asked, Comparable
  <2> QED
    BY <2>1, <2>2, <2>3, SendTakes
<1>7. CASE CommonCrawlBegins
  <2>1. CASE ctxDone
    <3>1. ret = "none"
      BY <1>7 DEF CommonCrawlBegins, BeginPage, FetchTypeOK
    <3> QED
      BY <1>7, <2>1, <3>1, ReturnStops DEF CommonCrawlBegins, BeginPage
  <2>2. CASE ~ctxDone
    BY <1>7, <2>2 DEF CommonCrawlBegins, BeginPage, Quiet, Kept, inputVars,
                      FetchTypeOK, LoopInv
  <2> QED
    BY <2>1, <2>2
<1>8. CASE CommonCrawlEnds
  <2>1. page > Len(archive.pages) /\ ret = "none"
    BY <1>8, PositionFacts DEF CommonCrawlEnds, FetchTypeOK, NumPages
  <2> QED
    BY <1>1, <1>8, <2>1, EndIsBehind, ReturnStops DEF CommonCrawlEnds, Ends
<1>9. CASE CommonCrawlSendCancelled
  BY <1>9, SendCancelledStops DEF CommonCrawlSendCancelled
<1>10. CASE CommonCrawlBadLine
  <2>1. ret = "none" /\ Ends("error") /\ faults' = faults \cup {"badLine"}
    BY <1>10 DEF CommonCrawlBadLine, AtRow, FetchTypeOK
  <2>2. "badLine" \in faults' \ TakenForEnd
    BY <1>2, <2>1
  <2>3. faults \subseteq faults' /\ faults' \subseteq Faults
    BY <2>1 DEF Faults, FetchTypeOK
  <2> QED
    BY <2>1, <2>2, <2>3 DEF Stop, Ends, Returns, Kept, inputVars
<1>11. CASE CommonCrawlLongLine
  BY <1>11 DEF CommonCrawlLongLine, NextPage, AtRow, Turn, Kept, inputVars
<1>12. CASE CommonCrawlPageEnds
  BY <1>12, PageEndTurns DEF CommonCrawlPageEnds
<1> QED
  BY <1>3, <1>4, <1>5, <1>6, <1>7, <1>8, <1>9, <1>10, <1>11, <1>12
  DEF CommonCrawlRequest, CommonCrawlStep

(* Together: whatever the provider, a step is of one of the five kinds.    *)
LEMMA StepKinds ==
  ASSUME FetchTypeOK, ArchiveInv, LoopInv, FaultsInv, [ProvidersNext]_fetchVars
  PROVE  Quiet \/ Stop \/ Skip \/ Take \/ Turn
<1>1. CASE UNCHANGED fetchVars \/ Returned
  BY <1>1 DEF Returned, fetchVars, Quiet, Kept, inputVars, FetchTypeOK, LoopInv
<1>2. CASE Cancel
  BY <1>2 DEF Cancel, Quiet, Kept, inputVars, FetchTypeOK, LoopInv
<1>3. CASE BeginPage
  <2>1. ret = "none"
    BY <1>3 DEF BeginPage, FetchTypeOK
  <2>2. CASE ctxDone
    BY <1>3, <2>1, <2>2, ReturnStops DEF BeginPage
  <2>3. CASE ~ctxDone
    BY <1>3, <2>3 DEF BeginPage, Quiet, Kept, inputVars, FetchTypeOK, LoopInv
  <2> QED
    BY <2>2, <2>3
<1>4. CASE RequestCancelled
  <2>1. ret = "none"
    BY <1>4 DEF RequestCancelled, FetchTypeOK
  <2> QED
    BY <1>4, <2>1, ReturnStops DEF RequestCancelled
<1> QED
  BY <1>1, <1>2, <1>3, <1>4,
     WaybackKinds, OtxKinds, UrlScanKinds, CommonCrawlKinds
  DEF ProvidersNext, Step, Request, Send
-----------------------------------------------------------------------------
(* Each kind of step keeps the invariant.                                  *)
LEMMA QuietKeeps ==
  ASSUME FetchInv, Quiet
  PROVE  FetchInv'
<1>1. FetchTypeOK' /\ LoopInv'
  BY DEF FetchInv, FetchTypeOK, Quiet, Kept, LoopInv, PageRows
<1>2. ArchiveInv'
  BY DEF FetchInv, Quiet, Kept, ArchiveInv, Queries, CdxQueries, OtxQueries,
         HasSubdomain, Domain
<1>3. SentInv' /\ PassedInv'
  <2>1. SentInv'
    BY DEF FetchInv, Quiet, Kept, SentInv, Behind
  <2>2. PassedInv'
    BY DEF FetchInv, Quiet, Kept, PassedInv, Behind, H!IsSent
  <2> QED
    BY <2>1, <2>2
<1>4. NoLongPassed' /\ FaultsInv'
  BY DEF FetchInv, Quiet, Kept, NoLongPassed, FaultsInv, Behind, AtCommonCrawl
<1>5. NilIsComplete' /\ ErrorIffFault'
  BY DEF FetchInv, Quiet, Kept, NilIsComplete, ErrorIffFault, TakenForEnd
<1> QED
  BY <1>1, <1>2, <1>3, <1>4, <1>5 DEF FetchInv

(* A nil return with everything behind the loop has sent everything.       *)
LEMMA BehindIsSent ==
  ASSUME FetchInv, AllBehind, Comparable(config),
         AtCommonCrawl => "longLine" \notin faults,
         NEW t \in Wanted(config, archive)
  PROVE  H!IsSent(t)
<1>1. PICK p, r : /\ InArchive(archive, p, r)
                  /\ KindAt(archive, p, r) \in Welcome(config)
                  /\ t = <<p, r>>
  BY InWanted
<1>2. ASSUME NEW k \in 1..r
      PROVE  KindAt(archive, p, k) # "long"
  <2>1. InArchive(archive, p, k)
    BY <1>1, PositionFacts DEF InArchive, FetchInv
  <2>2. CASE AtCommonCrawl
    BY <2>1, <2>2 DEF FetchInv, NoLongPassed, AllBehind
  <2>3. CASE ~AtCommonCrawl
    <3>1. "long" \notin RowsOf(config.provider)
      BY <2>3 DEF FetchInv, ArchiveInv, AtCommonCrawl, Names, RowsOf, Hosts
    <3> QED
      BY <2>1, <3>1 DEF FetchInv, ArchiveInv
  <2> QED
    BY <2>2, <2>3
<1>3. <<p, r>> \in Readable(config, archive)
  BY <1>1, <1>2, InReadable
<1> QED
  BY <1>1, <1>3 DEF FetchInv, PassedInv, AllBehind

(* A return keeps the invariant.                                           *)
LEMMA StopKeeps ==
  ASSUME FetchInv, Stop
  PROVE  FetchInv'
<1>1. FetchTypeOK' /\ LoopInv'
  BY DEF FetchInv, FetchTypeOK, Stop, Kept, LoopInv, PageRows
<1>2. ArchiveInv'
  BY DEF FetchInv, Stop, Kept, ArchiveInv, Queries, CdxQueries, OtxQueries,
         HasSubdomain, Domain
<1>3. SentInv'
  BY DEF FetchInv, Stop, Kept, SentInv, Behind
<1>4. PassedInv'
  BY DEF FetchInv, Stop, Kept, PassedInv, Behind, H!IsSent
<1>5. NoLongPassed' /\ FaultsInv'
  BY DEF FetchInv, Stop, Kept, NoLongPassed, FaultsInv, Behind
<1>6. ErrorIffFault' /\ TakenForEnd' = TakenForEnd
  BY DEF Stop, Kept, ErrorIffFault, TakenForEnd
<1>7. NilIsComplete'
  <2>1. SUFFICES ASSUME ret' = "nil", ~ctxDone, Comparable(config),
                        faults' \cap TakenForEnd = {}
                 PROVE  /\ ~archive.endless
                        /\ \A t \in Wanted(config, archive) : H!IsSent(t)
    BY <1>6 DEF NilIsComplete, Stop, Kept, H!IsSent
  <2>2. AllBehind
    BY <2>1 DEF Stop
  <2>3. AtCommonCrawl => "longLine" \notin faults
    BY <2>1 DEF Stop, AtCommonCrawl, TakenForEnd
  <2> QED
    BY <2>1, <2>2, <2>3, BehindIsSent DEF AllBehind
<1> QED
  BY <1>1, <1>2, <1>3, <1>4, <1>5, <1>6, <1>7 DEF FetchInv

(* Moving past a row puts that row, and no other, behind the loop.         *)
LEMMA MoveBehind ==
  ASSUME FetchInv, Move
  PROVE  /\ \A p, r : InArchive(archive, p, r) =>
              (Behind(p, r)' <=> Behind(p, r) \/ (p = page /\ r = row))
         /\ FetchTypeOK /\ ArchiveInv
         /\ InArchive(archive, page, row) /\ Row = KindAt(archive, page, row)
         /\ page \in Nat /\ row \in Nat
<1>1. /\ InArchive(archive, page, row) /\ Row = KindAt(archive, page, row)
      /\ page \in Nat /\ row \in Nat
      /\ \A p, r : InArchive(archive, p, r) => p \in Nat /\ r \in Nat
  BY PositionFacts DEF FetchInv, Move, InArchive
<1>2. \A p, r : Behind(p, r)' <=> p < page \/ (p = page /\ r < row + 1)
  BY DEF Behind, Move
<1>3. \A p, r : InArchive(archive, p, r) =>
        (Behind(p, r)' <=> Behind(p, r) \/ (p = page /\ r = row))
  BY <1>1, <1>2 DEF Behind
<1> QED
  BY <1>1, <1>3 DEF FetchInv

(* What passing to the next row keeps, whether or not the row was sent.    *)
LEMMA MoveKeeps ==
  ASSUME FetchInv, Move
  PROVE  /\ ArchiveInv' /\ LoopInv' /\ NoLongPassed' /\ FaultsInv'
         /\ NilIsComplete' /\ ErrorIffFault'
         /\ sent' \in Seq(Nat \X Nat) => FetchTypeOK'
<1>1. sent' \in Seq(Nat \X Nat) => FetchTypeOK'
  <2>1. row + 1 \in 1..Len(PageRows) + 1 /\ PageRows' = PageRows
    <3>1. Len(PageRows) \in Nat
      BY PositionFacts DEF FetchInv, Move, InArchive
    <3> QED
      BY <3>1 DEF FetchInv, FetchTypeOK, Move, Kept, AtRow, MoreRows, PageRows
  <2> QED
    BY <2>1 DEF FetchInv, FetchTypeOK, Move, Kept
<1>2. ArchiveInv'
  BY DEF FetchInv, Move, Kept, ArchiveInv, Queries, CdxQueries, OtxQueries,
         HasSubdomain, Domain
<1>3. NoLongPassed'
  <2>1. \A p, r : InArchive(archive, p, r)' <=> InArchive(archive, p, r)
    BY DEF Move, Kept, InArchive
  <2>2. \A p, r : KindAt(archive, p, r)' = KindAt(archive, p, r)
    BY DEF Move, Kept, KindAt
  <2> QED
    BY <2>1, <2>2, MoveBehind DEF FetchInv, Move, NoLongPassed
<1>4. ret = "none" /\ ret' = "none" /\ fetch' = "rows"
  BY DEF FetchInv, FetchTypeOK, Move, AtRow
<1>5. LoopInv' /\ FaultsInv' /\ NilIsComplete' /\ ErrorIffFault'
  BY <1>4 DEF FetchInv, FaultsInv, LoopInv, Move, Kept, AtCommonCrawl,
              NilIsComplete, ErrorIffFault
<1> QED
  BY <1>1, <1>2, <1>3, <1>5

(* Passing over a row keeps the invariant.                                 *)
LEMMA SkipKeeps ==
  ASSUME FetchInv, Skip
  PROVE  FetchInv'
<1>1. Move /\ sent' = sent /\ Kept
  BY DEF Skip, Move
<1>2. /\ ArchiveInv' /\ LoopInv' /\ NoLongPassed' /\ FaultsInv'
      /\ NilIsComplete' /\ ErrorIffFault' /\ FetchTypeOK'
  BY <1>1, MoveKeeps DEF FetchInv, FetchTypeOK
<1>3. \A p, r : <<p, r>> \in Readable(config, archive) =>
        InArchive(archive, p, r) /\ ~(p = page /\ r = row)
  BY <1>1, MoveBehind, InReadable DEF Skip
<1>4. \A p, r : <<p, r>> \in Readable(config, archive) =>
        (Behind(p, r)' <=> Behind(p, r))
  BY <1>1, <1>3, MoveBehind
<1>5. SentInv'
  BY <1>1, <1>4 DEF FetchInv, SentInv, Kept
<1>6. PassedInv'
  BY <1>1, <1>4 DEF FetchInv, PassedInv, Kept, H!IsSent
<1> QED
  BY <1>2, <1>5, <1>6 DEF FetchInv

(* The row a provider sends is readable.                                   *)
LEMMA TakeReads ==
  ASSUME FetchInv, Take
  PROVE  /\ Position \in Readable(config, archive)
         /\ InArchive(archive, page, row) /\ page \in Nat /\ row \in Nat
<1>1. /\ InArchive(archive, page, row) /\ Row = KindAt(archive, page, row)
      /\ page \in Nat /\ row \in Nat
  BY MoveBehind DEF Take
<1>2. ASSUME NEW k \in 1..row
      PROVE  KindAt(archive, page, k) # "long"
  <2>1. InArchive(archive, page, k)
    BY <1>1, PositionFacts DEF InArchive, FetchInv
  <2>2. CASE k = row
    BY <1>1, <2>2 DEF Take, Move
  <2>3. CASE k # row
    BY <1>1, <2>1, <2>3 DEF FetchInv, NoLongPassed, Behind
  <2> QED
    BY <2>2, <2>3
<1> QED
  BY <1>1, <1>2, InReadable DEF Take, Position

(* Sending a row keeps the invariant.                                      *)
LEMMA TakeKeeps ==
  ASSUME FetchInv, Take
  PROVE  FetchInv'
<1>1. Move /\ sent' = Append(sent, Position) /\ Kept
  BY DEF Take, Move
<1>2. /\ Position \in Readable(config, archive) /\ Position = <<page, row>>
      /\ InArchive(archive, page, row) /\ page \in Nat /\ row \in Nat
      /\ sent \in Seq(Nat \X Nat)
  BY TakeReads DEF Position, FetchInv, FetchTypeOK
<1>3. /\ ArchiveInv' /\ LoopInv' /\ NoLongPassed' /\ FaultsInv'
      /\ NilIsComplete' /\ ErrorIffFault' /\ FetchTypeOK'
  BY <1>1, <1>2, MoveKeeps
<1>4. \A p, r : <<p, r>> \in Readable(config, archive) =>
        (Behind(p, r)' <=> Behind(p, r) \/ (p = page /\ r = row))
  BY <1>1, MoveBehind, InReadable
<1>5. Len(sent) \in Nat /\ Len(sent') = Len(sent) + 1
  BY <1>1, <1>2
<1>6. /\ sent'[Len(sent) + 1] = <<page, row>>
      /\ \A i \in 1..Len(sent) : sent'[i] = sent[i]
  BY <1>1, <1>2
<1>7. SentInv'
  <2>1. SUFFICES ASSUME NEW i \in 1..Len(sent) + 1
                 PROVE  \E p, r \in Nat : /\ sent'[i] = <<p, r>>
                                        /\ <<p, r>> \in Readable(config, archive)
                                        /\ Behind(p, r)'
    BY <1>1, <1>5 DEF SentInv, Kept
  <2>2. CASE i = Len(sent) + 1
    BY <1>2, <1>4, <1>6, <2>2
  <2>3. CASE i # Len(sent) + 1
    <3>1. i \in 1..Len(sent)
      BY <1>5, <2>3
    <3>2. PICK p, r \in Nat : /\ sent[i] = <<p, r>>
                            /\ <<p, r>> \in Readable(config, archive)
                            /\ Behind(p, r)
      BY <3>1 DEF FetchInv, SentInv
    <3> QED
      BY <1>4, <1>6, <3>1, <3>2
  <2> QED
    BY <2>2, <2>3
<1>8. PassedInv'
  <2>1. SUFFICES ASSUME NEW p, NEW r, <<p, r>> \in Readable(config, archive),
                        Behind(p, r)'
                 PROVE  \E i \in 1..Len(sent) + 1 : sent'[i] = <<p, r>>
    BY <1>1, <1>5 DEF PassedInv, Kept, H!IsSent
  <2>2. CASE Behind(p, r)
    <3>1. PICK i \in 1..Len(sent) : sent[i] = <<p, r>>
      BY <2>1, <2>2 DEF FetchInv, PassedInv, H!IsSent
    <3> QED
      BY <1>5, <1>6, <3>1
  <2>3. CASE p = page /\ r = row
    BY <1>5, <1>6, <2>3
  <2> QED
    BY <1>4, <2>1, <2>2, <2>3
<1> QED
  BY <1>3, <1>7, <1>8 DEF FetchInv

(* Turning the page keeps the invariant.                                   *)
LEMMA TurnKeeps ==
  ASSUME FetchInv, Turn
  PROVE  FetchInv'
<1>1. Kept /\ sent' = sent /\ ret' = ret /\ row' = 1 /\ fetch' = "loop"
  BY DEF Turn
<1>2. FetchTypeOK /\ ArchiveInv /\ ret = "none"
  BY DEF FetchInv, FetchTypeOK, Turn
<1>3. page' \in 1..Len(archive.pages) + 1 /\ row' \in 1..Len(PageRows') + 1
  <2>1. page' \in 1..Len(archive.pages) + 1
    BY <1>2, PositionFacts DEF FetchTypeOK, Turn, Advance
  <2>2. Len(PageRows') \in Nat
    BY <1>1, <1>2, <2>1, PositionFacts DEF PageRows, Kept
  <2> QED
    BY <1>1, <2>1, <2>2
<1>4. FetchTypeOK' /\ LoopInv'
  BY <1>1, <1>2, <1>3 DEF FetchTypeOK, LoopInv, Turn, Kept, Faults
<1>5. ArchiveInv'
  BY <1>1, <1>2 DEF Kept, ArchiveInv, Queries, CdxQueries, OtxQueries,
                    HasSubdomain, Domain
<1>6. ASSUME NEW p, NEW r, InArchive(archive, p, r)
      PROVE  Behind(p, r)' <=> p <= page
  BY <1>1, <1>2, <1>6, PositionFacts DEF Behind, InArchive, Turn, Advance
<1>7. ASSUME NEW p, NEW r, <<p, r>> \in Readable(config, archive), p <= page
      PROVE  Behind(p, r)
  <2>1. /\ InArchive(archive, p, r)
        /\ \A k \in 1..r : KindAt(archive, p, k) # "long"
    BY <1>7, InReadable
  <2>2. CASE AtEnd
    BY <1>2, <1>7, <2>1, <2>2, PositionFacts
  <2>3. CASE AtRow /\ Row = "long"
    <3>1. KindAt(archive, page, row) = "long"
      BY <1>2, <2>3, PositionFacts
    <3>2. page \in Nat /\ row \in 1..row /\ p \in Nat /\ r \in Nat
      BY <1>2, <2>1, PositionFacts DEF InArchive, FetchTypeOK
    <3>3. p = page => r < row
      BY <1>2, <2>1, <3>1, <3>2 DEF FetchTypeOK
    <3> QED
      BY <1>7, <3>2, <3>3 DEF Behind
  <2> QED
    BY <2>2, <2>3 DEF Turn
<1>8. \A p, r : <<p, r>> \in Readable(config, archive) =>
        (Behind(p, r)' => Behind(p, r))
  BY <1>6, <1>7, InReadable
<1>9. \A p, r : <<p, r>> \in Readable(config, archive) =>
        (Behind(p, r) => Behind(p, r)')
  <2>1. \A p, r : <<p, r>> \in Readable(config, archive) =>
          InArchive(archive, p, r)
    BY InReadable
  <2>2. \A p, r : InArchive(archive, p, r) /\ Behind(p, r) => p <= page
    BY <1>2, PositionFacts DEF Behind, InArchive
  <2> QED
    BY <1>6, <2>1, <2>2
<1>10. SentInv'
  BY <1>1, <1>9 DEF FetchInv, SentInv, Kept
<1>11. PassedInv'
  BY <1>1, <1>8 DEF FetchInv, PassedInv, Kept, H!IsSent
<1>12. NoLongPassed'
  <2>1. SUFFICES ASSUME NEW p, NEW r, InArchive(archive, p, r), p <= page,
                        p = page' \/ "longLine" \notin faults'
                 PROVE  KindAt(archive, p, r) # "long"
    <3>1. \A p, r : InArchive(archive, p, r)' <=> InArchive(archive, p, r)
      BY <1>1 DEF Kept, InArchive
    <3>2. \A p, r : KindAt(archive, p, r)' = KindAt(archive, p, r)
      BY <1>1 DEF Kept, KindAt
    <3> QED
      BY <1>6, <2>1, <3>1, <3>2 DEF NoLongPassed
  <2>2. p # page'
    BY <1>2, <2>1, PositionFacts DEF Turn, Advance, InArchive
  <2>3. "longLine" \notin faults' /\ "longLine" \notin faults /\ AtEnd
    BY <2>1, <2>2 DEF Turn
  <2>4. Behind(p, r)
    BY <1>2, <2>1, <2>3, PositionFacts
  <2> QED
    BY <2>1, <2>3, <2>4 DEF FetchInv, NoLongPassed
<1>13. FaultsInv'
  BY <1>1, <1>2 DEF FetchInv, FaultsInv, Turn, Kept, AtCommonCrawl
<1>14. NilIsComplete' /\ ErrorIffFault'
  BY <1>1, <1>2 DEF NilIsComplete, ErrorIffFault
<1> QED
  BY <1>4, <1>5, <1>10, <1>11, <1>12, <1>13, <1>14 DEF FetchInv
-----------------------------------------------------------------------------
(* The invariant holds where a Fetch begins.                               *)
LEMMA InitKeeps ==
  ASSUME FetchAssumption, ProvidersInit
  PROVE  FetchInv
<1>1. config \in Configs /\ archive \in Archives[config.provider]
  BY DEF ProvidersInit, FetchInit
<1>2. config.provider \in Names /\ archive.pages \in Seq(Pages)
      /\ archive.endless \in BOOLEAN
  BY <1>1 DEF FetchAssumption
<1>3. archive.endless => config.provider = "otx"
  BY <1>1, <1>2 DEF FetchAssumption
<1>4. Len(archive.pages) \in Nat
      /\ \A p \in 1..Len(archive.pages) : archive.pages[p] \in Pages
  BY <1>2
<1>5. ASSUME NEW p, NEW r, InArchive(archive, p, r)
      PROVE  /\ KindAt(archive, p, r) \in RowsOf(config.provider)
             /\ KindAt(archive, p, r) \in Queries \cup (Rows \ Hosts)
  <2>1. p \in 1..Len(archive.pages) /\ r \in 1..Len(archive.pages[p].rows)
    BY <1>5 DEF InArchive
  <2>2. archive.pages[p].rows \in Seq(RowsOf(config.provider))
    BY <1>1, <1>2, <2>1 DEF FetchAssumption
  <2>3. archive.pages[p].rows \in Seq(Queries \cup (Rows \ Hosts))
    BY <2>1 DEF ProvidersInit
  <2> QED
    BY <2>1, <2>2, <2>3 DEF KindAt
<1>6. ArchiveInv
  BY <1>2, <1>3, <1>5 DEF ArchiveInv
<1>7. FetchTypeOK /\ LoopInv
  <2>1. Len(PageRows) \in Nat
    BY <1>4 DEF PageRows, Pages, ProvidersInit, FetchInit
  <2>2. /\ fetch \in {"pagination", "loop"} /\ ctxDone = FALSE
        /\ page = 1 /\ row = 1 /\ sent = <<>> /\ ret = "none" /\ faults = {}
    BY DEF ProvidersInit, FetchInit
  <2>3. page \in 1..Len(archive.pages) + 1 /\ row \in 1..Len(PageRows) + 1
    BY <1>4, <2>1, <2>2
  <2>4. sent \in Seq(Nat \X Nat)
    BY <2>2
  <2> QED
    BY <1>1, <2>2, <2>3, <2>4 DEF FetchTypeOK, LoopInv
<1>8. ASSUME NEW p, NEW r, InArchive(archive, p, r)
      PROVE  ~Behind(p, r)
  BY <1>4, <1>8 DEF InArchive, Behind, ProvidersInit, FetchInit, Pages
<1>9. SentInv /\ PassedInv /\ NoLongPassed
  BY <1>8, InReadable
  DEF SentInv, PassedInv, NoLongPassed, ProvidersInit, FetchInit
<1>10. FaultsInv /\ NilIsComplete /\ ErrorIffFault
  BY DEF FaultsInv, NilIsComplete, ErrorIffFault, ProvidersInit, FetchInit
<1> QED
  BY <1>6, <1>7, <1>9, <1>10 DEF FetchInv

(* So every step does.                                                     *)
LEMMA StepKeeps ==
  ASSUME FetchInv, [ProvidersNext]_fetchVars
  PROVE  FetchInv'
<1>1. Quiet \/ Stop \/ Skip \/ Take \/ Turn
  BY StepKinds DEF FetchInv
<1> QED
  BY <1>1, QuietKeeps, StopKeeps, SkipKeeps, TakeKeeps, TurnKeeps

(* So it holds throughout.                                                 *)
THEOREM FetchInvariant == ProvidersSpec => []FetchInv
<1>1. ProvidersInit => FetchInv
  BY FetchAssumption, InitKeeps
<1>2. FetchInv /\ [ProvidersNext]_fetchVars => FetchInv'
  BY StepKeeps
<1> QED
  BY <1>1, <1>2, PTL DEF ProvidersSpec

(* A Fetch keeps its types, and its page and row stay within the archive.  *)
THEOREM FetchTypes == ProvidersSpec => []FetchTypeOK
<1>1. FetchInv => FetchTypeOK
  BY DEF FetchInv
<1> QED
  BY <1>1, FetchInvariant, PTL

(* A Fetch that returns nil without a reason to stop early has sent all    *)
(* there is, whatever the archive.                                         *)
THEOREM NilSentAll == ProvidersSpec => []NilIsComplete
<1>1. FetchInv => NilIsComplete
  BY DEF FetchInv
<1> QED
  BY <1>1, FetchInvariant, PTL

(* A Fetch returns an error exactly when something went wrong that it does *)
(* not take for an end.                                                    *)
THEOREM ErrorsAreFaults == ProvidersSpec => []ErrorIffFault
<1>1. FetchInv => ErrorIffFault
  BY DEF FetchInv
<1> QED
  BY <1>1, FetchInvariant, PTL

(* No host the user asked for is left out of the query, and what is asked  *)
(* for besides is what an indicator of otx cannot do without.              *)
THEOREM QueriesCoverAsked == ProvidersSpec => []AskedIsQueried
<1>1. ASSUME FetchInv PROVE AskedIsQueried
  <2>1. /\ config.provider \in Names /\ config.IncludeSubdomains \in BOOLEAN
        /\ config.target \in Targets
    BY <1>1, FetchAssumption DEF FetchInv, FetchTypeOK
  <2>2. CASE config.provider = "otx"
    <3>1. HasSubdomain <=> config.target = "subdomain"
      BY <2>1 DEF HasSubdomain, Domain, Targets
    <3> QED
      BY <2>1, <2>2, <3>1 DEF AskedIsQueried, Asked, Queries, OtxQueries
  <2>3. CASE config.provider # "otx"
    BY <2>1, <2>3 DEF Names, AskedIsQueried, Asked, Queries, CdxQueries, Hosts
  <2> QED
    BY <2>2, <2>3
<1> QED
  BY <1>1, FetchInvariant, PTL
-----------------------------------------------------------------------------
(* A step of a Fetch is one Harvest allows, or changes nothing of it.      *)
LEMMA StepHarvests ==
  ASSUME FetchInv, [ProvidersNext]_fetchVars
  PROVE  [H!Next]_<<Readable(config, archive), sent, ret>>
<1>1. Quiet \/ Stop \/ Skip \/ Take \/ Turn
  BY StepKinds DEF FetchInv
<1>2. CASE Quiet \/ Skip \/ Turn
  BY <1>2 DEF Quiet, Skip, Move, Turn, Kept
<1>3. CASE Stop
  <2>1. H!Return
    BY <1>3 DEF Stop, Kept, H!Return
  <2> QED
    BY <2>1 DEF H!Next
<1>4. CASE Take
  <2>1. /\ Position \in Readable(config, archive) /\ Position = <<page, row>>
        /\ page \in Nat /\ row \in Nat
    BY <1>4, TakeReads DEF Position
  <2>2. \A p, r : H!Before(<<p, r>>, Position) <=> Behind(p, r)
    BY <2>1 DEF H!Before, Behind
  <2>3. \A i \in 1..Len(sent) : H!Before(sent[i], Position)
    BY <2>2 DEF FetchInv, SentInv
  <2>4. \A u \in Readable(config, archive) :
          H!Before(u, Position) => H!IsSent(u)
    BY <2>2, InReadable DEF FetchInv, PassedInv
  <2>5. ret = "none"
    BY <1>4 DEF Take, Move, AtRow, FetchInv, FetchTypeOK
  <2>6. H!Send(Position)
    BY <1>4, <2>3, <2>4, <2>5 DEF Take, Move, Kept, H!Send
  <2> QED
    BY <2>1, <2>6 DEF H!Next
<1> QED
  BY <1>1, <1>2, <1>3, <1>4

(* Every Fetch of every provider is a Harvest of the readable rows: in     *)
(* the archive's order, each once, none passed over, none after the        *)
(* return.                                                                 *)
THEOREM FetchRefinesHarvest == ProvidersSpec => FetchHarvests
<1>1. ProvidersInit => H!Init
  BY DEF ProvidersInit, FetchInit, H!Init
<1>2. FetchInv /\ [ProvidersNext]_fetchVars
        => [H!Next]_<<Readable(config, archive), sent, ret>>
  BY StepHarvests
<1> QED
  BY <1>1, <1>2, FetchInvariant, PTL DEF ProvidersSpec, FetchHarvests, H!Spec
=============================================================================
