------------------------------ MODULE Providers ------------------------------
(***************************************************************************)
(* One Fetch of one provider for one domain, as a worker runs it           *)
(* (runner.go:138): any of the four, over any archive its service may      *)
(* hold, with a caller that may cancel and a receiver that may stop        *)
(* receiving.                                                              *)
(***************************************************************************)
EXTENDS Wayback, Otx, UrlScan, CommonCrawl

(* The hosts the provider asks its service for. A service answers with     *)
(* rows of these hosts only.                                               *)
Queries ==
  CASE config.provider \in {"wayback", "commoncrawl"} -> CdxQueries
    [] config.provider = "otx" -> OtxQueries
    [] config.provider = "urlscan" -> Hosts

ProvidersInit ==
  /\ FetchInit
  /\ \A p \in 1..Len(archive.pages) :
       archive.pages[p].rows \in Seq(Queries \cup (Rows \ Hosts))

(* Fetch's own steps: they need neither the service nor a receiver.        *)
Step ==
  \/ ~AtCommonCrawl /\ BeginPage
  \/ RequestCancelled
  \/ WaybackStep \/ OtxStep \/ UrlScanStep \/ CommonCrawlStep

(* MakeRequest returns something else than the context's error.            *)
Request == WaybackRequest \/ OtxRequest \/ UrlScanRequest \/ CommonCrawlRequest

(* results takes a URL.                                                    *)
Send == WaybackSends \/ OtxSends \/ UrlScanSends \/ CommonCrawlSends

Returned == fetch = "returned" /\ UNCHANGED fetchVars

ProvidersNext == Cancel \/ Step \/ Request \/ Send \/ Returned

ProvidersSpec == ProvidersInit /\ [][ProvidersNext]_fetchVars

(* The worker's goroutine runs, and MakeRequest returns once the context   *)
(* has ended (CancelEndsCalls of HttpClient).                              *)
FairProvidersSpec == ProvidersSpec /\ WF_fetchVars(Step)

(* MakeRequest returns (CallsReturn of HttpClient, which needs a timeout), *)
(* and somebody receives from results.                                     *)
ServedAndReceived == WF_fetchVars(Request) /\ WF_fetchVars(Send)
-----------------------------------------------------------------------------
Faults == {"badRequest", "rateLimited", "failed", "garbage", "limiter",
           "noCursor", "badLine", "longLine"}

FetchTypeOK ==
  /\ config \in Configs
  /\ archive \in Archives[config.provider]
  /\ ctxDone \in BOOLEAN
  /\ fetch \in {"pagination", "loop", "request", "rows", "returned"}
  /\ page \in 1..Len(archive.pages) + 1
  /\ row \in 1..Len(PageRows) + 1
  /\ sent \in Seq(Nat \X Nat)
  /\ ret \in {"none", "nil", "error"}
  /\ fetch = "returned" <=> ret # "none"
  /\ faults \subseteq Faults

(* The hosts a Fetch is asked for: the target and, with --subs, what is    *)
(* below it.                                                               *)
Asked(c) == IF c.IncludeSubdomains THEN {"url", "subdomain"} ELSE {"url"}

(* Its service may be asked for more than is filtered afterwards: otx      *)
(* sends all it gets, urlscan what HasSuffix cannot tell from a subdomain. *)
Welcome(c) ==
  CASE c.provider = "otx" -> Hosts
    [] c.provider = "urlscan" /\ c.IncludeSubdomains ->
         {"url", "subdomain", "lookalike"}
    [] OTHER -> Asked(c)

Wanted(c, a) ==
  UNION {{<<p, r>> : r \in {k \in 1..Len(a.pages[p].rows) :
                              a.pages[p].rows[k] \in Welcome(c)}} :
         p \in 1..Len(a.pages)}

(* No host the user asked for is left out of the query (formatURL of the   *)
(* four providers).  What is asked for besides: a domain of otx comes with *)
(* all below it, its siblings only come with a host that --subs rolls up   *)
(* (otx.go:108-121), and urlscan's search is filtered afterwards.          *)
AskedIsQueried ==
  /\ Asked(config) \subseteq Queries
  /\ config.provider \in {"wayback", "commoncrawl"} => Queries = Asked(config)
  /\ config.provider = "otx" =>
       /\ "subdomain" \in Queries =>
            config.IncludeSubdomains \/ config.target # "subdomain"
       /\ "other" \in Queries =>
            config.IncludeSubdomains /\ config.target = "subdomain"

(* urlscan.go:166 compares names as they are spelled.                      *)
Comparable(c) == c.provider = "urlscan" => c.canonical

(* A page of Common Crawl that has a line too long is passed over from     *)
(* there on.                                                               *)
LongBefore(a, t) == \E k \in 1..t[2] : a.pages[t[1]].rows[k] = "long"

Readable(c, a) == {t \in Wanted(c, a) : Comparable(c) /\ ~LongBefore(a, t)}

(* The loops of the four providers (wayback.go:57, otx.go:70,              *)
(* urlscan.go:62, commoncrawl.go:90) with their selects: URLs come in the  *)
(* archive's order, once, none passed over, none after the return.         *)
H == INSTANCE Harvest WITH wanted <- Readable(config, archive)
FetchHarvests == H!Spec

(* What a provider takes for an end although it is none: a 400 within the  *)
(* pages (wayback.go:72), a rate limit or a result without a usable sort   *)
(* key (urlscan.go:84, 132), a line too long (commoncrawl.go:111).         *)
TakenForEnd ==
  CASE config.provider = "wayback" -> {"badRequest"}
    [] config.provider = "urlscan" -> {"rateLimited", "noCursor"}
    [] config.provider = "commoncrawl" -> {"longLine"}
    [] config.provider = "otx" -> {}

(* A Fetch that returns nil has sent all there is, unless the context      *)
(* ended, something was taken for an end or no name could match            *)
(* (wayback.go:89, otx.go:103, urlscan.go:79, commoncrawl.go:90).          *)
NilIsComplete ==
  ret = "nil" /\ ~ctxDone /\ Comparable(config) /\ faults \cap TakenForEnd = {} =>
    /\ ~archive.endless
    /\ \A t \in Wanted(config, archive) : \E i \in 1..Len(sent) : sent[i] = t

(* "cancelling the context terminates pagination cleanly without an error" *)
(* (README.md:363-365): a Fetch returns an error exactly when a request or *)
(* a line went wrong, and the end of an archive is not a failed request.   *)
(* A rate limiter that sees the deadline coming is such a failure.         *)
ErrorIffFault ==
  ret # "none" => (ret = "error" <=> faults \ TakenForEnd # {})

(* Cancelled, a Fetch returns, though nobody receives, the service never   *)
(* answers or the archive has no end (otx.go:70-105).                      *)
CancelEndsFetch == ctxDone ~> ret # "none"

(* Served and received, a Fetch of an archive with an end returns.         *)
FetchEnds == ServedAndReceived => <>(ret # "none" \/ archive.endless)
=============================================================================
