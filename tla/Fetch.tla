-------------------------------- MODULE Fetch --------------------------------
(***************************************************************************)
(* What the Fetch methods of the four providers have in common: a loop of  *)
(* requests over the pages of an archive, each request followed by a loop  *)
(* over the rows of the page, each row offered on results in a select with *)
(* ctx.Done.  Wayback, Otx, UrlScan and CommonCrawl are built from these   *)
(* steps; Providers puts them together.                                    *)
(*                                                                         *)
(* The archive is fixed for the Fetch, a row is known by its page and its  *)
(* place in it, and MakeRequest is abstracted to what HttpClient shows of  *)
(* it: it answers, fails, or reports the end of the context, the latter    *)
(* only if the context has ended.                                          *)
(***************************************************************************)
EXTENDS Naturals, Sequences

CONSTANTS
  Configs,   (* providers with the options that matter to them             *)
  Archives   (* [provider name -> what its service may hold]               *)

Names == {"wayback", "otx", "urlscan", "commoncrawl"}

(* A row is a URL of the target domain, one of a subdomain of it, one of a *)
(* domain that only ends in the same letters, one of another host, an      *)
(* empty row, or a line that cannot be decoded, is an error or is longer   *)
(* than 64 KiB.                                                            *)
Hosts == {"url", "subdomain", "lookalike", "other"}

Rows == Hosts \cup {"blank", "garbage", "error", "long"}

(* What the public suffix list says of the target: it is registrable, is   *)
(* below a registrable domain, or is not known.                            *)
Targets == {"apex", "subdomain", "unlisted"}

(* The sort key of a page's last row: strings only, numbers only, both,    *)
(* or nothing.                                                             *)
Keys == {"string", "number", "mixed", "none"}

Pages == [rows : Seq(Rows), key : Keys]

(* The rows a provider meets: only CDX has rows without a URL, only Common *)
(* Crawl's come as lines. CDX answers no page before the last with nothing *)
(* but the header (wayback.go:86-88).                                      *)
RowsOf(name) == CASE name = "wayback" -> Hosts \cup {"blank"}
                  [] name = "commoncrawl" -> Rows \ {"blank"}
                  [] OTHER -> Hosts

ASSUME FetchAssumption ==
  /\ Configs \subseteq [provider : Names, target : Targets,
                        canonical : BOOLEAN,    (* spelled as services do *)
                        IncludeSubdomains : BOOLEAN, deadline : BOOLEAN]
  /\ \A name \in Names :
       Archives[name] \subseteq [pages : Seq(Pages), endless : BOOLEAN]
  /\ \A name \in Names : \A a \in Archives[name] : \A p \in 1..Len(a.pages) :
       /\ a.pages[p].rows \in Seq(RowsOf(name))
       /\ name = "wayback" => a.pages[p].rows # <<>>
  /\ \A name \in Names \ {"otx"} : \A a \in Archives[name] : ~a.endless

VARIABLES
  config,    (* the provider and its options                               *)
  archive,   (* what its service holds for the domain                      *)
  ctxDone,
  fetch,     (* control point                                              *)
  page,      (* the page in hand, from 1 in every provider                 *)
  row,       (* the row of it the inner loop is at                         *)
  sent,      (* what has been sent on results                              *)
  ret,       (* what Fetch returned                                        *)
  faults     (* history: what went wrong on the way                        *)

inputVars == <<config, archive>>
fetchVars == <<inputVars, ctxDone, fetch, page, row, sent, ret, faults>>

PageRows ==
  IF page <= Len(archive.pages) THEN archive.pages[page].rows ELSE <<>>

Row == PageRows[row]
MoreRows == row <= Len(PageRows)
HasNext == page < Len(archive.pages) \/ archive.endless

(* formatURL of the two CDX services: "*." before the domain.              *)
CdxQueries ==
  IF config.IncludeSubdomains THEN {"url", "subdomain"} ELSE {"url"}

FetchInit ==
  /\ config \in Configs
  /\ archive \in Archives[config.provider]
  /\ ctxDone = FALSE
  /\ fetch = IF config.provider = "commoncrawl" THEN "pagination" ELSE "loop"
  /\ page = 1 /\ row = 1
  /\ sent = <<>>
  /\ ret = "none"
  /\ faults = {}

(* The caller cancels the context, or its deadline passes.                 *)
Cancel ==
  /\ ~ctxDone
  /\ ctxDone' = TRUE
  /\ UNCHANGED <<inputVars, fetch, page, row, sent, ret, faults>>

Returns(value) ==
  /\ fetch' = "returned"
  /\ ret' = value

-----------------------------------------------------------------------------
(* The head of the page loop: ctx.Err, then the request.                   *)
BeginPage ==
  /\ fetch = "loop"
  /\ IF ctxDone THEN Returns("nil") ELSE fetch' = "request" /\ UNCHANGED ret
  /\ UNCHANGED <<inputVars, ctxDone, page, row, sent, faults>>

(* MakeRequest returns the context's error, and Fetch returns nil.         *)
RequestCancelled ==
  /\ fetch \in {"request", "pagination"}
  /\ ctxDone
  /\ Returns("nil")
  /\ UNCHANGED <<inputVars, ctxDone, page, row, sent, faults>>

(* MakeRequest returns another error, or a body that is not what it should *)
(* be.  Limiter.Wait has an error of its own when the wait would outlast   *)
(* the context's deadline.                                                 *)
RequestFaults ==
  {"badRequest", "rateLimited", "failed", "garbage"}
    \cup (IF config.deadline /\ ~ctxDone THEN {"limiter"} ELSE {})

Refused(fault, value) ==
  /\ fetch \in {"request", "pagination"}
  /\ fault \in RequestFaults
  /\ faults' = faults \cup {fault}
  /\ Returns(value)
  /\ UNCHANGED <<inputVars, ctxDone, page, row, sent>>

(* A page arrives.                                                         *)
SecondRow == 2     (* a mutant: the header is skipped twice *)

FirstRow == 1

Served ==
  /\ fetch = "request"
  /\ fetch' = "rows"
  /\ row' = FirstRow
  /\ UNCHANGED <<inputVars, ctxDone, page, sent, ret, faults>>
-----------------------------------------------------------------------------
(* The loop over the rows of a page.                                       *)

AtRow == fetch = "rows" /\ MoreRows

AtEnd == fetch = "rows" /\ ~MoreRows

SkipRow ==
  /\ AtRow
  /\ row' = row + 1
  /\ UNCHANGED <<inputVars, ctxDone, fetch, page, sent, ret, faults>>

(* The select: results has a receiver, or the context has ended.           *)
SendRow ==
  /\ AtRow
  /\ sent' = Append(sent, <<page, row>>)
  /\ row' = row + 1
  /\ UNCHANGED <<inputVars, ctxDone, fetch, page, ret, faults>>

SendOnly == FALSE     (* a mutant: a bare send *)

SelectsCtx == ctxDone

SendCancelled ==
  /\ AtRow
  /\ SelectsCtx
  /\ Returns("nil")
  /\ UNCHANGED <<inputVars, ctxDone, page, row, sent, faults>>

(* Fetch returns from the loop, or the loop goes on with the next page.    *)
(* Past the end of an archive that never ends, all pages are alike.        *)
Advance == IF page <= Len(archive.pages) THEN page + 1 ELSE page

NextPage ==
  /\ fetch' = "loop"
  /\ page' = Advance
  /\ row' = 1
  /\ UNCHANGED <<inputVars, ctxDone, sent, ret>>

Ends(value) ==
  /\ Returns(value)
  /\ UNCHANGED <<inputVars, ctxDone, page, row, sent>>
=============================================================================
