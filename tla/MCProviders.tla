----------------------------- MODULE MCProviders -----------------------------
(***************************************************************************)
(* Every kind of target, and archives of up to three pages of up to two    *)
(* rows; for urlscan and Common Crawl, whose rows come in many kinds, two  *)
(* pages and a few of three.                                               *)
(***************************************************************************)
EXTENDS Providers, SequencesExt

Config(name, target, canonical, subs, deadline) ==
  [provider |-> name, target |-> target, canonical |-> canonical,
   IncludeSubdomains |-> subs, deadline |-> deadline]

MCConfigs ==
  {Config("wayback", "apex", TRUE, subs, TRUE) : subs \in BOOLEAN}
    \cup {Config("otx", t, FALSE, subs, FALSE) : t \in Targets, subs \in BOOLEAN}
    \cup {Config("urlscan", "apex", TRUE, FALSE, FALSE),
          Config("urlscan", "subdomain", TRUE, TRUE, TRUE),
          Config("urlscan", "apex", FALSE, FALSE, FALSE),
          Config("commoncrawl", "apex", TRUE, FALSE, TRUE),
          Config("commoncrawl", "apex", TRUE, TRUE, FALSE)}

Page(rows, key) == [rows |-> rows, key |-> key]
PagesOf(rowSeqs, keys) == {Page(rows, key) : rows \in rowSeqs, key \in keys}
Archive(pages, endless) == [pages |-> pages, endless |-> endless]
Finite(pageSeqs) == {Archive(pages, FALSE) : pages \in pageSeqs}

UpTo(S, n) == BoundedSeq(S, n)

WaybackPages ==
  PagesOf({<<"url">>, <<"blank">>, <<"blank", "url">>, <<"url", "subdomain">>},
          {"none"})
OtxPages ==
  PagesOf({<<>>, <<"url">>, <<"url", "subdomain">>, <<"other">>}, {"none"})
UrlScanPages ==
  PagesOf({<<>>, <<"other">>, <<"subdomain", "url">>, <<"url", "lookalike">>},
          {"string", "number", "mixed", "none"})
CrawlPages ==
  PagesOf({<<"subdomain">>} \cup UpTo({"url", "garbage", "error", "long"}, 2),
          {"none"})

MCArchives ==
  [name \in Names |->
     CASE name = "wayback" -> Finite(UpTo(WaybackPages, 3))
       [] name = "otx" -> Finite(UpTo(OtxPages, 3))
                            \cup {Archive(p, TRUE) : p \in UpTo(OtxPages, 2)}
       [] name = "urlscan" ->
            Finite(UpTo(UrlScanPages, 2)
                     \cup {<<Page(<<"url">>, "string"), Page(<<"url", "other">>, k),
                             Page(<<"other", "url">>, "string")>> :
                           k \in {"string", "number", "mixed"}})
       [] name = "commoncrawl" ->
            Finite(UpTo(CrawlPages, 2)
                     \cup {<<Page(<<"url">>, "none"), Page(r, "none"),
                             Page(<<"url", "url">>, "none")>> :
                           r \in {<<>>, <<"url", "long">>, <<"error">>}})]
=============================================================================
