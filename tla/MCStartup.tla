----------------------------- MODULE MCStartup -----------------------------
(***************************************************************************)
(* Every state of the file with few and many keys, some that do not        *)
(* decode; command lines with nothing, one or several flags; lists of      *)
(* providers with unknown names, twice the same and Common Crawl anywhere. *)
(***************************************************************************)
EXTENDS Startup

MCDefaultAgents == {"Chrome", "Firefox"}

Lists == [providers : {<<"otx", "commoncrawl", "wayback">>,
                       <<"gopher", "commoncrawl", "commoncrawl">>},
          useragents : {<<"", "curl">>, <<"">>},
          proxy : BOOLEAN, matchregex : BOOLEAN]

TypedLists == [providers : {<<"wayback", "gopher", "wayback">>, <<>>},
               useragents : {<<"lynx", "">>}, proxy : BOOLEAN,
               matchregex : {TRUE}]

Input(file, keys, bad, typed, lists, tl, ff, tf, dates, out) ==
  [file |-> file, fileKeys |-> keys, badKeys |-> bad \cap keys,
   fileFilters |-> ff, typed |-> typed, typedFilters |-> tf, badDates |-> dates,
   values |-> [source \in {"file", "command line"} |->
                 IF source = "file" THEN lists ELSE tl],
   output |-> out]

KeySets == {{}, {"providers", "useragents"}, {"ratelimit", "proxy", "matchregex"}, Settings}

AList == [providers |-> <<"urlscan">>, useragents |-> <<>>, proxy |-> TRUE,
          matchregex |-> TRUE]

MCInputs ==
  (* which source a setting comes from, and what it is                     *)
  {Input("read", keys, bad, typed, lists, tl, {}, {}, {}, "stdout") :
     keys \in KeySets, bad \in {{}, {"retries", "useragents"}, {"providers"}},
     typed \in {{}, {"retries", "useragents"}, {"providers", "proxy"}},
     lists \in Lists, tl \in TypedLists}
  (* the filters, the file that cannot be read, the output                 *)
    \cup {Input(file, keys, {}, {"ratelimit"}, AList, AList, ff, tf, dates, out) :
            file \in {"missing", "stat error", "unparsable", "read"},
            keys \in KeySets,
            ff \in {{}, {"from", "ft"}, FilterKeys},
            tf \in {{}, {"from"}, {"to", "mc"}, FilterKeys},
            dates \in SUBSET {"from", "to"},
            out \in {"file", "unwritable"}}
=============================================================================
