------------------------------- MODULE MCGau -------------------------------
(***************************************************************************)
(* Two providers and one or two domains, two workers, a bridge of one URL. *)
(* Every page is either the first (a .php page that all items share) or    *)
(* the second of its item (no extension, blacklisted by nobody), so that   *)
(* --fp finds the first page of every item but one a duplicate.            *)
(***************************************************************************)
EXTENDS Gau, TLC

CONSTANTS w1, w2

MCWorkers == {w1, w2}
OneWorker == {w1}
WorkerSymmetry == Permutations(MCWorkers)

MCProviders == {"wayback", "otx"}
MCItems == 1..(NumProviders * NumDomains)

Name(k) == IF k = 0 THEN "wayback" ELSE "otx"

MCProviderOf ==
  [i \in MCItems |-> Name(IF FromStdin THEN (i - 1) % NumProviders
                                       ELSE (i - 1) \div NumDomains)]

MCPageOf ==
  [u \in Urls |->
     IF u.n = 1
     THEN [parses |-> TRUE, ext |-> "php", suffixes |-> {"php"}, matches |-> {}, key |-> 0]
     ELSE [parses |-> TRUE, ext |-> "", suffixes |-> {}, matches |-> {}, key |-> u.item]]

MCLower == [e \in {"php"} |-> "php"]
MCExtOf == [u \in Urls |-> IF u.n = 1 THEN "php" ELSE ""]

Flags(fp, json) ==
  [blacklist |-> {}, matchExts |-> {}, matchRegex |-> {}, fp |-> fp, fpCap |-> 0,
   json |-> json]

Plain == {Flags(FALSE, FALSE)}
JsonDedup == {Flags(TRUE, TRUE)}
Json == {Flags(FALSE, TRUE)}
=============================================================================
