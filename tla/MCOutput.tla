------------------------------ MODULE MCOutput ------------------------------
(***************************************************************************)
(* Five URLs: two of one page that differ in their query, a page without   *)
(* an extension, one with a compound upper-case extension, and a URL that  *)
(* does not parse.  Caps of 0, 1 and 2 against three keys.                 *)
(***************************************************************************)
EXTENDS Output, TLC

MCProviders == {"wayback"}

MCLower ==
  [e \in {"png", "PNG", "gz", "GZ", "tar.gz", "TAR.GZ"} |->
     CASE e \in {"png", "PNG"} -> "png"
       [] e \in {"gz", "GZ"} -> "gz"
       [] OTHER -> "tar.gz"]

MCPageOf ==
  [u \in {"a?x", "a?y", "b", "c", "bad"} |->
     CASE u = "a?x" -> [parses |-> TRUE, ext |-> "png", suffixes |-> {"png"},
                        matches |-> {"re"}, key |-> "a"]
       [] u = "a?y" -> [parses |-> TRUE, ext |-> "png", suffixes |-> {"png"},
                        matches |-> {}, key |-> "a"]
       [] u = "b"   -> [parses |-> TRUE, ext |-> "", suffixes |-> {},
                        matches |-> {"re"}, key |-> "b"]
       [] u = "c"   -> [parses |-> TRUE, ext |-> "GZ", suffixes |-> {"gz", "tar.gz"},
                        matches |-> {"re"}, key |-> "c"]
       [] OTHER     -> [parses |-> FALSE, ext |-> "", suffixes |-> {},
                        matches |-> {}, key |-> "a"]]

MCRawUrls == DOMAIN MCPageOf

Flags(blacklist, matchExts, matchRegex, fp, fpCap, json) ==
  [blacklist |-> blacklist, matchExts |-> matchExts, matchRegex |-> matchRegex,
   fp |-> fp, fpCap |-> fpCap, json |-> json]

MCFlagSets ==
  {Flags({}, {}, {}, TRUE, 0, FALSE),
   Flags({}, {}, {}, TRUE, 2, FALSE),
   Flags({}, {}, {"re"}, TRUE, 1, TRUE),
   Flags({"png"}, {}, {}, TRUE, 1, FALSE),
   Flags({"png"}, {"TAR.GZ", "PNG"}, {}, FALSE, 0, TRUE)}

UpperBlacklist == {Flags({"PNG"}, {}, {}, FALSE, 0, FALSE)}
=============================================================================
