------------------------------- MODULE Output -------------------------------
(***************************************************************************)
(* The writer goroutine of a run: WriteURLs and WriteURLsJSON of           *)
(* pkg/output/output.go with the filter options ProviderConfig in          *)
(* runner/flags/flags.go builds for them.                                  *)
(*                                                                         *)
(* A URL is what the filters can tell of it (PageOf): whether it parses,   *)
(* its path extension, the extensions its path ends in, the patterns it    *)
(* matches and its host and path.                                          *)
(***************************************************************************)
EXTENDS Integers, FiniteSets, Sequences, Lru

CONSTANTS
  RawUrls,
  Providers,
  PageOf,      (* [RawUrls -> [parses, ext, suffixes, matches, key]]       *)
  Lower,       (* strings.ToLower on the extensions                        *)
  FlagSets,    (* the flag values a run may start with                     *)
  WriteMayFail,(* the writer's Write may return an error                   *)
  MaxReceived  (* bound: results one run receives                          *)

Incoming == [url : RawUrls, provider : Providers]

OutputConstants ==
  /\ \A u \in RawUrls : PageOf[u].ext # "" => Lower[PageOf[u].ext] \in PageOf[u].suffixes
  /\ \A f \in FlagSets : f.fp \in BOOLEAN /\ f.json \in BOOLEAN /\ f.fpCap \in Nat
  /\ WriteMayFail \in BOOLEAN

ASSUME OutputAssumption == OutputConstants /\ MaxReceived \in Nat

VARIABLES
  opts,          (* WriteOptions, and useJSON                              *)
  resultsClosed, (* the Result channel is closed                           *)
  writer,        (* "range", "filter", "write" or "done"                   *)
  dedup,         (* the lru                                                *)
  lines,         (* what was written                                       *)
  writeErr,      (* what the goroutine puts on the writeErr channel        *)
  received,      (* history: the results taken off the channel             *)
  lost           (* history: number of records a failed write lost         *)

writerVars == <<opts, resultsClosed, writer, dedup, lines, writeErr, received, lost>>
-----------------------------------------------------------------------------
(* The options ProviderConfig derives from the flags.  The entries are     *)
(* those that trimming, a leading dot and blanks leave.                    *)
lowerSlice(exts) == {Lower[e] : e \in exts}

ProviderConfig(f) ==
  [blacklist |-> f.blacklist \cup {""}, matchExts |-> lowerSlice(f.matchExts),
   matchRegex |-> f.matchRegex, removeParameters |-> f.fp, cap |-> f.fpCap,
   json |-> f.json]

(* Extension of a URL's path, lower case, "" when there is none.           *)
urlExt(page) == IF page.ext = "" THEN "" ELSE Lower[page.ext]

matchesAnyExt(page) ==
  opts.matchExts = {} \/ opts.matchExts \cap page.suffixes # {}

matchesAnyRegex(page) ==
  opts.matchRegex = {} \/ opts.matchRegex \cap page.matches # {}

isBlacklisted(page) == urlExt(page) # "" /\ urlExt(page) \in opts.blacklist

passesFilters(page) ==
  matchesAnyExt(page) /\ matchesAnyRegex(page) /\ ~isBlacklisted(page)
-----------------------------------------------------------------------------
WriterInit ==
  /\ \E f \in FlagSets : opts = ProviderConfig(f)
  /\ resultsClosed = FALSE
  /\ writer = "range"
  /\ dedup = newLRU
  /\ lines = <<>>
  /\ writeErr = "none"
  /\ received = <<>>
  /\ lost = 0

(* The client's side: it closes the channel.                               *)
CloseResults ==
  /\ ~resultsClosed
  /\ resultsClosed' = TRUE
  /\ UNCHANGED <<opts, writer, dedup, lines, writeErr, received, lost>>

(* The range over results takes one.                                       *)
Receives(r) ==
  /\ writer = "range"
  /\ ~resultsClosed
  /\ received' = Append(received, r)
  /\ writer' = "filter"
  /\ UNCHANGED <<opts, resultsClosed, dedup, lines, writeErr, lost>>

Current == received[Len(received)]

(* Parse, filters and dedup; what survives is counted and will be written. *)
Survives(page) ==
  /\ page.parses
  /\ passesFilters(page)
  /\ opts.removeParameters => ~contains(dedup, page.key)

DedupFirst(page) == page.parses     (* a mutant: dedup before the filters *)

ReachesDedup(page) == page.parses /\ passesFilters(page)

Filters ==
  LET page == PageOf[Current.url]
  IN  /\ writer = "filter"
      /\ writer' = IF Survives(page) THEN "write" ELSE "range"
      /\ dedup' = IF ~(opts.removeParameters /\ ReachesDedup(page)) THEN dedup
                  ELSE IF contains(dedup, page.key)
                       THEN MoveToFront(dedup, page.key)
                       ELSE add(dedup, page.key, opts.cap)
      /\ UNCHANGED <<opts, resultsClosed, lines, writeErr, received, lost>>

(* The first failed write is the last that is tried: WriteURLs returns,    *)
(* and the encoder of WriteURLsJSON keeps its error and writes no more.    *)
Writes ==
  /\ writer = "write"
  /\ lost = 0
  /\ lines' = Append(lines, Current)
  /\ writer' = "range"
  /\ UNCHANGED <<opts, resultsClosed, dedup, writeErr, received, lost>>

(* A failed write ends WriteURLs with the error; WriteURLsJSON goes on     *)
(* with the next record, which is lost too.                                *)
RetriesRecord == "write"     (* a mutant *)

AfterFailedRecord == "range"

WriteFails ==
  /\ writer = "write"
  /\ WriteMayFail
  /\ lost' = lost + 1
  /\ IF opts.json
     THEN writer' = AfterFailedRecord /\ UNCHANGED writeErr
     ELSE writer' = "done" /\ writeErr' = "error"
  /\ UNCHANGED <<opts, resultsClosed, dedup, lines, received>>

(* The channel is closed: return nil.                                      *)
WriterReturns ==
  /\ writer = "range"
  /\ resultsClosed
  /\ writer' = "done"
  /\ writeErr' = "nil"
  /\ UNCHANGED <<opts, resultsClosed, dedup, lines, received, lost>>

Writer == Filters \/ Writes \/ WriteFails \/ WriterReturns

(* Every sender is gone, or will be: the run is over.                      *)
WriterStopped == writer = "done" /\ resultsClosed /\ UNCHANGED writerVars

WriterNext ==
  \/ CloseResults
  \/ Len(received) < MaxReceived /\ \E r \in Incoming : Receives(r)
  \/ Writer
  \/ WriterStopped

WriterSpec == WriterInit /\ [][WriterNext]_writerVars
-----------------------------------------------------------------------------
WriterTypeOK ==
  /\ opts \in {ProviderConfig(f) : f \in FlagSets}
  /\ resultsClosed \in BOOLEAN
  /\ writer \in {"range", "filter", "write", "done"}
  /\ writeErr \in {"none", "nil", "error"}
  /\ lost \in 0..Len(received)
  /\ received \in Seq(Incoming) /\ lines \in Seq(Incoming)
  /\ dedup.index \subseteq {PageOf[u].key : u \in RawUrls}
-----------------------------------------------------------------------------
(* The list and the index of the lru hold the same keys, each once, and no *)
(* more than the cap (output.go:204-243): a key in the index only would be *)
(* suppressed for good, one in the list only would leak.                   *)
LruSound ==
  /\ dedup.index = {dedup.ll[k] : k \in 1..Len(dedup.ll)}
  /\ Cardinality(dedup.index) = Len(dedup.ll)
  /\ opts.cap > 0 => Len(dedup.ll) <= opts.cap

(* The results whose filters are over, and which of them reach the dedup.  *)
Processed == IF writer = "filter" THEN Len(received) - 1 ELSE Len(received)

Page(n) == PageOf[received[n].url]

Sighting(n) == Page(n).parses /\ passesFilters(Page(n))

KeysSince(m, n) == {Page(p).key : p \in {q \in m + 1 .. n - 1 : Sighting(q)}}

(* Key k was last sighted fewer than cap other keys before position n.     *)
Recent(k, n) ==
  \E m \in 1..n - 1 :
    /\ Sighting(m) /\ Page(m).key = k
    /\ opts.cap > 0 => Cardinality(KeysSince(m, n) \ {k}) < opts.cap

(* The lru remembers exactly the cap most recently sighted keys, repeated  *)
(* sightings included (output.go:82-88, 221-243).                          *)
RemembersRecent ==
  opts.removeParameters =>
    dedup.index = {k \in {Page(n).key : n \in 1..Processed} : Recent(k, Processed + 1)}

Due(n) == Sighting(n) /\ (opts.removeParameters => ~Recent(Page(n).key, n))

(* How many of the first n results are due: due result n is line Rank(n).  *)
Rank(n) == Cardinality({m \in 1..n : Due(m)})

(* The stream is exactly the results that pass the filters and whose key   *)
(* is not recent, in the order of the channel, up to the first write that  *)
(* fails, where WriteURLs stops (output.go:72-133).                        *)
StreamExact ==
  /\ Rank(Processed) = Len(lines) + (IF writer = "write" THEN 1 ELSE 0) + lost
  /\ \A n \in 1..Processed :
       Due(n) /\ Rank(n) <= Len(lines) => lines[Rank(n)] = received[n]
  /\ ~opts.json /\ lost > 0 => lost = 1 /\ writer = "done" /\ writeErr = "error"

(* output.go:188-189: "Extension matching is case-insensitive"; README.md  *)
(* lists --blacklist as a case-insensitive deny-list.                      *)
BlacklistIgnoresCase ==
  \A k \in 1..Len(lines) :
    LET ext == urlExt(PageOf[lines[k].url])
    IN  ext # "" => \A e \in opts.blacklist \ {""} : Lower[e] # ext
=============================================================================
