# gau in TLA+

`gau` fetches the URLs that public archives (the Wayback Machine, Common Crawl,
AlienVault OTX, urlscan.io) know of a set of domains. This directory holds its
specification in TLA+: modules that model the program from its command line to
its summary, the TLC configurations that check them on small instances, and theorems that
the TLA+ proof system checks for every instance. Paths below are relative to
the root of the repository, `main.go` is `cmd/gau/main.go`.

Contents: 1. the system · 2. the modules and the code · 3. runs, bounds,
fairness · 4. proofs · 5. where the code and its documentation differ ·
6. what is not modelled · 7. plan.


## 1. The system

### Components

| component | source | state it keeps | operations |
|---|---|---|---|
| command (`runGau`) | `cmd/gau/main.go` | loop position, the channels `workChan`, `results`, `writeErr`, a context | queue work, close, wait, join, summarize, return |
| worker pool | `runner/runner.go` | per worker: its item, a bridge channel, a forwarder goroutine | `Start`, `worker`, `runWork`, `Wait` |
| writer and filters | `pkg/output/output.go` | filter options, an LRU set of host+path keys | `WriteURLs`, `WriteURLsJSON`, `passesFilters`, `lru.contains`, `lru.add` |
| progress | `pkg/progress/progress.go` | counters behind a mutex; a display goroutine with `stop`/`done` channels | `WorkQueued`, `WorkCompleted`, `URLEmitted`, `Snapshot`, `run`, `Close`, `WriteSummary` |
| HTTP client | `pkg/httpclient/client.go` | per call: attempt, last error; per attempt: a goroutine, pooled request/response, a result channel | `MakeRequest`, `doOnce`, `classifyResponse` |
| retry delays | `pkg/httpclient/client.go` | none | `delayFor`, `backoffFor`, `parseRetryAfter`, `timeoutDuration` |
| providers | `pkg/providers/{wayback,otx,urlscan,commoncrawl}` | page, row, cursor of one `Fetch` | `Fetch` (pagination over `MakeRequest`), `formatURL`, `matchesDomain`, `parseSort`, `getPagination` |
| domains | `pkg/providers/domain.go` | none | `HasSubdomain`, `Domain` |
| configuration | `runner/flags/flags.go` | defaults, file, flags | `loadConfig`, `applyFlagOverrides`, `applyFilterFlags`, `ProviderConfig` |
| start | `runner/runner.go`, `pkg/providers/commoncrawl`, `pkg/httpclient/client.go` | `Runner.Providers`, `userAgents` | `Runner.Init`, `commoncrawl.New`, `SetUserAgents` |

### How they interact

```
 flags, .gau.toml ─▶ loadConfig ─▶ SetUserAgents ─▶ ProviderConfig ─▶ Runner.Init ─▶ (the run)

 main ──workChan──▶ worker ──Fetch(bridge)──▶ bridge ──▶ forwarder ──results──▶ writer ──▶ file
  │  (unbuffered)     │          │            (64)       (unbuffered)            │
  │ Wait, close       │          └─ MakeRequest ─▶ attempt goroutine ─▶ fasthttp │
  │                   └──OnWorkComplete──▶ Tracker ◀──URLEmitted─────────────────┘
  └─ Close ──▶ Display ◀──Snapshot (100 ms)──┘
```

Main sends a `(domain, provider)` item for every pair. A worker receives it,
starts a forwarder and calls the provider's `Fetch`, which sends URLs on the
bridge; the forwarder tags each with the provider's name and sends it on
`results`. When `Fetch` has returned the worker closes the bridge, waits for
the forwarder and calls `OnWorkComplete`. The writer filters what it receives,
counts what survives and writes it. Main closes `workChan`, waits for the
workers, closes `results`, waits for the writer, closes the display, prints the
summary and returns.

### What is hard, and what must hold

* **Channels are closed while others send on them.** Nobody may send on
  `results` when main closes it (`NoSendOnClosedResults`,
  `WaitMeansQuiescent`).
* **Cancellation at any point.** A forwarder that gives up must drain the
  bridge or `Fetch` stays blocked (`CancelStopsWorkers`); a cancelled HTTP call
  returns although its goroutine goes on with pooled memory (`CancelEndsCalls`,
  `BuffersExclusive`, `GoroutinesEnd`).
* **Streams.** Between a provider and the output no URL is lost, repeated or
  given to another provider (`RunnerInv`, `RunnerDelivers`), and the filters
  and the LRU pass exactly what they should (`StreamExact`,
  `RemembersRecent`).
* **Numbers that several goroutines produce.** The summary agrees with the
  output (`SummaryIsOutput`, `SummaryIsComplete`); progress never passes 100 %
  (`DoneWithinTotal`) nor goes back (`FramesNeverGoBack`).
* **Retries and time.** Attempts are bounded and stop on what cannot get better
  and a call returns one answer that stays as it is (`CallsAnswer`); delays stay within their limits where Go's integers wrap
  (`EveryRetryWaits`, `BackoffGrows`, `HintsAreWaitedFor`,
  `TimeoutNeverShort`).
* **Pages.** A loop that nobody tells how many pages there are, or is told so by
  the pages themselves, must send each wanted row once and in order
  (`FetchHarvests`), stop at the end and not before (`NilIsComplete`), tell a
  failure from an end (`ErrorIffFault`) and stop when cancelled, also in an
  archive without an end (`CancelEndsFetch`). What it asks for must cover what
  the user wants (`AskedIsQueried`).
* **Configuration.** Four sources of a setting, some of which fail half-way:
  what was typed wins (`SettingsHonoured`), filters are not mixed
  (`FiltersFromOneSource`), a failing bootstrap costs only the providers after
  it (`RunnerProviders`), and the pool of agents is settled before anybody reads
  it (`AgentsHonoured`).
* **Termination.** A run ends (`RunEnds`, `CallsReturn`, `TakenIsReported`,
  `FetchEnds`).

The full list of hazards, each at its line with the properties that cover it,
is in `PROJECT.json`.


## 2. The modules and the code

| module | models | composed of |
|---|---|---|
| `Delivery` | what the pool promises: an item's URLs reach `results` in order, once, tagged; its report comes last unless cancelled | |
| `Runner` | the pool as an open component | refines `Delivery` |
| `Lru` | the LRU set as operators on `[ll, index]` | |
| `Output` | the writer goroutine with its filters | `Lru` |
| `Progress` | tracker, display goroutine, `Close`, `WriteSummary` | |
| `Gau` | a run of the command: `Runner` + `Output` + `Progress` + main | extends `Runner`, instances `Output` as `W` and `Progress` as `P` |
| `Call` | what a call of `MakeRequest` promises: bounded attempts, then one reply or one error, for good | |
| `HttpClient` | concurrent calls of `MakeRequest` with their goroutines and pooled objects | refines `Call` |
| `Backoff` | the durations of one call, with wrapping integers | |
| `Fetch` | the steps the four page loops share: request, rows, select, return | |
| `Wayback`, `Otx`, `UrlScan`, `CommonCrawl` | one loop each | extend `Fetch` |
| `Harvest` | what any `Fetch` promises: wanted rows in order, once, none passed over | |
| `Providers` | one `Fetch` of any provider over any archive | extends the four, refines `Harvest` |
| `Startup` | from the command line to the first goroutine | |
| `RunnerProofs`, `OutputProofs`, `GauProofs`, `HttpProofs`, `BackoffProofs`, `ProvidersProofs`, `StartupProofs` | theorems on the module of that name and their proofs | `GauProofs` (main with the pool and the display) uses `RunnerProofs` |
| `RunProofs` | theorems on a run with its writer | `GauProofs`, `OutputProofs` |
| `MCRunner`, `MCOutput`, `MCGau`, `MCHttpClient`, `MCBackoff`, `MCProviders`, `MCStartup` | instances for TLC | |

Names follow the source where TLA+ allows it. Definitions marked *a mutant* are
plausible bugs of the definition that follows them; no specification uses
them. `PROJECT.json` says which property must fail when one takes that
definition's place, and maps every definition that models code to its lines.

**Runner** (`runner/runner.go:68-149`). `worker[w]` is the control point of a
worker: `select` (101-113), `fetch` (138), `join` (140), `exited`.
`forwarder[w]` is that of the forwarder: `range` (125), `send` (126-133),
`drain` (130), `done`. `bridge` and `bridgeClosed` are the channel of 119,
`held` the loop variable `u`. A `Fetch` is any number of sends up to `MaxUrls`
followed by a return with or without an error; an item in `Stubborn` sends all
it has before it returns, so that the drain loop is needed. The client is open:
it sends, closes, cancels and receives when it likes. `emitted`, `out` and
`report` are history variables, and with `cancelled <- ctxDone` they are the
refinement mapping to `Delivery`. `select` chooses freely among ready arms, so
a worker may take an item after cancellation (`WorkerReceives` has no guard on
`ctxDone`), as in Go.

**Output** (`pkg/output/output.go:72-243`, `runner/flags/flags.go:83-151`). A
URL is abstracted to what the filters tell of it: whether it parses, its
extension, the extensions its path ends in, the patterns it matches, its key.
`Filters` is one step from the parse to the decision (76-94), since the
goroutine shares none of what it touches; `Writes` and `WriteFails` are the
write. json-iterator's encoder is external: it keeps its first error, so that
after one failed record no other is written (`lost = 0` guards `Writes`). The
options come from `ProviderConfig`, with its lower-casing of one of the two
extension lists; that `lowerSlice` also trims, strips a leading dot and drops blank
entries is left out, since the lists in `FlagSets` have no such entries. `Lru`
keeps list and index apart, as the code does.

**Progress** (`pkg/progress/progress.go:30-110, 231-347`). Every `Tracker`
method holds the mutex for its whole body, hence one step. `Tick` takes the
snapshot and `Update` renders it, as two steps: counters move in between.
`Close` is three: the signal, the join with a snapshot of its own, and the
last frame. Rendering is reduced to the numbers shown.

**Gau** (`main.go:31-152`). The components share no variables. Their actions are
joined where the code joins them: `SendWork` is main's send with the worker's
receive; `Deliver` is the forwarder's send with the writer's receive;
`Complete` is `runWork`'s end with `Tracker.WorkCompleted`; `Filter` is the
writer's filters with `Tracker.URLEmitted`. Main's own control points are
`queue`/`scan`, `send`, `close`, `wait`, `join`, `display`, `writeErr`,
`returned`. The exit for a failing stdin (122-131) and the normal one (133-151)
share their steps up to the display, where `returned` tells them apart. The
context is cancelled only by the deferred `cancel` at the return (43), because
nothing in the command cancels it earlier; `runner_pool` covers cancellation by
a library's caller.

**HttpClient** (`pkg/httpclient/client.go:55-106, 144-157, 175-261`). A reply is
named by the call and attempt it answers, `<<c, k>>`, so "whose body is this"
is a comparison. `io`, `buf`, `outcome`, `ch` belong to the goroutine of an
attempt; `free` is the fasthttp pool, `content` what a pooled object holds.
The goroutine of an abandoned attempt goes on after `Abort`, as in the code.
`Do` is external: it answers any status in `Statuses` (0 for an error of its
own) and may never return. The request and the response of an attempt are one
object here, since they are acquired and released together. The pool never
makes a caller wait; `Buffers` holds as many objects as can be in use at once.
`Limiter.Wait` may also fail when the wait would outlast the context's deadline:
`HasDeadline` says whether the context has one (`runGau`'s has none). `A` maps this
state to that of `Call`: a call has no result until it returns, and its reply is
what its body reads as, so a body that changed later would be a step `Call` does not
have.

**Backoff** (`pkg/httpclient/client.go:55-58, 108-142, 229-235, 264-282`).
Integers have `Width` bits and wrap at `Modulus` into two's complement. A `Retry-After` is its form
and a number; `Asked` says in whole numbers what it asks for and `Planned` what
the exponential delay should be, against which the wrapped results are
compared. `rand.Int` is any value of its range, a failing one adds nothing.

**Fetch** and the provider modules (`pkg/providers/wayback/wayback.go:56-117`,
`otx/otx.go:69-121`, `urlscan/urlscan.go:51-191`, `urlscan/types.go:13-33`,
`commoncrawl/commoncrawl.go:77-155`, `domain.go`). A control point is the loop
head (`loop`), a call of `MakeRequest` (`request`, and `pagination` for Common
Crawl's first one) or the loop over the rows (`rows`). A row is known by its
page and place and abstracted to its kind: the target's URL, a subdomain's, one
that only ends in the same letters, another host's, an empty one, a line that
cannot be decoded, carries an error or is too long. `faults` is a history of
what went wrong; `TakenForEnd` names, per provider, the faults after which the
code returns nil. What an archive holds is chosen at `Init` and stays: services
do not change between two pages of one `Fetch`. They answer with rows of the
hosts they were asked for (`Queries`, the `formatURL` methods), CDX has no page
before its last without rows (`wayback.go:86-88` relies on it), and urlscan
refuses a sort key of which `parseSort` dropped a part. `MakeRequest` is
what `Call` says of it: an answer, an error, or the context's error only when
the context has ended.

**Startup** (`runner/flags/flags.go:83-172, 269-431`, `runner/runner.go:33-56`,
`commoncrawl.go:39-70`, `client.go:317-335`, `main.go:31-60`). A setting is known
by where its value comes from; lists of names and agents, and whether a proxy or
a regex is usable, have values too. Six settings stand for all: with a key in
the file and a flag of the same name (`Bound`) or of another, as a value, a list
or something that may be refused. The four rates of `[ratelimit]`, each with a
flag of its own that `applyFlagOverrides` treats like any other, are one of them. `pos` and `start` are the control points of
`Init`'s loop; `BootstrapFails` is the early return of `runner.go:46-50`. `asked`
says that a request may have been sent. The pool of agents is kept as the set of
its members: how often one is listed only weighs the random choice.


## 3. Runs

Run one with `tlc -config X.cfg M` in this directory.

| run | configuration | question | properties |
|---|---|---|---|
| `runner_pool` | `Runner.cfg` | Is the pool safe under every client and every cancellation; does it end? | `RunnerTypeOK`, `RunnerInv`, `WaitMeansQuiescent`, `RunnerDelivers`, `CancelStopsWorkers`, `TakenIsReported` |
| `output_writer` | `Output.cfg` | Is the output exactly what filters and LRU ask for? | `WriterTypeOK`, `LruSound`, `RemembersRecent`, `StreamExact` |
| `output_blacklist_case` | `OutputDoc.cfg` | Is the blacklist case-insensitive? **no** | `BlacklistIgnoresCase` |
| `gau_args` | `GauArgs.cfg` | Is a JSON run with `--progress` complete, counted right and shown without going back, also when writes fail? | `NoSendOnClosedResults`, `NilMeansComplete`, `SummaryIsOutput`, `SummaryIsComplete`, `FramesNeverGoBack`, `NoFrameAfterSummary` |
| `gau_stdin` | `GauStdin.cfg` | Does a run over stdin end, with a bar that never passes its total? | `DoneWithinTotal`, `RunEnds` |
| `gau_write_error` | `GauWriteError.cfg` | Is a write error returned? **no** | `WriteErrorIsReturned` |
| `http_pool` | `Http.cfg` | Are pooled objects and replies kept apart, and is each call one of `Call`? | `HttpTypeOK`, `BuffersExclusive`, `BodyIsOwnReply`, `CallsAnswer` |
| `http_calls` | `HttpCalls.cfg` | Do calls and their goroutines end? | `CancelEndsCalls`, `CallsReturn`, `GoroutinesEnd` |
| `backoff` | `Backoff.cfg` | Do delays and deadlines survive wrapping integers? | `EveryRetryWaits`, `BackoffGrows`, `HintsAreWaitedFor`, `TimeoutNeverShort` |
| `providers` | `Providers.cfg` | Does each page loop harvest its archive, tell failures from ends, and end? | `FetchTypeOK`, `FetchHarvests`, `NilIsComplete`, `ErrorIffFault`, `AskedIsQueried`, `CancelEndsFetch`, `FetchEnds` |
| `startup` | `Startup.cfg` | Does a run start with what the user asked for? | `SettingsHonoured`, `FiltersFromOneSource`, `RunnerProviders`, `AgentsHonoured` |
| `startup_toml` | `StartupToml.cfg` | Do settings nobody set keep their defaults? **no** | `UnsetKeysKeepDefaults` |

### Bounds, and why they are enough

* **Pool.** Two workers and two items of different providers: both at the same
  time, or both by one worker (reuse of its variables). `BridgeCap = 1` with
  `MaxUrls = 3`: a `Fetch` blocks on a full bridge, which 64 slots would only
  postpone, and the drain loop has to go round more than once. The run checks
  liveness, so it uses no symmetry.
* **Writer.** Five results over five URLs: a key seen again after one and after
  two others, against caps of 0 (unbounded), 1 and 2, which separates an LRU
  from a FIFO and shows an eviction between two sightings. Failing writes at
  every position, in both modes.
* **Run.** `gau_args` has two items of two URLs for two workers with `--json`,
  `--fp` and `--progress`: forwarders compete for the writer, the first page of
  the second item is a duplicate, a snapshot of the display can be behind by
  several steps when `Close` is called, and a write may fail at any record, after
  which the rest is counted and lost. A plain write that fails hangs the run,
  which is `gau_write_error`'s. `gau_stdin` has two lines for one worker, a display, and
  JSON writes that fail; a stdin that fails after zero, one or two lines. With
  a second worker it has a million states and the same result.
* **HTTP.** Two calls of two attempts and four objects: an object can be
  released by an abandoned attempt and taken by another call or the same one.
  Statuses: an error of `Do`, 200, 401 and 429 stand for *network*,
  *body or nil response*, *final* and *retryable*. `http_calls` has one call of
  three attempts, all interleavings with its abandoned goroutines.
* **Backoff.** 24 bits and units of 250 ms keep the proportions of the code:
  `backoffBase` 500 ms and `backoffMax` 30 s are 2 and 120. The cap is reached
  at the 7th retry and the shift leaves the width at the 23rd, so that 26
  retries pass through every sign a wrapped shift can have and through zero.
  Headers and timeouts stand on both sides of each limit, with one that wraps to
  a negative duration and one that wraps to one second.
* **Providers.** Archives of up to three pages of up to two rows for wayback and
  otx, and of up to two pages for urlscan and Common Crawl with a few of three: a
  first, an inner and a last page, each of which may be empty where the service
  allows it, and every kind of row in first and last place. Sort keys are
  complete, partly numeric, numeric and missing. An otx archive may never end.
  Targets are registrable, below a registrable domain or unknown to the public
  suffix list, with and without `--subs`.
* **Startup.** The file is missing, cannot be looked at, cannot be parsed or is
  read; it sets nothing, some settings or all, of which some do not decode.
  Lists of providers contain unknown and repeated names and `commoncrawl` in
  first, middle and last place or nowhere; lists of agents are blank in part or
  whole. The two unions of inputs in `MCStartup` vary settings and filters apart
  from each other, as `loadConfig` handles them.

Deadlock is checked in every run except `gau_write_error`, in which the code
does come to a stop with work left.

### Fairness, and why the code justifies it

Weak fairness of a goroutine's steps says that the Go scheduler runs a goroutine
that can run. Beyond that:

* The pool alone assumes nothing of its client. `CancelStopsWorkers` holds
  although nobody need ever receive; `TakenIsReported` names the client that
  keeps receiving (`ClientReceives`) as its hypothesis.
* `Do` need not return. `CallsReturn` and `GoroutinesEnd` have `HasTimeout` as
  their hypothesis: with `--timeout` above 0, `DoDeadline` returns.
  `CancelEndsCalls` does without.
* In `Gau` fairness of a channel is fairness of the channel, not of one of its
  senders: `\E w : Deliver(w)` is served, not a particular forwarder.
* The display's `select` between the ticker and `stop` is a random choice in Go,
  repeated every 100 ms, so the `stop` arm is strongly fair. With weak fairness
  `RunEnds` would fail for an execution of probability zero.
* In `Gau` and `Runner` a `Fetch` ends: it sends at most `MaxUrls`. `Providers`
  says when it does. `FairProvidersSpec` asks only for the worker's own steps
  (`Step`, which includes the return of a `MakeRequest` whose context has ended,
  `CancelEndsCalls` of `HttpClient`); that is enough for `CancelEndsFetch`, though
  no service answers and nobody receives. `FetchEnds` has `ServedAndReceived` as
  its hypothesis: `MakeRequest` returns, which `CallsReturn` shows for a client
  with a timeout, and somebody receives, which the forwarder does
  (`CancelStopsWorkers`). It promises nothing of an archive without an end.
* `Startup` checks no liveness and states no fairness: its steps are a straight
  line.


## 4. Proofs

Check with `tlapm M.tla`. Every theorem holds for all values of the constants
that satisfy the named assumption of the module it is about.

**`RunnerProofs`** (any workers, items, URLs per item, bridge capacity above 0).
`RunnerInvariance`: types and `RunnerInv`, of which `RunnerTypesCorrect` is the
first half. `RunnerInv` is inductive together
with the types; its parts say what the code relies on without writing it down:
`PipelineInv` (where a worker and its forwarder can be at the same time),
`StreamInv` (what has not been forwarded is the held URL followed by the
bridge, in order, unless the forwarder has given up), `ItemInv` and
`OneWorkerPerItem` (every item is unsent, in exactly one worker's hands, or
reported). `WaitSafe` follows: *exited* is *not busy*, and the forwarder of an
idle worker is done. `PoolImplementsDelivery`: with the invariant, a step of
the pool is a step of `Delivery` or a stutter; `StreamInv` is what makes the
URL sent the next one of its item and the report the last step.

**`OutputProofs`** (any pages, flags and stream of results, any cap of the LRU).
That moving hits to the front and dropping the back keeps just the last *cap*
different keys is argued once, of a list and a history of sightings (`Recalls`):
the keys are in the order of their last sightings (`Ordered`, `Sighted`), and a key
that is not in the list was sighted before every key of a full list (`Kept`).
A hit, an insertion and an eviction each keep that, and from it the list holds a
key exactly when fewer than *cap* others were seen since. `WriterInv` takes the
results behind the writer as the history; with the lines counted by `Rank` (what is
due grows by one at a due result, so that each has a line of its own) it is
inductive, and gives `WriterTypeCorrect`, `LruIsSound`, `LruRemembersRecent` and
`StreamIsExact`. The last also says what a failed write leaves: since nothing is
written after one, the lines are still the first of those due, and the rest is
lost.

**`GauProofs`** (any number of providers, domains, URLs).
`RunIsOfPool`: every step of a run is a step of the pool with its client or
leaves the pool alone, so a run inherits all theorems on the pool.
`NoSendPanics`: `results` is closed only after `Wait` (`ClosedMeansExited`,
inductive because an exited worker stays so), and then `RunnerInv` says that
all forwarders are done.
`StepOfProgress` does for the tracker and the display what `RunIsOfPool` does for
the pool. `DisplayInv` says where a snapshot stands: between the bar and the
counters while it waits to be rendered, and that `Close` takes its own only
after the goroutine has stopped. From it `BarOnlyGrows` and `SummaryIsLast`.
`RunInv` adds what main knows: the items it has sent are those before `next`,
no more than it has announced (`SendInv`, `MainInv`), the counters count the
reports (`CountInv`), and `AllExited` after the join. From it `DoneIsWithinTotal`
and `SummaryTellsAll`, which also need `RunnerInv`: once all workers have exited
each item has been reported.

**`RunProofs`** (as `GauProofs`, with any pages and flags). `StepOfWriter`: every step of
a run is one of the writer's or leaves it alone, and what is delivered is a
result the writer expects (`OfferOf`, from the pool's types), so that the
invariant of `OutputProofs` holds in a run too: `RunWritesExactly`. Four
parts tie the writer to the others. `ReceivedInv`: the URLs received are those in
the pool's histories `out`, each once. `FetchedInv`: a reported item has
all it sent in `out`, because the context lives until main has gone. `EndInv`: what
main and the display know when they are past a channel (the writer is done,
its error is the one returned, the summary is the counters). `TalliesInv`: the
tracker counts the lines written, being written and lost, in all and, while none
is lost, per provider. With `RunInv` and the writer's invariant they are
inductive (`OutputInvariant`). `NilCompletes` follows: at a nil return no plain write has
failed, `results` was closed after the last report, so what was received is
all that was emitted and what was due of it is in the lines or among the lost.
`SummaryTellsOutput` is `TalliesInv` where the writer is done.

**`HttpProofs`** (any number of calls, retries and pooled objects, any even
modulus). The invariant `HttpInv` joins the types (`HttpTypesCorrect`), `SlotsFresh` (an attempt's goroutine has
not been started before the loop gets to it), `BuffersHeld` and `BuffersApart`
(an object in use is not in the pool, nor in use elsewhere), `RepliesKept` (an
object holds its attempt's reply until the copy is in the channel) and
`BodiesReturned`. `BuffersSafe` is the middle part; `BodiesSafe` follows from
the last one with the lemma that `MaxRetries + 1` has not wrapped. For
`CallsAreAnswered` (`HttpClient` implements `Call`) `CallInv` adds that a call that
has not returned has made `attempt` attempts, whose last error is `lastErr`, and
that a body is a copy; every step then is one of `Call`'s or is not seen by a caller.

**`BackoffProofs`** (any unit, base, cap, width, header). `RetriesWait`: a
delay lies between one unit and one and a half times the cap for every attempt,
because `Capped` maps whatever the shift wrapped to into `1..backoffMax`.
`HintsHold`: a hint that fits is waited for, up to the cap. `TimeoutsHold`: no
timeout wraps. `DelaysGrow`: a delay is the planned one even where the shift has
wrapped. What is left of `base * 2^s` when it wraps is a multiple of `2^s` (the
modulus is one, `RemainderIsMultiple`), so it is zero, negative or at least
`2^s`, which `ShiftAssumption` puts above the cap. The code's numbers satisfy that
assumption: in nanoseconds, 500 ms times `2^34` is below `2^63`, and `2^35` is
over 34 s, above the 30 s of the cap. Not every base and cap do: a cap above `2^s` lets a
wrapped shift pass for a short delay. That powers of two add and divide as they should
comes from counting the subsets of an interval (`PowerCounts`, `PowersAdd`).

**`ProvidersProofs`** (any configurations and archives of the assumed form, of
any length). Each step of each provider is shown to be of one of five kinds
(`StepKinds`): it does nothing to the rows (`Quiet`), returns (`Stop`), passes
over a row (`Skip`), sends one (`Take`) or turns the page (`Turn`); the rest of
the proof knows only the kinds. `FetchInv` is inductive: every row that should
be sent and lies behind the position has been sent (`PassedInv`), all that was sent
is wanted and lies behind it (`SentInv`), no line too long has been passed on a
page whose rows still count (`NoLongPassed`), and `faults` agrees with what may
be returned (`FaultsInv`). `FetchTypes`, `NilSentAll`, `ErrorsAreFaults` and
`QueriesCoverAsked` are parts of it or follow; `FetchRefinesHarvest` maps `Take`
to `Send` and `Stop` to `Return`.

**`StartupProofs`** (any inputs of the described form, lists of any length).
`SettingsInv` follows a value's source through `loadConfig`: `FlagsWin`,
`FiltersWhole`. `AgentsInv`: from `SetUserAgents` on, which is before anything may
ask for a page, the pool is what the settings name or else the default one
(`AgentsFromOneSource`). `InitInv` is the invariant of `Init`'s loop, in which the
positions before `pos` are settled: `ProvidersInOrder`.

**Only model-checked:** the liveness properties, all under fairness
(`CancelStopsWorkers`, `TakenIsReported`, `RunEnds`, `CallsReturn`,
`CancelEndsCalls`, `GoroutinesEnd`, `CancelEndsFetch`, `FetchEnds`), which are out
of the prover's reach. Every other property of a passing run is stated by a theorem. That a model
means what the code does is no theorem: section 2 and the map in
`PROJECT.json` say how to check it.


## 5. Where the code and its documentation differ

Three are runs that TLC refutes:

1. `gau_write_error`: after a failed plain-text write the writer returns
   (`output.go:97-101`), nobody receives from `results`, the forwarders block
   and so does `gau.Wait` (`main.go:135`). The error, which `main.go:30` says
   cobra prints, is lost with the run, unless the write that failed was the
   last.
2. `output_blacklist_case`: the blacklist is filled with what the user typed and
   looked up by the lower-cased extension, so `--blacklist PNG` blocks nothing,
   although `README.md` calls the list case-insensitive.
3. `startup_toml`: every flag is bound to viper (`flags.go:222`), so
   `v.Unmarshal` fills a key that the file does not set with the default of the
   flag of that name, not with that of `defaultConfig`. With any `.gau.toml` that
   does not set them, `retries` is 0 instead of 5 and the list of providers is
   empty, although `loadConfig` says that it merges "from defaults, optional
   .gau.toml file, and the flags actually set" (269-270).

More were met on the way and are recorded here. The properties around them
are stated so as to hold of the code.

Of the run and the client:

4. `OnWorkComplete`'s comment (`runner.go:25-27`) says that all URLs have been
   forwarded; after a cancellation the forwarder has dropped some (127-132).
   `Delivery` says so: its `Report` may overtake URLs when cancelled.
5. JSON mode counts a URL and then ignores that its record could not be written
   (`output.go:128-131`), so that the summary can count more than the "what's
   actually in the output stream" of `README.md:138-140`. `SummaryIsOutput`
   says how many more: as many as were lost. Those are all records from the
   first failed one on, because the encoder keeps its error: the comment of
   `WriteURLsJSON` (106-109) says that errors "on individual records are skipped"
   and calls that "recovering on a per-record basis".
6. `int(MaxRetries) + 1` (`client.go:77`) is zero or negative for every value of
   the flag from 2^63-1 on: no attempt is made and `MakeRequest` returns neither body nor error.
   `BodyIsOwnReply` has `AttemptsFit` as its hypothesis, so it says nothing of
   such a flag.
7. `backoffFor` adds its jitter after the cap (`client.go:129-141`), so a delay
   reaches 45 s where its comment (121) says that it is capped at 30.
   `EveryRetryWaits` states the bound the code has.
8. A `Retry-After` above 30 s is cut to 30 s (`client.go:114-116`), where the
   comment says "honored exactly" (69). `HintsAreWaitedFor` says "up to the cap".
9. A rate limiter that sees the context's deadline coming fails with an error of
   its own (`client.go:86`), which a `Fetch` returns: not the clean end of
   `README.md:363-365`. It is among the faults of `ErrorIffFault`. The command's
   context has no deadline; a library caller's may.

Of the providers, exceptions that `NilIsComplete` names:

10. A Common Crawl line longer than 64 KiB ends its page: `Scan` gives up, nobody
    asks `sc.Err` (`commoncrawl.go:111`), and the rest of the page is dropped,
    where the comment promises "an error should one occur" (75).
11. urlscan's sort key keeps strings only (`types.go:25-33`): one of numbers ends
    the search with nil although `has_more` is set (`urlscan.go:79-86`).
12. urlscan compares names as they are spelled (`urlscan.go:166-168`): for a
    target in capitals every result is dropped.
13. A 400 within the pages of the Wayback Machine is taken for their end
    (`wayback.go:72`), on the first page too, where it may as well mean that the
    query is wrong.

And two ways in which more is sent than the target's hosts, which `Welcome`
names: `HasSuffix` takes `otherexample.com` for a subdomain of `example.com`
(`urlscan.go:167`), and otx sends all a *domain* indicator covers, which has
subdomains without `--subs` and, after the roll-up of a host to its domain,
its siblings (`otx.go:108-121`).

14. `README.md:180` says of a missing configuration file that gau "will output a
    message to stderr"; `flags.go:284-294` is silent about a file that does not
    exist and warns only of other errors.


## 6. What is not modelled

* The services: an archive is fixed for a `Fetch` and answers as section 2 says.
  One that changes between two pages may lose or repeat rows whatever the client
  does.
* `GetParameters` of `filters.go`: it writes the filters into a query whose
  meaning is the service's. Headers, API keys, base URLs and their slashes.
* The rate limiter of `golang.org/x/time/rate`: here `Wait` lets a call through
  at any time, or fails once the context is done or with the error of 9.
* fasthttp, json-iterator, cobra, viper, the progress bar, the public suffix list, URL parsing
  and regular expressions: each is what the code in this repository sees of it.
* The random choice of an agent among the pool, and the copy that
  `DefaultUserAgents` returns.
* `--threads 0` (no worker ever receives, main blocks at once) is outside the
  instances; concurrent callers of `Display.Close` and of `SetUserAgents` are
  outside the program, which has one caller of each.
* The test server of `internal/testutil`.
* Wording, layout and the order of the summary's rows.


## 7. Plan

Done: the pool and its abstract specification, writer, progress and their
composition; the HTTP client, what a call promises, and its durations; the four providers and what
they promise; the start; the theorems of section 4.

1. **Proofs.** `Providers` composed with the pool: that a `Fetch` as `Harvest`
   describes it is one that `Runner` assumes, so that `NilCompletes` and
   `NilSentAll` join to one theorem on archives and output.
2. **A longer chain.** `Harvest` in place of `Runner`'s arbitrary `Fetch`, so that
   a row of an archive is followed to a line of output.
3. **More of the run.** Cancellation by the caller in `Gau`; several providers
   with `--progress` over stdin.

Later runs take the place of, or are joined with, the narrowest ones above, so
that the set stays small enough to be run at every change.
