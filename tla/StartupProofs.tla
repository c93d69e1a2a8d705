---------------------------- MODULE StartupProofs ----------------------------
(***************************************************************************)
(* What loadConfig and Init make of any command line and any file: where   *)
(* each setting and each filter comes from, and which providers there are. *)
(***************************************************************************)
EXTENDS Startup, SequenceTheorems, TLAPS

(* Where a value can come from, before and after the flags are applied.    *)
SettingsInv ==
  /\ input \in InputRecords
  /\ cfg \in [Settings -> Sources]
  /\ filters \in [FilterKeys -> {"none", "file", "command line"}]
  /\ start = "overrides" => \A s \in InFile \ input.typed : cfg[s] = "file"
  /\ start \in {"file", "overrides", "filters"} =>
       \A k \in FilterKeys : filters[k] # "command line"
  /\ start \in {"overrides", "filters"} /\ input.file = "read" =>
       \A k \in input.fileFilters : filters[k] = "file"
  /\ start \notin {"file", "overrides"} => \A s \in Settings :
       /\ s \in input.typed => cfg[s] = "command line"
       /\ s \in InFile \ input.typed => cfg[s] = "file"
  /\ FiltersFromOneSource

(* The inputs are of the form the module describes.                        *)
LEMMA SettingsInit == StartupInit => SettingsInv
<1> SUFFICES ASSUME StartupInit PROVE SettingsInv
  OBVIOUS
<1>1. input \in InputRecords /\ start = "file"
  BY StartupAssumption DEF StartupInit
<1>2. cfg \in [Settings -> Sources]
  BY DEF StartupInit, Sources
<1>3. filters = [k \in FilterKeys |-> "none"]
  BY DEF StartupInit
<1> QED
  BY <1>1, <1>2, <1>3 DEF SettingsInv, FiltersFromOneSource, Loaded

(* No step gives a setting a source it may not have.                       *)
LEMMA SettingsNext ==
  ASSUME SettingsInv, [StartupNext]_startupVars
  PROVE  SettingsInv'
<1>1. CASE ReadFile
  <2>1. /\ start = "file" /\ start' = "overrides" /\ input' = input
        /\ InFile' = InFile
    BY <1>1 DEF ReadFile, InFile
  <2>2. CASE input.file = "read"
    <3>1. /\ cfg' = [s \in Settings |-> Unmarshalled(s)]
          /\ filters' = [k \in FilterKeys |->
                           IF k \in input.fileFilters THEN "file" ELSE "none"]
      BY <1>1, <2>2 DEF ReadFile
    <3>2. \A s \in Settings : Unmarshalled(s) \in Sources
      BY DEF SettingsInv, Unmarshalled, Sources
    <3>3. \A s \in InFile \ input.typed : Unmarshalled(s) = "file"
      BY <2>2 DEF InFile, Unmarshalled
    <3>4. InFile \subseteq Settings /\ input.fileFilters \subseteq FilterKeys
      BY DEF SettingsInv, InputRecords, InFile
    <3> QED
      BY <2>1, <2>2, <3>1, <3>2, <3>3, <3>4
      DEF SettingsInv, FiltersFromOneSource, Loaded
  <2>3. CASE input.file # "read"
    <3>1. cfg' = cfg /\ filters' = filters /\ InFile = {}
      BY <1>1, <2>3 DEF ReadFile, InFile
    <3> QED
      BY <2>1, <2>3, <3>1 DEF SettingsInv, FiltersFromOneSource, Loaded
  <2> QED
    BY <2>2, <2>3
<1>2. CASE ApplyFlagOverrides
  <2>1. /\ start = "overrides" /\ start' = "filters" /\ input' = input
        /\ InFile' = InFile /\ filters' = filters
        /\ cfg' = [s \in Settings |->
                     IF s \in input.typed THEN "command line" ELSE cfg[s]]
    BY <1>2 DEF ApplyFlagOverrides, Overridden, InFile
  <2> QED
    BY <2>1 DEF SettingsInv, FiltersFromOneSource, Loaded, Sources
<1>3. CASE ApplyFilterFlags
  <2>1. /\ start = "filters" /\ start' = "agents" /\ input' = input
        /\ InFile' = InFile /\ cfg' = cfg
    BY <1>3 DEF ApplyFilterFlags, InFile
  <2>2. CASE input.typedFilters = {}
    <3>1. filters' = filters
      BY <1>3, <2>2 DEF ApplyFilterFlags
    <3> QED
      BY <2>1, <2>2, <3>1 DEF SettingsInv, FiltersFromOneSource, Loaded
  <2>3. CASE input.typedFilters # {}
    <3>1. filters' = [k \in FilterKeys |->
                        IF k \in Accepted THEN "command line" ELSE "none"]
      BY <1>3, <2>3 DEF ApplyFilterFlags, Replaced
    <3>2. Accepted \subseteq input.typedFilters
      BY DEF Accepted
    <3> QED
      BY <2>1, <2>3, <3>1, <3>2 DEF SettingsInv, FiltersFromOneSource, Loaded
  <2> QED
    BY <2>2, <2>3
<1>4. ASSUME \/ SetUserAgents \/ ProviderConfig \/ InitProvider \/ Bootstrap
             \/ BootstrapAnswered \/ BootstrapFails \/ InitReturns
             \/ OpenOutput \/ Ready \/ UNCHANGED startupVars
      PROVE  SettingsInv'
  <2>1. UNCHANGED <<input, cfg, filters>>
    BY <1>4 DEF SetUserAgents, ProviderConfig, InitProvider, Bootstrap,
                BootstrapAnswered, BootstrapFails, InitReturns, OpenOutput,
                Ready, startupVars
  <2>2. start' = start \/ (Loaded /\ Loaded')
    BY <1>4 DEF SetUserAgents, ProviderConfig, InitProvider, Bootstrap, AtName,
                BootstrapAnswered, BootstrapFails, InitReturns, OpenOutput,
                ReturnsError, Ready, startupVars, Loaded
  <2>3. InFile' = InFile
    BY <2>1 DEF InFile
  <2> QED
    BY <2>1, <2>2, <2>3 DEF SettingsInv, FiltersFromOneSource, Loaded
<1> QED
  BY <1>1, <1>2, <1>3, <1>4 DEF StartupNext, StartupStep

(* The invariant of loadConfig.                                            *)
THEOREM SettingsInvariant == StartupSpec => []SettingsInv
  BY SettingsInit, SettingsNext, PTL DEF StartupSpec

(* What was typed wins, and what only the file says is the file's.         *)
THEOREM FlagsWin == StartupSpec => []SettingsHonoured
<1>1. SettingsInv => SettingsHonoured
  BY DEF SettingsInv, SettingsHonoured, Loaded
<1> QED
  BY <1>1, SettingsInvariant, PTL

(* Filters are all the command line's or all the file's.                   *)
THEOREM FiltersWhole == StartupSpec => []FiltersFromOneSource
<1>1. SettingsInv => FiltersFromOneSource
  BY DEF SettingsInv
<1> QED
  BY <1>1, SettingsInvariant, PTL
-----------------------------------------------------------------------------
Initialising == start \in {"init", "bootstrap", "open", "started", "returned"}

(* The position Init is at, and what it has made of the names before it.   *)
InitInv ==
  /\ pos \in Nat \ {0} /\ providers \in Seq(Nat)
  /\ ~Initialising => pos = 1 /\ providers = <<>>
  /\ \A k \in 1..Len(providers) : providers[k] \in 1..pos - 1
  /\ \A k, l \in 1..Len(providers) : k < l => providers[k] < providers[l]
  /\ \A k \in 1..Len(providers) : ProviderNames[providers[k]] \in Known
  /\ \A i \in 1..pos - 1 : ProviderNames[i] \in Known =>
       \E k \in 1..Len(providers) : providers[k] = i
  /\ start = "bootstrap" => ProviderNames[pos] = "commoncrawl"
  /\ start \in {"open", "started"} =>
       pos > Len(ProviderNames) \/ ProviderNames[pos] = "commoncrawl"

(* Init appends the name it is at, if it is known, and goes on.            *)
LEMMA InitAppends ==
  ASSUME InitInv, Initialising, Initialising',
         ProviderNames' = ProviderNames, pos' = pos + 1,
         start' \notin {"bootstrap", "open", "started"},
         \/ ProviderNames[pos] \in Known /\ providers' = Append(providers, pos)
         \/ ProviderNames[pos] \notin Known /\ providers' = providers
  PROVE  InitInv'
<1>1. CASE ProviderNames[pos] \notin Known /\ providers' = providers
  BY <1>1 DEF InitInv
<1>2. CASE ProviderNames[pos] \in Known /\ providers' = Append(providers, pos)
  <2> DEFINE n == Len(providers)
  <2>1. pos \in Nat \ {0} /\ providers \in Seq(Nat) /\ n \in Nat
    BY DEF InitInv
  <2>2. /\ providers' \in Seq(Nat) /\ Len(providers') = n + 1
        /\ providers'[n + 1] = pos
        /\ \A k \in 1..n : providers'[k] = providers[k]
    BY <1>2, <2>1
  <2>3. /\ \A k \in 1..n : providers[k] \in 1..pos - 1
        /\ \A k, l \in 1..n : k < l => providers[k] < providers[l]
        /\ \A k \in 1..n : ProviderNames[providers[k]] \in Known
        /\ \A i \in 1..pos - 1 : ProviderNames[i] \in Known =>
             \E k \in 1..n : providers[k] = i
    BY DEF InitInv
  <2> HIDE DEF n
  <2>4. \A k \in 1..n + 1 : k = n + 1 \/ k \in 1..n
    BY <2>1
  <2>5. \A k \in 1..n + 1 : providers'[k] \in 1..pos
    BY <2>1, <2>2, <2>3, <2>4
  <2>6. \A k, l \in 1..n + 1 : k < l => providers'[k] < providers'[l]
    BY <2>1, <2>2, <2>3, <2>4
  <2>7. \A k \in 1..n + 1 : ProviderNames[providers'[k]] \in Known
    BY <1>2, <2>1, <2>2, <2>3, <2>4
  <2>8. ASSUME NEW i \in 1..pos, ProviderNames[i] \in Known
        PROVE  \E k \in 1..n + 1 : providers'[k] = i
    <3>1. CASE i = pos
      BY <2>1, <2>2, <3>1
    <3>2. CASE i # pos
      <4>1. PICK k \in 1..n : providers[k] = i
        BY <2>1, <2>3, <2>8, <3>2
      <4> QED
        BY <2>1, <2>2, <4>1
    <3> QED
      BY <3>1, <3>2
  <2>9. pos' - 1 = pos
    BY <2>1
  <2> QED
    BY <2>1, <2>2, <2>5, <2>6, <2>7, <2>8, <2>9 DEF InitInv
<1> QED
  BY <1>1, <1>2

(* No step of the start breaks that.                                       *)
LEMMA InitNext ==
  ASSUME InitInv, [StartupNext]_startupVars
  PROVE  InitInv'
<1> DEFINE Same == UNCHANGED <<input, cfg>>
<1>1. Same => ProviderNames' = ProviderNames
  BY DEF ProviderNames, Value
<1>2. CASE ReadFile \/ ApplyFlagOverrides \/ ApplyFilterFlags \/ SetUserAgents
  <2>1. /\ pos' = pos /\ providers' = providers
        /\ ~Initialising /\ ~Initialising'
    BY <1>2 DEF ReadFile, ApplyFlagOverrides, ApplyFilterFlags, SetUserAgents,
                Initialising
  <2>2. pos = 1 /\ providers = <<>>
    BY <2>1 DEF InitInv
  <2> QED
    BY <2>1, <2>2 DEF InitInv, Initialising
<1>3. CASE ProviderConfig
  <2>1. /\ pos' = pos /\ providers' = providers /\ Same
        /\ start' \in {"init", "returned"} /\ Initialising'
    BY <1>3 DEF ProviderConfig, ReturnsError, Initialising
  <2> QED
    BY <1>1, <2>1 DEF InitInv
<1>4. CASE InitProvider
  <2>1. /\ start = "init" /\ start' = "init" /\ pos' = pos + 1 /\ Same
        /\ ProviderNames[pos] # "commoncrawl"
        /\ providers' = IF Constructs(ProviderNames[pos])
                        THEN Append(providers, pos) ELSE providers
    BY <1>4 DEF InitProvider, AtName
  <2>2. Constructs(ProviderNames[pos]) <=> ProviderNames[pos] \in Known
    BY <2>1 DEF Constructs, Known
  <2> QED
    BY <1>1, <2>1, <2>2, InitAppends DEF Initialising
<1>5. CASE Bootstrap
  BY <1>1, <1>5 DEF Bootstrap, InitInv, Initialising
<1>6. CASE BootstrapAnswered
  <2>1. /\ start = "bootstrap" /\ start' = "init" /\ pos' = pos + 1 /\ Same
        /\ providers' = Append(providers, pos)
    BY <1>6 DEF BootstrapAnswered
  <2>2. ProviderNames[pos] \in Known
    BY <2>1 DEF InitInv, Known
  <2> QED
    BY <1>1, <2>1, <2>2, InitAppends DEF Initialising
<1>7. CASE BootstrapFails \/ InitReturns
  BY <1>1, <1>7 DEF BootstrapFails, InitReturns, InitInv, Initialising
<1>8. CASE OpenOutput
  BY <1>1, <1>8 DEF OpenOutput, ReturnsError, InitInv, Initialising
<1>9. CASE Ready \/ UNCHANGED startupVars
  <2>1. UNCHANGED <<start, pos, providers>> /\ Same
    BY <1>9 DEF Ready, startupVars
  <2> QED
    BY <1>1, <2>1 DEF InitInv, Initialising
<1> QED
  BY <1>2, <1>3, <1>4, <1>5, <1>6, <1>7, <1>8, <1>9
  DEF StartupNext, StartupStep

(* Runner.Providers are the known names before the position Init is at,    *)
(* in order; and it stops before the end only at a failing Common Crawl.   *)
THEOREM ProvidersInOrder == StartupSpec => []RunnerProviders
<1>1. StartupInit => InitInv
  BY DEF StartupInit, InitInv, Initialising
<1>2. InitInv /\ [StartupNext]_startupVars => InitInv'
  BY InitNext
<1>3. ASSUME InitInv PROVE RunnerProviders
  <2>1. DOMAIN providers = 1..Len(providers)
    <3>1. providers \in Seq(Nat)
      BY <1>3 DEF InitInv
    <3> QED
      BY <3>1
  <2> QED
    BY ONLY <1>3, <2>1 DEF InitInv, RunnerProviders
<1> QED
  BY <1>1, <1>2, <1>3, PTL DEF StartupSpec
-----------------------------------------------------------------------------
(* The pool is settled before Init, which is the first to ask, and its     *)
(* agents are those of the settings that were loaded.                      *)
Loading == start \in {"file", "overrides", "filters", "agents"}

AgentsInv ==
  /\ asked => ~Loading
  /\ ~Loading => pool = IF Cleaned(UserAgents) = {} THEN DefaultAgents ELSE Cleaned(UserAgents)

(* SetUserAgents settles the pool before anything asks for a page, and     *)
(* no other step touches it.                                               *)
LEMMA AgentsNext ==
  ASSUME AgentsInv, [StartupNext]_startupVars
  PROVE  AgentsInv'
<1>1. CASE ReadFile \/ ApplyFlagOverrides \/ ApplyFilterFlags
  <2>1. asked' = asked /\ Loading /\ Loading'
    BY <1>1 DEF ReadFile, ApplyFlagOverrides, ApplyFilterFlags, Loading
  <2> QED BY <2>1 DEF AgentsInv
<1>2. CASE UNCHANGED <<input, cfg>>
  <2>1. Cleaned(UserAgents)' = Cleaned(UserAgents)
    BY <1>2 DEF Cleaned, Listed, UserAgents, Value
  <2>2. CASE SetUserAgents
    BY <2>1, <2>2 DEF SetUserAgents, AgentsInv, Loading
  <2>3. CASE UNCHANGED pool /\ (Loading' <=> Loading) /\ (asked' => asked \/ ~Loading)
    BY <2>1, <2>3 DEF AgentsInv
  <2>4. CASE ProviderConfig \/ InitProvider \/ Bootstrap \/ BootstrapAnswered
             \/ BootstrapFails \/ InitReturns \/ OpenOutput
    BY <2>3, <2>4
    DEF ProviderConfig, ReturnsError, InitProvider, AtName, Bootstrap, BootstrapAnswered,
        BootstrapFails, InitReturns, OpenOutput, Loading
  <2>5. CASE Ready \/ UNCHANGED startupVars
    BY <2>3, <2>5 DEF Ready, startupVars, Loading
  <2>6. CASE ReadFile \/ ApplyFlagOverrides \/ ApplyFilterFlags
    BY <1>1, <2>6
  <2> QED BY <2>2, <2>4, <2>5, <2>6 DEF StartupNext, StartupStep
<1>3. UNCHANGED <<input, cfg>> \/ ReadFile \/ ApplyFlagOverrides
  BY DEF StartupNext, StartupStep, ApplyFilterFlags, SetUserAgents, ProviderConfig, InitProvider,
         Bootstrap, BootstrapAnswered, BootstrapFails, InitReturns, OpenOutput, Ready, startupVars
<1> QED BY <1>1, <1>2, <1>3

(* No request goes out before the pool is settled: it picks the user's     *)
(* agents when the user names one, and never a blank one.                  *)
THEOREM AgentsFromOneSource == StartupSpec => []AgentsHonoured
<1>1. StartupInit => AgentsInv
  BY DEF StartupInit, AgentsInv, Loading
<1>2. AgentsInv /\ [StartupNext]_startupVars => AgentsInv'
  BY AgentsNext
<1>3. AgentsInv => AgentsHonoured
  BY StartupAssumption DEF AgentsInv, AgentsHonoured, Cleaned, Listed
<1> QED BY <1>1, <1>2, <1>3, PTL DEF StartupSpec
=============================================================================
