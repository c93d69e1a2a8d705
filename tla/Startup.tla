------------------------------- MODULE Startup -------------------------------
(***************************************************************************)
(* From the command line to the first worker: loadConfig and               *)
(* ProviderConfig of runner/flags/flags.go, SetUserAgents of the http      *)
(* client, Runner.Init with the bootstrap of commoncrawl.New, and the      *)
(* opening of the output file (cmd/gau/main.go:31-60, 99-100).             *)
(*                                                                         *)
(* A setting is known by where its value comes from; what that value is,   *)
(* where it matters, is part of the input.  Filters are a block of their   *)
(* own, as they are in the code.                                           *)
(***************************************************************************)
EXTENDS Naturals, Sequences

CONSTANTS
  Inputs,        (* command lines with the files and values they meet      *)
  DefaultAgents  (* the built-in pool of user agents                       *)

Settings == {"retries", "providers", "ratelimit", "useragents", "proxy",
             "matchregex"}

(* The settings whose key in the file is also the name of a flag: viper    *)
(* knows the flag's default for them.                                      *)
Bound == {"retries", "providers", "proxy"}

FilterKeys == {"from", "to", "mc", "ft"}

Values == [providers : Seq(STRING), useragents : Seq(STRING),
           proxy : BOOLEAN, matchregex : BOOLEAN]   (* they can be used    *)

InputRecords ==
  [file : {"missing", "stat error", "unparsable", "read"},
   fileKeys : SUBSET Settings, badKeys : SUBSET Settings,
   fileFilters : SUBSET FilterKeys,
   typed : SUBSET Settings, typedFilters : SUBSET FilterKeys,
   badDates : SUBSET {"from", "to"},
   values : [{"file", "command line"} -> Values],
   output : {"stdout", "file", "unwritable"}]

ASSUME StartupAssumption ==
  /\ Inputs \subseteq InputRecords
  /\ DefaultAgents \subseteq STRING \ {""} /\ DefaultAgents # {}

VARIABLES
  input,
  start,     (* control point                                              *)
  cfg,       (* [Settings -> where its value comes from]                   *)
  filters,   (* [FilterKeys -> where its value comes from]                 *)
  pool,      (* userAgents of the http client: a request picks any of them *)
  pos,       (* the name Init is at                                        *)
  providers, (* Runner.Providers: positions of names in the list           *)
  asked,     (* a request may have been sent                               *)
  returned   (* what runGau returned before it started anything            *)

startupVars ==
  <<input, start, cfg, filters, pool, pos, providers, asked, returned>>

Value(source, setting, default) ==
  IF source \in {"file", "command line"} THEN input.values[source][setting]
                                         ELSE default

DefaultProviders == <<"wayback", "commoncrawl", "otx", "urlscan">>

ProviderNames ==
  Value(cfg["providers"], "providers",
        IF cfg["providers"] = "default" THEN DefaultProviders ELSE <<>>)

StartupInit ==
  /\ input \in Inputs
  /\ start = "file"
  /\ cfg = [s \in Settings |-> "default"]
  /\ filters = [k \in FilterKeys |-> "none"]
  /\ pool = DefaultAgents
  /\ pos = 1
  /\ providers = <<>>
  /\ asked = FALSE
  /\ returned = "none"
-----------------------------------------------------------------------------
(* loadConfig.                                                             *)

(* v.Unmarshal: viper answers for a bound key without a value in the file  *)
(* with what the flag was given or its default; what does not decode is    *)
(* reported and skipped.                                                   *)
Unmarshalled(s) ==
  CASE s \in Bound \cap input.typed -> "command line"
    [] s \in input.fileKeys \ input.badKeys -> "file"
    [] s \in Bound \ input.fileKeys -> "flag default"
    [] OTHER -> cfg[s]

ReadFile ==
  /\ start = "file"
  /\ IF input.file = "read"
     THEN /\ cfg' = [s \in Settings |-> Unmarshalled(s)]
          /\ filters' = [k \in FilterKeys |->
                           IF k \in input.fileFilters THEN "file" ELSE "none"]
     ELSE UNCHANGED <<cfg, filters>>
  /\ start' = "overrides"
  /\ UNCHANGED <<input, pool, pos, providers, asked, returned>>

ForgetsAgents == input.typed \ {"useragents"}     (* a mutant *)

Overridden == input.typed

ApplyFlagOverrides ==
  /\ start = "overrides"
  /\ cfg' = [s \in Settings |->
               IF s \in Overridden THEN "command line" ELSE cfg[s]]
  /\ start' = "filters"
  /\ UNCHANGED <<input, filters, pool, pos, providers, asked, returned>>

(* One filter on the command line replaces the block; a malformed date is  *)
(* dropped.                                                                *)
Accepted == input.typedFilters \ input.badDates

Merged(k) ==     (* a mutant *)
  IF k \in Accepted THEN "command line" ELSE filters[k]

Replaced(k) == IF k \in Accepted THEN "command line" ELSE "none"

ApplyFilterFlags ==
  /\ start = "filters"
  /\ filters' = IF input.typedFilters = {} THEN filters
                ELSE [k \in FilterKeys |-> Replaced(k)]
  /\ start' = "agents"
  /\ UNCHANGED <<input, cfg, pool, pos, providers, asked, returned>>
-----------------------------------------------------------------------------
(* runGau, up to the first goroutine.                                      *)

Listed(agents) == {agents[k] : k \in DOMAIN agents}

KeepsBlanks(agents) == Listed(agents)     (* a mutant *)

Cleaned(agents) == Listed(agents) \ {""}

UserAgents == Value(cfg["useragents"], "useragents", <<>>)

SetUserAgents ==
  /\ start = "agents"
  /\ pool' = IF Cleaned(UserAgents) = {} THEN DefaultAgents ELSE Cleaned(UserAgents)
  /\ start' = "config"
  /\ UNCHANGED <<input, cfg, filters, pos, providers, asked, returned>>

(* A proxy that does not parse or has another scheme, a regex that does    *)
(* not compile.                                                            *)
ProxyUsable == Value(cfg["proxy"], "proxy", TRUE)

RegexUsable == Value(cfg["matchregex"], "matchregex", TRUE)

ConfigError == ~ProxyUsable \/ ~RegexUsable

ReturnsError ==
  /\ returned' = "error"
  /\ start' = "returned"

ProviderConfig ==
  /\ start = "config"
  /\ IF ConfigError THEN ReturnsError ELSE start' = "init" /\ UNCHANGED returned
  /\ UNCHANGED <<input, cfg, filters, pool, pos, providers, asked>>

(* Runner.Init, one name of the list at a time.                            *)
AtName == start = "init" /\ pos <= Len(ProviderNames)

ConstructsAny(name) == TRUE     (* a mutant *)

Constructs(name) == name \in {"urlscan", "otx", "wayback"}

InitProvider ==
  /\ AtName
  /\ ProviderNames[pos] # "commoncrawl"
  /\ providers' = IF Constructs(ProviderNames[pos]) THEN Append(providers, pos)
                                                   ELSE providers
  /\ pos' = pos + 1
  /\ UNCHANGED <<input, start, cfg, filters, pool, asked, returned>>

(* commoncrawl.New asks for collinfo.json.                                 *)
Bootstrap ==
  /\ AtName
  /\ ProviderNames[pos] = "commoncrawl"
  /\ asked' = TRUE
  /\ start' = "bootstrap"
  /\ UNCHANGED <<input, cfg, filters, pool, pos, providers, returned>>

BootstrapAnswered ==
  /\ start = "bootstrap"
  /\ providers' = Append(providers, pos)
  /\ pos' = pos + 1
  /\ start' = "init"
  /\ UNCHANGED <<input, cfg, filters, pool, asked, returned>>

(* The request fails, or its answer has no index: Init returns, and runGau *)
(* goes on with the providers it has.                                      *)
BootstrapFails ==
  /\ start = "bootstrap"
  /\ start' = "open"
  /\ UNCHANGED <<input, cfg, filters, pool, pos, providers, asked, returned>>

InitReturns ==
  /\ start = "init"
  /\ pos > Len(ProviderNames)
  /\ start' = "open"
  /\ UNCHANGED <<input, cfg, filters, pool, pos, providers, asked, returned>>

(* The output file is opened; then the writer and the workers start.       *)
OpenOutput ==
  /\ start = "open"
  /\ IF input.output = "unwritable"
     THEN ReturnsError /\ UNCHANGED asked
     ELSE start' = "started" /\ asked' = TRUE /\ UNCHANGED returned
  /\ UNCHANGED <<input, cfg, filters, pool, pos, providers>>

Ready == start \in {"started", "returned"} /\ UNCHANGED startupVars

StartupStep ==
  \/ ReadFile \/ ApplyFlagOverrides \/ ApplyFilterFlags
  \/ SetUserAgents \/ ProviderConfig
  \/ InitProvider \/ Bootstrap \/ BootstrapAnswered \/ BootstrapFails
  \/ InitReturns \/ OpenOutput

StartupNext == StartupStep \/ Ready

StartupSpec == StartupInit /\ [][StartupNext]_startupVars
-----------------------------------------------------------------------------
Sources == {"default", "flag default", "file", "command line"}

StartupTypeOK ==
  /\ input \in InputRecords
  /\ start \in {"file", "overrides", "filters", "agents", "config", "init",
                "bootstrap", "open", "started", "returned"}
  /\ cfg \in [Settings -> Sources]
  /\ filters \in [FilterKeys -> {"none", "file", "command line"}]
  /\ pool \subseteq STRING
  /\ pos \in 1..Len(ProviderNames) + 1
  /\ providers \in Seq(1..Len(ProviderNames))
  /\ asked \in BOOLEAN
  /\ returned \in {"none", "error"}
  /\ returned = "error" <=> start = "returned"

Loaded == start \notin {"file", "overrides", "filters"}

InFile == IF input.file = "read" THEN input.fileKeys \ input.badKeys ELSE {}

(* "Any options provided via command line flags will override options set  *)
(* in the configuration file" (README.md:182), all of them, also beside a  *)
(* file that is missing, broken or has keys that do not decode; and what   *)
(* the file sets and nobody typed is the file's.                           *)
SettingsHonoured ==
  Loaded => \A s \in Settings :
    /\ s \in input.typed => cfg[s] = "command line"
    /\ s \in InFile \ input.typed => cfg[s] = "file"

(* "if ANY one of these is set on the CLI, the entire [filters] block from *)
(* the toml is replaced rather than merged" (flags.go:389-392).            *)
FiltersFromOneSource ==
  Loaded =>
    /\ \A k \in FilterKeys :
         filters[k] = "command line" => k \in input.typedFilters
    /\ input.typedFilters # {} => \A k \in FilterKeys : filters[k] # "file"
    /\ input.typedFilters = {} /\ input.file = "read" =>
         \A k \in input.fileFilters : filters[k] = "file"

(* Runner.Providers are the known names of the list, in its order, all of  *)
(* them before the one at which Init gave up (runner.go:46-50).            *)
Known == {"wayback", "commoncrawl", "otx", "urlscan"}

RunnerProviders ==
  /\ \A k, l \in DOMAIN providers : k < l => providers[k] < providers[l]
  /\ \A k \in DOMAIN providers : ProviderNames[providers[k]] \in Known
  /\ \A i \in 1..pos - 1 :
       ProviderNames[i] \in Known =>
         \E k \in DOMAIN providers : providers[k] = i
  /\ start \in {"open", "started"} =>
       pos > Len(ProviderNames) \/ ProviderNames[pos] = "commoncrawl"

(* A request picks from a pool that is settled, has an agent and no blank  *)
(* one: all of the user's and no other, or the built-in ones when the user *)
(* names none (client.go:322-355).                                         *)
AgentsHonoured ==
  asked =>
    LET named == {UserAgents[k] : k \in DOMAIN UserAgents} \ {""}
    IN  /\ pool # {} /\ "" \notin pool
        /\ named \subseteq pool
        /\ named # {} => pool \subseteq named

(* The comment of loadConfig: "a merged Config from defaults, optional     *)
(* .gau.toml file, and the flags actually set on the command line"         *)
(* (flags.go:269-270).                                                     *)
UnsetKeysKeepDefaults ==
  Loaded => \A s \in Settings \ (input.typed \cup input.fileKeys) :
              cfg[s] = "default"
=============================================================================
