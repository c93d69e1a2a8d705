SPECIFICATION StartupSpec
CONSTANTS
  Inputs <- MCInputs
  DefaultAgents <- MCDefaultAgents
INVARIANTS
  SettingsHonoured
  FiltersFromOneSource
  RunnerProviders
  AgentsHonoured
