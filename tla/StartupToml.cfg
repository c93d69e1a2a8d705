SPECIFICATION StartupSpec
CONSTANTS
  Inputs <- MCInputs
  DefaultAgents <- MCDefaultAgents
INVARIANTS
  UnsetKeysKeepDefaults
