SPECIFICATION Spec
CONSTANTS
  a = a
  a2 = a2
  b = b
  ha = ha
  hb = hb
  None = None
  Clients = {c1}
  Boot = boot
  Configs = {a, b}
  Hashes = {ha, hb}
  HashOf <- MCHashOf2
  MaxCores = 2
  MaxCalls = 3
  MaxAttempts = 2
  MaxCrashes = 1
  PingMayFail = TRUE
  DiskMayFail = TRUE
INVARIANTS
  PersistedIsLastOutcome
  DisabledOnceBooted
