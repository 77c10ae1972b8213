SPECIFICATION Spec
CONSTANTS
  a = a
  a2 = a2
  b = b
  ha = ha
  hb = hb
  None = None
  Clients = {c1, c2}
  Boot = boot
  Configs = {a, a2, b}
  Hashes = {ha, hb}
  HashOf <- MCHashOf
  MaxCores = 2
  MaxCalls = 3
  MaxAttempts = 1
  MaxCrashes = 0
  PingMayFail = TRUE
  DiskMayFail = FALSE
SYMMETRY Symmetry
INVARIANTS
  TypeOK
  NoOrphanCore
  GateMatchesFlag
  SkipIsSound
  RunningConfigExact
