SPECIFICATION FairSpec
CONSTANTS
  a = a
  a2 = a2
  b = b
  ha = ha
  hb = hb
  None = None
  Clients = {c1}
  Boot = boot
  Configs = {a}
  Hashes = {ha}
  HashOf <- MCHashOf1
  MaxCores = 2
  MaxCalls = 2
  MaxAttempts = 1
  MaxCrashes = 0
  PingMayFail = FALSE
  DiskMayFail = FALSE

PROPERTIES
  EveryCallAnswered
  OnlineHeals
