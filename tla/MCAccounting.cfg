SPECIFICATION Spec
CONSTANTS
  u = u
  v = v
  Users = {u, v}
  Slots = {s1, s2}
  Pids = {p1, p2}
  None = None
  MaxBytes <- MCBytes
  MaxLives = 2
  MaxSamples = 3
  MaxSends = 3
  MaxResets = 1
  MaxCrashes = 1
SYMMETRY Symmetry
INVARIANTS
  TypeOK
  NeverOverbilled
  BilledExactly
PROPERTIES
  SettledFirst
  ImplementsLedger
CHECK_DEADLOCK FALSE
