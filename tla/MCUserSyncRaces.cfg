SPECIFICATION Spec
CONSTANTS
  Users = {u1, u2}
  Tags = {t1}
  Inbounds = {t1}
  Callers = {p, q}
  None = None
  Lossy = TRUE
  MaxVersion = 1
  MaxBatch = 1
  MaxSends = 2
  MaxStarts = 1
  MaxExits = 1
SYMMETRY Symmetry
CHECK_DEADLOCK FALSE
INVARIANTS TrackedIsListed UsersTracked SkipIsSound
