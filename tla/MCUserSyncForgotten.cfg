SPECIFICATION Spec
CONSTANTS
  Users = {u1, u2}
  Tags = {t1}
  Inbounds = {t1}
  Callers = {p}
  None = None
  Lossy = FALSE
  MaxVersion = 0
  MaxBatch = 1
  MaxSends = 2
  MaxStarts = 1
  MaxExits = 0
SYMMETRY Symmetry
CHECK_DEADLOCK FALSE
INVARIANTS ForgottenIsEmpty
