SPECIFICATION Spec
CONSTANTS
  Users = {u1, u2}
  Tags = {t1, t2, t3}
  Inbounds = {t1, t2}
  Callers = {p}
  None = None
  Lossy = TRUE
  MaxVersion = 1
  MaxBatch = 2
  MaxSends = 1
  MaxStarts = 1
  MaxExits = 0
SYMMETRY Symmetry
CHECK_DEADLOCK FALSE
INVARIANTS TypeOK AnswerIsTrue OneCredential
