SPECIFICATION Spec
CONSTANTS
  AddressLimit = 2
  LatencyWarning = 3
  JitterWarning = 2
  Millis = {1, 3, 4}
  MaxFound = 3
  None = None
  Configs <- MCConfigs
  Normal <- MCNormal
  tagA = tagA
  tagB = tagB
  n1 = n1
  N1 = N1
  n2 = n2
  bad = bad
  Tags = {tagA, tagB}
  Candidates = {n1, bad}
  Ids = {n1, bad}
  ValidIds = {n1}
  MaxCandidates = 1
  Callers = {c1, c2}
  MaxProbes = 2
  Nobody = Nobody
  Checkpoint = Checkpoint
  Router = Router
  MaxTTL = 2
  MaxHops = 2
  Nil = Nil
  Requesters = {r1, r2, r3}
  MaxTargets = 2
  MaxRuns = 3
INVARIANTS TypeOK VerdictIsEarned SuccessIsEarned
PROPERTIES EveryRunEnds
CHECK_DEADLOCK FALSE
