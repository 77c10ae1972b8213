CONSTANTS
  p1 = p1  p2 = p2  a1 = a1  a2 = a2  b1 = b1  n1 = n1  ext = ext  t1 = t1  t2 = t2
  u1 = u1  u2 = u2  as1 = as1
  None = None  Absent = Absent  Malformed = Malformed  Junk = Junk
  Clients = {p1, p2}
  Hooks <- MCHooks
  Addrs = {a1, a2, b1}
  Nets = {n1}
  Names = {ext}
  ASNs = {as1}
  NetAddrs <- MCNetAddrs
  ASNNets <- MCASNNets
  ASNLoaded = TRUE
  V6 = {b1}
  AlwaysIgnored = {b1}
  Joined <- MCJoined
  Plugins <- MCPlugins
  IgnoredUsers <- MCIgnoredUsers
  IPLists <- MCIPLists
  MaxCalls = 3
  MaxStarts = 1
  MaxFailures = 1
SPECIFICATION Spec
SYMMETRY MCSymmetry
INVARIANTS TypeOK TablesFollowPlugin BlockerIsWired SyncAnswerIsTrue ReportsBelong
CHECK_DEADLOCK FALSE
