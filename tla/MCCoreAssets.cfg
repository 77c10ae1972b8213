SPECIFICATION FairSpec
CONSTANTS
  a1 = a1
  a2 = a2
  a3 = a3
  a4 = a4
  f = f
  g = g
  h = h
  x = x
  y = y
  bad = bad
  empty = empty
  big = big
  None = None
  Bodies = {x, y, bad, empty, big}
  SizeOf <- MCSizeOf
  MaxSize = 1
  Runnable = {x, y}
  Stock = Stock
  Urls = {u}
  Asked = {x, y, bad}
  Absent = Absent
  Invalid = Invalid
  Stub = Stub
  MaxClock = 3
  MaxMishaps = 1
  Geofiles = {f, g, h}
  Assets = {a1, a2, a3, a4}
  FileOf <- MCFileOf
  BodyOf <- MCBodyOf
  Lists <- MCLists
  Workers = {v, w}
  MaxStarts = 2
INVARIANTS TypeOK KeepsOrInstalls InstalledIsAsked SourcesInOrder
PROPERTIES StartEnds
CHECK_DEADLOCK FALSE
