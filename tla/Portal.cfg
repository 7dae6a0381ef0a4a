SPECIFICATION MCSpec
CONSTANTS
  None = None
  p1 = p1
  p2 = p2
  r1 = r1
  r2 = r2
  k1 = k1
  v1 = v1
  v2 = v2
  c1 = c1
  c2 = c2
  n1 = n1
  f1 = f1
  o1 = o1
  u1 = u1
  q1 = q1
  x1 = x1
  Processes = {p1, p2}
  Requests = {r1, r2}
  Mutations = {m1}
  Viewports = {v1, v2, v3}
  Off = Off
  CacheSize = 2
  MaxLoads = 3
  Slots = {"overview", "compare", "polygons", "search", "polygon", "detail", "area", "osmInfo"}
  Keys = {k1, k2}
  MaxSends = 3
  Calls = {c1, c2}
  Sessions = {s1, s2}
  Ids = {n1, n2}
  Makers = {a1}
  MaxQueue = 1
  MaxCount = 1
  All = All
  Forms = {f1, f2}
  Posts = {o1, o2}
  Lifetime = 2
  MinAge = 1
  Attempts = 1
  MaxClock = 3
  Adopters = {u1, u2}
  MaxPlanet = 2
  Chunk = 1
  MaxFaults = 1
  MaxImports = 1
  Items = {q1, q2}
  MaxSyncs = 2
  Figures = {g1, g2}
  Values = {1, 2}
  Absent = Absent
  MaxEditions = 1
  Visits = {x1, x2}
  MaxVersion = 2
  Interval = 1
  Queries = {y1, y2}
  PoolSize = 1
  MaxTools = 1
INVARIANTS CopiesAreCurrent LatecomersLose
PROPERTY EverythingEnds
CHECK_DEADLOCK FALSE
