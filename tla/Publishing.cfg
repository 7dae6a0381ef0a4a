SPECIFICATION MCSpec
CONSTANTS
  area = area
  e1 = e1
  e2 = e2
  e3 = e3
  p1 = p1
  p2 = p2
  r1 = r1
  r2 = r2
  x1 = x1
  x2 = x2
  ta = ta
  tb = tb
  Polygon = Polygon
  NoRow = NoRow
  NoText = NoText
  Nobody = Nobody
  NoEntry = NoEntry
  Events = {e1, e2, e3}
  Publishers = {p1, p2}
  Texts = {ta, tb}
  Entries = {x1, x2}
  Runs = {r1, r2}
  Resource <- MCResource
  MaxAttempts = 2
  MaxTries = 3
  Limit = 2
  MaxOutside = 2
  MaxFaults = 1
  MaxEventAttempts = 2
  MaxRunFaults = 1
INVARIANTS BothTypesOK RecordsAreTrue NothingUnapproved
PROPERTIES PublicationsSettle EventsClose
CHECK_DEADLOCK FALSE
