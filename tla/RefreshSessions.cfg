SPECIFICATION Spec
CONSTANTS
  t1 = t1
  t2 = t2
  t3 = t3
  f1 = f1
  f2 = f2
  r1 = r1
  r2 = r2
  NoToken = NoToken
  NoFamily = NoFamily
  Tokens = {t1, t2, t3}
  Families = {f1, f2}
  Requests = {r1, r2}
INVARIANTS TypeOK OneLivePerFamily NoFork
PROPERTIES FamilyEndsForGood ResetEndsAll RequestsEnd
