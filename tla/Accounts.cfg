SPECIFICATION MCSpec
CONSTANTS
  i1 = i1
  i2 = i2
  boss = boss
  home = home
  Account = Account
  None = None
  Identities = {i1, i2}
  Keys = {k1, k2}
  Codes = {d1, d2}
  BatchSize = 1
  Challenges = {c1, c2}
  Ceremonies = {y1, y2}
  Requests = {r1, r2}
  MaxSecrets = 2
  MaxStep = 2
  Window = 1
  MaxGuesses = 2
  Users = {Account, boss, second}
  Superusers = {boss, second}
  Addresses = {home, other}
  Resets = {s1, s2, s3}
  Confirmations = {t1, t2}
  ServiceOf <- MCServiceOf
  Claimed = {i2}
  States = {st1, st2}
  MaxApps = 2
  MaxFiles = 3
SYMMETRY Alike
INVARIANTS WorksOnce WayInRemains LastAdministratorStays PictureIsKept
CHECK_DEADLOCK FALSE
