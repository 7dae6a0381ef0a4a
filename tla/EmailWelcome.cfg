SPECIFICATION Spec
CONSTANTS
  alice = alice
  bob = bob
  c1 = c1
  c2 = c2
  w1 = w1
  n1 = n1
  cli1 = cli1
  cli2 = cli2
  NoEvent = NoEvent
  Users = {alice}
  Events = {w1, n1}
  Kind <- KindByName
  Owner <- OwnerByName
  Workers = {cli1, cli2, req1}
  Requests = {req1}
  Holders = {}
  MaxAttempts = 2
  LiveOverrun = TRUE
  MaxClaims = 2
  MaxMishaps = 1
INVARIANTS TypeOK WelcomeOnce SentWasAccepted
SYMMETRY CommandSymmetry
