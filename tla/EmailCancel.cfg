SPECIFICATION Spec
CONSTANTS
  alice = alice
  bob = bob
  c1 = c1
  c2 = c2
  w1 = w1
  n1 = n1
  cli1 = cli1
  cli2 = cli2
  NoEvent = NoEvent
  Users = {alice, bob}
  Events = {c1, c2}
  Kind <- KindByName
  Owner <- OwnerByName
  Workers = {cli1}
  Requests = {}
  Holders = {}
  MaxAttempts = 2
  LiveOverrun = FALSE
  MaxClaims = 4
  MaxMishaps = 0
INVARIANT NothingPendingAfterCancel
