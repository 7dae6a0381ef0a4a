SPECIFICATION Spec
CONSTANTS
  name = name
  shape = shape
  rent = rent
  Unset = Unset
  Fields = {shape, rent}
  Public = {shape}
  Geometry = {shape}
  Values = {1, 2}
  Loads = TRUE
  Failures = TRUE
  Others = TRUE
  Enrichments = 1
INVARIANTS TypeOK WaitingIsNewest NeverStranded OnlyDroppedIsLost
PROPERTIES ComesToRest
