SPECIFICATION Spec
CONSTANTS
  name = name
  shape = shape
  rent = rent
  Unset = Unset
  Fields = {name, rent}
  Public = {name}
  Geometry = {}
  Values = {1, 2}
  Loads = FALSE
  Failures = TRUE
  Others = FALSE
  Enrichments = 0
INVARIANTS SavedIsHonest
