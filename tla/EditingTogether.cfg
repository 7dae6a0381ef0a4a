SPECIFICATION Spec
CONSTANTS
  name = name
  shape = shape
  rent = rent
  Unset = Unset
  Fields = {name, shape}
  Public = {name, shape}
  Geometry = {}
  Values = {1, 2}
  Loads = FALSE
  Failures = TRUE
  Others = TRUE
  Enrichments = 1
PROPERTIES NoUnseenOverwrite
