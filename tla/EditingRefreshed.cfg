SPECIFICATION Spec
CONSTANTS
  name = name
  shape = shape
  rent = rent
  Unset = Unset
  Fields = {name, shape}
  Public = {name, shape}
  Geometry = {shape}
  Values = {1, 2}
  Loads = FALSE
  Failures = FALSE
  Others = TRUE
  Enrichments = 0
PROPERTIES NoUnseenOverwrite
