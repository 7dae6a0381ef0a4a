SPECIFICATION Spec
CONSTANTS
  k1 = k1
  k2 = k2
  k3 = k3
  Unset = Unset
  Keys = {k1, k2, k3}
  Values = {"on", "off"}
CHECK_DEADLOCK FALSE
INVARIANTS TypeOK NothingForgotten SavedIsHonest LeftIsHonest
PROPERTIES ImplementsLatestSave EditsReachTheServer LeavingEnds
