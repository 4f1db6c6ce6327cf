SPECIFICATION Spec
CONSTANTS
  p1 = p1
  p2 = p2
  Agent = {p1, p2}
  Leads = {p1, p2}
  MaxSerial = 2
  Refuses <- Nothing
  Lists <- OwnLists
  Starts <- AtRest
CHECK_DEADLOCK FALSE
SYMMETRY Alike
INVARIANTS
  TypeOK
  
  WorkIsByOneSerial
  DoneMeansHeld
  NoRolloverInAThaw
