SPECIFICATION FairSpec
CONSTANTS
  Key = {1, 2, 3, 4}
  Signer = {"p"}
  Alg = {8, 13}
  FirstAlg = 8
  Standby <- NoStandby
  AtParent = TRUE
  Dying = {"created", "mpdist", "published", "standby"}
  Event <- Events
  MaxLine = 3
  MaxEvents = 2
CHECK_DEADLOCK FALSE
INVARIANTS
  HeldDsSigns
  
  OneSignerPerAlgorithm
PROPERTIES
  ForeignDsIsNotLost
  WaysOut
