SPECIFICATION FairSpec
CONSTANTS
  Agent = {"a", "b"}
  Key = {"k1", "k2"}
  Scenarios <- Mixes
CHECK_DEADLOCK FALSE
INVARIANTS
  TrustedKeyIsHeld
PROPERTIES
  NoKeyBesideAHeldOne
  
