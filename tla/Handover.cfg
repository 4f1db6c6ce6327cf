SPECIFICATION FairSpec
CONSTANTS
  Update = {1}
  MaxKey = 2
  Serial <- Serials
  MaxWants = 2
  MaxMade = 6
  Mixes <- All
CHECK_DEADLOCK FALSE
INVARIANTS
  HeldIsHeld
  RefusedByTheWanted
PROPERTY
  ComesToHold
