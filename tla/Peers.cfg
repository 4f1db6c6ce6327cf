SPECIFICATION FairSpec
CONSTANTS
  Obj = {1, 2}
  Zone = {"z"}
  Retries = 1
  MaxEvents = 3
  Mixes <- All
CHECK_DEADLOCK FALSE
INVARIANTS
  ViewIsOfTheStored
  
PROPERTIES
  ReachableWorks
  
