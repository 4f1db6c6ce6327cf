SPECIFICATION FairSpec
CONSTANTS
  Voter = {"v"}
  NoRole = {"n"}
  Foreign = {"p"}
  Scheme = {"UPDATE", "NOTIFY"}
  Wait = {TRUE, FALSE}
  Owned = {TRUE, FALSE}
  QueueSize = 2
  MaxFailures = 2
  MaxChecks = 2
  Scenarios <- Mixes
CHECK_DEADLOCK FALSE
INVARIANTS
  EndedWorkIsStopped
 
