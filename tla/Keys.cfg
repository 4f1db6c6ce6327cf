SPECIFICATION FairSpec
CONSTANTS
  Key = {1, 2}
  Peer = {"p"}
  Role = {"signs"}
  MaxDist = 2
  MaxFwd = 3
  Event = {"resend", "answer", "lose", "full", "drop", "copy", "senderRestart", "agentRestart",
           "policy", "publish", "combinerRestart", "role"}
  MaxEvents = 2
CHECK_DEADLOCK FALSE
INVARIANTS
  TypeOK
PROPERTIES
  PropagatedMeansHeld
  RemovedMeansGone
  ImplementsKeyStore
  LatestPropagationEnds
