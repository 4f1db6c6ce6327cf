SPECIFICATION Spec
CONSTANTS
  Agent = {1, 2}
  Voter = {1, 2}
  Leaving = {}
  Vote = {0, 1}
  MaxTerm = 2
  Event = {"beat", "lapse"}
  MaxEvents = 0
CHECK_DEADLOCK FALSE
INVARIANTS
  TypeOK
  OneLeaderPerTerm
  LeaderConfirmedByAll
  ConfirmFindsItsTerm
