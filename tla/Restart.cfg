SPECIFICATION PhaseSpec
CONSTANTS
  Agent = {1, 2}
  Voter = {1, 2}
  Leaving = {1}
  Vote = {1}
  MaxTerm = 2
  Event = {"crash", "gone", "degrade", "operator", "excuse"}
  MaxEvents = 1
CHECK_DEADLOCK FALSE
INVARIANTS
  LeadBelongsToItsHold
PROPERTY
  ElectionEnds
