SPECIFICATION FairSpec
CONSTANTS
  p1 = p1
  p2 = p2
  Agent = {p1, p2}
  Leads = {p1}
  MaxSerial = 2
  Refuses <- Nothing
  Lists <- OwnLists
  Starts <- AtFirst
CHECK_DEADLOCK FALSE
PROPERTY
  TransitionEnds
