SPECIFICATION CatchSpec
CONSTANTS
  Provider = {"a", "b"}
  Rec = {"x"}
  Faulty = {"a", "b"}
  Editor = {"b"}
  NotYetsKept = 1
  MaxKept = 1
  Scenarios <- Together
CHECK_DEADLOCK FALSE
INVARIANTS
  CaughtUpIsSame
  CombinerHoldsOwn
PROPERTY CatchesUp
