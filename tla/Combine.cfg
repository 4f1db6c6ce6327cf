SPECIFICATION Spec
CONSTANTS
  Agent = {"mine", "far"}
  Mine = "mine"
  Self = "self"
  Type = {"NS", "CDS", "CSYNC"}
  RecordOf <- SmallRecords
  Single = {"CDS", "CSYNC"}
  SerialMod = 4
  Upstreams <- TwoUpstreams
  Standing <- FourStandings
  Signers <- FourSigners
  Manual = {FALSE, TRUE}
  Event = {"replace", "add", "delete", "handover", "saveFails", "publishFails", "apiAdd", "purge",
           "clear", "reapply", "refresh", "restart", "unread"}
  MaxEvents = 3
CHECK_DEADLOCK FALSE
INVARIANTS
  
  
  CsyncIsNewest
