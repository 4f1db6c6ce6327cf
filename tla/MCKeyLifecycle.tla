--------------------------- MODULE MCKeyLifecycle ---------------------------
EXTENDS KeyLifecycle

NoStandby == [role \in Role |-> 0]
Events == {"hand-over", "restart", "strip", "slow",
           "reject", "lose", "back", "word", "zone", "dies"}
=============================================================================
