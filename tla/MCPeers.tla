------------------------------ MODULE MCPeers ------------------------------
EXTENDS Peers

\* a peer that is up, admits this agent and publishes its names
Up == [up |-> TRUE, admits |-> TRUE, records |-> "full", key |-> "none", cache |-> "empty"]
Unpublished == [Up EXCEPT !.records = "none"]

Case(named, there, events, n) == [named |-> named, far |-> there, events |-> events, left |-> n]

\* the zone names the peer no longer, and again; the zone goes, or the agent
\* takes no part in it
Zones == {Case("named", Up, {"unnamed", "named"}, 2),
          Case("named", Up, {"gone", "outside", "named"}, 2),
          Case("unnamed", Up, {"ask"}, 1)}

\* the peer goes down and comes back, while it introduces itself, while the
\* operator resets it, and while the zone names it no longer
Outages == {Case("named", Up, {"hello", "up"}, 2),
            Case("named", Up, {"reset", "up"}, 2),
            Case("named", Up, {"up", "unnamed"}, 2)}

\* the peer publishes its names late, takes a new key, or does not admit us
Names == {Case("named", Unpublished, {"publish", "hello"}, 3),
             Case("named", Up, {"key", "hello"}, 1),
             Case("named", Up, {"admits"}, 2)}

All == Zones \cup Outages \cup Names
=============================================================================
