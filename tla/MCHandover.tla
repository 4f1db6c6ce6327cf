----------------------------- MODULE MCHandover -----------------------------
(***************************************************************************)
(* One zone's hand-overs, for TLC.                                         *)
(***************************************************************************)
EXTENDS Handover

\* Each order key names a serial of its own.
Serials == [k \in Key |-> k]

\* What may happen in a run: one event, or two that meet.
Mix(events) == [e \in Events |-> IF e \in events THEN 1 ELSE 0]
Pairs == {{"start", "approval"}, {"start", "fail"}, {"fail", "read"}, {"again", "lost"}}
All == {Mix({e}) : e \in Events} \cup {Mix(p) : p \in Pairs}
=============================================================================
