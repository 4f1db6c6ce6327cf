------------------------------ MODULE KeyStore ------------------------------
(***************************************************************************)
(* What the distribution of a key set promises of each peer's combiner:    *)
(* it holds one of the sets that were sent, whole, and goes from one to a  *)
(* newer one, whatever the messages in between do.  A combiner that        *)
(* restarts keeps the set and forgets how new it is.                       *)
(***************************************************************************)
EXTENDS Naturals, Sequences

CONSTANTS Key, Peer

VARIABLES sets,     \* the sets sent, in the order they were made
          version,  \* the newest set a peer's combiner knows it has taken
          held      \* the set it holds

vars == <<sets, version, held>>

Init == sets = <<>> /\ version = [p \in Peer |-> 0] /\ held = [p \in Peer |-> {}]

Send == \E s \in SUBSET Key : sets' = Append(sets, s) /\ UNCHANGED <<version, held>>

\* The newest REPLACE wins: the same set again, or a newer one.
Take(p) ==
  \E d \in 1..Len(sets) :
    /\ d >= version[p]
    /\ version' = [version EXCEPT ![p] = d]
    /\ held' = [held EXCEPT ![p] = sets[d]]
    /\ UNCHANGED sets

Forget(p) == version' = [version EXCEPT ![p] = 0] /\ UNCHANGED <<sets, held>>

Next == Send \/ \E p \in Peer : Take(p) \/ Forget(p)

Spec == Init /\ [][Next]_vars
=============================================================================
