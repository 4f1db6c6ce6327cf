----------------------- MODULE MCInstructionTransition -----------------------
(***************************************************************************)
(* The transitions of small zones, for TLC.                                *)
(***************************************************************************)
EXTENDS InstructionTransition, TLC

\* Where every agent may lead, the agents are alike.
Alike == Permutations(Agent)

\* Each serial with lists of its own.
OwnLists == [s \in Serial |-> s]

\* The judge refuses nothing.
Nothing == {}

\* Zones at rest that meet planned rollovers and restarts, or an owner error
\* and an agent that loses its database; and a zone's first start.
AtRest == {[first |-> FALSE, may |-> {"rollover", "restart"}, left |-> 1],
           [first |-> FALSE, may |-> {"lose", "unreadable"}, left |-> 1]}
AtFirst == {[first |-> TRUE, may |-> {"restart"}, left |-> 1]}

\* The zone's turns go on at every agent, and what is under way between the
\* agents and their parts comes in: a hand-over and its confirmation, a beat,
\* the answer to a fetch.
ComesIn ==
    \E a \in Agent :
      \/ Refresh(a)
      \/ \E p \in Part : PartConfirms(a, p)
      \/ \E b \in Others(a) :
           \/ SendBeat(a, b)
           \/ KeepStamp(a, b)
           \/ \E s \in Serial : FetchInstructions(a, b, s)

GoesOn == WF_vars(ComesIn) /\ \A a \in Agent : WF_vars(Turn(a))

FairSpec == Spec /\ GoesOn

\* A transition ends (thawTurn, reconcileTurn): once an agent agrees on the
\* owner's last serial, every agent comes to work by it, and stays.
TransitionEnds ==
    <>(\E a \in Agent : Agreeing(store[a]) = MaxSerial)
      => <>[](\A a \in Agent : AtWork(a) /\ Active(a) = MaxSerial)
=============================================================================
