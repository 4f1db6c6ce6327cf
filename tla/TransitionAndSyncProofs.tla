----------------------- MODULE TransitionAndSyncProofs -----------------------
(***************************************************************************)
(* Proofs about InstructionTransition, for any agents, serials, refusals   *)
(* and lists.                                                              *)
(*                                                                         *)
(* Types hold always.  The rest holds of a zone that was at rest at the    *)
(* start, in which no agent loses its database (Steady), and of which one  *)
(* agent leads throughout: the code's leases keep two leaders apart, and   *)
(* InstructionTransition leaves the lead open.  Two invariants carry it.   *)
(* Together: every agent is at the leader's serial or at the one its thaw  *)
(* was from; what a member has told stays true while it does not move; and *)
(* while not all are at one serial everybody is frozen, its signer holding.*)
(* InStep: at the leader's serial nobody is further than the leader; what  *)
(* was told of a step held stays true; and the leader is done only when    *)
(* every part acts by the serial's lists.                                  *)
(***************************************************************************)
(***************************************************************************)
(* And proofs about ParentSync, for any providers, queue, delays and       *)
(* events: the work at the parent that a transition's freeze holds.  What  *)
(* ended is stopped because whatever ends it either finds the run listed   *)
(* and cancels it, or comes before the run looks: at the option once more  *)
(* after it is listed, at the lead as it is listed.                        *)
(***************************************************************************)
EXTENDS InstructionTransition, ParentSync, FiniteSetTheorems, TLAPS

-----------------------------------------------------------------------------
(* The highest of some serials *)

\* Of the sets of those above a serial of S, one has none below it: there is
\* a highest serial.
LEMMA HighestExists ==
    ASSUME NEW S \in SUBSET Serial, S # {} PROVE \E s \in S : \A r \in S : r <= s
<1> DEFINE up(s) == {r \in S : r > s}
           T == {up(s) : s \in S}
<1>1. \A s \in S : s \in Nat
  BY SerialAssumption DEF Serial
<1>2. IsFiniteSet(Serial)
  BY FS_Interval, SerialAssumption DEF Serial
<1>3. FiniteSubsetsOf(Serial) = SUBSET Serial
  BY <1>2, FS_FiniteSubsetsOfFinite
<1>4. IsWellFoundedOn(StrictSubsetOrdering(Serial), SUBSET Serial)
  BY <1>3, FS_StrictSubsetOrderingWellFounded
<1>5. T \subseteq SUBSET Serial /\ T # {}
  OBVIOUS
<1> HIDE DEF T
<1>6. \E x \in T : \A y \in T : <<y, x>> \notin StrictSubsetOrdering(Serial)
  BY <1>4, <1>5, WFMin
<1>7. PICK s \in S : \A y \in T : <<y, up(s)>> \notin StrictSubsetOrdering(Serial)
  BY <1>6 DEF T
<1>8. ASSUME NEW r \in S, r > s PROVE FALSE
  <2>1. up(r) \subseteq up(s) /\ r \in up(s) /\ r \notin up(r)
    BY <1>1, <1>8
  <2>2. up(r) \in T /\ up(s) \in T
    BY DEF T
  <2>3. <<up(r), up(s)>> \in StrictSubsetOrdering(Serial)
    BY <1>5, <2>1, <2>2 DEF StrictSubsetOrdering
  <2> QED
    BY <1>7, <2>2, <2>3
<1> QED
  BY <1>1, <1>8

LEMMA TopIsHighest ==
    ASSUME NEW S \in SUBSET Serial
    PROVE  /\ S = {} => Top(S) = NoSerial
           /\ S # {} => Top(S) \in S /\ \A r \in S : r <= Top(S)
           /\ Top(S) \in SerialOrNone
<1>1. S # {} => \E s \in S : \A r \in S : r <= s
  BY HighestExists
<1>2. S # {} => (CHOOSE s \in S : \A r \in S : r <= s) \in S /\ \A r \in S : r <= (CHOOSE s \in S : \A t \in S : t <= s)
  BY <1>1, Zenon
<1> QED
  BY <1>2 DEF Top, SerialOrNone

-----------------------------------------------------------------------------
(* The types of what is reckoned from a zone's serials *)

Hand == [want : Handover, held : Handover, acts : Handover]

LEMMA Numbers ==
    /\ Serial \subseteq Nat /\ NoSerial \notin Serial /\ SerialOrNone \subseteq Nat
    /\ SerialOrNone \ {NoSerial} = Serial
    /\ \A s \in Serial : Lists[s] \in SetsOrNone /\ Lists[s] # NoSets
BY SerialAssumption, ListsAssumption DEF Serial, SerialOrNone, NoSerial, SetsOrNone, NoSets

LEMMA HighestType == ASSUME NEW z \in ZoneSerials PROVE Highest(z) \in SerialOrNone
BY TopIsHighest DEF Highest, ZoneSerials

LEMMA AgreeingType == ASSUME NEW z \in ZoneSerials PROVE Agreeing(z) \in SerialOrNone
<1>1. {s \in z.held : <<z.active, s>> \notin Refuses} \in SUBSET Serial
  BY DEF ZoneSerials
<1> QED
  BY <1>1, TopIsHighest DEF Agreeing, SerialOrNone

LEMMA FrozenType == ASSUME NEW z \in ZoneSerials PROVE Frozen(z) \in BOOLEAN
BY DEF Frozen, ZoneSerials

LEMMA WantedType ==
    ASSUME NEW z \in ZoneSerials, z.active # NoSerial PROVE WantedHandover(z) \in Handover
<1>1. z.active \in Serial /\ z.sets \in SetsOrNone /\ z.step \in Step
  BY Numbers DEF ZoneSerials
<1>2. 0 \in Step
  BY DEF Step
<1> QED
  BY <1>1, <1>2, Numbers, HighestType, FrozenType DEF WantedHandover, Handover, SerialOrNone

LEMMA HoldLastType == ASSUME NEW h \in Hand PROVE HoldLast(h) \in Hand
<1> DEFINE base == IF h.held = NoHandover THEN h.want ELSE h.held
<1>1. base \in Handover
  BY DEF Hand
<1>2. [base EXCEPT !.hold = TRUE] \in Handover
  BY <1>1 DEF Handover
<1> HIDE DEF base
<1>3. [h EXCEPT !.want = [base EXCEPT !.hold = TRUE]] \in Hand
  BY <1>2 DEF Hand
<1> QED
  BY <1>3 DEF HoldLast, base

LEMMA HandOverType ==
    ASSUME NEW z \in ZoneSerials, NEW p \in Part, NEW h \in Hand
    PROVE  HandOverToPart(z, p, h) \in Hand
<1>1. z.active # NoSerial => [h EXCEPT !.want = WantedHandover(z)] \in Hand
  BY WantedType DEF Hand
<1> QED
  BY <1>1, HoldLastType DEF HandOverToPart

LEMMA NoTypes ==
    /\ NoSerials \in ZoneSerials /\ NoStamp \in InstrStamp /\ NoHandover \in Handover
    /\ NoDecision \in Decision /\ NoThaw \in Thaw
BY DEF NoSerials, ZoneSerials, NoStamp, InstrStamp, NoHandover, Handover, NoDecision, Decision,
       NoThaw, Thaw, SerialOrNone, Step, SetsOrNone

LEMMA ActivatedType ==
    ASSUME NEW z \in ZoneSerials, NEW th \in Thaw, MayActivate(z, th)
    PROVE  Activated(z, th) \in ZoneSerials
<1>1. th.from \in Serial /\ th.to \in SerialOrNone /\ th.from \in SerialOrNone
  BY Numbers DEF MayActivate, Keeps, Thaw
<1>2. Lists[th.from] \in SetsOrNone /\ NoSets \in SetsOrNone /\ NoStep \in Step /\ 0 \in Step
  BY <1>1, Numbers DEF SetsOrNone, Step
<1>3. Above(z.held, th.to) \in SUBSET Serial
  BY DEF Above, ZoneSerials
<1> DEFINE straight == th.from # z.active
           sets == IF z.sets = NoSets THEN Lists[th.from] ELSE z.sets
           step == IF straight THEN NoStep ELSE 0
           given == IF straight THEN NoSets ELSE sets
<1>4. step \in Step /\ given \in SetsOrNone /\ straight \in BOOLEAN
  BY <1>2 DEF ZoneSerials
<1>5. Activated(z, th) =
        [z EXCEPT !.active = th.to, !.from = th.from, !.lastFrom = th.from, !.thaw = th,
                  !.held = Above(@, th.to), !.step = step, !.sets = given, !.pending = straight]
  BY DEF Activated
<1> HIDE DEF straight, step, given
<1> QED
  BY <1>1, <1>3, <1>4, <1>5 DEF ZoneSerials

LEMMA KnownType ==
    ASSUME NEW z \in ZoneSerials, NEW d \in Decision PROVE Known(z, d) \in ZoneSerials
<1>1. Above(z.held, d.to) \in SUBSET Serial
  BY DEF Above, ZoneSerials
<1>2. NoSets \in SetsOrNone /\ NoStep \in Step
  BY DEF SetsOrNone, Step
<1> QED
  BY <1>1, <1>2 DEF Known, ZoneSerials, Decision

LEMMA SteppedType ==
    ASSUME NEW z \in ZoneSerials, NEW d \in Decision PROVE Stepped(z, d) \in ZoneSerials
BY DEF Stepped, ZoneSerials, Decision

LEMMA EndedType == ASSUME NEW z \in ZoneSerials PROVE Ended(z) \in ZoneSerials
BY DEF Ended, ZoneSerials, SerialOrNone, SetsOrNone, Step

LEMMA WrittenType ==
    ASSUME NEW z \in ZoneSerials, NEW d \in Decision, Allows(z, d)
    PROVE  Written(z, d) \in ZoneSerials
<1>1. d.thaw \in Thaw
  BY DEF Decision
<1>2. d.rule = "thaw" => Activated(z, d.thaw) \in ZoneSerials
  BY <1>1, ActivatedType DEF Allows
<1> QED
  BY <1>2, KnownType, SteppedType, EndedType DEF Written
-----------------------------------------------------------------------------
(* What a step keeps of the types *)

\* What the variables hold of one agent, of one pair and of one part.
LEMMA ByName ==
    TypeOK =>
      /\ \A a \in Agent : /\ store[a] \in ZoneSerials /\ decided[a] \in Decision
                          /\ rollover[a] \in BOOLEAN
      /\ \A a, b \in Agent : told[a][b] \in InstrStamp /\ onway[a][b] \in InstrStamp
      /\ \A a \in Agent : hand[a] \in [Part -> Hand]
      /\ \A a \in Agent, p \in Part : hand[a][p] \in Hand
BY DEF TypeOK, Hand

\* With the same store, the same hand-overs: the three types a turn of the
\* store leaves alone.
LEMMA InitTypes == Init => TypeOK
<1> SUFFICES ASSUME Init PROVE TypeOK
  OBVIOUS
<1>1. events \in Start
  BY StartsAssumption DEF Init
<1>2. {1} \in SUBSET Serial /\ 1 \in SerialOrNone
  BY SerialAssumption DEF Serial, SerialOrNone
<1>3. [NoSerials EXCEPT !.held = {1}] \in ZoneSerials /\ [NoSerials EXCEPT !.active = 1] \in ZoneSerials
  BY <1>2, NoTypes DEF ZoneSerials
<1>4. [NoSerials EXCEPT !.active = 1].active # NoSerial
  BY NoTypes DEF NoSerials, NoSerial
<1>5. FirstSerials \in ZoneSerials /\ FirstHandover \in Handover
  BY <1>3, <1>4, NoTypes, WantedType DEF FirstSerials, FirstHandover
<1> QED
  BY <1>1, <1>5, NoTypes DEF Init, TypeOK

\* A change of one agent's serials, with what it tells the parts.
LEMMA UpdateTypes ==
    ASSUME TypeOK, NEW a \in Agent, NEW z \in ZoneSerials, Update(a, z)
    PROVE  /\ store' \in [Agent -> ZoneSerials]
           /\ hand' \in [Agent -> [Part -> Hand]]
<1> DEFINE said(p) == HandOverToPart(z, p, hand[a][p])
           again(p) == p = "signer" /\ SaysAgain(store[a], z)
<1>1. \A p \in Part : said(p) \in Hand
  BY ByName, HandOverType
<1>2. \A p \in Part : [said(p) EXCEPT !.held = NoHandover] \in Hand
  BY <1>1, NoTypes DEF Hand
<1>3. hand' = [hand EXCEPT ![a] = [p \in Part |->
                 IF again(p) THEN [said(p) EXCEPT !.held = NoHandover] ELSE said(p)]]
  BY DEF Update
<1>4. hand \in [Agent -> [Part -> Hand]]
  BY DEF TypeOK, Hand
<1> HIDE DEF said, again
<1>5. hand' \in [Agent -> [Part -> Hand]]
  BY <1>1, <1>2, <1>3, <1>4
<1> QED
  BY <1>5 DEF Update, TypeOK

LEMMA UpdatedTypes ==
    ASSUME TypeOK, NEW a \in Agent, NEW z \in ZoneSerials, Update(a, z),
           told' \in [Agent -> [Agent -> InstrStamp]], onway' \in [Agent -> [Agent -> InstrStamp]],
           decided' \in [Agent -> Decision], rollover' \in [Agent -> BOOLEAN], events' \in Start
    PROVE  TypeOK'
BY UpdateTypes DEF TypeOK, Hand

LEMMA OwnStampType == TypeOK => \A a \in Agent : OwnStamp(a) \in InstrStamp
<1> SUFFICES ASSUME TypeOK, NEW a \in Agent PROVE OwnStamp(a) \in InstrStamp
  OBVIOUS
<1>1. store[a] \in ZoneSerials /\ rollover[a] \in BOOLEAN
  BY ByName
<1>2. Highest(store[a]) \in SerialOrNone /\ Agreeing(store[a]) \in SerialOrNone
  BY <1>1, HighestType, AgreeingType
<1>3. HoldConfirmed(a) \in BOOLEAN
  BY ByName DEF HoldConfirmed, Hand, Handover, Part
<1>4. PartsHold(a) \in BOOLEAN /\ Reconciling(store[a]) \in BOOLEAN
  BY <1>1 DEF PartsHold, Reconciling, ZoneSerials
<1> QED
  BY <1>1, <1>2, <1>3, <1>4, NoTypes DEF OwnStamp, ZoneSerials, InstrStamp

LEMMA OccursTypes == ASSUME TypeOK, NEW e, Occurs(e) PROVE events' \in Start
<1>1. events \in Start /\ events.left \in Nat /\ events.left > 0
  BY DEF TypeOK, Start, Occurs
<1>2. events.left - 1 \in Nat /\ events' = [events EXCEPT !.left = events.left - 1]
  BY <1>1 DEF Occurs
<1> QED
  BY <1>1, <1>2 DEF Start

\* A turn decides what has the type of a decision.
LEMMA DecideTypes ==
    ASSUME TypeOK, NEW a \in Agent, NEW d \in Decision, Decide(a, d) PROVE TypeOK'
BY DEF TypeOK, Decide

LEMMA ThawDecision == \A th \in Thaw : [NoDecision EXCEPT !.rule = "thaw", !.thaw = th] \in Decision
BY NoTypes DEF Decision

LEMMA StepDecision ==
    \A s \in SerialOrNone, n \in Step, g \in SetsOrNone :
      [NoDecision EXCEPT !.rule = "step", !.to = s, !.step = n, !.sets = g] \in Decision
BY NoTypes DEF Decision

LEMMA DoneDecision == [NoDecision EXCEPT !.rule = "done"] \in Decision
BY NoTypes DEF Decision

LEMMA KnowDecision ==
    \A s \in SerialOrNone, th \in Thaw, r \in BOOLEAN :
      [NoDecision EXCEPT !.rule = "know", !.to = s, !.thaw = th, !.reconciling = r] \in Decision
BY NoTypes DEF Decision

LEMMA TurnTypes == ASSUME TypeOK, NEW a \in Agent, Turn(a) PROVE TypeOK'
<1>1. CASE DecideThaw(a)
  <2>1. [from |-> store[a].active, to |-> Agreeing(store[a])] \in Thaw
    BY ByName, AgreeingType DEF Thaw, ZoneSerials
  <2> QED
    BY <1>1, <2>1, ThawDecision, DecideTypes DEF DecideThaw
<1>2. CASE KnowActive(a)
  <2>1. store[a].held \subseteq SerialOrNone
    BY ByName DEF ZoneSerials, SerialOrNone
  <2>2. Thaws(a) \cup {NoThaw} \subseteq Thaw
    BY ByName, NoTypes DEF Thaws, Others, InstrStamp
  <2>3. PICK s \in SerialOrNone, th \in Thaw, r \in BOOLEAN :
          Decide(a, [NoDecision EXCEPT !.rule = "know", !.to = s, !.thaw = th, !.reconciling = r])
    BY <1>2, <2>1, <2>2 DEF KnowActive
  <2> QED
    BY <2>3, KnowDecision, DecideTypes
<1>3. CASE TakeStep(a) \/ LeaderDone(a)
  <2>1. store[a].active \in Serial /\ LastStep \in Step
    BY <1>3, ByName, Numbers DEF TakeStep, LeaderDone, MayLeadOn, InReconciliation, ZoneSerials, Step
  <2> QED
    BY <1>3, <2>1, Numbers, StepDecision, DoneDecision, DecideTypes
    DEF TakeStep, LeaderDone, DecideStep, DecideDone, SerialOrNone
<1>4. CASE Write(a)
  <2>1. decided' \in [Agent -> Decision]
    BY <1>4, NoTypes DEF Write, TypeOK
  <2>2. UNCHANGED <<told, onway, rollover, events>>
    BY <1>4 DEF Write
  <2>3. CASE Allows(store[a], decided[a])
    <3>1. Written(store[a], decided[a]) \in ZoneSerials
      BY <2>3, ByName, WrittenType
    <3>2. Update(a, Written(store[a], decided[a]))
      BY <1>4, <2>3 DEF Write
    <3> QED
      BY <2>1, <2>2, <3>1, <3>2, UpdatedTypes DEF TypeOK
  <2>4. CASE ~Allows(store[a], decided[a])
    BY <1>4, <2>1, <2>4 DEF Write, TypeOK
  <2> QED
    BY <2>3, <2>4
<1>5. ASSUME NEW b \in Others(a), ActivateOnTellings(a, b) PROVE TypeOK'
  <2>1. told[a][b].thaw \in Thaw
    BY ByName DEF Others, InstrStamp
  <2> QED
    BY <1>5, <2>1, ThawDecision, DecideTypes DEF ActivateOnTellings
<1>6. ASSUME NEW b \in Others(a), AdoptStep(a, b) \/ FollowStep(a, b) PROVE TypeOK'
  <2>1. told[a][b].step \in Step /\ told[a][b].sets \in SetsOrNone /\ store[a].active \in SerialOrNone
    BY ByName DEF Others, InstrStamp, ZoneSerials
  <2> QED
    BY <1>6, <2>1, StepDecision, DoneDecision, DecideTypes
    DEF AdoptStep, FollowStep, DecideStep, DecideDone
<1> QED
  BY <1>1, <1>2, <1>3, <1>4, <1>5, <1>6 DEF Turn

LEMMA HearsTypes == ASSUME TypeOK, NEW a \in Agent, Hears(a) PROVE TypeOK'
<1>1. ASSUME NEW s \in Serial, Note(a, s) PROVE TypeOK'
  <2>1. [store[a] EXCEPT !.held = @ \cup {s}, !.error = FALSE] \in ZoneSerials
    BY ByName DEF ZoneSerials
  <2> QED
    BY <1>1, <2>1, UpdatedTypes DEF Note, TypeOK
<1>2. CASE NoteUnreadable(a)
  <2>1. [store[a] EXCEPT !.error = TRUE] \in ZoneSerials
    BY ByName DEF ZoneSerials
  <2> QED
    BY <1>2, <2>1, OccursTypes, UpdatedTypes DEF NoteUnreadable, TypeOK
<1>3. ASSUME NEW b \in Others(a), NEW s \in Serial, FetchInstructions(a, b, s) PROVE TypeOK'
  <2>1. [store[a] EXCEPT !.held = @ \cup {s}] \in ZoneSerials
    BY ByName DEF ZoneSerials
  <2> QED
    BY <1>3, <2>1, UpdatedTypes DEF FetchInstructions, TypeOK
<1>4. ASSUME NEW b \in Others(a), SendBeat(a, b) PROVE TypeOK'
  BY <1>4, OwnStampType DEF SendBeat, TypeOK, Others
<1>5. ASSUME NEW b \in Others(a), KeepStamp(a, b) PROVE TypeOK'
  BY <1>5, NoTypes, ByName DEF KeepStamp, TypeOK, Others
<1> QED
  BY <1>1, <1>2, <1>3, <1>4, <1>5 DEF Hears

LEMMA OutsideTypes == ASSUME TypeOK, NEW a \in Agent, Outside(a) PROVE TypeOK'
<1>1. CASE Refresh(a)
  <2>1. \A p \in Part : HandOverToPart(store[a], p, hand[a][p]) \in Hand
    BY ByName, HandOverType
  <2> QED
    BY <1>1, <2>1 DEF Refresh, TypeOK, Hand
<1>2. ASSUME NEW p \in Part, PartConfirms(a, p) PROVE TypeOK'
  <2> DEFINE h == hand[a][p]
             acts == IF h.want = NoHandover \/ OlderThan(h.want, h.acts) THEN h.acts ELSE h.want
             known == [h EXCEPT !.acts = acts, !.held = acts]
             next == IF p = "signer" /\ store[a] # NoSerials /\ ~Knows(a) THEN HoldLast(known) ELSE known
  <2>1. h \in Hand
    BY ByName
  <2>2. acts \in Handover
    BY <2>1 DEF Hand
  <2> HIDE DEF acts
  <2>3. known \in Hand
    BY <2>1, <2>2 DEF Hand
  <2> HIDE DEF known
  <2>4. next \in Hand
    BY <2>3, HoldLastType
  <2>5. hand' = [hand EXCEPT ![a][p] = next]
    BY <1>2 DEF PartConfirms, next, known, acts
  <2> HIDE DEF next
  <2> QED
    BY <1>2, <2>4, <2>5 DEF PartConfirms, TypeOK, Hand
<1>3. CASE RolloverStarts(a) \/ RolloverEnds(a)
  BY <1>3, OccursTypes DEF RolloverStarts, RolloverEnds, TypeOK
<1>4. CASE Restart(a) \/ LoseStore(a)
  <2>0. Forgets(a) /\ (Occurs("restart") \/ Occurs("lose"))
    BY <1>4 DEF Restart, LoseStore
  <2> DEFINE empty(p) == [hand[a][p] EXCEPT !.want = NoHandover, !.held = NoHandover]
  <2>1. \A p \in Part : empty(p) \in Hand
    BY ByName, NoTypes DEF Hand
  <2>2. hand' \in [Agent -> [Part -> Hand]]
    <3>1. hand' = [hand EXCEPT ![a] = [p \in Part |-> empty(p)]]
      BY <2>0 DEF Forgets
    <3>2. hand \in [Agent -> [Part -> Hand]]
      BY DEF TypeOK, Hand
    <3> HIDE DEF empty
    <3> QED
      BY <2>1, <3>1, <3>2
  <2>3. /\ told' \in [Agent -> [Agent -> InstrStamp]] /\ decided' \in [Agent -> Decision]
        /\ onway' = onway /\ rollover' = rollover
    BY <2>0, NoTypes DEF Forgets, TypeOK
  <2>5. events' \in Start
    BY <2>0, OccursTypes
  <2>4. store' \in [Agent -> ZoneSerials]
    BY <1>4, NoTypes DEF Restart, LoseStore, TypeOK
  <2> QED
    BY <2>2, <2>3, <2>4, <2>5 DEF TypeOK, Hand
<1> QED
  BY <1>1, <1>2, <1>3, <1>4 DEF Outside

LEMMA NextTypes == TypeOK /\ [Next]_vars => TypeOK'
<1>1. TypeOK /\ UNCHANGED vars => TypeOK'
  BY DEF vars, TypeOK
<1> QED
  BY <1>1, TurnTypes, HearsTypes, OutsideTypes DEF Next

\* Every variable has its type: a decision, a stamp and a hand-over name only
\* serials of the owner, and the lists of one of them.
THEOREM TypeCorrect == Spec => []TypeOK
<1>1. Init => TypeOK
  BY InitTypes
<1>2. TypeOK /\ [Next]_vars => TypeOK'
  BY NextTypes
<1> QED
  BY <1>1, <1>2, PTL DEF Spec

-----------------------------------------------------------------------------
(* What makes a transition one *)

\* The zone was at rest at the start, and no agent loses its database.
Steady == Remembers /\ ~events.first

\* Whether some agents are not yet at the leader's serial.
Mixed(l) == \E a \in Agent : Active(a) # Active(l)

\* A signer that holds, and will, and at which no rollover runs.
StillHand(h) == h.acts.hold /\ (h.want = NoHandover \/ h.want.hold)
Still(a) == ~rollover[a] /\ StillHand(hand[a]["signer"])

\* An agent that agrees on a serial.
AgreesOn(a) == Agreeing(store[a]) # NoSerial

\* An agent has the leader's serial, by the same thaw, or is at the serial
\* the leader's thaw was from.
Follows(l, a) ==
    /\ store[a].active # NoSerial
    /\ \A s \in store[a].held : s > store[a].active
    /\ \/ Active(a) = Active(l) /\ store[a].thaw = store[l].thaw
       \/ store[l].thaw # NoThaw /\ Active(a) = store[l].thaw.from

LeadersThaw(l) ==
    store[l].thaw # NoThaw =>
      /\ store[l].thaw.to = Active(l)
      /\ store[l].thaw.from # NoSerial /\ store[l].thaw.from < Active(l)

\* What b has told, or tells on the way: a serial it had, and what it said
\* of it still holds if it has it still.
Tells(l, b, st) ==
    st # NoStamp =>
      /\ st.active # NoSerial /\ st.active <= Active(b)
      /\ st.active = Active(l) => st.thaw = store[l].thaw
      /\ st.active # Active(l) => store[l].thaw # NoThaw /\ st.active <= store[l].thaw.from
      /\ st.active = Active(b) /\ st.agreeing # NoSerial => AgreesOn(b)
      /\ st.active = Active(b) /\ st.agreeing # NoSerial /\ st.hold /\ ~st.rollover => Still(b)
      /\ Mixed(l) /\ st.active = Active(l) => st.reconciling

\* What a turn of a decides: the leader thaws when all agree and hold;
\* another follows the leader's thaw; and nobody at the leader's serial is
\* done before the others are there.
Decides(l, a, d) ==
    /\ d.rule # "know"
    /\ d.rule = "thaw" /\ a = l =>
         /\ d.thaw.from = Active(l)
         /\ \A b \in Agent : Active(b) = Active(l) /\ AgreesOn(b) /\ Still(b)
    /\ d.rule = "thaw" /\ a # l =>
         d.thaw = store[l].thaw /\ store[l].thaw # NoThaw /\ Active(a) = store[l].thaw.from
    /\ d.rule = "done" /\ Mixed(l) => Active(a) # Active(l)

\* In a transition all hold: those at the leader's serial as they reconcile,
\* the others as they agree on one.
Between(l, a) ==
    /\ Still(a)
    /\ Active(a) = Active(l) => store[a].from # NoSerial
    /\ Active(a) # Active(l) => AgreesOn(a)

\* What a part is known to hold it acts by.
KnownIsActedBy(a) == \A p \in Part : hand[a][p].held \in {NoHandover, hand[a][p].acts}

Together(l) ==
    /\ LeadersThaw(l)
    /\ \A a \in Agent : Follows(l, a) /\ Decides(l, a, decided[a]) /\ KnownIsActedBy(a)
    /\ \A a, b \in Agent : Tells(l, b, told[a][b]) /\ Tells(l, b, onway[a][b])
    /\ Mixed(l) => \A a \in Agent : Between(l, a)

\* Every agent is at the leader's serial or at the one its thaw was from.
LEMMA TwoSerials ==
    ASSUME TypeOK, NEW l \in Agent, Together(l), NEW a \in Agent
    PROVE  /\ Active(a) \in Serial /\ Active(a) \in Nat /\ Active(l) \in Nat
           /\ Active(a) <= Active(l)
           /\ Active(a) = Active(l) => store[a].thaw = store[l].thaw
           /\ Active(a) # Active(l) =>
                /\ Mixed(l) /\ store[l].thaw # NoThaw
                /\ Active(a) = store[l].thaw.from /\ Active(a) < Active(l)
<1>1. store[a] \in ZoneSerials /\ store[l] \in ZoneSerials
  BY ByName
<1>2. Follows(l, a) /\ Follows(l, l) /\ LeadersThaw(l)
  BY DEF Together
<1>3. store[a].active \in Serial /\ store[l].active \in Serial
  BY <1>1, <1>2, Numbers DEF ZoneSerials, Follows
<1>4. /\ store[a].active \in Nat /\ store[l].active \in Nat
  BY <1>3, Numbers
<1>5. \/ Active(a) = Active(l) /\ store[a].thaw = store[l].thaw
      \/ store[l].thaw # NoThaw /\ Active(a) = store[l].thaw.from /\ Active(a) < Active(l)
  BY <1>2, <1>4 DEF Follows, LeadersThaw
<1>6. Active(a) # Active(l) => Mixed(l)
  BY DEF Mixed
<1> QED
  BY <1>3, <1>4, <1>5, <1>6 DEF Active

\* A signer known to hold what it is handed, the hold with it, is still if no
\* rollover runs there.
LEMMA ConfirmedIsStill ==
    ASSUME TypeOK, NEW l \in Agent, Together(l), NEW a \in Agent, HoldConfirmed(a), ~rollover[a]
    PROVE  Still(a)
<1>1. "signer" \in Part /\ NoHandover.hold = FALSE
  BY DEF Part, NoHandover
<1>2. hand[a]["signer"].held \in {NoHandover, hand[a]["signer"].acts}
  BY <1>1 DEF Together, KnownIsActedBy
<1> QED
  BY <1>1, <1>2 DEF HoldConfirmed, Still, StillHand

\* A stamp is true when it is built.
LEMMA OwnTells ==
    ASSUME TypeOK, NEW l \in Agent, Together(l), NEW b \in Agent PROVE Tells(l, b, OwnStamp(b))
<1> DEFINE z == store[b]
           st == OwnStamp(b)
<1>1. st # NoStamp =>
        /\ st.active = Active(b) /\ st.thaw = z.thaw /\ st.agreeing = Agreeing(z)
        /\ st.reconciling = Reconciling(z) /\ st.hold = HoldConfirmed(b) /\ st.rollover = rollover[b]
  BY DEF OwnStamp, Active
<1>2. st # NoStamp /\ st.hold /\ ~st.rollover => Still(b)
  BY <1>1, ConfirmedIsStill
<1>3. st # NoStamp /\ Mixed(l) /\ st.active = Active(l) => st.reconciling
  BY <1>1 DEF Together, Between, Reconciling
<1>4. z.active # NoSerial
  BY DEF Together, Follows
<1> HIDE DEF st
<1>5. Tells(l, b, st)
  BY <1>1, <1>2, <1>3, <1>4, TwoSerials DEF Tells, AgreesOn, Active
<1> QED
  BY <1>5 DEF st

-----------------------------------------------------------------------------
(* Steps that leave the serials as they are *)

\* A hand-over leaves alone what a part acts by and what is known of it; and
\* a frozen zone hands its signer nothing without the hold.
LEMMA HandOverHolds ==
    ASSUME NEW z \in ZoneSerials, z.active # NoSerial, NEW p \in Part, NEW h \in Hand
    PROVE  LET g == HandOverToPart(z, p, h)
           IN /\ g.acts = h.acts /\ g.held = h.held
              /\ Frozen(z) /\ p = "signer" /\ StillHand(h) => StillHand(g)
<1> DEFINE base == IF h.held = NoHandover THEN h.want ELSE h.held
           kept == [base EXCEPT !.hold = TRUE]
<1>1. base \in Handover
  BY DEF Hand
<1>2. kept.hold = TRUE
  BY <1>1 DEF Handover
<1>3. z # NoSerials
  BY DEF NoSerials, NoSerial
<1> HIDE DEF kept
<1>4. HoldLast(h) = IF base = NoHandover THEN h ELSE [h EXCEPT !.want = kept]
  BY DEF HoldLast, kept
<1> HIDE DEF base
<1>5. /\ HoldLast(h).acts = h.acts /\ HoldLast(h).held = h.held
      /\ StillHand(h) => StillHand(HoldLast(h))
  BY <1>2, <1>4 DEF StillHand, Hand
<1> DEFINE handed == [h EXCEPT !.want = WantedHandover(z)]
<1>6. /\ handed.acts = h.acts /\ handed.held = h.held
      /\ Frozen(z) /\ StillHand(h) => StillHand(handed)
  BY DEF StillHand, Hand, WantedHandover
<1>7. HandOverToPart(z, p, h) = IF z.pending THEN (IF p = "signer" THEN HoldLast(h) ELSE h) ELSE handed
  BY <1>3 DEF HandOverToPart
<1> HIDE DEF handed
<1> QED
  BY <1>5, <1>6, <1>7

\* What a change of an agent's serials does to its parts: they act by what
\* they did, and a still signer is still in a frozen zone.
LEMMA UpdateHolds ==
    ASSUME TypeOK, NEW a \in Agent, NEW z \in ZoneSerials, z.active # NoSerial, Update(a, z),
           rollover' = rollover
    PROVE  /\ \A b \in Agent : store'[b] = IF b = a THEN z ELSE store[b]
           /\ \A b \in Agent : b # a => hand'[b] = hand[b]
           /\ Frozen(z) /\ Still(a) => Still(a)'
           /\ \A b \in Agent : b # a /\ Still(b) => Still(b)'
           /\ \A b \in Agent : KnownIsActedBy(b) => KnownIsActedBy(b)'
<1> DEFINE said(p) == HandOverToPart(z, p, hand[a][p])
           again(p) == p = "signer" /\ SaysAgain(store[a], z)
           now(p) == IF again(p) THEN [said(p) EXCEPT !.held = NoHandover] ELSE said(p)
<1>1. hand \in [Agent -> [Part -> Hand]] /\ store \in [Agent -> ZoneSerials]
  BY DEF TypeOK, Hand
<1>2. \A p \in Part : said(p) \in Hand
  BY ByName, HandOverType
<1>3. \A p \in Part :
        /\ said(p).acts = hand[a][p].acts /\ said(p).held = hand[a][p].held
        /\ Frozen(z) /\ p = "signer" /\ StillHand(hand[a][p]) => StillHand(said(p))
  BY ByName, HandOverHolds
<1>4. hand' = [hand EXCEPT ![a] = [p \in Part |-> now(p)]]
  BY DEF Update
<1> HIDE DEF said, again
<1>5. \A p \in Part :
        /\ now(p).acts = hand[a][p].acts /\ now(p).held \in {NoHandover, hand[a][p].held}
        /\ Frozen(z) /\ p = "signer" /\ StillHand(hand[a][p]) => StillHand(now(p))
  BY <1>2, <1>3 DEF StillHand, Hand
<1> HIDE DEF now
<1>6. /\ \A p \in Part : hand'[a][p] = now(p)
      /\ \A b \in Agent : b # a => hand'[b] = hand[b]
  BY <1>1, <1>4
<1>7. \A b \in Agent : store'[b] = IF b = a THEN z ELSE store[b]
  BY <1>1 DEF Update
<1>8. "signer" \in Part
  BY DEF Part
<1>9. Frozen(z) /\ Still(a) => Still(a)'
  BY <1>5, <1>6, <1>8 DEF Still
<1>10. \A b \in Agent : b # a /\ Still(b) => Still(b)'
  BY <1>6 DEF Still
<1>11. ASSUME NEW b \in Agent, KnownIsActedBy(b) PROVE KnownIsActedBy(b)'
  <2>1. CASE b = a
    BY <1>5, <1>6, <1>11, <2>1 DEF KnownIsActedBy
  <2>2. CASE b # a
    BY <1>6, <1>11, <2>2 DEF KnownIsActedBy
  <2> QED
    BY <2>1, <2>2
<1> QED
  BY <1>6, <1>7, <1>9, <1>10, <1>11

\* Where the hold of a signer is needed: its agent agrees on a serial, or is
\* at the leader's in a transition.
Needed(l, a) == AgreesOn(a) \/ (Mixed(l) /\ Active(a) = Active(l))

\* The serials stay, what agrees and what is still stays so, and nothing is
\* decided: then the transition is as it was.
LEMMA Kept ==
    ASSUME NEW l \in Agent, Together(l),
           \A b \in Agent :
             /\ store'[b].active = store[b].active /\ store'[b].thaw = store[b].thaw
             /\ \A s \in store'[b].held : s > store[b].active
             /\ AgreesOn(b) => AgreesOn(b)'
             /\ Mixed(l) /\ Active(b) = Active(l) /\ store[b].from # NoSerial
                  => store'[b].from # NoSerial
             /\ Still(b) /\ Needed(l, b) => Still(b)'
             /\ KnownIsActedBy(b)'
             /\ decided'[b] \in {decided[b], NoDecision},
           \A a, b \in Agent : /\ told'[a][b] \in {told[a][b], onway[a][b], NoStamp}
                               /\ onway'[a][b] \in {onway[a][b], OwnStamp(b), NoStamp},
           \A b \in Agent : Tells(l, b, OwnStamp(b))
    PROVE  Together(l)'
<1>1. \A a \in Agent : Active(a)' = Active(a) /\ store'[a].thaw = store[a].thaw
  BY DEF Active
<1>2. Mixed(l)' = Mixed(l)
  BY <1>1 DEF Mixed
<1>3. LeadersThaw(l)'
  BY <1>1 DEF Together, LeadersThaw
<1>4. \A a \in Agent : Follows(l, a)'
  BY <1>1 DEF Together, Follows
<1>5. ASSUME NEW b \in Agent, NEW st, Tells(l, b, st) PROVE Tells(l, b, st)'
  BY <1>1, <1>2, <1>5 DEF Tells, Needed
<1>6. \A b \in Agent : Tells(l, b, NoStamp)
  BY DEF Tells
<1>7. \A a, b \in Agent : Tells(l, b, told[a][b]) /\ Tells(l, b, onway[a][b])
  BY DEF Together
<1>8. \A a, b \in Agent : (Tells(l, b, told[a][b]) /\ Tells(l, b, onway[a][b]))'
  <2> SUFFICES ASSUME NEW a \in Agent, NEW b \in Agent
               PROVE  (Tells(l, b, told[a][b]) /\ Tells(l, b, onway[a][b]))'
    OBVIOUS
  <2>1. PICK st : st = told'[a][b]
    OBVIOUS
  <2>2. PICK su : su = onway'[a][b]
    OBVIOUS
  <2>3. Tells(l, b, st) /\ Tells(l, b, su)
    BY <1>6, <1>7, <2>1, <2>2
  <2>4. Tells(l, b, st)' /\ Tells(l, b, su)'
    BY <1>5, <2>3
  <2> QED
    BY <2>1, <2>2, <2>4 DEF Tells
<1>9. ASSUME NEW a \in Agent, NEW d, Decides(l, a, d) PROVE Decides(l, a, d)'
  BY <1>1, <1>2, <1>9 DEF Decides, Needed
<1>10. \A a \in Agent : Decides(l, a, NoDecision)
  BY DEF Decides, NoDecision
<1>11. ASSUME NEW a \in Agent PROVE Decides(l, a, decided[a])'
  <2>1. PICK d : d = decided'[a]
    OBVIOUS
  <2>2. Decides(l, a, d)
    BY <1>10, <2>1 DEF Together
  <2> QED
    BY <1>9, <2>1, <2>2 DEF Decides
<1>12. ASSUME Mixed(l), NEW a \in Agent PROVE Between(l, a)'
  BY <1>1, <1>12 DEF Together, Between, Needed
<1> QED
  BY <1>2, <1>3, <1>4, <1>8, <1>11, <1>12 DEF Together

-----------------------------------------------------------------------------
(* Every step keeps the transition one *)

\* An agent that gets more serials, all above its active one, or a step, is
\* where it was.
LEMMA SameSerials ==
    ASSUME TypeOK, NEW l \in Agent, Together(l), NEW a \in Agent, NEW z \in ZoneSerials, Update(a, z),
           z.active = store[a].active, z.thaw = store[a].thaw,
           z.from = store[a].from \/ (Mixed(l) => Active(a) # Active(l)),
           \A s \in z.held : s > z.active, store[a].held \subseteq z.held,
           \A b \in Agent : decided'[b] \in {decided[b], NoDecision},
           told' = told, onway' = onway, rollover' = rollover
    PROVE  Together(l)'
<1>1. store[a].active # NoSerial /\ store[a] \in ZoneSerials
  BY ByName DEF Together, Follows
<1>2. AgreesOn(a) => Agreeing(z) # NoSerial
  <2> DEFINE A(y) == {s \in y.held : <<y.active, s>> \notin Refuses}
  <2>1. A(store[a]) \subseteq A(z) /\ A(store[a]) \in SUBSET Serial /\ A(z) \in SUBSET Serial
    BY <1>1 DEF ZoneSerials
  <2>2. Agreeing(store[a]) = Top(A(store[a])) /\ Agreeing(z) = Top(A(z))
    BY <1>1 DEF Agreeing
  <2> HIDE DEF A
  <2> QED
    BY <2>1, <2>2, TopIsHighest, Numbers DEF AgreesOn
<1>3. /\ \A b \in Agent : store'[b] = IF b = a THEN z ELSE store[b]
      /\ Frozen(z) /\ Still(a) => Still(a)'
      /\ \A b \in Agent : b # a /\ Still(b) => Still(b)'
      /\ \A b \in Agent : KnownIsActedBy(b) => KnownIsActedBy(b)'
  BY <1>1, UpdateHolds
<1>4. Needed(l, a) => Frozen(z)
  <2>1. z # NoSerials
    BY <1>1 DEF NoSerials
  <2>2. Mixed(l) /\ Active(a) = Active(l) => z.from # NoSerial
    BY DEF Together, Between
  <2> QED
    BY <1>2, <2>1, <2>2 DEF Needed, Frozen, Reconciling
<1>5. \A b \in Agent : AgreesOn(b) => AgreesOn(b)'
  BY <1>2, <1>3 DEF AgreesOn
<1>6. \A b \in Agent : Still(b) /\ Needed(l, b) => Still(b)'
  BY <1>3, <1>4
<1>7. \A b \in Agent : KnownIsActedBy(b)'
  BY <1>3 DEF Together
<1>8. \A b \in Agent :
        /\ store'[b].active = store[b].active /\ store'[b].thaw = store[b].thaw
        /\ \A s \in store'[b].held : s > store[b].active
        /\ Mixed(l) /\ Active(b) = Active(l) /\ store[b].from # NoSerial => store'[b].from # NoSerial
  BY <1>3 DEF Together, Follows
<1>9. \A b \in Agent : Tells(l, b, OwnStamp(b))
  BY OwnTells
<1> QED
  BY <1>5, <1>6, <1>7, <1>8, <1>9, Kept

\* Where no serials change.
LEMMA SameStore ==
    ASSUME TypeOK, NEW l \in Agent, Together(l), store' = store,
           \A b \in Agent : Still(b) /\ Needed(l, b) => Still(b)',
           \A b \in Agent : KnownIsActedBy(b)',
           \A b \in Agent : decided'[b] \in {decided[b], NoDecision},
           \A a, b \in Agent : /\ told'[a][b] \in {told[a][b], onway[a][b], NoStamp}
                               /\ onway'[a][b] \in {onway[a][b], OwnStamp(b), NoStamp}
    PROVE  Together(l)'
<1>1. \A b \in Agent : AgreesOn(b) => AgreesOn(b)'
  BY DEF AgreesOn
<1>2. \A b \in Agent : Tells(l, b, OwnStamp(b))
  BY OwnTells
<1>3. \A b \in Agent : \A s \in store'[b].held : s > store[b].active
  BY DEF Together, Follows
<1> QED
  BY <1>1, <1>2, <1>3, Kept

LEMMA HearsTogether ==
    ASSUME TypeOK, NEW l \in Agent, Together(l), NEW a \in Agent, Hears(a) PROVE Together(l)'
<1>1. /\ store[a] \in ZoneSerials /\ store[a].active \in Nat
      /\ \A s \in store[a].held : s > store[a].active
  BY ByName, TwoSerials DEF Together, Follows, Active
<1>2. ASSUME NEW s \in Serial, Note(a, s) PROVE Together(l)'
  <2> DEFINE z == [store[a] EXCEPT !.held = @ \cup {s}, !.error = FALSE]
  <2>1. s > store[a].active
    <3>1. Highest(store[a]) >= store[a].active /\ Highest(store[a]) \in Nat
      BY <1>1, TopIsHighest, HighestType, Numbers DEF Highest, ZoneSerials
    <3> QED
      BY <1>1, <1>2, <3>1, Numbers DEF Note
  <2>2. /\ z \in ZoneSerials /\ z.active = store[a].active /\ z.thaw = store[a].thaw
        /\ z.from = store[a].from /\ z.held = store[a].held \cup {s}
    BY <1>1 DEF ZoneSerials
  <2>3. Update(a, z) /\ UNCHANGED <<told, onway, decided, rollover>>
    BY <1>2 DEF Note
  <2> HIDE DEF z
  <2> QED
    BY <1>1, <2>1, <2>2, <2>3, SameSerials
<1>3. CASE NoteUnreadable(a)
  <2> DEFINE z == [store[a] EXCEPT !.error = TRUE]
  <2>1. /\ z \in ZoneSerials /\ z.active = store[a].active /\ z.thaw = store[a].thaw
        /\ z.from = store[a].from /\ z.held = store[a].held
    BY <1>1 DEF ZoneSerials
  <2>2. Update(a, z) /\ UNCHANGED <<told, onway, decided, rollover>>
    BY <1>3 DEF NoteUnreadable
  <2> HIDE DEF z
  <2> QED
    BY <1>1, <2>1, <2>2, SameSerials
<1>4. ASSUME NEW b \in Others(a), NEW s \in Serial, FetchInstructions(a, b, s) PROVE Together(l)'
  <2> DEFINE z == [store[a] EXCEPT !.held = @ \cup {s}]
  <2>1. s > store[a].active
    BY <1>4 DEF FetchInstructions, Wants
  <2>2. /\ z \in ZoneSerials /\ z.active = store[a].active /\ z.thaw = store[a].thaw
        /\ z.from = store[a].from /\ z.held = store[a].held \cup {s}
    BY <1>1 DEF ZoneSerials
  <2>3. Update(a, z) /\ UNCHANGED <<told, onway, decided, rollover>>
    BY <1>4 DEF FetchInstructions
  <2> HIDE DEF z
  <2> QED
    BY <1>1, <2>1, <2>2, <2>3, SameSerials
<1>5. ASSUME NEW b \in Others(a), SendBeat(a, b) \/ KeepStamp(a, b) PROVE Together(l)'
  <2>1. b \in Agent
    BY DEF Others
  <2>2. /\ told \in [Agent -> [Agent -> InstrStamp]] /\ onway \in [Agent -> [Agent -> InstrStamp]]
        /\ store' = store /\ decided' = decided /\ hand' = hand /\ rollover' = rollover
    BY <1>5 DEF SendBeat, KeepStamp, TypeOK
  <2>3. \A c, d \in Agent : /\ told'[c][d] \in {told[c][d], onway[c][d], NoStamp}
                            /\ onway'[c][d] \in {onway[c][d], OwnStamp(d), NoStamp}
    BY <1>5, <2>1, <2>2 DEF SendBeat, KeepStamp
  <2>4. \A c \in Agent : (Still(c) => Still(c)') /\ (KnownIsActedBy(c) => KnownIsActedBy(c)')
    BY <2>2 DEF Still, KnownIsActedBy
  <2> QED
    BY <2>2, <2>3, <2>4, SameStore DEF Together
<1> QED
  BY <1>2, <1>3, <1>4, <1>5 DEF Hears

LEMMA OutsideTogether ==
    ASSUME TypeOK, NEW l \in Agent, Together(l), Remembers, NEW a \in Agent, Outside(a)
    PROVE  Together(l)'
<1>1. /\ store[a] \in ZoneSerials /\ store[a].active # NoSerial /\ hand \in [Agent -> [Part -> Hand]]
      /\ rollover \in [Agent -> BOOLEAN] /\ "signer" \in Part
  BY ByName DEF Together, Follows, TypeOK, Hand, Part
<1>2. CASE Refresh(a)
  <2> DEFINE said(p) == HandOverToPart(store[a], p, hand[a][p])
  <2>1. \A p \in Part :
          /\ said(p).acts = hand[a][p].acts /\ said(p).held = hand[a][p].held
          /\ Frozen(store[a]) /\ p = "signer" /\ StillHand(hand[a][p]) => StillHand(said(p))
    BY <1>1, ByName, HandOverHolds
  <2>2. /\ hand' = [hand EXCEPT ![a] = [p \in Part |-> said(p)]]
        /\ UNCHANGED <<store, told, onway, decided, rollover>>
    BY <1>2 DEF Refresh
  <2> HIDE DEF said
  <2>3. /\ \A p \in Part : hand'[a][p] = said(p)
        /\ \A b \in Agent : b # a => hand'[b] = hand[b]
    BY <1>1, <2>2
  <2>4. \A b \in Agent : KnownIsActedBy(b)'
    BY <2>1, <2>3 DEF Together, KnownIsActedBy
  <2>5. Needed(l, a) => Frozen(store[a])
    <3>1. store[a] # NoSerials
      BY <1>1 DEF NoSerials
    <3> QED
      BY <3>1 DEF Needed, Frozen, Reconciling, AgreesOn, Together, Between
  <2>6. \A b \in Agent : Still(b) /\ Needed(l, b) => Still(b)'
    BY <1>1, <2>1, <2>2, <2>3, <2>5 DEF Still
  <2> QED
    BY <2>2, <2>4, <2>6, SameStore
<1>3. ASSUME NEW p \in Part, PartConfirms(a, p) PROVE Together(l)'
  <2> DEFINE h == hand[a][p]
             acts == IF h.want = NoHandover \/ OlderThan(h.want, h.acts) THEN h.acts ELSE h.want
             known == [h EXCEPT !.acts = acts, !.held = acts]
  <2>1. h \in Hand
    BY ByName
  <2>2. /\ known.acts = acts /\ known.held = acts /\ known.want = h.want
        /\ StillHand(h) => StillHand(known)
    BY <2>1 DEF StillHand, Hand
  <2>3. hand' = [hand EXCEPT ![a][p] = known]
    BY <1>1, <1>3 DEF PartConfirms, Knows, Active
  <2>4. UNCHANGED <<store, told, onway, decided, rollover>>
    BY <1>3 DEF PartConfirms
  <2> HIDE DEF known, acts
  <2>5. \A b \in Agent, q \in Part : hand'[b][q] = IF b = a /\ q = p THEN known ELSE hand[b][q]
    BY <1>1, <2>3
  <2>6. \A b \in Agent : KnownIsActedBy(b)'
    BY <2>2, <2>5 DEF Together, KnownIsActedBy
  <2>7. \A b \in Agent : Still(b) => Still(b)'
    BY <1>1, <2>2, <2>4, <2>5 DEF Still
  <2> QED
    BY <2>4, <2>6, <2>7, SameStore
<1>4. CASE RolloverStarts(a) \/ RolloverEnds(a)
  <2>1. UNCHANGED <<store, told, onway, decided, hand>>
    BY <1>4 DEF RolloverStarts, RolloverEnds
  <2>2. \A b \in Agent : Still(b) => Still(b)'
    BY <1>1, <1>4, <2>1 DEF Still, StillHand, RolloverStarts, RolloverEnds
  <2>3. \A b \in Agent : KnownIsActedBy(b)'
    BY <2>1 DEF Together, KnownIsActedBy
  <2> QED
    BY <2>1, <2>2, <2>3, SameStore
<1>5. CASE Restart(a)
  <2>1. /\ store' = store /\ rollover' = rollover /\ onway' = onway
        /\ told' = [told EXCEPT ![a] = [b \in Agent |-> NoStamp]]
        /\ decided' = [decided EXCEPT ![a] = NoDecision]
    BY <1>5 DEF Restart, Forgets
  <2> DEFINE empty(p) == [hand[a][p] EXCEPT !.want = NoHandover, !.held = NoHandover]
  <2>2. hand' = [hand EXCEPT ![a] = [p \in Part |-> empty(p)]]
    BY <1>5 DEF Restart, Forgets
  <2>8. \A p \in Part : /\ empty(p).acts = hand[a][p].acts /\ empty(p).held = NoHandover
                        /\ empty(p).want = NoHandover
    BY ByName DEF Hand
  <2> HIDE DEF empty
  <2>3. \A b \in Agent : b # a => hand'[b] = hand[b]
    BY <1>1, <2>2
  <2>4. \A p \in Part : /\ hand'[a][p].acts = hand[a][p].acts /\ hand'[a][p].held = NoHandover
                        /\ hand'[a][p].want = NoHandover
    BY <1>1, <2>2, <2>8
  <2>5. \A b \in Agent : (Still(b) => Still(b)') /\ KnownIsActedBy(b)'
    BY <1>1, <2>1, <2>3, <2>4 DEF Still, StillHand, Together, KnownIsActedBy
  <2>6. \A b \in Agent : decided'[b] \in {decided[b], NoDecision}
    BY <2>1 DEF TypeOK
  <2>7. \A b, c \in Agent : told'[b][c] \in {told[b][c], NoStamp}
    BY <2>1 DEF TypeOK
  <2> QED
    BY <2>1, <2>5, <2>6, <2>7, SameStore
<1>6. ~LoseStore(a)
  BY DEF LoseStore, Occurs, Remembers
<1> QED
  BY <1>2, <1>3, <1>4, <1>5, <1>6 DEF Outside

\* A decision that fits the serials as they are.
LEMMA Decided ==
    ASSUME TypeOK, NEW l \in Agent, Together(l), NEW a \in Agent, NEW d, Decide(a, d), Decides(l, a, d)
    PROVE  Together(l)'
<1>1. UNCHANGED <<store, told, onway, hand, rollover>>
  BY DEF Decide
<1>2. \A b \in Agent : decided'[b] = IF b = a THEN d ELSE decided[b]
  BY DEF Decide, TypeOK
<1>3. /\ LeadersThaw(l)' = LeadersThaw(l) /\ Mixed(l)' = Mixed(l)
      /\ \A b \in Agent : /\ Follows(l, b)' = Follows(l, b) /\ KnownIsActedBy(b)' = KnownIsActedBy(b)
                          /\ Between(l, b)' = Between(l, b) /\ AgreesOn(b)' = AgreesOn(b)
                          /\ Still(b)' = Still(b) /\ Active(b)' = Active(b)
  BY <1>1 DEF LeadersThaw, Mixed, Follows, KnownIsActedBy, Between, AgreesOn, Still, Active
<1>4. \A b \in Agent : Decides(l, b, decided'[b])
  BY <1>2 DEF Together
<1>5. ASSUME NEW b \in Agent, NEW e, Decides(l, b, e) PROVE Decides(l, b, e)'
  BY <1>1, <1>3, <1>5 DEF Decides
<1>6. ASSUME NEW b \in Agent PROVE Decides(l, b, decided[b])'
  <2>1. PICK e : e = decided'[b]
    OBVIOUS
  <2>2. Decides(l, b, e)'
    BY <1>4, <1>5, <2>1
  <2> QED
    BY <2>1, <2>2 DEF Decides
<1>7. \A b, c \in Agent : (Tells(l, c, told[b][c]) /\ Tells(l, c, onway[b][c]))'
  <2> SUFFICES ASSUME NEW b \in Agent, NEW c \in Agent
               PROVE  (Tells(l, c, told[b][c]) /\ Tells(l, c, onway[b][c]))'
    OBVIOUS
  <2>1. Tells(l, c, told[b][c]) /\ Tells(l, c, onway[b][c])
    BY DEF Together
  <2> QED
    BY <1>1, <1>3, <2>1 DEF Tells
<1> QED
  BY <1>3, <1>6, <1>7 DEF Together

\* A turn decides what fits: the stamps it reads are true.
LEMMA DecisionFits ==
    ASSUME TypeOK, NEW l \in Agent, Leads \subseteq {l}, Together(l), NEW a \in Agent
    PROVE  /\ DecideThaw(a) => Together(l)'
           /\ ~KnowActive(a)
           /\ TakeStep(a) \/ LeaderDone(a) => Together(l)'
           /\ \A b \in Others(a) :
                ActivateOnTellings(a, b) \/ AdoptStep(a, b) \/ FollowStep(a, b) => Together(l)'
<1> DEFINE z == store[a]
<1>1. \A b \in Agent : Tells(l, b, told[a][b])
  BY DEF Together
<1>2. /\ \A b \in Agent : /\ Active(b) \in Nat /\ Active(b) # NoSerial /\ Active(b) <= Active(l)
                          /\ Active(b) # Active(l) => store[l].thaw # NoThaw /\ Active(b) = store[l].thaw.from
      /\ Active(l) \in Nat
  BY TwoSerials, Numbers
<1>3. \A b \in Agent : told[a][b] \in InstrStamp /\ told[a][b].active \in Nat
  BY ByName, Numbers DEF InstrStamp
<1>4. NoStamp.active = NoSerial /\ \A b \in Others(a) : b \in Agent
  BY DEF NoStamp, Others
<1>5. ASSUME DecideThaw(a) PROVE Together(l)'
  <2> DEFINE d == [NoDecision EXCEPT !.rule = "thaw",
                     !.thaw = [from |-> store[a].active, to |-> Agreeing(store[a])]]
  <2>1. a = l /\ Decide(a, d) /\ ThawReady(a)
    BY <1>5 DEF DecideThaw
  <2>2. d.rule = "thaw" /\ d.thaw.from = Active(a)
    BY DEF NoDecision, Active
  <2>3. AgreesOn(a) /\ Still(a)
    BY <2>1, ConfirmedIsStill DEF ThawReady, AgreesOn
  <2>4. ASSUME NEW b \in Others(a) PROVE Active(b) = Active(l) /\ AgreesOn(b) /\ Still(b)
    <3>1. /\ told[a][b] # NoStamp /\ told[a][b].active = Active(l) /\ told[a][b].agreeing # NoSerial
          /\ told[a][b].hold /\ ~told[a][b].rollover
      BY <2>1 DEF ThawReady, TellsAgreement, Active
    <3>2. told[a][b].active <= Active(b)
      BY <1>1, <1>4, <3>1 DEF Tells
    <3>3. Active(b) = Active(l)
      BY <1>2, <1>4, <3>1, <3>2
    <3> QED
      BY <1>1, <1>4, <3>1, <3>3 DEF Tells
  <2> HIDE DEF d
  <2>5. Decides(l, a, d)
    BY <2>1, <2>2, <2>3, <2>4 DEF Decides, Others
  <2> QED
    BY <2>1, <2>5, Decided
<1>6. ~KnowActive(a)
  BY <1>2 DEF KnowActive, Active
<1>7. ASSUME TakeStep(a) PROVE Together(l)'
  <2> DEFINE d == [NoDecision EXCEPT !.rule = "step", !.to = store[a].active, !.step = LastStep,
                     !.sets = Lists[store[a].active]]
  <2>1. d.rule = "step" /\ Decide(a, d)
    BY <1>7 DEF TakeStep, DecideStep, NoDecision
  <2> HIDE DEF d
  <2> QED
    BY <2>1, Decided DEF Decides
<1>8. ASSUME LeaderDone(a) PROVE Together(l)'
  <2> DEFINE d == [NoDecision EXCEPT !.rule = "done"]
  <2>1. d.rule = "done" /\ Decide(a, d) /\ a = l /\ StepHeldByAll(a)
    BY <1>8 DEF LeaderDone, DecideDone, NoDecision, MayLeadOn
  <2>2. ASSUME NEW b \in Others(a) PROVE Active(b) = Active(l)
    <3>1. told[a][b].active = Active(l)
      BY <2>1 DEF StepHeldByAll, HoldsStep, Active
    <3>2. told[a][b].active <= Active(b)
      BY <1>1, <1>2, <1>4, <3>1 DEF Tells
    <3> QED
      BY <1>2, <1>4, <3>1, <3>2
  <2>3. ~Mixed(l)
    BY <2>1, <2>2 DEF Mixed, Others
  <2> HIDE DEF d
  <2> QED
    BY <2>1, <2>3, Decided DEF Decides
<1>9. ASSUME NEW b \in Others(a), ActivateOnTellings(a, b) PROVE Together(l)'
  <2> DEFINE d == [NoDecision EXCEPT !.rule = "thaw", !.thaw = told[a][b].thaw]
  <2>1. d.rule = "thaw" /\ d.thaw = told[a][b].thaw /\ Decide(a, d)
    BY <1>9 DEF ActivateOnTellings, NoDecision
  <2>2. told[a][b] # NoStamp /\ told[a][b].active > Active(a)
    BY <1>2, <1>3, <1>4, <1>9 DEF ActivateOnTellings, Active, NoSerial
  <2>3. Tells(l, b, told[a][b]) /\ told[a][b].active <= Active(b)
    BY <1>1, <1>4, <2>2 DEF Tells
  <2>4. Active(a) < Active(l) /\ a # l
    BY <1>2, <1>3, <1>4, <2>2, <2>3
  <2>5. store[l].thaw # NoThaw /\ Active(a) = store[l].thaw.from
    BY <1>2, <2>4
  <2>6. told[a][b].active = Active(l)
    BY <1>2, <1>3, <1>4, <2>2, <2>3, <2>5 DEF Tells
  <2>7. told[a][b].thaw = store[l].thaw
    BY <2>2, <2>3, <2>6 DEF Tells
  <2> HIDE DEF d
  <2>8. Decides(l, a, d)
    BY <2>1, <2>4, <2>5, <2>7 DEF Decides
  <2> QED
    BY <2>1, <2>8, Decided
<1>10. ASSUME NEW b \in Others(a), NEW n, NEW sets, DecideStep(a, n, sets) PROVE Together(l)'
  <2> DEFINE d == [NoDecision EXCEPT !.rule = "step", !.to = store[a].active, !.step = n, !.sets = sets]
  <2>1. d.rule = "step" /\ Decide(a, d)
    BY <1>10 DEF DecideStep, NoDecision
  <2> HIDE DEF d
  <2> QED
    BY <2>1, Decided DEF Decides
<1>11. ASSUME NEW b \in Others(a), FollowStep(a, b), DecideDone(a), ~told[a][b].reconciling
       PROVE  Together(l)'
  <2> DEFINE d == [NoDecision EXCEPT !.rule = "done"]
  <2>1. d.rule = "done" /\ Decide(a, d)
    BY <1>11 DEF DecideDone, NoDecision
  <2>2. b = l /\ told[a][b].active = Active(a)
    BY <1>11 DEF FollowStep, Active
  <2>3. told[a][b] # NoStamp
    BY <1>2, <1>4, <2>2
  <2>4. Mixed(l) => Active(a) # Active(l)
    <3>1. SUFFICES ASSUME Mixed(l), Active(a) = Active(l) PROVE FALSE
      OBVIOUS
    <3>2. Tells(l, b, told[a][b]) /\ told[a][b].active = Active(l)
      BY <1>1, <1>4, <2>2, <3>1
    <3>3. told[a][b].reconciling
      BY <2>3, <3>1, <3>2 DEF Tells
    <3> QED
      BY <1>11, <3>3
  <2> HIDE DEF d
  <2> QED
    BY <2>1, <2>4, Decided DEF Decides
<1>12. ASSUME NEW b \in Others(a), AdoptStep(a, b) \/ FollowStep(a, b) PROVE Together(l)'
  BY <1>10, <1>11, <1>12 DEF AdoptStep, FollowStep
<1> QED
  BY <1>5, <1>6, <1>7, <1>8, <1>9, <1>12

\* The leader thaws: all were at its serial and agree on a newer one.
LEMMA LeaderThaws ==
    ASSUME TypeOK, NEW l \in Agent, Together(l), decided[l].rule = "thaw",
           MayActivate(store[l], decided[l].thaw), Update(l, Activated(store[l], decided[l].thaw)),
           decided' = [decided EXCEPT ![l] = NoDecision], UNCHANGED <<told, onway, rollover>>
    PROVE  Together(l)'
<1> DEFINE th == decided[l].thaw
           y == store[l]
           z == Activated(y, th)
<1>1. y \in ZoneSerials /\ th \in Thaw
  BY ByName DEF Decision
<1>2. z \in ZoneSerials
  BY <1>1, ActivatedType
<1>3. /\ z.active = th.to /\ z.thaw = th /\ z.from = th.from /\ z.held = Above(y.held, th.to)
  BY <1>1 DEF Activated, ZoneSerials
<1>4. /\ Decides(l, l, decided[l]) /\ th.from = Active(l) /\ th.from \in Nat /\ th.from # NoSerial
      /\ \A b \in Agent : Active(b) = Active(l) /\ AgreesOn(b) /\ Still(b)
  BY TwoSerials, Numbers DEF Together, Decides
<1>5. th.to > Active(l) /\ th.to \in Nat /\ th.to # NoSerial /\ th # NoThaw
  <2>1. th.to > y.active /\ Keeps(y, th.to)
    BY DEF MayActivate
  <2>2. th.to \in SerialOrNone /\ th.to # NoSerial
    BY <1>1, <2>1 DEF Thaw, Keeps
  <2>3. th # NoThaw
    BY <1>4 DEF NoThaw
  <2> QED
    BY <2>1, <2>2, <2>3, Numbers DEF Active
<1> HIDE DEF z, th
<1>6. z # NoSerials /\ Frozen(z)
  BY <1>3, <1>4, <1>5 DEF NoSerials, Frozen, Reconciling
<1>7. Update(l, z) /\ rollover' = rollover /\ z.active # NoSerial
  BY <1>3, <1>5 DEF z, th
<1>8. /\ \A b \in Agent : store'[b] = IF b = l THEN z ELSE store[b]
      /\ Frozen(z) /\ Still(l) => Still(l)'
      /\ \A b \in Agent : b # l /\ Still(b) => Still(b)'
      /\ \A b \in Agent : KnownIsActedBy(b) => KnownIsActedBy(b)'
  BY <1>2, <1>7, UpdateHolds
<1>9. /\ \A b \in Agent : Still(b)' /\ KnownIsActedBy(b)'
      /\ \A b \in Agent : b # l => AgreesOn(b)'
  BY <1>4, <1>6, <1>8 DEF Together, AgreesOn
<1>10. /\ Active(l)' = th.to /\ store'[l] = z
       /\ \A b \in Agent : b # l => store'[b] = store[b] /\ Active(b)' = th.from
  BY <1>3, <1>4, <1>8 DEF Active
<1>11. LeadersThaw(l)'
  BY <1>3, <1>4, <1>5, <1>10 DEF LeadersThaw
<1>12. ASSUME NEW b \in Agent PROVE Follows(l, b)'
  <2>1. CASE b = l
    BY <1>3, <1>5, <1>10, <2>1 DEF Follows, Above, Active
  <2>2. CASE b # l
    <3>1. Follows(l, b)
      BY DEF Together
    <3> QED
      BY <1>3, <1>4, <1>5, <1>10, <2>2, <3>1 DEF Follows, Active
  <2> QED
    BY <2>1, <2>2
<1>13. ASSUME NEW b \in Agent PROVE Between(l, b)'
  BY <1>3, <1>4, <1>5, <1>9, <1>10 DEF Between
<1>14. ASSUME NEW b \in Agent PROVE Decides(l, b, decided[b])'
  <2>1. CASE b = l
    <3>1. decided'[b].rule = "none"
      BY <2>1 DEF TypeOK, NoDecision
    <3> QED
      BY <3>1 DEF Decides
  <2>2. CASE b # l
    <3>1. decided'[b] = decided[b] /\ Decides(l, b, decided[b])
      BY <2>2 DEF TypeOK, Together
    <3>2. decided[b].rule # "thaw" /\ decided[b].rule # "know"
      BY <1>4, <2>2, <3>1, TwoSerials DEF Decides, Together, LeadersThaw
    <3> QED
      BY <1>4, <1>5, <1>10, <2>2, <3>1, <3>2 DEF Decides
  <2> QED
    BY <2>1, <2>2
<1>15. ASSUME NEW b \in Agent, NEW st \in InstrStamp, Tells(l, b, st) PROVE Tells(l, b, st)'
  <2>1. CASE st = NoStamp
    BY <2>1 DEF Tells
  <2>2. CASE st # NoStamp
    <3>1. st.active # NoSerial /\ st.active <= th.from /\ st.active \in Nat
      BY <1>4, <1>15, <2>2, Numbers DEF Tells, InstrStamp
    <3>2. st.active # th.to /\ st.active < th.to
      BY <1>4, <1>5, <3>1
    <3>3. /\ st.active = Active(b)' /\ st.agreeing # NoSerial => AgreesOn(b)'
          /\ st.active = Active(b)' /\ st.agreeing # NoSerial /\ st.hold /\ ~st.rollover => Still(b)'
      BY <1>9, <1>10, <3>2
    <3> QED
      BY <1>3, <1>5, <1>10, <3>1, <3>2, <3>3 DEF Tells
  <2> QED
    BY <2>1, <2>2
<1>16. \A b, c \in Agent : (Tells(l, c, told[b][c]) /\ Tells(l, c, onway[b][c]))'
  <2> SUFFICES ASSUME NEW b \in Agent, NEW c \in Agent
               PROVE  (Tells(l, c, told[b][c]) /\ Tells(l, c, onway[b][c]))'
    OBVIOUS
  <2>1. PICK st \in InstrStamp : st = told[b][c]
    BY ByName
  <2>2. PICK su \in InstrStamp : su = onway[b][c]
    BY ByName
  <2>3. Tells(l, c, st)' /\ Tells(l, c, su)'
    BY <1>15, <2>1, <2>2 DEF Together
  <2> QED
    BY <2>1, <2>2, <2>3 DEF Tells
<1> QED
  BY <1>9, <1>11, <1>12, <1>13, <1>14, <1>16 DEF Together

\* Another agent follows the leader's thaw.
LEMMA FollowerThaws ==
    ASSUME TypeOK, NEW l \in Agent, Together(l), NEW a \in Agent, a # l, decided[a].rule = "thaw",
           MayActivate(store[a], decided[a].thaw), Update(a, Activated(store[a], decided[a].thaw)),
           decided' = [decided EXCEPT ![a] = NoDecision], UNCHANGED <<told, onway, rollover>>
    PROVE  Together(l)'
<1> DEFINE th == decided[a].thaw
           y == store[a]
           z == Activated(y, th)
<1>1. y \in ZoneSerials /\ th \in Thaw
  BY ByName DEF Decision
<1>2. z \in ZoneSerials
  BY <1>1, ActivatedType
<1>3. /\ z.active = th.to /\ z.thaw = th /\ z.from = th.from /\ z.held = Above(y.held, th.to)
  BY <1>1 DEF Activated, ZoneSerials
<1>4. /\ th = store[l].thaw /\ th # NoThaw /\ Active(a) = th.from
      /\ th.to = Active(l) /\ th.from # NoSerial /\ th.from < Active(l)
      /\ th.from \in Nat /\ Active(l) \in Nat /\ Active(l) # NoSerial
  BY TwoSerials, Numbers DEF Together, Decides, LeadersThaw
<1> HIDE DEF z, th
<1>5. Mixed(l)
  BY <1>4 DEF Mixed
<1>6. z # NoSerials /\ Frozen(z)
  BY <1>3, <1>4 DEF NoSerials, Frozen, Reconciling
<1>7. Update(a, z) /\ rollover' = rollover /\ z.active # NoSerial
  BY <1>3, <1>4 DEF z, th
<1>8. /\ \A b \in Agent : store'[b] = IF b = a THEN z ELSE store[b]
      /\ Frozen(z) /\ Still(a) => Still(a)'
      /\ \A b \in Agent : b # a /\ Still(b) => Still(b)'
      /\ \A b \in Agent : KnownIsActedBy(b) => KnownIsActedBy(b)'
  BY <1>2, <1>7, UpdateHolds
<1>9. /\ \A b \in Agent : Still(b)' /\ KnownIsActedBy(b)'
      /\ \A b \in Agent : b # a /\ AgreesOn(b) => AgreesOn(b)'
  BY <1>5, <1>6, <1>8 DEF Together, Between, AgreesOn
<1>10. /\ store'[a] = z /\ Active(a)' = Active(l) /\ Active(l)' = Active(l) /\ store'[l] = store[l]
       /\ \A b \in Agent : b # a => store'[b] = store[b] /\ Active(b)' = Active(b)
  BY <1>3, <1>4, <1>8 DEF Active
<1>11. LeadersThaw(l)'
  BY <1>10 DEF LeadersThaw, Together
<1>12. ASSUME NEW b \in Agent PROVE Follows(l, b)'
  <2>1. CASE b = a
    BY <1>3, <1>4, <1>10, <2>1 DEF Follows, Above, Active
  <2>2. CASE b # a
    BY <1>10, <2>2 DEF Follows, Together
  <2> QED
    BY <2>1, <2>2
<1>13. ASSUME NEW b \in Agent PROVE Between(l, b)'
  <2>1. CASE b = a
    BY <1>3, <1>4, <1>9, <1>10, <2>1 DEF Between
  <2>2. CASE b # a
    <3>1. Between(l, b)
      BY <1>5 DEF Together
    <3> QED
      BY <1>9, <1>10, <2>2, <3>1 DEF Between
  <2> QED
    BY <2>1, <2>2
<1>14. ASSUME NEW b \in Agent PROVE Decides(l, b, decided[b])'
  <2>1. CASE b = a
    <3>1. decided'[b].rule = "none"
      BY <2>1 DEF TypeOK, NoDecision
    <3> QED
      BY <3>1 DEF Decides
  <2>2. CASE b # a
    <3>1. decided'[b] = decided[b] /\ Decides(l, b, decided[b])
      BY <2>2 DEF TypeOK, Together
    <3>2. ~(decided[b].rule = "thaw" /\ b = l)
      BY <1>4, <3>1 DEF Decides
    <3>3. decided[b].rule = "done" => Active(b) # Active(l)
      BY <1>5, <3>1 DEF Decides
    <3> QED
      BY <1>10, <2>2, <3>1, <3>2, <3>3 DEF Decides
  <2> QED
    BY <2>1, <2>2
<1>15. ASSUME NEW b \in Agent, NEW st \in InstrStamp, Tells(l, b, st) PROVE Tells(l, b, st)'
  <2>1. CASE st = NoStamp
    BY <2>1 DEF Tells
  <2>2. CASE b = a /\ st # NoStamp
    <3>1. st.active # NoSerial /\ st.active <= th.from /\ st.active \in Nat
      BY <1>4, <1>15, <2>2, Numbers DEF Tells, InstrStamp
    <3>2. st.active # Active(l) /\ st.active <= Active(l)
      BY <1>4, <3>1
    <3> QED
      BY <1>4, <1>10, <2>2, <3>1, <3>2 DEF Tells
  <2>3. CASE b # a /\ st # NoStamp
    <3>1. Mixed(l) /\ st.active = Active(l) => st.reconciling
      BY <1>15, <2>3 DEF Tells
    <3> QED
      BY <1>5, <1>9, <1>10, <1>15, <2>3, <3>1 DEF Tells
  <2> QED
    BY <2>1, <2>2, <2>3
<1>16. \A b, c \in Agent : (Tells(l, c, told[b][c]) /\ Tells(l, c, onway[b][c]))'
  <2> SUFFICES ASSUME NEW b \in Agent, NEW c \in Agent
               PROVE  (Tells(l, c, told[b][c]) /\ Tells(l, c, onway[b][c]))'
    OBVIOUS
  <2>1. PICK st \in InstrStamp : st = told[b][c]
    BY ByName
  <2>2. PICK su \in InstrStamp : su = onway[b][c]
    BY ByName
  <2>3. Tells(l, c, st)' /\ Tells(l, c, su)'
    BY <1>15, <2>1, <2>2 DEF Together
  <2> QED
    BY <2>1, <2>2, <2>3 DEF Tells
<1> QED
  BY <1>9, <1>11, <1>12, <1>13, <1>14, <1>16 DEF Together

LEMMA WriteTogether ==
    ASSUME TypeOK, NEW l \in Agent, Together(l), NEW a \in Agent, Write(a) PROVE Together(l)'
<1> DEFINE d == decided[a]
           z == store[a]
<1>1. /\ d \in Decision /\ z \in ZoneSerials /\ Decides(l, a, d)
      /\ \A s \in z.held : s > z.active
  BY ByName DEF Together, Follows
<1>2. /\ decided' = [decided EXCEPT ![a] = NoDecision] /\ UNCHANGED <<told, onway, rollover>>
      /\ \A b \in Agent : decided'[b] \in {decided[b], NoDecision}
  BY DEF Write, TypeOK
<1>3. CASE ~Allows(z, d)
  <2>1. store' = store /\ hand' = hand
    BY <1>3 DEF Write
  <2>2. \A b \in Agent : (Still(b) => Still(b)') /\ (KnownIsActedBy(b) => KnownIsActedBy(b)')
    BY <1>2, <2>1 DEF Still, KnownIsActedBy
  <2> QED
    BY <1>2, <2>1, <2>2, SameStore DEF Together
<1>4. CASE Allows(z, d) /\ d.rule = "thaw"
  <2>1. MayActivate(z, d.thaw) /\ Update(a, Activated(z, d.thaw))
    BY <1>4 DEF Allows, Write, Written
  <2> QED
    BY <1>2, <1>4, <2>1, LeaderThaws, FollowerThaws
<1>5. CASE Allows(z, d) /\ d.rule = "step"
  <2>1. Update(a, Stepped(z, d))
    BY <1>5 DEF Write, Written
  <2>2. /\ Stepped(z, d) \in ZoneSerials
        /\ Stepped(z, d).active = z.active /\ Stepped(z, d).thaw = z.thaw
        /\ Stepped(z, d).from = z.from /\ Stepped(z, d).held = z.held
    BY <1>1, SteppedType DEF Stepped, ZoneSerials
  <2> QED
    BY <1>1, <1>2, <2>1, <2>2, SameSerials
<1>6. CASE Allows(z, d) /\ d.rule = "done"
  <2>1. Update(a, Ended(z))
    BY <1>6 DEF Write, Written
  <2>2. /\ Ended(z) \in ZoneSerials
        /\ Ended(z).active = z.active /\ Ended(z).thaw = z.thaw /\ Ended(z).held = z.held
    BY <1>1, EndedType DEF Ended, ZoneSerials
  <2>3. Mixed(l) => Active(a) # Active(l)
    BY <1>1, <1>6 DEF Decides
  <2> QED
    BY <1>1, <1>2, <2>1, <2>2, <2>3, SameSerials
<1> QED
  BY <1>1, <1>3, <1>4, <1>5, <1>6 DEF Allows, Decides

LEMMA SteadyStays == ASSUME TypeOK, [Next]_vars PROVE Steady' = Steady
<1>1. events' = events \/ events' = [events EXCEPT !.left = events.left - 1]
  <2>1. ASSUME NEW a \in Agent, Turn(a) PROVE events' = events
    BY <2>1 DEF Turn, DecideThaw, KnowActive, TakeStep, LeaderDone, Write, DecideStep, DecideDone,
       Decide, ActivateOnTellings, AdoptStep, FollowStep
  <2>2. ASSUME NEW e, Occurs(e) PROVE events' = [events EXCEPT !.left = events.left - 1]
    BY <2>2 DEF Occurs
  <2>3. ASSUME NEW a \in Agent, Hears(a) PROVE events' = events \/ Occurs("unreadable")
    BY <2>3 DEF Hears, Note, NoteUnreadable, SendBeat, KeepStamp, FetchInstructions
  <2>4. ASSUME NEW a \in Agent, Outside(a)
        PROVE  events' = events \/ Occurs("rollover") \/ Occurs("restart") \/ Occurs("lose")
    BY <2>4 DEF Outside, Refresh, PartConfirms, RolloverStarts, RolloverEnds, Restart, LoseStore
  <2>5. CASE UNCHANGED vars
    BY <2>5 DEF vars
  <2> QED
    BY <2>1, <2>2, <2>3, <2>4, <2>5 DEF Next
<1>2. events \in Start
  BY DEF TypeOK
<1>3. events'.may = events.may /\ events'.first = events.first
  BY <1>1, <1>2 DEF Start
<1> QED
  BY <1>3 DEF Steady, Remembers

LEMMA NextTogether ==
    ASSUME TypeOK, NEW l \in Agent, Leads \subseteq {l}, Steady => Together(l), [Next]_vars
    PROVE  (Steady => Together(l))'
<1>1. Steady' = Steady
  BY SteadyStays
<1> SUFFICES ASSUME Steady, Together(l) PROVE Together(l)'
  BY <1>1
<1>2. CASE UNCHANGED vars
  BY <1>2 DEF vars, Together, LeadersThaw, Follows, Decides, KnownIsActedBy, Tells, Between, Mixed,
     Active, AgreesOn, Still
<1>3. ASSUME NEW a \in Agent, Turn(a) PROVE Together(l)'
  BY <1>3, DecisionFits, WriteTogether DEF Turn
<1>4. ASSUME NEW a \in Agent, Hears(a) \/ Outside(a) PROVE Together(l)'
  BY <1>4, HearsTogether, OutsideTogether DEF Steady
<1> QED
  BY <1>2, <1>3, <1>4 DEF Next

LEMMA InitTogether ==
    ASSUME NEW l \in Agent, Init, Steady PROVE Together(l)
<1>1. FirstSerials = [NoSerials EXCEPT !.active = 1]
  BY DEF FirstSerials, Steady
<1>2. /\ FirstSerials.active = 1 /\ FirstSerials.held = {} /\ FirstSerials.thaw = NoThaw
  BY <1>1 DEF NoSerials
<1>3. \A a \in Agent : store[a] = FirstSerials /\ decided[a].rule = "none"
  BY DEF Init, NoDecision
<1>4. \A a, b \in Agent : told[a][b] = NoStamp /\ onway[a][b] = NoStamp
  BY DEF Init
<1>5. \A a \in Agent : KnownIsActedBy(a)
  BY DEF Init, KnownIsActedBy
<1> QED
  BY <1>2, <1>3, <1>4, <1>5
  DEF Together, LeadersThaw, Follows, Decides, Tells, Mixed, Active, NoSerial

-----------------------------------------------------------------------------
(* What holds in every reachable state *)

\* With one agent to lead a zone that was at rest, and every database kept,
\* the transition is one: what the three properties below rest on.
THEOREM TransitionIsOne ==
    ASSUME NEW l \in Agent, Leads \subseteq {l} PROVE Spec => [](Steady => Together(l))
<1>1. Init => TypeOK /\ (Steady => Together(l))
  BY InitTypes, InitTogether
<1>2. TypeOK /\ (Steady => Together(l)) /\ [Next]_vars => TypeOK' /\ (Steady => Together(l))'
  BY NextTypes, NextTogether
<1> QED
  BY <1>1, <1>2, PTL DEF Spec

\* The leader thaws only when every voting member tells, first hand, that it
\* is at its serial, and the others only follow its thaw: of two agents at
\* different serials, the one ahead came by a thaw from the other's.
THEOREM OneTransition ==
    ASSUME NEW l \in Agent, Leads \subseteq {l} PROVE Spec => [](Steady => OneTransitionAtATime)
<1>1. TypeOK /\ Together(l) => OneTransitionAtATime
  <2> SUFFICES ASSUME TypeOK, Together(l), NEW a \in Agent, NEW b \in Agent, Active(a) < Active(b)
               PROVE  store[b].thaw = [from |-> Active(a), to |-> Active(b)]
    BY DEF OneTransitionAtATime
  <2>1. Active(b) = Active(l) /\ Active(a) # Active(l)
    BY TwoSerials
  <2>2. /\ store[b].thaw = store[l].thaw /\ store[l].thaw # NoThaw
        /\ store[l].thaw.from = Active(a) /\ store[l].thaw.to = Active(b)
    BY <2>1, TwoSerials DEF Together, LeadersThaw
  <2>3. store[l].thaw \in Thaw
    BY ByName DEF ZoneSerials
  <2> QED
    BY <2>2, <2>3 DEF Thaw
<1> QED
  BY <1>1, TransitionIsOne, TypeCorrect, PTL

\* Whoever is behind the leader agrees on a serial, and whoever is not is in
\* its transition: both freeze their zone until all are at one serial.
THEOREM WorkIsOneSerials ==
    ASSUME NEW l \in Agent, Leads \subseteq {l} PROVE Spec => [](Steady => WorkIsByOneSerial)
<1>1. TypeOK /\ Together(l) => WorkIsByOneSerial
  <2> SUFFICES ASSUME TypeOK, Together(l), NEW a \in Agent, NEW b \in Agent, AtWork(a),
                      Active(a) # Active(b)
               PROVE  FALSE
    BY DEF WorkIsByOneSerial
  <2>1. Mixed(l)
    BY DEF Mixed
  <2>2. Between(l, a) /\ store[a] # NoSerials
    BY <2>1 DEF Together, Follows, NoSerials
  <2> QED
    BY <2>2 DEF AtWork, Frozen, Reconciling, Between, AgreesOn
<1> QED
  BY <1>1, TransitionIsOne, TypeCorrect, PTL

\* A signer told to hold starts no rollover, and the leader thaws only when
\* every signer is known to hold and none rolls: none does in a transition.
THEOREM RolloversWait ==
    ASSUME NEW l \in Agent, Leads \subseteq {l} PROVE Spec => [](Steady => NoRolloverInAThaw)
<1>1. TypeOK /\ Together(l) => NoRolloverInAThaw
  <2> SUFFICES ASSUME TypeOK, Together(l), NEW a \in Agent, NEW b \in Agent, Active(a) < Active(b),
                      NEW c \in Agent
               PROVE  ~rollover[c]
    BY DEF NoRolloverInAThaw
  <2>1. Mixed(l)
    BY TwoSerials DEF Mixed
  <2> QED
    BY <2>1 DEF Together, Between, Still
<1> QED
  BY <1>1, TransitionIsOne, TypeCorrect, PTL

-----------------------------------------------------------------------------
(* What makes "done" mean held *)

\* How far an agent is at its serial: its step, and past every step at rest.
PhaseOf(reconciling, step) == IF reconciling THEN step ELSE LastStep + 1
Phase(a) == PhaseOf(Reconciling(store[a]), store[a].step)

\* An agent at rest has no step; one that reconciles has the sets of its
\* step, and those of the last step are the active serial's lists.
ShapeOf(z) ==
    /\ ~z.pending
    /\ z.from = NoSerial => z.step = NoStep /\ z.sets = NoSets
    /\ z.from # NoSerial =>
         /\ z.step \in {0, LastStep} /\ z.sets # NoSets
         /\ z.step = LastStep => z.sets = Lists[z.active]

\* A hand-over for the last step is of its serial's lists.
Right(h) == h.step = LastStep => h.sets = Lists[h.serial]

\* The parts act by the lists of s, and are handed no others.
ActBy(a, s) ==
    \A p \in Part :
      LET h == hand[a][p]
      IN /\ h.acts # NoHandover /\ h.acts.sets = Lists[s]
         /\ h.want # NoHandover => h.want.sets = Lists[s]

\* An agent past step 0, whose parts act by the active serial's lists.
Settled(a) == Phase(a) >= LastStep /\ ActBy(a, Active(a))

\* What b has told of its step: it is as far still, and what its parts held
\* of the last step they act by.
Reports(b, st) ==
    st # NoStamp =>
      /\ st.reconciling =>
           /\ st.step \in {0, LastStep} /\ st.sets # NoSets
           /\ st.step = LastStep => st.sets = Lists[st.active]
      /\ st.active = Active(b) => PhaseOf(st.reconciling, st.step) <= Phase(b)
      /\ st.active = Active(b) /\ st.reconciling /\ st.stepHeld /\ st.step = LastStep => Settled(b)

\* What a turn has decided: a step no earlier than its agent's, and at a
\* follower no later than the leader's; "done" once the last step is held.
Plans(l, a, d) ==
    /\ d.rule = "step" =>
         /\ d.to = Active(a) /\ store[a].from # NoSerial
         /\ d.step \in {0, LastStep} /\ store[a].step <= d.step /\ d.sets # NoSets
         /\ d.step = LastStep => d.sets = Lists[Active(a)]
         /\ a # l /\ Active(a) = Active(l) => d.step <= Phase(l)
    /\ d.rule = "done" /\ a = l => \A b \in Agent : Settled(b)
    /\ d.rule = "done" /\ a # l /\ Active(a) = Active(l) => Phase(l) = LastStep + 1
    /\ d.rule = "thaw" /\ a = l => Phase(l) = LastStep + 1

\* Nobody is further than the leader at its serial, the leader is done only
\* when all are settled, and those not yet at its serial are settled at theirs.
Stands(l, a) ==
    /\ ShapeOf(store[a])
    /\ \A p \in Part : Right(hand[a][p].want) /\ Right(hand[a][p].acts)
    /\ Active(a) = Active(l) => Phase(a) <= Phase(l)
    /\ Active(a) # Active(l) \/ Phase(l) = LastStep + 1 => Settled(a)
    /\ Plans(l, a, decided[a])

InStep(l) ==
    /\ \A a \in Agent : Stands(l, a)
    /\ \A a, b \in Agent : Reports(b, told[a][b]) /\ Reports(b, onway[a][b])

LEMMA PhaseIs ==
    ASSUME NEW z \in ZoneSerials, ShapeOf(z)
    PROVE  /\ Reconciling(z) <=> z.from # NoSerial
           /\ PhaseOf(Reconciling(z), z.step) \in {0, LastStep, LastStep + 1}
           /\ PhaseOf(Reconciling(z), z.step) = IF z.from # NoSerial THEN z.step ELSE LastStep + 1
           /\ z.step <= PhaseOf(Reconciling(z), z.step)
BY DEF ShapeOf, Reconciling, PhaseOf, LastStep, NoStep, ZoneSerials

LEMMA Phases ==
    ASSUME TypeOK, NEW l \in Agent, InStep(l), NEW a \in Agent
    PROVE  /\ Phase(a) \in {0, LastStep, LastStep + 1}
           /\ Phase(a) = IF store[a].from # NoSerial THEN store[a].step ELSE LastStep + 1
           /\ Reconciling(store[a]) <=> store[a].from # NoSerial
BY ByName, PhaseIs DEF InStep, Stands, Phase

\* What an agent hands its parts at rest, or at the last step, is its active
\* serial's lists.
LEMMA HandOverRight ==
    ASSUME NEW z \in ZoneSerials, z.active # NoSerial, ShapeOf(z), NEW p \in Part, NEW h \in Hand
    PROVE  LET g == HandOverToPart(z, p, h)
           IN /\ g \in Hand /\ g.acts = h.acts /\ g.held = h.held
              /\ Right(g.want)
              /\ z.from = NoSerial \/ z.step = LastStep => g.want.sets = Lists[z.active]
<1> DEFINE w == WantedHandover(z)
<1>1. w \in Handover /\ z # NoSerials /\ ~z.pending
  BY WantedType DEF NoSerials, ShapeOf
<1>2. /\ Right(w)
      /\ z.from = NoSerial \/ z.step = LastStep => w.sets = Lists[z.active]
  BY DEF WantedHandover, Right, ShapeOf, LastStep, NoStep
<1> HIDE DEF w
<1>3. HandOverToPart(z, p, h) = [h EXCEPT !.want = w]
  BY <1>1 DEF HandOverToPart, w
<1> QED
  BY <1>1, <1>2, <1>3 DEF Hand

LEMMA UpdateActs ==
    ASSUME TypeOK, NEW a \in Agent, NEW z \in ZoneSerials, z.active # NoSerial, ShapeOf(z), Update(a, z)
    PROVE  /\ \A b \in Agent : store'[b] = IF b = a THEN z ELSE store[b]
           /\ \A b \in Agent : b # a => hand'[b] = hand[b]
           /\ \A p \in Part : hand'[a][p].acts = hand[a][p].acts /\ Right(hand'[a][p].want)
           /\ (z.from = NoSerial \/ z.step = LastStep) /\ ActBy(a, z.active) => ActBy(a, z.active)'
<1> DEFINE said(p) == HandOverToPart(z, p, hand[a][p])
           again(p) == p = "signer" /\ SaysAgain(store[a], z)
           now(p) == IF again(p) THEN [said(p) EXCEPT !.held = NoHandover] ELSE said(p)
<1>1. hand \in [Agent -> [Part -> Hand]] /\ store \in [Agent -> ZoneSerials]
  BY DEF TypeOK, Hand
<1>2. \A p \in Part :
        /\ said(p) \in Hand /\ said(p).acts = hand[a][p].acts /\ Right(said(p).want)
        /\ z.from = NoSerial \/ z.step = LastStep => said(p).want.sets = Lists[z.active]
  BY ByName, HandOverRight
<1>3. hand' = [hand EXCEPT ![a] = [p \in Part |-> now(p)]]
  BY DEF Update
<1> HIDE DEF said, again
<1>4. \A p \in Part :
        /\ now(p).acts = hand[a][p].acts /\ Right(now(p).want)
        /\ z.from = NoSerial \/ z.step = LastStep => now(p).want.sets = Lists[z.active]
  BY <1>2 DEF Hand
<1> HIDE DEF now
<1>5. /\ \A p \in Part : hand'[a][p] = now(p)
      /\ \A b \in Agent : b # a => hand'[b] = hand[b]
  BY <1>1, <1>3
<1>6. \A b \in Agent : store'[b] = IF b = a THEN z ELSE store[b]
  BY <1>1 DEF Update
<1>7. (z.from = NoSerial \/ z.step = LastStep) /\ ActBy(a, z.active) => ActBy(a, z.active)'
  BY <1>4, <1>5 DEF ActBy
<1> QED
  BY <1>4, <1>5, <1>6, <1>7

\* An agent whose parts are known to hold its last step is settled.
LEMMA HeldIsSettled ==
    ASSUME TypeOK, NEW l \in Agent, Together(l), InStep(l), NEW a \in Agent,
           Reconciling(store[a]), store[a].step = LastStep, PartsHold(a)
    PROVE  Settled(a)
<1>1. Phase(a) >= LastStep
  BY DEF Phase, PhaseOf, LastStep
<1>2. ASSUME NEW p \in Part
      PROVE  /\ hand[a][p].acts # NoHandover /\ hand[a][p].acts.sets = Lists[Active(a)]
             /\ hand[a][p].want.sets = Lists[Active(a)]
  <2> DEFINE h == hand[a][p]
  <2>1. h.want = h.held /\ h.want.serial = store[a].active /\ h.want.step = LastStep
    BY DEF PartsHold
  <2>2. h.want # NoHandover
    BY <2>1 DEF NoHandover, NoStep, LastStep
  <2>3. h.held \in {NoHandover, h.acts} /\ Right(h.want)
    BY DEF Together, KnownIsActedBy, InStep, Stands
  <2>4. h.acts = h.want
    BY <2>1, <2>2, <2>3
  <2> QED
    BY <2>1, <2>2, <2>3, <2>4 DEF Right, Active
<1> QED
  BY <1>1, <1>2 DEF Settled, ActBy

\* What a stamp says of the step is true when it is built.
LEMMA OwnReports ==
    ASSUME TypeOK, NEW l \in Agent, Together(l), InStep(l), NEW b \in Agent
    PROVE  Reports(b, OwnStamp(b))
<1> DEFINE z == store[b]
           st == OwnStamp(b)
<1>1. st # NoStamp =>
        /\ st.active = z.active /\ st.reconciling = Reconciling(z) /\ st.step = z.step
        /\ st.sets = z.sets /\ st.stepHeld = (z.sets # NoSets /\ PartsHold(b))
  BY DEF OwnStamp
<1>2. ShapeOf(z) /\ (Reconciling(z) <=> z.from # NoSerial)
  BY Phases DEF InStep, Stands
<1>3. Phase(b) \in Int /\ Phase(b) = PhaseOf(Reconciling(z), z.step)
  BY Phases DEF Phase, LastStep
<1> HIDE DEF st
<1>4. st # NoStamp /\ st.reconciling /\ st.stepHeld /\ st.step = LastStep => Settled(b)
  BY <1>1, HeldIsSettled
<1>5. Reports(b, st)
  BY <1>1, <1>2, <1>3, <1>4 DEF Reports, ShapeOf, LastStep
<1> QED
  BY <1>5 DEF st

\* The serials stay, the steps go no way back, and what is settled stays so.
LEMMA Rises ==
    ASSUME TypeOK, TypeOK', NEW l \in Agent, InStep(l),
           \A b \in Agent :
             /\ Active(b)' = Active(b)
             /\ Phase(b) <= Phase(b)'
             /\ Settled(b) => Settled(b)'
             /\ ShapeOf(store'[b])
             /\ \A p \in Part : Right(hand'[b][p].want) /\ Right(hand'[b][p].acts)
             /\ Active(b) = Active(l) => Phase(b)' <= Phase(l)'
             /\ \/ decided'[b] = NoDecision
                \/ /\ decided'[b] = decided[b]
                   /\ store'[b].from = store[b].from /\ store'[b].step = store[b].step,
           Phase(l)' = LastStep + 1 => Phase(l) = LastStep + 1 \/ \A b \in Agent : Settled(b),
           \A a, b \in Agent : /\ told'[a][b] \in {told[a][b], onway[a][b], NoStamp}
                               /\ onway'[a][b] \in {onway[a][b], OwnStamp(b), NoStamp},
           \A b \in Agent : Reports(b, OwnStamp(b))
    PROVE  InStep(l)'
<1>1. \A b \in Agent : Phase(b) \in {0, 1, 2} /\ Phase(b)' \in {0, 1, 2} /\ Phase(b) <= Phase(b)'
  <2>1. ASSUME NEW b \in Agent PROVE Phase(b)' \in {0, LastStep, LastStep + 1}
    <3>1. PICK z \in ZoneSerials : z = store'[b]
      BY DEF TypeOK
    <3>2. PhaseOf(Reconciling(z), z.step) \in {0, LastStep, LastStep + 1}
      BY <3>1, PhaseIs
    <3> QED
      BY <3>1, <3>2 DEF Phase, PhaseOf, Reconciling
  <2> QED
    BY <2>1, Phases DEF LastStep
<1>2. ASSUME NEW b \in Agent, NEW st \in InstrStamp, Reports(b, st) PROVE Reports(b, st)'
  <2>1. PhaseOf(st.reconciling, st.step) \in Int
    BY DEF PhaseOf, InstrStamp, Step, LastStep, NoStep
  <2> QED
    BY <1>1, <1>2, <2>1 DEF Reports
<1>3. \A b \in Agent : Reports(b, NoStamp)
  BY DEF Reports
<1>4. \A a, b \in Agent : (Reports(b, told[a][b]) /\ Reports(b, onway[a][b]))'
  <2> SUFFICES ASSUME NEW a \in Agent, NEW b \in Agent
               PROVE  (Reports(b, told[a][b]) /\ Reports(b, onway[a][b]))'
    OBVIOUS
  <2>1. PICK st \in InstrStamp : st = told'[a][b]
    BY DEF TypeOK
  <2>2. PICK su \in InstrStamp : su = onway'[a][b]
    BY DEF TypeOK
  <2>3. Reports(b, st) /\ Reports(b, su)
    BY <1>3, <2>1, <2>2 DEF InStep
  <2>4. Reports(b, st)' /\ Reports(b, su)'
    BY <1>2, <2>3
  <2> QED
    BY <2>1, <2>2, <2>4 DEF Reports
<1>5. ASSUME NEW a \in Agent PROVE Plans(l, a, decided[a])'
  <2>1. CASE decided'[a] = NoDecision
    <3>1. decided'[a].rule = "none"
      BY <2>1 DEF NoDecision
    <3> QED
      BY <3>1 DEF Plans
  <2>2. CASE /\ decided'[a] = decided[a]
             /\ store'[a].from = store[a].from /\ store'[a].step = store[a].step
    <3>1. PICK d \in Decision : d = decided[a]
      BY DEF TypeOK
    <3>2. Plans(l, a, d)
      BY <3>1 DEF InStep, Stands
    <3>3. d.step \in Int
      BY DEF Decision, Step, NoStep, LastStep
    <3>4. Plans(l, a, d)'
      BY <1>1, <2>2, <3>2, <3>3 DEF Plans, LastStep
    <3> QED
      BY <2>2, <3>1, <3>4 DEF Plans
  <2> QED
    BY <2>1, <2>2
<1>6. ASSUME NEW a \in Agent, Active(a) # Active(l) \/ Phase(l)' = LastStep + 1 PROVE Settled(a)'
  BY <1>6 DEF InStep, Stands
<1> QED
  BY <1>4, <1>5, <1>6 DEF InStep, Stands

\* A change of one agent's serials that leaves its active serial and goes on
\* in its steps.
LEMMA MovesOn ==
    ASSUME TypeOK, TypeOK', NEW l \in Agent, Together(l), InStep(l),
           NEW a \in Agent, NEW z \in ZoneSerials, Update(a, z),
           z.active = store[a].active, ShapeOf(z),
           Phase(a) <= PhaseOf(Reconciling(z), z.step),
           a # l /\ Active(a) = Active(l) => PhaseOf(Reconciling(z), z.step) <= Phase(l),
           a = l /\ PhaseOf(Reconciling(z), z.step) = LastStep + 1
             => Phase(l) = LastStep + 1 \/ \A b \in Agent : Settled(b),
           \/ decided'[a] = NoDecision
           \/ decided'[a] = decided[a] /\ z.from = store[a].from /\ z.step = store[a].step,
           \A b \in Agent : b # a => decided'[b] = decided[b],
           told' = told, onway' = onway
    PROVE  InStep(l)'
<1> DEFINE f == PhaseOf(Reconciling(z), z.step)
<1>1. /\ f \in {0, 1, 2} /\ f = IF z.from # NoSerial THEN z.step ELSE LastStep + 1
      /\ \A b \in Agent : Phase(b) \in {0, 1, 2}
  BY PhaseIs, Phases DEF LastStep
<1>2. z.active # NoSerial
  BY DEF Together, Follows
<1>3. /\ \A b \in Agent : store'[b] = IF b = a THEN z ELSE store[b]
      /\ \A b \in Agent : b # a => hand'[b] = hand[b]
      /\ \A p \in Part : hand'[a][p].acts = hand[a][p].acts /\ Right(hand'[a][p].want)
      /\ (z.from = NoSerial \/ z.step = LastStep) /\ ActBy(a, z.active) => ActBy(a, z.active)'
  BY <1>2, UpdateActs
<1>4. /\ \A b \in Agent : Active(b)' = Active(b) /\ (b # a => Phase(b)' = Phase(b))
      /\ Phase(a)' = f
  BY <1>3 DEF Active, Phase
<1> HIDE DEF f
<1>5. ASSUME NEW b \in Agent, Settled(b) PROVE Settled(b)'
  <2>1. CASE b = a
    <3>1. f >= LastStep
      BY <1>1, <1>5, <2>1 DEF Settled, LastStep, f
    <3>2. z.from = NoSerial \/ z.step = LastStep
      BY <1>1, <3>1 DEF ShapeOf, LastStep
    <3>3. ActBy(a, z.active)'
      BY <1>3, <1>5, <2>1, <3>2 DEF Settled, Active
    <3>4. Active(a)' = z.active
      BY <1>3 DEF Active
    <3> QED
      BY <1>4, <2>1, <3>1, <3>3, <3>4 DEF Settled, ActBy
  <2>2. CASE b # a
    BY <1>3, <1>4, <1>5, <2>2 DEF Settled, ActBy
  <2> QED
    BY <2>1, <2>2
<1>6. \A b \in Agent : ShapeOf(store'[b])
  BY <1>3 DEF InStep, Stands
<1>7. \A b \in Agent : \A p \in Part : Right(hand'[b][p].want) /\ Right(hand'[b][p].acts)
  BY <1>3 DEF InStep, Stands, Right
<1>8. \A b \in Agent : Phase(b) <= Phase(b)' /\ (Active(b) = Active(l) => Phase(b)' <= Phase(l)')
  <2>1. \A b \in Agent : Active(b) = Active(l) => Phase(b) <= Phase(l)
    BY DEF InStep, Stands
  <2> QED
    BY <1>1, <1>4, <2>1 DEF f
<1>9. Phase(l)' = LastStep + 1 => Phase(l) = LastStep + 1 \/ \A b \in Agent : Settled(b)
  BY <1>4 DEF f
<1>10. \A b \in Agent :
         \/ decided'[b] = NoDecision
         \/ /\ decided'[b] = decided[b]
            /\ store'[b].from = store[b].from /\ store'[b].step = store[b].step
  BY <1>3
<1>11. \A b \in Agent : Reports(b, OwnStamp(b))
  BY OwnReports
<1> QED
  BY <1>4, <1>5, <1>6, <1>7, <1>8, <1>9, <1>10, <1>11, Rises

\* Where no serials change.
LEMMA StaysInStep ==
    ASSUME TypeOK, TypeOK', NEW l \in Agent, Together(l), InStep(l), store' = store,
           \A b \in Agent : ActBy(b, Active(b)) => ActBy(b, Active(b))',
           \A b \in Agent : \A p \in Part : Right(hand'[b][p].want) /\ Right(hand'[b][p].acts),
           \A b \in Agent : decided'[b] \in {decided[b], NoDecision},
           \A a, b \in Agent : /\ told'[a][b] \in {told[a][b], onway[a][b], NoStamp}
                               /\ onway'[a][b] \in {onway[a][b], OwnStamp(b), NoStamp}
    PROVE  InStep(l)'
<1>1. \A b \in Agent : Active(b)' = Active(b) /\ Phase(b)' = Phase(b)
  BY DEF Active, Phase
<1>2. \A b \in Agent : Phase(b) \in {0, 1, 2}
  BY Phases DEF LastStep
<1>3. \A b \in Agent : Settled(b) => Settled(b)'
  BY <1>1 DEF Settled
<1>4. \A b \in Agent : Reports(b, OwnStamp(b))
  BY OwnReports
<1>5. \A b \in Agent : /\ ShapeOf(store'[b])
                       /\ Active(b) = Active(l) => Phase(b)' <= Phase(l)'
                       /\ Phase(b) <= Phase(b)'
  BY <1>1, <1>2 DEF InStep, Stands
<1> QED
  BY <1>1, <1>3, <1>4, <1>5, Rises

LEMMA HearsInStep ==
    ASSUME TypeOK, TypeOK', NEW l \in Agent, Together(l), InStep(l), NEW a \in Agent, Hears(a)
    PROVE  InStep(l)'
<1>1. store[a] \in ZoneSerials /\ ShapeOf(store[a])
  BY ByName DEF InStep, Stands
<1>2. ASSUME NEW z \in ZoneSerials, Update(a, z), UNCHANGED <<told, onway, decided>>,
             z.active = store[a].active, z.from = store[a].from, z.step = store[a].step,
             z.sets = store[a].sets, z.pending = store[a].pending
      PROVE  InStep(l)'
  <2>1. ShapeOf(z)
    BY <1>1, <1>2 DEF ShapeOf
  <2>2. PhaseOf(Reconciling(z), z.step) = Phase(a)
    BY <1>2 DEF Phase, Reconciling
  <2>3. \A b \in Agent : Phase(b) \in {0, 1, 2} /\ (Active(b) = Active(l) => Phase(b) <= Phase(l))
    BY Phases DEF InStep, Stands, LastStep
  <2> QED
    BY <1>2, <2>1, <2>2, <2>3, MovesOn
<1>3. ASSUME NEW s \in Serial, Note(a, s) PROVE InStep(l)'
  <2> DEFINE z == [store[a] EXCEPT !.held = @ \cup {s}, !.error = FALSE]
  <2>1. /\ z \in ZoneSerials /\ z.active = store[a].active /\ z.from = store[a].from
        /\ z.step = store[a].step /\ z.sets = store[a].sets /\ z.pending = store[a].pending
    BY <1>1 DEF ZoneSerials
  <2>2. Update(a, z) /\ UNCHANGED <<told, onway, decided>>
    BY <1>3 DEF Note
  <2> HIDE DEF z
  <2> QED
    BY <1>2, <2>1, <2>2
<1>4. CASE NoteUnreadable(a)
  <2> DEFINE z == [store[a] EXCEPT !.error = TRUE]
  <2>1. /\ z \in ZoneSerials /\ z.active = store[a].active /\ z.from = store[a].from
        /\ z.step = store[a].step /\ z.sets = store[a].sets /\ z.pending = store[a].pending
    BY <1>1 DEF ZoneSerials
  <2>2. Update(a, z) /\ UNCHANGED <<told, onway, decided>>
    BY <1>4 DEF NoteUnreadable
  <2> HIDE DEF z
  <2> QED
    BY <1>2, <2>1, <2>2
<1>5. ASSUME NEW b \in Others(a), NEW s \in Serial, FetchInstructions(a, b, s) PROVE InStep(l)'
  <2> DEFINE z == [store[a] EXCEPT !.held = @ \cup {s}]
  <2>1. /\ z \in ZoneSerials /\ z.active = store[a].active /\ z.from = store[a].from
        /\ z.step = store[a].step /\ z.sets = store[a].sets /\ z.pending = store[a].pending
    BY <1>1 DEF ZoneSerials
  <2>2. Update(a, z) /\ UNCHANGED <<told, onway, decided>>
    BY <1>5 DEF FetchInstructions
  <2> HIDE DEF z
  <2> QED
    BY <1>2, <2>1, <2>2
<1>6. ASSUME NEW b \in Others(a), SendBeat(a, b) \/ KeepStamp(a, b) PROVE InStep(l)'
  <2>1. b \in Agent
    BY DEF Others
  <2>2. /\ told \in [Agent -> [Agent -> InstrStamp]] /\ onway \in [Agent -> [Agent -> InstrStamp]]
        /\ store' = store /\ decided' = decided /\ hand' = hand
    BY <1>6 DEF SendBeat, KeepStamp, TypeOK
  <2>3. \A c, d \in Agent : /\ told'[c][d] \in {told[c][d], onway[c][d], NoStamp}
                            /\ onway'[c][d] \in {onway[c][d], OwnStamp(d), NoStamp}
    BY <1>6, <2>1, <2>2 DEF SendBeat, KeepStamp
  <2>4. \A c \in Agent : (ActBy(c, Active(c)) => ActBy(c, Active(c))')
    BY <2>2 DEF ActBy, Active
  <2>5. \A c \in Agent : \A p \in Part : Right(hand'[c][p].want) /\ Right(hand'[c][p].acts)
    BY <2>2 DEF InStep, Stands
  <2> QED
    BY <2>2, <2>3, <2>4, <2>5, StaysInStep
<1> QED
  BY <1>3, <1>4, <1>5, <1>6 DEF Hears

LEMMA OutsideInStep ==
    ASSUME TypeOK, TypeOK', NEW l \in Agent, Together(l), InStep(l), Remembers,
           NEW a \in Agent, Outside(a)
    PROVE  InStep(l)'
<1>1. /\ store[a] \in ZoneSerials /\ store[a].active # NoSerial /\ ShapeOf(store[a])
      /\ hand \in [Agent -> [Part -> Hand]]
      /\ \A b \in Agent, p \in Part : Right(hand[b][p].want) /\ Right(hand[b][p].acts)
  BY ByName DEF Together, Follows, TypeOK, Hand, InStep, Stands
<1>2. CASE Refresh(a)
  <2> DEFINE said(p) == HandOverToPart(store[a], p, hand[a][p])
  <2>1. \A p \in Part :
          /\ said(p).acts = hand[a][p].acts /\ Right(said(p).want)
          /\ store[a].from = NoSerial \/ store[a].step = LastStep => said(p).want.sets = Lists[Active(a)]
    BY <1>1, ByName, HandOverRight DEF Active
  <2>2. /\ hand' = [hand EXCEPT ![a] = [p \in Part |-> said(p)]]
        /\ UNCHANGED <<store, told, onway, decided>>
    BY <1>2 DEF Refresh
  <2> HIDE DEF said
  <2>3. /\ \A p \in Part : hand'[a][p] = said(p)
        /\ \A b \in Agent : b # a => hand'[b] = hand[b]
    BY <1>1, <2>2
  <2>4. \A b \in Agent : Active(b)' = Active(b) /\ Phase(b)' = Phase(b)
    BY <2>2 DEF Active, Phase
  <2>5. \A b \in Agent : \A p \in Part : Right(hand'[b][p].want) /\ Right(hand'[b][p].acts)
    BY <1>1, <2>1, <2>3
  <2>6. ASSUME NEW b \in Agent, Settled(b) PROVE Settled(b)'
    <3>1. CASE b = a
      <4>1. store[a].from = NoSerial \/ store[a].step = LastStep
        BY <1>1, <2>6, <3>1, Phases DEF Settled, ShapeOf, LastStep
      <4> QED
        BY <2>1, <2>3, <2>4, <2>6, <3>1, <4>1 DEF Settled, ActBy
    <3>2. CASE b # a
      BY <2>3, <2>4, <2>6, <3>2 DEF Settled, ActBy
    <3> QED
      BY <3>1, <3>2
  <2>7. \A b \in Agent : /\ Phase(b) <= Phase(b)' /\ ShapeOf(store'[b])
                         /\ Active(b) = Active(l) => Phase(b)' <= Phase(l)'
    <3>1. \A b \in Agent : Phase(b) \in {0, 1, 2}
      BY Phases DEF LastStep
    <3> QED
      BY <2>2, <2>4, <3>1 DEF InStep, Stands
  <2>8. \A b \in Agent : Reports(b, OwnStamp(b))
    BY OwnReports
  <2> QED
    BY <2>2, <2>4, <2>5, <2>6, <2>7, <2>8, Rises
<1>3. ASSUME NEW p \in Part, PartConfirms(a, p) PROVE InStep(l)'
  <2> DEFINE h == hand[a][p]
             acts == IF h.want = NoHandover \/ OlderThan(h.want, h.acts) THEN h.acts ELSE h.want
             known == [h EXCEPT !.acts = acts, !.held = acts]
  <2>1. h \in Hand
    BY ByName
  <2>2. /\ known.acts = h.acts \/ (known.acts = h.want /\ h.want # NoHandover)
        /\ known.want = h.want
    BY <2>1 DEF Hand
  <2>3. hand' = [hand EXCEPT ![a][p] = known]
    BY <1>1, <1>3 DEF PartConfirms, Knows, Active
  <2>4. UNCHANGED <<store, told, onway, decided>>
    BY <1>3 DEF PartConfirms
  <2> HIDE DEF known, acts
  <2>5. \A b \in Agent, q \in Part : hand'[b][q] = IF b = a /\ q = p THEN known ELSE hand[b][q]
    BY <1>1, <2>3
  <2>6. \A b \in Agent : \A q \in Part : Right(hand'[b][q].want) /\ Right(hand'[b][q].acts)
    BY <1>1, <2>2, <2>5
  <2>7. \A b \in Agent : ActBy(b, Active(b)) => ActBy(b, Active(b))'
    BY <2>2, <2>4, <2>5 DEF ActBy, Active
  <2> QED
    BY <2>4, <2>6, <2>7, StaysInStep
<1>4. CASE RolloverStarts(a) \/ RolloverEnds(a)
  <2>1. UNCHANGED <<store, told, onway, decided, hand>>
    BY <1>4 DEF RolloverStarts, RolloverEnds
  <2>2. \A b \in Agent : ActBy(b, Active(b)) => ActBy(b, Active(b))'
    BY <2>1 DEF ActBy, Active
  <2>3. \A b \in Agent : \A p \in Part : Right(hand'[b][p].want) /\ Right(hand'[b][p].acts)
    BY <1>1, <2>1
  <2> QED
    BY <2>1, <2>2, <2>3, StaysInStep
<1>5. CASE Restart(a)
  <2> DEFINE empty(p) == [hand[a][p] EXCEPT !.want = NoHandover, !.held = NoHandover]
  <2>1. /\ store' = store /\ onway' = onway
        /\ told' = [told EXCEPT ![a] = [b \in Agent |-> NoStamp]]
        /\ decided' = [decided EXCEPT ![a] = NoDecision]
        /\ hand' = [hand EXCEPT ![a] = [p \in Part |-> empty(p)]]
    BY <1>5 DEF Restart, Forgets
  <2>2. \A p \in Part : empty(p).acts = hand[a][p].acts /\ empty(p).want = NoHandover
    BY ByName DEF Hand
  <2> HIDE DEF empty
  <2>3. /\ \A p \in Part : hand'[a][p] = empty(p)
        /\ \A b \in Agent : b # a => hand'[b] = hand[b]
    BY <1>1, <2>1
  <2>4. \A b \in Agent : ActBy(b, Active(b)) => ActBy(b, Active(b))'
    BY <2>1, <2>2, <2>3 DEF ActBy, Active
  <2>5. \A b \in Agent : \A p \in Part : Right(hand'[b][p].want) /\ Right(hand'[b][p].acts)
    BY <1>1, <2>2, <2>3 DEF Right, NoHandover, NoStep, LastStep
  <2>6. \A b \in Agent : decided'[b] \in {decided[b], NoDecision}
    BY <2>1 DEF TypeOK
  <2>7. \A b, c \in Agent : told'[b][c] \in {told[b][c], NoStamp}
    BY <2>1 DEF TypeOK
  <2> QED
    BY <2>1, <2>4, <2>5, <2>6, <2>7, StaysInStep
<1>6. ~LoseStore(a)
  BY DEF LoseStore, Occurs, Remembers
<1> QED
  BY <1>2, <1>3, <1>4, <1>5, <1>6 DEF Outside

\* A decision that fits the steps as they are.
LEMMA Planned ==
    ASSUME TypeOK, NEW l \in Agent, InStep(l), NEW a \in Agent, NEW d, Decide(a, d), Plans(l, a, d)
    PROVE  InStep(l)'
<1>1. UNCHANGED <<store, told, onway, hand>>
  BY DEF Decide
<1>2. \A b \in Agent : decided'[b] = IF b = a THEN d ELSE decided[b]
  BY DEF Decide, TypeOK
<1>3. \A b \in Agent : /\ Active(b)' = Active(b) /\ Phase(b)' = Phase(b)
                       /\ Settled(b)' = Settled(b)
  BY <1>1 DEF Active, Phase, Settled, ActBy
<1>4. ASSUME NEW b \in Agent PROVE Plans(l, b, decided[b])'
  <2>1. PICK e : e = decided'[b]
    OBVIOUS
  <2>2. Plans(l, b, e)
    BY <1>2, <2>1 DEF InStep, Stands
  <2>3. Plans(l, b, e)'
    BY <1>1, <1>3, <2>2 DEF Plans
  <2> QED
    BY <2>1, <2>3 DEF Plans
<1>5. \A b, c \in Agent : (Reports(c, told[b][c]) /\ Reports(c, onway[b][c]))'
  <2> SUFFICES ASSUME NEW b \in Agent, NEW c \in Agent
               PROVE  (Reports(c, told[b][c]) /\ Reports(c, onway[b][c]))'
    OBVIOUS
  <2>1. Reports(c, told[b][c]) /\ Reports(c, onway[b][c])
    BY DEF InStep
  <2> QED
    BY <1>1, <1>3, <2>1 DEF Reports
<1> QED
  BY <1>1, <1>3, <1>4, <1>5 DEF InStep, Stands

LEMMA StampNumbers == \A st \in InstrStamp : st.active \in Nat /\ st.step \in Int
<1> SUFFICES ASSUME NEW st \in InstrStamp PROVE st.active \in Nat /\ st.step \in Int
  OBVIOUS
<1>1. st.active \in SerialOrNone /\ st.step \in Step
  BY DEF InstrStamp
<1>2. st.active \in Nat
  BY <1>1, Numbers
<1>3. st.step \in Int
  BY <1>1 DEF Step, NoStep, LastStep
<1> QED
  BY <1>2, <1>3

\* A turn decides what fits: the leader hears of every part before it goes
\* on, and another goes no further than it hears of the leader.
LEMMA PlanFits ==
    ASSUME TypeOK, NEW l \in Agent, Leads \subseteq {l}, Together(l), InStep(l), NEW a \in Agent
    PROVE  /\ DecideThaw(a) => InStep(l)'
           /\ TakeStep(a) \/ LeaderDone(a) => InStep(l)'
           /\ \A b \in Others(a) :
                ActivateOnTellings(a, b) \/ AdoptStep(a, b) \/ FollowStep(a, b) => InStep(l)'
<1>1. \A b \in Agent : /\ Tells(l, b, told[a][b]) /\ Reports(b, told[a][b])
                       /\ told[a][b] \in InstrStamp /\ told[a][b].active \in Nat
                       /\ told[a][b].step \in Int
                       /\ PhaseOf(told[a][b].reconciling, told[a][b].step) \in Int
  <2>1. \A b \in Agent : told[a][b] \in InstrStamp
    BY ByName
  <2>2. \A b \in Agent : told[a][b].active \in Nat /\ told[a][b].step \in Int
    BY <2>1, StampNumbers
  <2>3. \A b \in Agent : PhaseOf(told[a][b].reconciling, told[a][b].step) \in Int
    BY <2>2 DEF PhaseOf, LastStep
  <2>4. \A b \in Agent : Tells(l, b, told[a][b]) /\ Reports(b, told[a][b])
    BY DEF Together, InStep
  <2> QED
    BY <2>1, <2>2, <2>3, <2>4
<1>2. /\ \A b \in Agent : Active(b) \in Nat /\ Active(b) # NoSerial /\ Active(b) <= Active(l)
      /\ Active(l) \in Nat /\ Active(a) \in Serial
  BY TwoSerials, Numbers
<1>3. /\ \A b \in Agent : /\ Phase(b) \in {0, 1, 2} /\ (Active(b) = Active(l) => Phase(b) <= Phase(l))
                          /\ Phase(b) = IF store[b].from # NoSerial THEN store[b].step ELSE 2
                          /\ (Reconciling(store[b]) <=> store[b].from # NoSerial)
                          /\ ShapeOf(store[b])
      /\ store[a].step \in Int
  BY Phases, ByName DEF InStep, Stands, LastStep, ZoneSerials, Step, NoStep
<1>4. NoStamp.active = NoSerial /\ \A b \in Others(a) : b \in Agent
  BY DEF NoStamp, Others
\* What a member tells of the serial it and the leader are at.
<1>5. ASSUME NEW b \in Others(a), told[a][b].active = Active(a)
      PROVE  /\ told[a][b] # NoStamp
             /\ Active(a) = Active(l) => Active(b) = Active(l)
             /\ Active(b) = Active(a) =>
                  PhaseOf(told[a][b].reconciling, told[a][b].step) <= Phase(b)
  <2>1. told[a][b] # NoStamp
    BY <1>2, <1>4, <1>5
  <2>2. told[a][b].active <= Active(b)
    BY <1>1, <1>4, <2>1 DEF Tells
  <2>3. PhaseOf(told[a][b].reconciling, told[a][b].step) <= Phase(b) \/ Active(b) # Active(a)
    BY <1>1, <1>4, <1>5, <2>1 DEF Reports
  <2> QED
    BY <1>2, <1>4, <1>5, <2>1, <2>2, <2>3
<1>6. ASSUME DecideThaw(a) PROVE InStep(l)'
  <2> DEFINE d == [NoDecision EXCEPT !.rule = "thaw",
                     !.thaw = [from |-> store[a].active, to |-> Agreeing(store[a])]]
  <2>1. Decide(a, d) /\ d.rule = "thaw" /\ ~Reconciling(store[a]) /\ a = l
    BY <1>6 DEF DecideThaw, ThawReady, NoDecision
  <2> HIDE DEF d
  <2>2. Plans(l, a, d)
    BY <1>3, <2>1 DEF Plans, LastStep
  <2> QED
    BY <2>1, <2>2, Planned
<1>7. ASSUME TakeStep(a) PROVE InStep(l)'
  <2> DEFINE d == [NoDecision EXCEPT !.rule = "step", !.to = store[a].active, !.step = LastStep,
                     !.sets = Lists[store[a].active]]
  <2>1. /\ Decide(a, d) /\ d.rule = "step" /\ d.to = Active(a) /\ d.step = LastStep
        /\ d.sets = Lists[Active(a)]
    BY <1>7 DEF TakeStep, DecideStep, NoDecision, Active
  <2>2. store[a].from # NoSerial /\ a = l /\ store[a].step <= LastStep
    BY <1>3, <1>7 DEF TakeStep, MayLeadOn, InReconciliation, ShapeOf, LastStep
  <2>3. Lists[Active(a)] # NoSets
    BY <1>2, Numbers
  <2> HIDE DEF d
  <2>4. Plans(l, a, d)
    BY <2>1, <2>2, <2>3 DEF Plans
  <2> QED
    BY <2>1, <2>4, Planned
<1>8. ASSUME LeaderDone(a) PROVE InStep(l)'
  <2> DEFINE d == [NoDecision EXCEPT !.rule = "done"]
  <2>1. /\ d.rule = "done" /\ Decide(a, d) /\ a = l /\ StepHeldByAll(a)
        /\ Reconciling(store[a]) /\ store[a].step = LastStep
    BY <1>8 DEF LeaderDone, DecideDone, NoDecision, MayLeadOn, InReconciliation
  <2>2. Settled(a)
    BY <2>1, HeldIsSettled DEF StepHeldByAll
  <2>3. ASSUME NEW b \in Others(a) PROVE Settled(b)
    <3>1. told[a][b].active = Active(a) /\ HoldsStep(a, told[a][b])
      BY <2>1 DEF StepHeldByAll, HoldsStep, Active
    <3>2. told[a][b] # NoStamp /\ Active(b) = Active(l)
      BY <1>5, <2>1, <3>1
    <3>3. Phase(b) <= 1 /\ PhaseOf(told[a][b].reconciling, told[a][b].step) <= Phase(b)
      BY <1>3, <1>4, <1>5, <2>1, <3>1, <3>2 DEF LastStep
    <3>4. told[a][b].reconciling
      BY <1>3, <1>4, <3>3 DEF PhaseOf, LastStep
    <3>5. told[a][b].stepHeld /\ told[a][b].step = LastStep
      BY <2>1, <3>1, <3>4 DEF HoldsStep
    <3> QED
      BY <1>1, <1>4, <2>1, <3>1, <3>2, <3>4, <3>5 DEF Reports
  <2> HIDE DEF d
  <2>4. Plans(l, a, d)
    BY <2>1, <2>2, <2>3 DEF Plans, Others
  <2> QED
    BY <2>1, <2>4, Planned
<1>9. ASSUME NEW b \in Others(a), ActivateOnTellings(a, b) PROVE InStep(l)'
  <2> DEFINE d == [NoDecision EXCEPT !.rule = "thaw", !.thaw = told[a][b].thaw]
  <2>1. d.rule = "thaw" /\ Decide(a, d)
    BY <1>9 DEF ActivateOnTellings, NoDecision
  <2>2. a # l
    <3>1. told[a][b].active > Active(a)
      BY <1>9 DEF ActivateOnTellings, Active
    <3>2. told[a][b] # NoStamp
      BY <1>2, <1>4, <3>1 DEF NoSerial
    <3>3. told[a][b].active <= Active(b)
      BY <1>1, <1>4, <3>2 DEF Tells
    <3> QED
      BY <1>1, <1>2, <1>4, <3>1, <3>3
  <2> HIDE DEF d
  <2> QED
    BY <2>1, <2>2, Planned DEF Plans
\* The steps told of the serial a is at.
<1>10. ASSUME NEW b \in Others(a), told[a][b].active = Active(a), InReconciliation(a),
              told[a][b].reconciling,
              told[a][b].step >= store[a].step, a # l => b = l,
              DecideStep(a, told[a][b].step, told[a][b].sets)
       PROVE  InStep(l)'
  <2> DEFINE st == told[a][b]
             d == [NoDecision EXCEPT !.rule = "step", !.to = store[a].active, !.step = st.step,
                     !.sets = st.sets]
  <2>1. /\ Decide(a, d) /\ d.rule = "step" /\ d.to = Active(a) /\ d.step = st.step /\ d.sets = st.sets
    BY <1>10 DEF DecideStep, NoDecision, Active
  <2>2. /\ st.step \in {0, LastStep} /\ st.sets # NoSets
        /\ st.step = LastStep => st.sets = Lists[Active(a)]
    BY <1>1, <1>4, <1>5, <1>10 DEF Reports
  <2>3. store[a].from # NoSerial
    BY <1>3, <1>10 DEF InReconciliation
  <2>4. a # l /\ Active(a) = Active(l) => st.step <= Phase(l)
    BY <1>5, <1>10 DEF PhaseOf
  <2> HIDE DEF d
  <2>5. Plans(l, a, d)
    BY <1>3, <1>10, <2>1, <2>2, <2>3, <2>4 DEF Plans, LastStep
  <2> QED
    BY <2>1, <2>5, Planned
<1>11. ASSUME NEW b \in Others(a), FollowStep(a, b), DecideDone(a), ~told[a][b].reconciling
       PROVE  InStep(l)'
  <2> DEFINE d == [NoDecision EXCEPT !.rule = "done"]
  <2>1. d.rule = "done" /\ Decide(a, d)
    BY <1>11 DEF DecideDone, NoDecision
  <2>2. b = l /\ a # l /\ told[a][b].active = Active(a)
    BY <1>11 DEF FollowStep, Active, Others
  <2>3. Active(a) = Active(l) => Phase(l) = LastStep + 1
    BY <1>3, <1>5, <1>11, <2>2 DEF PhaseOf, LastStep
  <2> HIDE DEF d
  <2>4. Plans(l, a, d)
    BY <2>1, <2>2, <2>3 DEF Plans
  <2> QED
    BY <2>1, <2>4, Planned
\* One at rest at the leader's serial tells no step further than its.
<1>12. ASSUME NEW b \in Others(a), AdoptStep(a, b) PROVE InStep(l)'
  <2>1. /\ a = l /\ InReconciliation(a) /\ told[a][b].active = Active(a)
        /\ told[a][b].step > store[a].step /\ DecideStep(a, told[a][b].step, told[a][b].sets)
    BY <1>12 DEF AdoptStep, MayLeadOn, Further, Active
  <2>2. Active(b) = Active(l) /\ PhaseOf(told[a][b].reconciling, told[a][b].step) <= Phase(l)
    <3>1. Active(b) = Active(l) /\ Active(b) = Active(a)
      BY <1>5, <2>1
    <3>2. PhaseOf(told[a][b].reconciling, told[a][b].step) <= Phase(b) /\ Phase(b) <= Phase(l)
      BY <1>3, <1>4, <1>5, <2>1, <3>1
    <3> QED
      BY <1>1, <1>3, <1>4, <3>1, <3>2
  <2>3. store[a].from # NoSerial /\ Phase(l) = store[a].step /\ store[a].step <= 1
    BY <1>3, <2>1 DEF InReconciliation, ShapeOf, LastStep
  <2>4. told[a][b].reconciling
    BY <1>3, <2>2, <2>3 DEF PhaseOf, LastStep
  <2>5. told[a][b].step >= store[a].step
    BY <1>1, <1>3, <1>4, <2>1
  <2> QED
    BY <1>10, <2>1, <2>4, <2>5
<1>13. ASSUME NEW b \in Others(a), FollowStep(a, b) PROVE InStep(l)'
  <2>1. b = l /\ InReconciliation(a) /\ told[a][b].active = Active(a)
    BY <1>13 DEF FollowStep, Active
  <2>2. CASE ~told[a][b].reconciling /\ DecideDone(a)
    BY <1>11, <1>13, <2>2
  <2>3. CASE /\ told[a][b].reconciling /\ told[a][b].step >= store[a].step
             /\ DecideStep(a, told[a][b].step, told[a][b].sets)
    BY <1>10, <2>1, <2>3
  <2>4. told[a][b].step > store[a].step \/ told[a][b].step = store[a].step
          => told[a][b].step >= store[a].step
    BY <1>1, <1>3, <1>4
  <2> QED
    BY <1>13, <2>2, <2>3, <2>4 DEF FollowStep
<1> QED
  BY <1>6, <1>7, <1>8, <1>9, <1>12, <1>13

\* The leader thaws: all are settled at the serial it leaves.
LEMMA LeaderThawsInStep ==
    ASSUME TypeOK, NEW l \in Agent, Together(l), InStep(l), decided[l].rule = "thaw",
           MayActivate(store[l], decided[l].thaw), Update(l, Activated(store[l], decided[l].thaw)),
           decided' = [decided EXCEPT ![l] = NoDecision], UNCHANGED <<told, onway>>
    PROVE  InStep(l)'
<1> DEFINE th == decided[l].thaw
           y == store[l]
           z == Activated(y, th)
<1>1. y \in ZoneSerials /\ th \in Thaw /\ z \in ZoneSerials /\ ShapeOf(y)
  BY ByName, ActivatedType DEF Decision, InStep, Stands
<1>2. th.from = y.active /\ Active(l) = y.active /\ th.from \in Serial
  BY TwoSerials DEF Together, Decides, Active
<1>3. /\ Plans(l, l, decided[l]) /\ Phase(l) = LastStep + 1
      /\ y.from = NoSerial /\ y.step = NoStep /\ y.sets = NoSets
  <2>1. Plans(l, l, decided[l])
    BY DEF InStep, Stands
  <2>2. Phase(l) = LastStep + 1
    BY <2>1 DEF Plans
  <2>3. y.from = NoSerial
    BY <1>1, <2>2, Phases DEF ShapeOf, LastStep
  <2> QED
    BY <1>1, <2>1, <2>2, <2>3 DEF ShapeOf
<1>4. /\ z.active = th.to /\ z.from = th.from /\ z.step = 0 /\ z.sets = Lists[th.from] /\ ~z.pending
  BY <1>1, <1>2, <1>3 DEF Activated, ZoneSerials
<1>5. th.to > y.active /\ th.to \in Nat /\ y.active \in Nat /\ th.to # NoSerial
  <2>1. th.to > y.active /\ Keeps(y, th.to)
    BY DEF MayActivate
  <2>2. th.to \in SerialOrNone /\ th.to # NoSerial
    BY <1>1, <2>1 DEF Thaw, Keeps
  <2>3. y.active \in Nat
    BY <1>2, Numbers
  <2> QED
    BY <2>1, <2>2, <2>3, Numbers
<1> HIDE DEF z, th
<1>6. ShapeOf(z)
  <2>1. th.from # NoSerial /\ Lists[th.from] # NoSets
    BY <1>2, Numbers
  <2> QED
    BY <1>4, <2>1 DEF ShapeOf, LastStep
<1>7. Update(l, z)
  BY DEF z, th
<1>8. /\ \A b \in Agent : store'[b] = IF b = l THEN z ELSE store[b]
      /\ \A b \in Agent : b # l => hand'[b] = hand[b]
      /\ \A p \in Part : hand'[l][p].acts = hand[l][p].acts /\ Right(hand'[l][p].want)
  BY <1>1, <1>4, <1>5, <1>6, <1>7, UpdateActs
<1>9. \A b \in Agent : Active(b) = y.active /\ Settled(b)
  BY <1>2, <1>3, TwoSerials DEF Together, Decides, InStep, Stands
<1>10. /\ Active(l)' = th.to /\ Phase(l)' = 0
       /\ \A b \in Agent : b # l => /\ Active(b)' = y.active /\ Phase(b)' = Phase(b) /\ Settled(b)'
                                    /\ store'[b] = store[b]
  <2>1. Active(l)' = th.to /\ Phase(l)' = 0
    BY <1>4, <1>5, <1>8, <1>2, Numbers DEF Active, Phase, PhaseOf, Reconciling
  <2>2. ASSUME NEW b \in Agent, b # l
        PROVE  /\ Active(b)' = y.active /\ Phase(b)' = Phase(b) /\ Settled(b)' /\ store'[b] = store[b]
    BY <1>8, <1>9, <2>2 DEF Active, Phase, Settled, ActBy
  <2> QED
    BY <2>1, <2>2
<1>11. ASSUME NEW b \in Agent PROVE Plans(l, b, decided[b])'
  <2>1. CASE b = l
    <3>1. decided'[b].rule = "none"
      BY <2>1 DEF TypeOK, NoDecision
    <3> QED
      BY <3>1 DEF Plans
  <2>2. CASE b # l
    <3>1. decided'[b] = decided[b] /\ Plans(l, b, decided[b])
      BY <2>2 DEF TypeOK, InStep, Stands
    <3>2. Active(b)' = Active(b) /\ Active(b)' # Active(l)' /\ store'[b] = store[b]
      BY <1>5, <1>9, <1>10, <2>2
    <3> QED
      BY <2>2, <3>1, <3>2 DEF Plans
  <2> QED
    BY <2>1, <2>2
<1>12. ASSUME NEW b \in Agent, NEW st \in InstrStamp, Tells(l, b, st), Reports(b, st)
       PROVE  Reports(b, st)'
  <2>1. CASE st = NoStamp
    BY <2>1 DEF Reports
  <2>2. CASE b = l /\ st # NoStamp
    <3>1. st.active <= y.active /\ st.active \in Nat
      BY <1>2, <1>12, <2>2, Numbers DEF Tells, InstrStamp
    <3>2. st.active # Active(b)'
      BY <1>5, <1>10, <2>2, <3>1
    <3> QED
      BY <1>12, <2>2, <3>2 DEF Reports
  <2>3. CASE b # l /\ st # NoStamp
    BY <1>9, <1>10, <1>12, <2>3 DEF Reports
  <2> QED
    BY <2>1, <2>2, <2>3
<1>13. \A b, c \in Agent : (Reports(c, told[b][c]) /\ Reports(c, onway[b][c]))'
  <2> SUFFICES ASSUME NEW b \in Agent, NEW c \in Agent
               PROVE  (Reports(c, told[b][c]) /\ Reports(c, onway[b][c]))'
    OBVIOUS
  <2>1. PICK st \in InstrStamp : st = told[b][c]
    BY ByName
  <2>2. PICK su \in InstrStamp : su = onway[b][c]
    BY ByName
  <2>3. Reports(c, st)' /\ Reports(c, su)'
    BY <1>12, <2>1, <2>2 DEF Together, InStep
  <2> QED
    BY <2>1, <2>2, <2>3 DEF Reports
<1>14. ASSUME NEW b \in Agent PROVE Stands(l, b)'
  <2>1. ShapeOf(store'[b])
    BY <1>6, <1>8 DEF InStep, Stands
  <2>2. \A p \in Part : Right(hand'[b][p].want) /\ Right(hand'[b][p].acts)
    BY <1>8 DEF InStep, Stands, Right
  <2>3. (Active(b) = Active(l))' => b = l
    BY <1>5, <1>10
  <2> QED
    BY <1>10, <1>11, <2>1, <2>2, <2>3 DEF Stands, LastStep
<1> QED
  BY <1>13, <1>14 DEF InStep

\* Another agent follows: it was settled at the serial it leaves, and is now
\* at step 0 of the leader's, which is not done.
LEMMA FollowerThawsInStep ==
    ASSUME TypeOK, NEW l \in Agent, Together(l), InStep(l), NEW a \in Agent, a # l,
           decided[a].rule = "thaw",
           MayActivate(store[a], decided[a].thaw), Update(a, Activated(store[a], decided[a].thaw)),
           decided' = [decided EXCEPT ![a] = NoDecision], UNCHANGED <<told, onway>>
    PROVE  InStep(l)'
<1> DEFINE th == decided[a].thaw
           y == store[a]
           z == Activated(y, th)
<1>1. y \in ZoneSerials /\ th \in Thaw /\ z \in ZoneSerials /\ ShapeOf(y)
  BY ByName, ActivatedType DEF Decision, InStep, Stands
<1>2. /\ th.from = y.active /\ Active(a) = y.active /\ th.from \in Serial
      /\ th.to = Active(l) /\ th.from < Active(l) /\ th.from \in Nat /\ Active(l) \in Nat
      /\ Active(l) # NoSerial
  BY TwoSerials, Numbers DEF Together, Decides, Active, LeadersThaw
<1>3. Lists[th.from] # NoSets
  BY <1>2, Numbers
<1>4. /\ z.active = th.to /\ z.from = th.from /\ z.step = 0 /\ z.sets # NoSets /\ ~z.pending
  BY <1>1, <1>2, <1>3 DEF Activated, ZoneSerials
<1> HIDE DEF z, th
<1>5. Mixed(l) /\ Phase(l) # LastStep + 1
  <2>1. Mixed(l)
    BY <1>2 DEF Mixed
  <2>2. store[l].from # NoSerial /\ ShapeOf(store[l])
    BY <2>1 DEF Together, Between, InStep, Stands
  <2> QED
    BY <2>1, <2>2, Phases DEF ShapeOf, LastStep
<1>6. ShapeOf(z)
  BY <1>2, <1>4, Numbers DEF ShapeOf, LastStep
<1>7. Update(a, z)
  BY DEF z, th
<1>8. /\ \A b \in Agent : store'[b] = IF b = a THEN z ELSE store[b]
      /\ \A b \in Agent : b # a => hand'[b] = hand[b]
      /\ \A p \in Part : hand'[a][p].acts = hand[a][p].acts /\ Right(hand'[a][p].want)
  BY <1>1, <1>2, <1>4, <1>6, <1>7, UpdateActs
<1>9. /\ Active(a)' = Active(l) /\ Phase(a)' = 0
      /\ \A b \in Agent : b # a => /\ Active(b)' = Active(b) /\ Phase(b)' = Phase(b)
                                   /\ Settled(b)' = Settled(b) /\ store'[b] = store[b]
  <2>1. Active(a)' = Active(l) /\ Phase(a)' = 0
    BY <1>2, <1>4, <1>8, Numbers DEF Active, Phase, PhaseOf, Reconciling
  <2>2. ASSUME NEW b \in Agent, b # a
        PROVE  /\ Active(b)' = Active(b) /\ Phase(b)' = Phase(b)
               /\ Settled(b)' = Settled(b) /\ store'[b] = store[b]
    BY <1>8, <2>2 DEF Active, Phase, Settled, ActBy
  <2> QED
    BY <2>1, <2>2
<1>10. ASSUME NEW b \in Agent PROVE Plans(l, b, decided[b])'
  <2>1. CASE b = a
    <3>1. decided'[b].rule = "none"
      BY <2>1 DEF TypeOK, NoDecision
    <3> QED
      BY <3>1 DEF Plans
  <2>2. CASE b # a
    <3>1. decided'[b] = decided[b] /\ Plans(l, b, decided[b]) /\ Decides(l, b, decided[b])
      BY <2>2 DEF TypeOK, InStep, Stands, Together
    <3>2. ~(decided[b].rule = "done" /\ b = l)
      BY <1>5, <3>1 DEF Decides
    <3>3. /\ Active(b)' = Active(b) /\ Active(l)' = Active(l) /\ Phase(l)' = Phase(l)
          /\ store'[b] = store[b]
      BY <1>9, <2>2
    <3> QED
      BY <3>1, <3>2, <3>3 DEF Plans
  <2> QED
    BY <2>1, <2>2
<1>11. ASSUME NEW b \in Agent, NEW st \in InstrStamp, Tells(l, b, st), Reports(b, st)
       PROVE  Reports(b, st)'
  <2>1. CASE st = NoStamp
    BY <2>1 DEF Reports
  <2>2. CASE b = a /\ st # NoStamp
    <3>1. st.active <= Active(a) /\ st.active \in Nat
      BY <1>11, <2>2, Numbers DEF Tells, InstrStamp
    <3>2. st.active # Active(b)'
      BY <1>2, <1>9, <2>2, <3>1
    <3> QED
      BY <1>11, <2>2, <3>2 DEF Reports
  <2>3. CASE b # a /\ st # NoStamp
    BY <1>9, <1>11, <2>3 DEF Reports
  <2> QED
    BY <2>1, <2>2, <2>3
<1>12. \A b, c \in Agent : (Reports(c, told[b][c]) /\ Reports(c, onway[b][c]))'
  <2> SUFFICES ASSUME NEW b \in Agent, NEW c \in Agent
               PROVE  (Reports(c, told[b][c]) /\ Reports(c, onway[b][c]))'
    OBVIOUS
  <2>1. PICK st \in InstrStamp : st = told[b][c]
    BY ByName
  <2>2. PICK su \in InstrStamp : su = onway[b][c]
    BY ByName
  <2>3. Reports(c, st)' /\ Reports(c, su)'
    BY <1>11, <2>1, <2>2 DEF Together, InStep
  <2> QED
    BY <2>1, <2>2, <2>3 DEF Reports
<1>13. ASSUME NEW b \in Agent PROVE Stands(l, b)'
  <2>1. ShapeOf(store'[b])
    BY <1>6, <1>8 DEF InStep, Stands
  <2>2. \A p \in Part : Right(hand'[b][p].want) /\ Right(hand'[b][p].acts)
    BY <1>8 DEF InStep, Stands, Right
  <2>3. (Active(l) = Active(l))' /\ Active(l)' = Active(l) /\ Phase(l)' = Phase(l)
        /\ Phase(l) \in {0, 1, 2}
    BY <1>9, Phases DEF LastStep
  <2>4. CASE b = a
    BY <1>5, <1>9, <1>10, <2>1, <2>2, <2>3, <2>4 DEF Stands, LastStep
  <2>5. CASE b # a
    BY <1>5, <1>9, <1>10, <2>1, <2>2, <2>3, <2>5 DEF Stands, InStep, LastStep
  <2> QED
    BY <2>4, <2>5
<1> QED
  BY <1>12, <1>13 DEF InStep

LEMMA WriteInStep ==
    ASSUME TypeOK, TypeOK', NEW l \in Agent, Together(l), InStep(l), NEW a \in Agent, Write(a)
    PROVE  InStep(l)'
<1> DEFINE d == decided[a]
           z == store[a]
<1>1. /\ d \in Decision /\ z \in ZoneSerials /\ Decides(l, a, d) /\ Plans(l, a, d) /\ ShapeOf(z)
      /\ Phase(a) = IF z.from # NoSerial THEN z.step ELSE LastStep + 1
      /\ \A b \in Agent : Phase(b) \in {0, 1, 2} /\ (Active(b) = Active(l) => Phase(b) <= Phase(l))
      /\ \A b \in Agent, p \in Part : Right(hand[b][p].want) /\ Right(hand[b][p].acts)
  BY ByName, Phases DEF Together, InStep, Stands, LastStep
<1>2. /\ decided' = [decided EXCEPT ![a] = NoDecision] /\ UNCHANGED <<told, onway, rollover>>
      /\ decided'[a] = NoDecision
      /\ \A b \in Agent : b # a => decided'[b] = decided[b]
  BY DEF Write, TypeOK
<1>3. CASE ~Allows(z, d)
  <2>1. store' = store /\ hand' = hand
    BY <1>3 DEF Write
  <2>2. \A b \in Agent : (ActBy(b, Active(b)) => ActBy(b, Active(b))')
    BY <2>1 DEF ActBy, Active
  <2>3. \A b \in Agent : \A p \in Part : Right(hand'[b][p].want) /\ Right(hand'[b][p].acts)
    BY <1>1, <2>1
  <2>4. \A b \in Agent : decided'[b] \in {decided[b], NoDecision}
    BY <1>2
  <2> QED
    BY <1>2, <2>1, <2>2, <2>3, <2>4, StaysInStep
<1>4. CASE Allows(z, d) /\ d.rule = "thaw"
  <2>1. MayActivate(z, d.thaw) /\ Update(a, Activated(z, d.thaw))
    BY <1>4 DEF Allows, Write, Written
  <2> QED
    BY <1>2, <1>4, <2>1, LeaderThawsInStep, FollowerThawsInStep
<1>5. CASE Allows(z, d) /\ d.rule = "step"
  <2> DEFINE w == Stepped(z, d)
  <2>1. Update(a, w)
    BY <1>5 DEF Write, Written
  <2>2. /\ w \in ZoneSerials /\ w.active = z.active /\ w.from = z.from
        /\ w.step = d.step /\ w.sets = d.sets /\ ~w.pending
    BY <1>1, SteppedType DEF Stepped, ZoneSerials
  <2> HIDE DEF w
  <2>3. /\ z.from # NoSerial /\ d.step \in {0, LastStep} /\ z.step <= d.step /\ d.sets # NoSets
        /\ d.step = LastStep => d.sets = Lists[z.active]
        /\ a # l /\ Active(a) = Active(l) => d.step <= Phase(l)
    BY <1>1, <1>5 DEF Plans, Active
  <2>4. ShapeOf(w)
    BY <2>2, <2>3 DEF ShapeOf
  <2>5. PhaseOf(Reconciling(w), w.step) = d.step
    BY <2>2, <2>3 DEF PhaseOf, Reconciling
  <2> QED
    BY <1>1, <1>2, <2>1, <2>2, <2>3, <2>4, <2>5, MovesOn DEF LastStep
<1>6. CASE Allows(z, d) /\ d.rule = "done"
  <2> DEFINE w == Ended(z)
  <2>1. Update(a, w)
    BY <1>6 DEF Write, Written
  <2>2. /\ w \in ZoneSerials /\ w.active = z.active /\ w.from = NoSerial
        /\ w.step = NoStep /\ w.sets = NoSets /\ ~w.pending
    BY <1>1, EndedType DEF Ended, ZoneSerials
  <2> HIDE DEF w
  <2>3. /\ a = l => \A b \in Agent : Settled(b)
        /\ a # l /\ Active(a) = Active(l) => Phase(l) = LastStep + 1
    BY <1>1, <1>6 DEF Plans
  <2>4. ShapeOf(w)
    BY <2>2 DEF ShapeOf
  <2>5. PhaseOf(Reconciling(w), w.step) = LastStep + 1
    BY <2>2 DEF PhaseOf, Reconciling
  <2> QED
    BY <1>1, <1>2, <2>1, <2>2, <2>3, <2>4, <2>5, MovesOn DEF LastStep
<1> QED
  BY <1>1, <1>3, <1>4, <1>5, <1>6 DEF Allows, Decides

LEMMA NextInStep ==
    ASSUME TypeOK, NEW l \in Agent, Leads \subseteq {l}, Steady => Together(l),
           Steady => InStep(l), [Next]_vars
    PROVE  (Steady => InStep(l))'
<1>1. TypeOK' /\ Steady' = Steady
  BY NextTypes, SteadyStays
<1> SUFFICES ASSUME Steady, Together(l), InStep(l) PROVE InStep(l)'
  BY <1>1
<1>2. CASE UNCHANGED vars
  BY <1>2 DEF vars, InStep, Stands, Reports, Plans, Settled, ActBy, Phase, Active
<1>3. ASSUME NEW a \in Agent, Turn(a) PROVE InStep(l)'
  BY <1>1, <1>3, DecisionFits, PlanFits, WriteInStep DEF Turn
<1>4. ASSUME NEW a \in Agent, Hears(a) \/ Outside(a) PROVE InStep(l)'
  BY <1>1, <1>4, HearsInStep, OutsideInStep DEF Steady
<1> QED
  BY <1>2, <1>3, <1>4 DEF Next

LEMMA InitInStep ==
    ASSUME NEW l \in Agent, Init, Steady PROVE InStep(l)
<1> DEFINE w == WantedHandover(FirstSerials)
<1>1. FirstSerials = [NoSerials EXCEPT !.active = 1] /\ FirstHandover = w
  BY DEF FirstSerials, FirstHandover, Steady
<1>2. /\ FirstSerials.active = 1 /\ FirstSerials.from = NoSerial /\ FirstSerials.step = NoStep
      /\ FirstSerials.sets = NoSets /\ ~FirstSerials.pending
  BY <1>1 DEF NoSerials
<1>3. w.step = 0 /\ w.sets = Lists[1]
  BY <1>2 DEF WantedHandover
<1>4. w # NoHandover /\ Right(w)
  BY <1>3 DEF NoHandover, NoStep, Right, LastStep
<1>5. ASSUME NEW a \in Agent
      PROVE  /\ store[a] = FirstSerials /\ decided[a].rule = "none"
             /\ \A p \in Part : hand[a][p].want = w /\ hand[a][p].acts = w
             /\ \A b \in Agent : told[a][b] = NoStamp /\ onway[a][b] = NoStamp
  BY <1>1 DEF Init, NoDecision
<1> HIDE DEF w
<1>6. ASSUME NEW a \in Agent
      PROVE  Active(a) = 1 /\ Phase(a) = LastStep + 1 /\ ShapeOf(store[a]) /\ Settled(a)
  <2>1. Active(a) = 1 /\ Phase(a) = LastStep + 1 /\ ShapeOf(store[a])
    BY <1>2, <1>5 DEF Active, Phase, PhaseOf, Reconciling, ShapeOf
  <2>2. ActBy(a, 1)
    BY <1>3, <1>4, <1>5 DEF ActBy
  <2> QED
    BY <2>1, <2>2 DEF Settled, LastStep
<1> QED
  BY <1>4, <1>5, <1>6 DEF InStep, Stands, Plans, Reports, LastStep

\* With one agent to lead a zone that was at rest, and every database kept,
\* the agents are in step.
THEOREM StepsAreInOrder ==
    ASSUME NEW l \in Agent, Leads \subseteq {l} PROVE Spec => [](Steady => InStep(l))
<1>1. Init => TypeOK /\ (Steady => Together(l)) /\ (Steady => InStep(l))
  BY InitTypes, InitTogether, InitInStep
<1>2. TypeOK /\ (Steady => Together(l)) /\ (Steady => InStep(l)) /\ [Next]_vars
        => TypeOK' /\ (Steady => Together(l))' /\ (Steady => InStep(l))'
  BY NextTypes, NextTogether, NextInStep
<1> QED
  BY <1>1, <1>2, PTL DEF Spec

\* The leader says "done" only when every combiner and signer is known to
\* hold the last step, and nobody is done before it; and what a part has
\* taken of the last step it acts by until its agent moves to another serial.
THEOREM DoneIsHeld ==
    ASSUME NEW l \in Agent, Leads \subseteq {l} PROVE Spec => [](Steady => DoneMeansHeld)
<1>1. TypeOK /\ Together(l) /\ InStep(l) => DoneMeansHeld
  <2> SUFFICES ASSUME TypeOK, Together(l), InStep(l), NEW a \in Agent, NEW b \in Agent,
                      ~Reconciling(store[a]), Active(b) = Active(a)
               PROVE  \A p \in Part : hand[b][p].acts.sets = Lists[Active(a)]
    BY DEF DoneMeansHeld
  <2>1. Phase(a) = LastStep + 1
    BY DEF Phase, PhaseOf
  <2>2. Active(a) = Active(l) => Phase(l) = LastStep + 1
    BY <2>1, Phases DEF InStep, Stands, LastStep
  <2>3. Settled(b)
    BY <2>2 DEF InStep, Stands
  <2> QED
    BY <2>3 DEF Settled, ActBy
<1> QED
  BY <1>1, TransitionIsOne, StepsAreInOrder, TypeCorrect, PTL

-----------------------------------------------------------------------------
(* The types *)

RRtype == {"CSYNC", "CDS"}
Timer == {"none", "ask", "release", "awaited", "dead"}
NsChange == {<<>>} \cup (Nat \X Nat)
DsChange == {<<>>} \cup ((SUBSET Signer) \X (SUBSET Signer))
Diff == [ns : NsChange, ds : DsChange]
Found(d) == d.ns # <<>> \/ d.ds # <<>>

Ask == {r \in [arm : {"explicit", "implicit"}, diff : Diff] : r.arm = "implicit" => Found(r.diff)}
Hold == [types : SUBSET RRtype, diff : Seq(Diff), retimed : BOOLEAN, awaiting : BOOLEAN, current : BOOLEAN]
Failures == 0..MaxFailures
Checks == 0..MaxChecks
Chain == [here : BOOLEAN, failures : Failures, rechecks : Checks,
          notified : SUBSET RRtype, timer : Timer, hold : Hold]
Csync == [here : BOOLEAN, diff : NsChange, awaited : SUBSET Recipient, failed : BOOLEAN]
Owed == [here : BOOLEAN, room : BOOLEAN, key : BOOLEAN, frozen : BOOLEAN]
Work == [queue : Seq(Ask), chain : Chain, csync : Csync, owed : Owed, gaveUp : BOOLEAN]
Runs == [at : {"idle", "analyse", "hold", "list", "look", "send", "hand"},
         arm : {"explicit", "implicit"}, diff : Diff, hold : Nat,
         cancelled : {"no", "ended", "thaw"}, untaken : BOOLEAN, frozen : BOOLEAN]
Zones == [ns : Nat, option : BOOLEAN, roles : BOOLEAN, caughtUp : BOOLEAN, key : BOOLEAN, frozen : BOOLEAN]
Keys == [word : [Signer -> Word], inv : SUBSET Foreign, owned : BOOLEAN]
Leading == [who : {"us", "other", "none"}, hold : Nat, holds : Nat]
Serving == [ns : Nat, csync : Nat, by : SUBSET Recipient]
Parents == [ns : Nat, ds : SUBSET Signer, told : SUBSET RRtype, scheme : {"UPDATE", "NOTIFY"}, wait : BOOLEAN]

\* A NOTIFY is held with something in it, by a timer that ends the hold.
Holding(ch) ==
    IF ch.hold.types = {} THEN ch.hold = NoHold ELSE ch.timer \in {"release", "awaited", "dead"}

\* A chain that is not there has nothing.
IsChain(ch) ==
    /\ ch \in Chain
    /\ Holding(ch)
    /\ ~ch.here => /\ ch.failures = 0 /\ ch.rechecks = 0 /\ ch.notified = {}
                   /\ ch.timer = "none" /\ ch.hold = NoHold

IsOwed(o) == o \in Owed /\ (o.room \/ o.key \/ o.frozen => o.here)

IsWork(m) ==
    /\ m \in Work /\ Len(m.queue) <= QueueSize
    /\ IsChain(m.chain) /\ IsOwed(m.owed)

IsRun(r) == r \in Runs /\ (r.at \notin {"idle", "analyse"} => Found(r.diff))

RestTypes ==
    /\ zone \in Zones /\ keys \in Keys /\ lead \in Leading
    /\ served \in Serving /\ parent \in Parents

Typed == IsWork(my) /\ IsRun(run) /\ RestTypes

-----------------------------------------------------------------------------
(* The invariant *)

\* A sync under way that nothing has cancelled.
Goes == run.at \in {"send", "hand"} /\ run.cancelled = "no"

\* Once the owner's takeover has run, no sync goes and no NOTIFY is held.
OwnersStop ==
    ~zone.option /\ <<"ownerSyncs", 0>> \notin todo => ~Goes /\ my.chain.hold = NoHold

\* A sync that was begun in a hold and goes on is in the present one, or what
\* ended its hold has yet to run.
InItsHold ==
    Listed /\ run.cancelled = "no" /\ run.hold # 0 =>
      \/ run.hold = lead.hold
      \/ <<"lost", run.hold>> \in todo
      \/ <<"endWork", 0>> \in todo

Stops == OwnersStop /\ InItsHold
-----------------------------------------------------------------------------
(* What is done to the work *)

\* Going from m to n holds no NOTIFY that was not held.
HoldsNone(m, n) == IsWork(n) /\ (m.chain.hold = NoHold => n.chain.hold = NoHold)

Asks(m) == [m EXCEPT !.queue = Append(@, [arm |-> "explicit", diff |-> NoDiff]), !.gaveUp = FALSE]

LEMMA Bounds == QueueSize \in Nat \ {0} /\ MaxFailures \in Nat \ {0} /\ MaxChecks \in Nat \ {0}
BY ConstantsAssumption

LEMMA Counts ==
    /\ 0 \in Failures /\ 0 \in Checks
    /\ \A f \in Failures : f \in Nat /\ f <= MaxFailures /\ (f < MaxFailures => f + 1 \in Failures)
    /\ \A c \in Checks : c \in Nat /\ c <= MaxChecks /\ (c < MaxChecks => c + 1 \in Checks)
BY Bounds DEF Failures, Checks

LEMMA NothingIs ==
    /\ NoDiff \in Diff /\ NoHold \in Hold /\ IsChain(NoChain) /\ NoChain.hold = NoHold
    /\ NoCsync \in Csync /\ IsOwed(NoOwed) /\ NoRun \in Runs /\ NoRun.at = "idle"
<1>1. NoDiff \in Diff
  BY DEF NoDiff, Diff, NsChange, DsChange
<1>2. NoHold \in Hold /\ NoHold.types = {}
  BY DEF NoHold, Hold
<1>3. IsChain(NoChain) /\ NoChain.hold = NoHold
  BY <1>2, Counts DEF NoChain, Chain, IsChain, Holding, Timer
<1>4. NoCsync \in Csync /\ IsOwed(NoOwed)
  BY DEF NoCsync, Csync, IsOwed, NoOwed, Owed, NsChange
<1> QED
  BY <1>1, <1>2, <1>3, <1>4 DEF NoRun, Runs

\* The parts of some work put together with others.
LEMMA WithChain ==
    ASSUME NEW m, IsWork(m), NEW c, IsChain(c)
    PROVE  /\ IsWork([m EXCEPT !.chain = c]) /\ [m EXCEPT !.chain = c].chain = c
           /\ IsWork([m EXCEPT !.chain = c, !.gaveUp = TRUE])
           /\ [m EXCEPT !.chain = c, !.gaveUp = TRUE].chain = c
<1>1. c \in Chain
  BY DEF IsChain
<1> QED
  BY <1>1 DEF IsWork, Work

LEMMA WithCsync ==
    ASSUME NEW m, IsWork(m), NEW c \in Csync
    PROVE  IsWork([m EXCEPT !.csync = c]) /\ [m EXCEPT !.csync = c].chain = m.chain
BY DEF IsWork, Work

LEMMA WithOwed ==
    ASSUME NEW m, IsWork(m), NEW o, IsOwed(o)
    PROVE  IsWork([m EXCEPT !.owed = o]) /\ [m EXCEPT !.owed = o].chain = m.chain
<1>1. o \in Owed
  BY DEF IsOwed
<1> QED
  BY <1>1 DEF IsWork, Work

Why == {"here", "room", "key", "frozen"}

LEMMA OweHolds ==
    ASSUME NEW m, IsWork(m), NEW why \in Why
    PROVE  HoldsNone(m, Owe(m, why)) /\ Owe(m, why).chain = m.chain
<1> DEFINE o == [m.owed EXCEPT !.here = TRUE, ![why] = TRUE]
<1>1. m.owed \in Owed /\ m \in Work
  BY DEF IsWork, IsOwed
<1>2. IsOwed(o)
  BY <1>1 DEF IsOwed, Owed, Why
<1>3. Owe(m, why) = [m EXCEPT !.owed = o]
  BY <1>1 DEF Owe, Work
<1> QED
  BY <1>2, <1>3, WithOwed DEF HoldsNone

LEMMA AsksHolds ==
    ASSUME NEW m, IsWork(m), Len(m.queue) < QueueSize
    PROVE  IsWork(Asks(m)) /\ Asks(m).chain = m.chain /\ Asks(m).owed = m.owed
<1> DEFINE r == [arm |-> "explicit", diff |-> NoDiff]
           q == Append(m.queue, r)
<1>1. r \in Ask
  BY NothingIs DEF Ask
<1>2. m.queue \in Seq(Ask) /\ QueueSize \in Nat
  BY Bounds DEF IsWork, Work
<1> HIDE DEF r
<1>3. q \in Seq(Ask) /\ Len(q) = Len(m.queue) + 1
  BY <1>1, <1>2
<1>4. Len(q) <= QueueSize
  BY <1>2, <1>3
<1> HIDE DEF q
<1>5. [m EXCEPT !.queue = q, !.gaveUp = FALSE] = Asks(m)
  BY DEF Asks, q, r
<1>6. LET n == [m EXCEPT !.queue = q, !.gaveUp = FALSE]
      IN  IsWork(n) /\ n.chain = m.chain /\ n.owed = m.owed
  BY <1>3, <1>4 DEF IsWork, Work
<1> QED
  BY <1>5, <1>6

LEMMA RequestedHolds ==
    ASSUME NEW m, IsWork(m) PROVE HoldsNone(m, Requested(m)) /\ Requested(m).chain = m.chain
<1>1. HoldsNone(m, Owe(m, "room")) /\ Owe(m, "room").chain = m.chain
  BY OweHolds DEF Why
<1> QED
  BY <1>1, AsksHolds DEF Requested, HoldsNone, Asks

LEMMA AskedOwedHolds ==
    ASSUME NEW m, IsWork(m), NEW may, NEW caughtUp
    PROVE  HoldsNone(m, AskedOwed(m, may, caughtUp))
<1>1. HoldsNone(m, Owe(m, "room"))
  BY OweHolds DEF Why
<1>2. HoldsNone(m, [m EXCEPT !.owed = NoOwed])
  BY NothingIs, WithOwed DEF HoldsNone
<1>3. ASSUME Len(m.queue) < QueueSize PROVE HoldsNone(m, [Asks(m) EXCEPT !.owed = NoOwed])
  BY <1>3, NothingIs, WithOwed, AsksHolds DEF HoldsNone
<1>4. [Asks(m) EXCEPT !.owed = NoOwed] =
        [m EXCEPT !.queue = Append(@, [arm |-> "explicit", diff |-> NoDiff]), !.owed = NoOwed, !.gaveUp = FALSE]
  BY DEF Asks, IsWork, Work
<1> QED
  BY <1>1, <1>2, <1>3, <1>4 DEF AskedOwed, HoldsNone

LEMMA EndedHolds ==
    ASSUME NEW m, IsWork(m)
    PROVE  /\ IsWork(ChainEnded(m)) /\ ChainEnded(m).chain.hold = NoHold
           /\ IsWork(WorkEnded(m)) /\ WorkEnded(m).chain.hold = NoHold
<1> DEFINE n == [[m EXCEPT !.chain = NoChain] EXCEPT !.csync = NoCsync]
<1>1. IsWork(n) /\ n.chain.hold = NoHold
  <2>1. IsWork([m EXCEPT !.chain = NoChain]) /\ [m EXCEPT !.chain = NoChain].chain = NoChain
    BY NothingIs, WithChain
  <2> HIDE DEF NoChain
  <2> QED
    BY <2>1, NothingIs, WithCsync
<1>2. n = ChainEnded(m)
  BY DEF ChainEnded, IsWork, Work
<1> QED
  BY <1>1, <1>2, NothingIs, WithOwed DEF WorkEnded

LEMMA UnheldIs ==
    ASSUME NEW ch, IsChain(ch) PROVE IsChain(Unheld(ch)) /\ Unheld(ch).hold = NoHold
BY NothingIs DEF IsChain, Unheld, Chain, Holding, Timer, NoHold

LEMMA SucceededHolds ==
    ASSUME NEW m, IsWork(m) PROVE HoldsNone(m, Succeeded(m))
<1> DEFINE ch == Unheld(m.chain)
           c == [ch EXCEPT !.failures = 0, !.rechecks = 0, !.notified = {}]
<1>1. IsChain(NoChain) /\ NoChain.hold = NoHold
  BY NothingIs
<1>2. IsChain(ch) /\ ch.hold = NoHold
  BY UnheldIs DEF IsWork
<1>3. IsChain(c) /\ c.hold = NoHold
  <2> HIDE DEF ch
  <2>1. c \in Chain /\ c.failures = 0 /\ c.rechecks = 0 /\ c.notified = {}
    BY <1>2, Counts DEF IsChain, Chain
  <2>2. c.here = ch.here /\ c.timer = ch.timer /\ c.hold = ch.hold
    BY <1>2 DEF IsChain, Chain
  <2> HIDE DEF c
  <2> QED
    BY <1>2, <2>1, <2>2 DEF IsChain, Holding
<1>4. HoldsNone(m, [m EXCEPT !.chain = c]) /\ HoldsNone(m, [m EXCEPT !.chain = NoChain])
  <2> HIDE DEF c
  <2> QED
    BY <1>1, <1>3, WithChain DEF HoldsNone
<1> QED
  BY <1>4 DEF Succeeded

LEMMA FailedOnceHolds ==
    ASSUME NEW m, IsWork(m) PROVE HoldsNone(m, FailedOnce(m))
<1> DEFINE c == Scheduled([m.chain EXCEPT !.failures = @ + 1], "ask")
<1>1. IsChain(NoChain) /\ NoChain.hold = NoHold /\ IsChain(m.chain)
  BY NothingIs DEF IsWork
<1>2. m.chain.timer = "none" => m.chain.hold = NoHold /\ m.chain.hold.types = {}
  BY <1>1 DEF IsChain, Holding, NoHold
<1>3. ASSUME m.chain.timer = "none", m.chain.failures < MaxFailures
      PROVE  IsChain(c) /\ c.hold = m.chain.hold
  <2> DEFINE ch == m.chain
  <2>1. ch \in Chain
    BY <1>1 DEF IsChain
  <2> DEFINE f == ch.failures + 1
  <2>0. f \in Failures /\ "ask" \in Timer
    BY <1>3, <2>1, Counts DEF Chain, Timer
  <2> HIDE DEF ch, f
  <2>2. [ch EXCEPT !.failures = f, !.here = TRUE, !.timer = "ask"] \in Chain
    BY <2>0, <2>1 DEF Chain
  <2>3. c = [ch EXCEPT !.failures = f, !.here = TRUE, !.timer = "ask"]
    BY <2>1 DEF Chain, Scheduled, ch, f
  <2>4. c \in Chain /\ c.here /\ c.hold = ch.hold
    BY <2>1, <2>2, <2>3 DEF Chain
  <2> HIDE DEF c
  <2> QED
    BY <1>2, <1>3, <2>4 DEF IsChain, Holding, ch
<1> HIDE DEF c
<1>4. /\ HoldsNone(m, m) /\ HoldsNone(m, [m EXCEPT !.chain = NoChain, !.gaveUp = TRUE])
      /\ IsChain(c) /\ c.hold = m.chain.hold => HoldsNone(m, [m EXCEPT !.chain = c])
  BY <1>1, WithChain DEF HoldsNone
<1>5. m.chain.failures < MaxFailures \/ m.chain.failures >= MaxFailures
  BY <1>1, Bounds, Counts DEF IsChain, Chain
<1> QED
  BY <1>3, <1>4, <1>5 DEF FailedOnce, c

LEMMA AfterErrorHolds ==
    ASSUME NEW m, IsWork(m) PROVE HoldsNone(m, AfterError(m))
<1>1. HoldsNone(m, m) /\ HoldsNone(m, Owe(m, "frozen")) /\ HoldsNone(m, FailedOnce(m))
  BY OweHolds, FailedOnceHolds DEF HoldsNone, Why
<1> QED
  BY <1>1 DEF AfterError

LEMMA ForgottenIs ==
    ASSUME NEW ch, IsChain(ch) PROVE IsChain(Forgotten(ch)) /\ Forgotten(ch).hold = NoHold
<1> DEFINE c == [ch EXCEPT !.hold = NoHold, !.timer = "none", !.notified = {}, !.rechecks = 0]
<1>1. ch \in Chain /\ "none" \in Timer /\ 0 \in Checks /\ NoHold \in Hold
  BY NothingIs, Counts DEF IsChain, Timer
<1> HIDE DEF NoHold
<1>2. c \in Chain /\ c.rechecks = 0 /\ c.notified = {} /\ c.timer = "none" /\ c.hold = NoHold
  BY <1>1 DEF Chain
<1>3. c.here = ch.here /\ c.failures = ch.failures
  BY <1>1 DEF Chain
<1>4. NoHold.types = {}
  BY DEF NoHold
<1> HIDE DEF c
<1>5. IsChain(c)
  BY <1>2, <1>3, <1>4 DEF IsChain, Holding
<1> QED
  BY <1>2, <1>5 DEF Forgotten, c

\* A NOTIFY that leaves, or is forgotten, is held no more.
LEMMA LeftHolds ==
    ASSUME NEW m, IsWork(m), NEW ch, IsChain(ch), NEW types \in SUBSET RRtype, NEW retimed \in BOOLEAN
    PROVE  LET n == Left(m, ch, types, retimed) IN IsWork(n) /\ n.chain.hold = NoHold
<1> DEFINE again == retimed /\ ch.rechecks > 0
           k == IF again THEN ch.rechecks ELSE ch.rechecks + 1
           c == [ch EXCEPT !.hold = NoHold, !.notified = types, !.rechecks = k,
                           !.here = TRUE, !.timer = "ask"]
<1>1. ch \in Chain /\ "ask" \in Timer /\ NoHold \in Hold /\ ch.rechecks \in Checks
  BY NothingIs DEF IsChain, Timer, Chain
<1>2. again \/ ~(ch.rechecks >= MaxChecks) => k \in Checks
  BY <1>1, Counts, Bounds
<1>3. Scheduled([ch EXCEPT !.hold = NoHold, !.notified = types,
                           !.rechecks = IF again THEN @ ELSE @ + 1], "ask") = c
  <2> HIDE DEF again
  <2> QED
    BY <1>1 DEF Scheduled, Chain
<1>4. NoHold.types = {}
  BY DEF NoHold
<1> DEFINE gone == ~again /\ ch.rechecks >= MaxChecks
<1>5. Left(m, ch, types, retimed) =
        IF gone THEN [m EXCEPT !.chain = NoChain, !.gaveUp = TRUE] ELSE [m EXCEPT !.chain = c]
  <2> HIDE DEF c
  <2> QED
    BY <1>3 DEF Left
<1>6. ~gone => k \in Checks
  BY <1>2
<1> HIDE DEF k, NoHold, gone
<1>7. ASSUME ~gone PROVE IsChain(c) /\ c.hold = NoHold
  <2>1. c \in Chain /\ c.here /\ c.hold = NoHold
    BY <1>1, <1>6, <1>7 DEF Chain
  <2> HIDE DEF c
  <2> QED
    BY <1>4, <2>1 DEF IsChain, Holding
<1> HIDE DEF c, NoChain
<1> DEFINE Good(n) == IsWork(n) /\ n.chain.hold = NoHold
<1>8. Good([m EXCEPT !.chain = NoChain, !.gaveUp = TRUE])
  BY NothingIs, WithChain
<1>9. ASSUME ~gone PROVE Good([m EXCEPT !.chain = c])
  BY <1>7, <1>9, WithChain
<1> HIDE DEF Good
<1>10. Good(Left(m, ch, types, retimed))
  BY <1>5, <1>8, <1>9
<1> QED
  BY <1>10 DEF Good

LEMMA LetGoHolds ==
    ASSUME NEW m, IsWork(m), NEW ch, IsChain(ch), NEW types \in SUBSET RRtype,
           NEW frozen \in BOOLEAN, NEW retimed \in BOOLEAN
    PROVE  LET n == LetGo(m, ch, types, frozen, retimed) IN IsWork(n) /\ n.chain.hold = NoHold
<1> DEFINE leave == Leaving(frozen, types)
           gone == IF leave = {} THEN [m EXCEPT !.chain = Forgotten(ch)] ELSE Left(m, ch, leave, retimed)
<1>1. leave \in SUBSET RRtype
  BY DEF Leaving
<1> HIDE DEF leave
<1> DEFINE Good(n) == IsWork(n) /\ n.chain.hold = NoHold
<1>2. Good(gone)
  <2> DEFINE c == Forgotten(ch)
  <2>1. IsChain(c) /\ c.hold = NoHold
    BY ForgottenIs
  <2> HIDE DEF c
  <2>2. Good([m EXCEPT !.chain = c])
    BY <2>1, WithChain
  <2>3. Good([m EXCEPT !.chain = Forgotten(ch)])
    BY <2>2 DEF c
  <2>4. Good(Left(m, ch, leave, retimed))
    BY <1>1, LeftHolds
  <2> HIDE DEF Good
  <2> QED
    BY <2>3, <2>4
<1>3. LetGo(m, ch, types, frozen, retimed) = IF leave = types THEN gone ELSE Owe(gone, "frozen")
  BY DEF LetGo, leave
<1> HIDE DEF gone
<1> QED
  BY <1>2, <1>3, OweHolds DEF HoldsNone, Why

LEMMA ProgressHolds ==
    ASSUME NEW m, IsWork(m), NEW awaited \in SUBSET Recipient PROVE HoldsNone(m, Progress(m, awaited))
<1> DEFINE csync == [m.csync EXCEPT !.awaited = awaited]
           h == [m.chain.hold EXCEPT !.awaiting = FALSE]
           c == [m.chain EXCEPT !.hold = h, !.failures = 0, !.here = TRUE, !.timer = "release"]
<1>1. m.chain \in Chain /\ m.chain.hold \in Hold /\ "release" \in Timer /\ 0 \in Failures /\ Holding(m.chain)
  BY Counts DEF IsWork, IsChain, Chain, Timer
<1>2. csync \in Csync
  BY DEF IsWork, Work, Csync
<1>3. ASSUME m.chain.hold.awaiting PROVE h \in Hold /\ h.types # {} /\ m.chain.hold # NoHold
  <2>1. m.chain.hold # NoHold
    BY <1>3 DEF NoHold
  <2>2. m.chain.hold.types # {}
    BY <1>1, <2>1 DEF Holding
  <2>3. h \in Hold /\ h.types = m.chain.hold.types
    <3> DEFINE o == m.chain.hold
    <3> HIDE DEF o
    <3>1. o \in Hold
      BY <1>1 DEF o
    <3>2. [o EXCEPT !.awaiting = FALSE] \in Hold /\ [o EXCEPT !.awaiting = FALSE].types = o.types
      BY <3>1 DEF Hold
    <3> QED
      BY <3>2 DEF o
  <2> QED
    BY <2>1, <2>2, <2>3
<1>4. Scheduled([m.chain EXCEPT !.hold.awaiting = FALSE, !.failures = 0], "release") = c
  BY <1>1 DEF Scheduled, Chain
<1> HIDE DEF h, csync
<1>5. ASSUME m.chain.hold.awaiting PROVE IsChain(c)
  <2>1. c \in Chain /\ c.hold = h /\ c.here /\ c.timer = "release"
    BY <1>1, <1>3, <1>5 DEF Chain
  <2> HIDE DEF c
  <2> QED
    BY <1>3, <1>5, <2>1 DEF IsChain, Holding
<1> DEFINE n == [m EXCEPT !.csync = csync]
<1>6. IsWork(n) /\ n.chain = m.chain
  BY <1>2, WithCsync
<1>7. Progress(m, awaited) = IF awaited = {} /\ m.chain.hold.awaiting THEN [n EXCEPT !.chain = c] ELSE n
  <2>1. Progress(m, awaited) = IF awaited = {} /\ m.chain.hold.awaiting
                               THEN [m EXCEPT !.csync = csync, !.chain = c] ELSE n
    <3> HIDE DEF c
    <3> QED
      BY <1>4 DEF Progress, csync
  <2>2. [m EXCEPT !.csync = csync, !.chain = c] = [n EXCEPT !.chain = c]
    OBVIOUS
  <2> HIDE DEF c, n
  <2> QED
    BY <2>1, <2>2
<1>8. HoldsNone(m, n)
  <2> HIDE DEF n
  <2> QED
    BY <1>6 DEF HoldsNone
<1>9. ASSUME m.chain.hold.awaiting PROVE HoldsNone(m, [n EXCEPT !.chain = c])
  <2> HIDE DEF c, n
  <2> QED
    BY <1>3, <1>5, <1>6, <1>9, WithChain DEF HoldsNone
<1> HIDE DEF c, n
<1> QED
  BY <1>7, <1>8, <1>9

-----------------------------------------------------------------------------
(* The types of every step but the work's *)

LEMMA SignersFacts == Foreign \subseteq Signer /\ "us" \in Signer
BY DEF Signer

LEMMA IntentIs ==
    ASSUME NEW k \in Keys PROVE DSIntent(k).set \in SUBSET Signer
<1>1. Computed(k).set \in SUBSET Signer
  BY DEF Computed, Unknown
<1>2. Inventoried(k).set \in SUBSET Signer
  BY SignersFacts DEF Inventoried, Unknown, Keys
<1> QED
  BY <1>1, <1>2 DEF DSIntent

LEMMA DifferenceIs == ASSUME RestTypes PROVE Difference \in Diff /\ (Difference # NoDiff => Found(Difference))
<1>1. DSIntent(keys).set \in SUBSET Signer /\ parent.ds \in SUBSET Signer /\ parent.ns \in Nat /\ zone.ns \in Nat
  BY IntentIs DEF RestTypes, Parents, Zones
<1>2. Difference.ns \in NsChange /\ Difference.ds \in DsChange
  BY <1>1 DEF Difference, NsChange, DsChange
<1>3. Difference = [ns |-> Difference.ns, ds |-> Difference.ds]
  BY DEF Difference
<1> HIDE DEF Difference
<1> QED
  BY <1>2, <1>3 DEF Diff, Found, NoDiff

LEMMA CancelledIs ==
    ASSUME IsRun(run), NEW cause \in {"ended", "thaw"}
    PROVE  LET r == Cancelled(cause)
           IN  /\ IsRun(r) /\ r.at = run.at /\ r.hold = run.hold
               /\ r.cancelled = "no" => run.cancelled = "no" /\ ~Listed
BY DEF IsRun, Cancelled, Runs, Found, Listed

LEMMA NextAsk ==
    ASSUME IsWork(my), my.queue # <<>>
    PROVE  Head(my.queue) \in Ask /\ Tail(my.queue) \in Seq(Ask) /\ Len(Tail(my.queue)) <= QueueSize
<1>1. my.queue \in Seq(Ask) /\ Len(my.queue) <= QueueSize /\ QueueSize \in Nat
  BY Bounds DEF IsWork, Work
<1> HIDE DEF Ask
<1> QED
  BY <1>1

LEMMA RunStep == ASSUME Typed, SyncNext PROVE IsRun(run)'
<1>1. IsRun(run) /\ RestTypes /\ IsWork(my)
  BY DEF Typed
<1>2. IsRun(NoRun)
  BY NothingIs DEF IsRun
<1>3. \A cause \in {"ended", "thaw"} : IsRun(Cancelled(cause))
  BY <1>1, CancelledIs
<1>4. CASE UNCHANGED run
  BY <1>1, <1>4 DEF IsRun
<1>5. CASE Invalidated \/ ThawTurn \/ Callback
  <2>1. run' = run \/ \E cause \in {"ended", "thaw"} : run' = Cancelled(cause)
    BY <1>5 DEF Invalidated, ThawTurn, Callback
  <2> QED
    BY <1>1, <1>3, <2>1
<1>6. CASE Take
  <2>1. \/ run' = run
        \/ /\ my.queue # <<>>
           /\ run' = [NoRun EXCEPT !.at = IF Head(my.queue).arm = "explicit" THEN "analyse" ELSE "hold",
                                   !.arm = Head(my.queue).arm, !.diff = Head(my.queue).diff]
    BY <1>6 DEF Take
  <2> DEFINE r == Head(my.queue)
             n == [NoRun EXCEPT !.at = IF r.arm = "explicit" THEN "analyse" ELSE "hold",
                                !.arm = r.arm, !.diff = r.diff]
  <2>2. ASSUME my.queue # <<>> PROVE IsRun(n)
    <3>1. r \in Ask
      BY <1>1, <2>2, NextAsk
    <3> HIDE DEF r
    <3> QED
      BY <1>2, <3>1 DEF Ask, IsRun, Runs, NoRun
  <2> HIDE DEF n
  <2> QED
    BY <1>1, <2>1, <2>2 DEF n
<1>7. CASE Analyse
  <2>1. \/ run' = NoRun
        \/ Difference # NoDiff /\ run' = [run EXCEPT !.at = "hold", !.diff = Difference]
    BY <1>7 DEF Analyse
  <2>2. ASSUME NEW d \in Diff, Found(d) PROVE IsRun([run EXCEPT !.at = "hold", !.diff = d])
    BY <1>1, <2>2 DEF IsRun, Runs
  <2> HIDE DEF Difference
  <2> QED
    BY <1>1, <1>2, <2>1, <2>2, DifferenceIs
<1>8. CASE ReadHold
  <2>1. HoldNow \in Nat
    BY <1>1 DEF HoldNow, RestTypes, Leading
  <2>2. run.at = "hold" /\ run' = [run EXCEPT !.at = "list", !.hold = HoldNow]
    BY <1>8 DEF ReadHold
  <2> HIDE DEF HoldNow
  <2> QED
    BY <1>1, <2>1, <2>2 DEF IsRun, Runs
<1>9. CASE List
  <2>1. PICK x \in {"ended", "no"} : run.at = "list" /\ run' = [run EXCEPT !.at = "look", !.cancelled = x]
    BY <1>9 DEF List
  <2> QED
    BY <1>1, <2>1 DEF IsRun, Runs
<1>10. CASE Look
  <2>1. \/ run' = NoRun
        \/ run.at = "look" /\ run' = [run EXCEPT !.at = "send"]
        \/ run.at = "look" /\ run' = [run EXCEPT !.at = "send", !.untaken = TRUE]
    BY <1>10 DEF Look
  <2> QED
    BY <1>1, <1>2, <2>1 DEF IsRun, Runs
<1>11. CASE SendUpdate \/ HandOver
  <2>1. run' = NoRun
    BY <1>11 DEF SendUpdate, HandOver
  <2> QED
    BY <1>2, <2>1
<1>12. CASE SendNotify
  <2>1. \/ run' = NoRun
        \/ run.at = "send" /\ run' = [run EXCEPT !.at = "hand", !.frozen = zone.frozen]
    BY <1>12 DEF SendNotify
  <2>2. zone.frozen \in BOOLEAN
    BY <1>1 DEF RestTypes, Zones
  <2> QED
    BY <1>1, <1>2, <2>1, <2>2 DEF IsRun, Runs
<1>13. SyncNext => \/ UNCHANGED run
               \/ Invalidated \/ ThawTurn \/ Callback
               \/ Take \/ Analyse \/ ReadHold \/ List \/ Look \/ SendUpdate \/ HandOver \/ SendNotify
  BY DEF SyncNext, Beside, Syncher, Timers, Elsewhere, NsChanges, Inventory, Said, KeysSaid, OwnerTakes, GivenBack,
         Leave, GroupLeft, Return, HoldComes, CaughtUpAgain, KeyReady, Freeze, Unfreeze, LeadLost, Elected,
         OtherSyncs, AskDue, ReleaseDue, AwaitedDue, Confirmed, NoRoleTimedOut, Rejected, NameserversServe,
         ParentScans, NotifyLost, ReleaseOwed, OwedTick
<1> QED
  BY <1>4, <1>5, <1>6, <1>7, <1>8, <1>9, <1>10, <1>11, <1>12, <1>13

\* The zone, the lead, the keys, what is served and the parent.
LEMMA RestStep == ASSUME Typed, SyncNext PROVE RestTypes'
<1>1. /\ zone \in Zones /\ keys \in Keys /\ lead \in Leading /\ served \in Serving /\ parent \in Parents
      /\ IsRun(run) /\ IsWork(my)
  BY DEF Typed, RestTypes
<1>2. DSIntent(keys).set \in SUBSET Signer
  BY <1>1, IntentIs
<1>3. zone' \in Zones
  <2>1. \/ zone' = zone \/ zone' = [zone EXCEPT !.ns = @ + 1]
        \/ \E b \in BOOLEAN : \/ zone' = [zone EXCEPT !.option = b] \/ zone' = [zone EXCEPT !.roles = b]
                              \/ zone' = [zone EXCEPT !.frozen = b]
                              \/ \E h \in {"caughtUp", "key"} : zone' = [zone EXCEPT ![h] = b]
    BY DEF SyncNext, Beside, Syncher, Timers, Elsewhere, NsChanges, Inventory, Said, KeysSaid, OwnerTakes, GivenBack,
         Leave, GroupLeft, Return, HoldComes, CaughtUpAgain, KeyReady, Freeze, Unfreeze, LeadLost, Elected,
         OtherSyncs, AskDue, ReleaseDue, AwaitedDue, Confirmed, NoRoleTimedOut, Rejected, NameserversServe,
         ParentScans, NotifyLost, ReleaseOwed, OwedTick, Invalidated, ThawTurn, Callback, Take, Analyse,
         ReadHold, List, Look, SendUpdate, HandOver, SendNotify
  <2> QED
    BY <1>1, <2>1 DEF Zones
<1>4. keys' \in Keys
  <2>1. \/ keys' = keys
        \/ \E w \in Word, inv \in SUBSET Foreign : keys' = [keys EXCEPT !.word["us"] = w, !.inv = inv]
        \/ \E f \in Foreign, w \in Word : keys' = [keys EXCEPT !.word[f] = w]
    BY DEF SyncNext, Beside, Syncher, Timers, Elsewhere, NsChanges, Inventory, Said, KeysSaid, OwnerTakes, GivenBack,
         Leave, GroupLeft, Return, HoldComes, CaughtUpAgain, KeyReady, Freeze, Unfreeze, LeadLost, Elected,
         OtherSyncs, AskDue, ReleaseDue, AwaitedDue, Confirmed, NoRoleTimedOut, Rejected, NameserversServe,
         ParentScans, NotifyLost, ReleaseOwed, OwedTick, Invalidated, ThawTurn, Callback, Take, Analyse,
         ReadHold, List, Look, SendUpdate, HandOver, SendNotify
  <2> QED
    BY <1>1, <2>1, SignersFacts DEF Keys
<1>5. lead' \in Leading
  <2>1. \/ lead' = lead \/ lead' = [lead EXCEPT !.who = "other", !.hold = 0]
        \/ lead' = [lead EXCEPT !.who = "none"]
        \/ lead' = [who |-> "us", hold |-> IF lead.hold = 0 THEN lead.holds + 1 ELSE lead.hold,
                    holds |-> IF lead.hold = 0 THEN lead.holds + 1 ELSE lead.holds]
    BY DEF SyncNext, Beside, Syncher, Timers, Elsewhere, NsChanges, Inventory, Said, KeysSaid, OwnerTakes, GivenBack,
         Leave, GroupLeft, Return, HoldComes, CaughtUpAgain, KeyReady, Freeze, Unfreeze, LeadLost, Elected,
         OtherSyncs, AskDue, ReleaseDue, AwaitedDue, Confirmed, NoRoleTimedOut, Rejected, NameserversServe,
         ParentScans, NotifyLost, ReleaseOwed, OwedTick, Invalidated, ThawTurn, Callback, Take, Analyse,
         ReadHold, List, Look, SendUpdate, HandOver, SendNotify
  <2>2. /\ lead.holds \in Nat /\ lead.holds + 1 \in Nat /\ lead.hold \in Nat
    BY <1>1 DEF Leading
  <2> DEFINE n == IF lead.hold = 0 THEN lead.holds + 1 ELSE lead.hold
             k == IF lead.hold = 0 THEN lead.holds + 1 ELSE lead.holds
  <2>3. n \in Nat /\ k \in Nat
    BY <2>2
  <2>4. [lead EXCEPT !.who = "other", !.hold = 0] \in Leading /\ [lead EXCEPT !.who = "none"] \in Leading
    BY <1>1 DEF Leading
  <2> HIDE DEF n, k
  <2>5. [who |-> "us", hold |-> n, holds |-> k] \in Leading
    BY <2>3 DEF Leading
  <2> QED
    BY <1>1, <2>1, <2>4, <2>5 DEF n, k
<1>6. run.at # "idle" /\ run.diff.ns # <<>> => run.diff.ns[1] \in Nat /\ run.diff.ns[2] \in Nat
  BY <1>1 DEF IsRun, Runs, Diff, NsChange
<1>7. served' \in Serving
  <2>1. \/ served' = served \/ served' = [served EXCEPT !.ns = zone.ns]
        \/ served' = [ns |-> zone.ns, csync |-> zone.ns, by |-> Recipient]
        \/ \E r \in my.csync.awaited : served' = [served EXCEPT !.by = @ \union {r}]
        \/ run.at # "idle" /\ run.diff.ns # <<>> /\ served' = [served EXCEPT !.csync = run.diff.ns[2], !.by = {}]
    BY DEF SyncNext, Beside, Syncher, Timers, Elsewhere, NsChanges, Inventory, Said, KeysSaid, OwnerTakes, GivenBack,
         Leave, GroupLeft, Return, HoldComes, CaughtUpAgain, KeyReady, Freeze, Unfreeze, LeadLost, Elected,
         OtherSyncs, AskDue, ReleaseDue, AwaitedDue, Confirmed, NoRoleTimedOut, Rejected, NameserversServe,
         ParentScans, NotifyLost, ReleaseOwed, OwedTick, Invalidated, ThawTurn, Callback, Take, Analyse,
         ReadHold, List, Look, SendUpdate, HandOver, SendNotify
  <2>2. my.csync.awaited \in SUBSET Recipient /\ zone.ns \in Nat
    BY <1>1 DEF IsWork, Work, Csync, Zones
  <2>3. [ns |-> zone.ns, csync |-> zone.ns, by |-> Recipient] \in Serving
    BY <2>2 DEF Serving
  <2>4. [served EXCEPT !.ns = zone.ns] \in Serving
    BY <1>1, <2>2 DEF Serving
  <2>5. \A r \in my.csync.awaited : [served EXCEPT !.by = @ \union {r}] \in Serving
    BY <1>1, <2>2 DEF Serving
  <2>6. \A n \in Nat : [served EXCEPT !.csync = n, !.by = {}] \in Serving
    BY <1>1 DEF Serving
  <2> QED
    BY <1>1, <1>6, <2>1, <2>3, <2>4, <2>5, <2>6
<1>8. parent' \in Parents
  <2>1. CASE OtherSyncs
    <3>1. parent' = [parent EXCEPT !.ns = zone.ns,
                                   !.ds = IF DSIntent(keys).known THEN DSIntent(keys).set ELSE @]
      BY <2>1 DEF OtherSyncs
    <3>2. zone.ns \in Nat
      BY <1>1 DEF Zones
    <3> HIDE DEF DSIntent
    <3> QED
      BY <1>1, <1>2, <3>1, <3>2 DEF Parents
  <2>2. CASE SendUpdate
    <3>1. run.diff.ns \in NsChange /\ run.diff.ds \in DsChange
      BY <1>1 DEF IsRun, Runs, Diff
    <3>2. /\ run.diff.ns # <<>> => run.diff.ns[2] \in Nat
          /\ run.diff.ds # <<>> => run.diff.ds[2] \in SUBSET Signer
      BY <3>1 DEF NsChange, DsChange
    <3>3. Updated(parent) \in Parents
      BY <1>1, <3>2 DEF Updated, Parents
    <3> QED
      BY <1>1, <2>2, <3>3 DEF SendUpdate
  <2>3. CASE HandOver
    <3>1. \A f, t : t \subseteq RRtype => Leaving(f, t) \subseteq RRtype
      BY DEF Leaving
    <3>2. Types(run.diff) \union my.chain.hold.types \subseteq RRtype
      BY <1>1 DEF Types, RRtype, IsWork, IsChain, Chain, Hold
    <3>3. parent' = parent \/ parent' = [parent EXCEPT !.told = @ \union Leaving(run.frozen, Types(run.diff) \union my.chain.hold.types)]
      BY <2>3 DEF HandOver, Notified
    <3> QED
      BY <1>1, <3>1, <3>2, <3>3 DEF Parents
  <2>4. CASE ReleaseDue
    <3>1. \A f, t : t \subseteq RRtype => Leaving(f, t) \subseteq RRtype
      BY DEF Leaving
    <3>2. my.chain.hold.types \subseteq RRtype
      BY <1>1 DEF IsWork, IsChain, Chain, Hold
    <3>3. parent' = parent \/ parent' = [parent EXCEPT !.told = @ \union Leaving(zone.frozen, my.chain.hold.types)]
      BY <2>4 DEF ReleaseDue, Notified
    <3> QED
      BY <1>1, <3>1, <3>2, <3>3 DEF Parents
  <2>5. CASE ParentScans
    <3>1. PICK t \in parent.told :
            parent' = [parent EXCEPT !.told = @ \ {t},
                                     !.ds = IF t = "CDS" /\ DSIntent(keys).known THEN DSIntent(keys).set ELSE @,
                                     !.ns = IF t = "CSYNC" /\ Voter \subseteq served.by THEN served.ns ELSE @]
      BY <2>5 DEF ParentScans
    <3>2. served.ns \in Nat
      BY <1>1 DEF Serving
    <3> HIDE DEF DSIntent
    <3> QED
      BY <1>1, <1>2, <3>1, <3>2 DEF Parents
  <2>6. CASE NotifyLost
    BY <1>1, <2>6 DEF NotifyLost, Parents
  <2>7. CASE UNCHANGED parent
    BY <1>1, <2>7
  <2>8. SyncNext => OtherSyncs \/ SendUpdate \/ HandOver \/ ReleaseDue \/ ParentScans \/ NotifyLost \/ UNCHANGED parent
    BY DEF SyncNext, Beside, Syncher, Timers, Elsewhere, NsChanges, Inventory, Said, KeysSaid, OwnerTakes, GivenBack,
         Leave, GroupLeft, Return, HoldComes, CaughtUpAgain, KeyReady, Freeze, Unfreeze, LeadLost, Elected,
         OtherSyncs, AskDue, ReleaseDue, AwaitedDue, Confirmed, NoRoleTimedOut, Rejected, NameserversServe,
         ParentScans, NotifyLost, ReleaseOwed, OwedTick, Invalidated, ThawTurn, Callback, Take, Analyse,
         ReadHold, List, Look, SendUpdate, HandOver, SendNotify
  <2> QED
    BY <2>1, <2>2, <2>3, <2>4, <2>5, <2>6, <2>7, <2>8
<1> QED
  BY <1>3, <1>4, <1>5, <1>7, <1>8 DEF RestTypes

-----------------------------------------------------------------------------
(* The work of every step *)

\* Only a run that goes and is handed over may begin to hold a NOTIFY.
WorkKept == IsWork(my)' /\ (my.chain.hold = NoHold => my'.chain.hold = NoHold)

LEMMA KeptSo ==
    ASSUME NEW n, HoldsNone(my, n), my' = n PROVE WorkKept
BY DEF HoldsNone, WorkKept

LEMMA HoldsNoneThen ==
    ASSUME NEW m, NEW n, NEW o, HoldsNone(m, n), HoldsNone(n, o) PROVE HoldsNone(m, o)
BY DEF HoldsNone

\* The chain replaced by one that holds nothing, or what this one holds.
LEMMA ChainHolds ==
    ASSUME NEW m, IsWork(m), NEW c, IsChain(c), c.hold \in {NoHold, m.chain.hold}
    PROVE  HoldsNone(m, [m EXCEPT !.chain = c])
<1>1. IsWork([m EXCEPT !.chain = c]) /\ [m EXCEPT !.chain = c].chain = c
  BY WithChain
<1> DEFINE n == [m EXCEPT !.chain = c]
<1> HIDE DEF n
<1>2. IsWork(n) /\ n.chain = c
  BY <1>1 DEF n
<1>3. HoldsNone(m, n)
  BY <1>2 DEF HoldsNone
<1> QED
  BY <1>3 DEF n

LEMMA BesideWork == ASSUME Typed, Beside PROVE WorkKept
<1>1. IsWork(my) /\ HoldsNone(my, my) /\ RestTypes
  BY DEF Typed, HoldsNone
<1>2. HoldsNone(my, Requested(my))
  BY <1>1, RequestedHolds
<1>3. CASE NsChanges
  <2> DEFINE r == [arm |-> "implicit", diff |-> [ns |-> <<zone.ns, zone.ns + 1>>, ds |-> <<>>]]
             q == Append(my.queue, r)
  <2>1. zone.ns \in Nat
    BY <1>1 DEF RestTypes, Zones
  <2> DEFINE d == [ns |-> <<zone.ns, zone.ns + 1>>, ds |-> <<>>]
  <2>0. zone.ns + 1 \in Nat
    BY <2>1
  <2>8. d \in Diff /\ d.ns # <<>>
    BY <2>0, <2>1 DEF Diff, NsChange, DsChange
  <2>2. r \in Ask
    <3> HIDE DEF d
    <3> QED
      BY <2>8 DEF Ask, Found, d
  <2>3. my.queue \in Seq(Ask)
    BY <1>1 DEF IsWork, Work
  <2>4. \/ my' = my
        \/ Len(my.queue) < QueueSize /\ my' = [my EXCEPT !.gaveUp = FALSE, !.queue = q]
    BY <1>3 DEF NsChanges
  <2> HIDE DEF r
  <2>5. q \in Seq(Ask) /\ Len(q) = Len(my.queue) + 1 /\ Len(my.queue) \in Nat
    BY <2>2, <2>3
  <2> HIDE DEF q
  <2>6. ASSUME Len(q) <= QueueSize
        PROVE  LET n == [my EXCEPT !.gaveUp = FALSE, !.queue = q] IN IsWork(n) /\ n.chain = my.chain
    BY <1>1, <2>5, <2>6 DEF IsWork, Work
  <2>7. Len(my.queue) < QueueSize => Len(q) <= QueueSize
    BY <2>5, Bounds
  <2> QED
    BY <1>1, <2>4, <2>6, <2>7 DEF WorkKept
<1>4. CASE Inventory \/ Said
  <2>1. my' = my \/ my' = Requested(my)
    BY <1>4 DEF Inventory, Said, KeysSaid
  <2> QED
    BY <1>1, <1>2, <2>1 DEF WorkKept, HoldsNone
<1>5. CASE CaughtUpAgain
  <2>1. my' = AskedOwed(my, MayAsk, TRUE)
    BY <1>5 DEF CaughtUpAgain
  <2> QED
    BY <1>1, <2>1, AskedOwedHolds DEF WorkKept, HoldsNone
<1>6. CASE ThawTurn \/ Invalidated
  <2>1. my' = ChainEnded(my)
    BY <1>6 DEF ThawTurn, Invalidated
  <2> QED
    BY <1>1, <2>1, EndedHolds DEF WorkKept
<1>7. CASE UNCHANGED my
  BY <1>1, <1>7 DEF WorkKept
<1>8. Beside => \/ NsChanges \/ Inventory \/ Said \/ CaughtUpAgain \/ ThawTurn \/ Invalidated
                 \/ UNCHANGED my
  BY DEF Beside, OwnerTakes, GivenBack, Leave, GroupLeft, Return, HoldComes, KeyReady, Freeze, Unfreeze,
         LeadLost, Elected, OtherSyncs
<1> QED
  BY <1>3, <1>4, <1>5, <1>6, <1>7, <1>8

LEMMA CallbackWork ==
    ASSUME Typed, Callback PROVE WorkKept
<1>1. IsWork(my)
  BY DEF Typed
<1>2. my' = my \/ my' = Requested(my) \/ my' = WorkEnded(my)
  BY DEF Callback
<1> QED
  BY <1>1, <1>2, RequestedHolds, EndedHolds DEF WorkKept, HoldsNone

LEMMA OwedWork ==
    ASSUME Typed, ReleaseOwed \/ OwedTick PROVE WorkKept
<1>1. IsWork(my)
  BY DEF Typed
<1>2. CASE OwedTick
  BY <1>1, <1>2, AskedOwedHolds DEF OwedTick, WorkKept, HoldsNone
<1>3. CASE ReleaseOwed
  <2>1. PICK why \in {"key", "frozen"} :
          my.owed[why] /\ my' = AskedOwed([my EXCEPT !.owed[why] = FALSE], MayAsk, zone.caughtUp)
    BY <1>3 DEF ReleaseOwed
  <2> DEFINE o == [my.owed EXCEPT ![why] = FALSE]
  <2>2. IsOwed(o)
    BY <1>1, <2>1 DEF IsWork, IsOwed, Owed
  <2> HIDE DEF o
  <2>3. IsWork([my EXCEPT !.owed = o]) /\ [my EXCEPT !.owed = o].chain = my.chain
    BY <1>1, <2>2, WithOwed
  <2>4. [my EXCEPT !.owed[why] = FALSE] = [my EXCEPT !.owed = o]
    BY <1>1 DEF IsWork, Work, o
  <2> DEFINE n == [my EXCEPT !.owed = o]
  <2>5. HoldsNone(my, n)
    BY <2>3 DEF HoldsNone
  <2> HIDE DEF n
  <2>6. HoldsNone(my, AskedOwed(n, MayAsk, zone.caughtUp))
    BY <2>5, AskedOwedHolds, HoldsNoneThen DEF HoldsNone
  <2> QED
    BY <2>1, <2>4, <2>6, KeptSo DEF n
<1> QED
  BY <1>2, <1>3

\* A chain of which the timer is gone and no NOTIFY held.
LEMMA UntimedIs ==
    ASSUME NEW ch, IsChain(ch), NEW t \in Timer, ch.here \/ t = "none", NEW h \in {ch.hold, NoHold},
           h # NoHold => t \in {"release", "awaited", "dead"}
    PROVE  LET c == [ch EXCEPT !.hold = h, !.timer = t] IN IsChain(c) /\ c.hold = h
<1> DEFINE c == [ch EXCEPT !.hold = h, !.timer = t]
<1>1. ch \in Chain /\ NoHold \in Hold /\ ch.hold \in Hold
  BY NothingIs DEF IsChain, Chain
<1>2. h \in Hold /\ (h # NoHold => h = ch.hold)
  BY <1>1
<1>3. /\ c \in Chain /\ c.here = ch.here /\ c.failures = ch.failures /\ c.rechecks = ch.rechecks
      /\ c.notified = ch.notified /\ c.hold = h /\ c.timer = t
  BY <1>1, <1>2 DEF Chain
<1>4. NoHold.types = {}
  BY DEF NoHold
<1> HIDE DEF c
<1>5. IsChain(c)
  <2>1. h # NoHold => ch.hold.types # {}
    BY <1>2 DEF IsChain, Holding
  <2>2. h = NoHold => h.types = {}
    BY <1>4
  <2>3. Holding(c)
    BY <1>3, <2>1, <2>2 DEF Holding, IsChain
  <2>4. ~ch.here => ch.hold = NoHold /\ h = NoHold
    BY <1>2 DEF IsChain
  <2> QED
    BY <1>3, <2>3, <2>4 DEF IsChain
<1> QED
  BY <1>3, <1>5 DEF c

LEMMA TimersWork == ASSUME Typed, Timers PROVE WorkKept
<1>1. IsWork(my) /\ RestTypes /\ IsChain(my.chain) /\ my.chain \in Chain
  BY DEF Typed, IsWork, IsChain
<1> DEFINE ch == my.chain
<1>2. ch.timer # "none" => ch.here
  BY <1>1 DEF IsChain
<1>3. {"none", "dead"} \subseteq Timer
  BY DEF Timer
<1>4. CASE AskDue
  <2>1. my.chain.timer = "ask" /\ LET m == [my EXCEPT !.chain.timer = "none"]
                                  IN my' = Requested(m) \/ my' = Succeeded(m)
    BY <1>4 DEF AskDue
  <2>2. ch.hold = NoHold
    BY <1>1, <2>1 DEF IsChain, Holding
  <2>3. [ch EXCEPT !.timer = "none"] = [ch EXCEPT !.hold = ch.hold, !.timer = "none"]
    BY <1>1 DEF Chain
  <2>4. IsChain([ch EXCEPT !.timer = "none"]) /\ [ch EXCEPT !.timer = "none"].hold = NoHold
    <3> HIDE DEF NoHold, ch
    <3>1. LET c == [ch EXCEPT !.hold = ch.hold, !.timer = "none"] IN IsChain(c) /\ c.hold = ch.hold
      BY <1>1, <1>3, <2>2, UntimedIs DEF ch
    <3> QED
      BY <2>2, <2>3, <3>1
  <2> DEFINE c == [ch EXCEPT !.timer = "none"]
  <2>5. [my EXCEPT !.chain.timer = "none"] = [my EXCEPT !.chain = c]
    BY <1>1 DEF IsWork, Work
  <2> HIDE DEF c
  <2>6. IsWork([my EXCEPT !.chain = c]) /\ [my EXCEPT !.chain = c].chain.hold = NoHold
    BY <1>1, <2>4, WithChain DEF c
  <2> QED
    BY <2>1, <2>5, <2>6, RequestedHolds, SucceededHolds DEF WorkKept, HoldsNone
<1>5. CASE ReleaseDue
  <2> DEFINE released == [ch EXCEPT !.hold = NoHold, !.timer = "none"]
  <2>1. \/ my' = WorkEnded(my)
        \/ my' = Owe([my EXCEPT !.chain = Forgotten(ch)], "here")
        \/ my' = LetGo(my, released, ch.hold.types, zone.frozen, ch.hold.retimed)
    BY <1>5 DEF ReleaseDue
  <2>2. IsChain(released)
    BY <1>1, <1>3, UntimedIs
  <2>3. ch.hold.types \in SUBSET RRtype /\ zone.frozen \in BOOLEAN /\ ch.hold.retimed \in BOOLEAN
    BY <1>1 DEF Chain, Hold, RestTypes, Zones
  <2> HIDE DEF released
  <2>4. IsWork(LetGo(my, released, ch.hold.types, zone.frozen, ch.hold.retimed))
        /\ LetGo(my, released, ch.hold.types, zone.frozen, ch.hold.retimed).chain.hold = NoHold
    BY <1>1, <2>2, <2>3, LetGoHolds
  <2>5. IsWork(Owe([my EXCEPT !.chain = Forgotten(ch)], "here"))
        /\ Owe([my EXCEPT !.chain = Forgotten(ch)], "here").chain.hold = NoHold
    <3>2. IsChain(Forgotten(ch)) /\ Forgotten(ch).hold = NoHold
      BY <1>1, ForgottenIs
    <3> DEFINE f == Forgotten(ch)
    <3> HIDE DEF f
    <3>3. IsWork([my EXCEPT !.chain = f]) /\ [my EXCEPT !.chain = f].chain = f
      BY <1>1, <3>2, WithChain DEF f
    <3>1. IsWork([my EXCEPT !.chain = f]) /\ [my EXCEPT !.chain = f].chain.hold = NoHold
      BY <3>2, <3>3 DEF f
    <3> USE DEF f
    <3> HIDE DEF ch
    <3> QED
      BY <3>1, OweHolds DEF HoldsNone, Why
  <2> QED
    BY <1>1, <2>1, <2>4, <2>5, EndedHolds DEF WorkKept
<1>6. CASE AwaitedDue
  <2>1. my' = WorkEnded(my) \/ (ch.timer = "awaited" /\ my' = [my EXCEPT !.chain.timer = "dead"])
    BY <1>6 DEF AwaitedDue
  <2> DEFINE c == [ch EXCEPT !.timer = "dead"]
  <2>2. c = [ch EXCEPT !.hold = ch.hold, !.timer = "dead"]
    BY <1>1 DEF Chain
  <2>3. ch.timer = "awaited" => IsChain(c) /\ c.hold = ch.hold
    BY <1>1, <1>2, <1>3, <2>2, UntimedIs
  <2>4. [my EXCEPT !.chain.timer = "dead"] = [my EXCEPT !.chain = c]
    BY <1>1 DEF IsWork, Work
  <2> HIDE DEF c
  <2>5. HoldsNone(my, WorkEnded(my))
    BY <1>1, EndedHolds DEF HoldsNone
  <2>6. ch.timer = "awaited" => HoldsNone(my, [my EXCEPT !.chain = c])
    BY <1>1, <2>3, ChainHolds
  <2> QED
    BY <2>1, <2>4, <2>5, <2>6, KeptSo
<1> QED
  BY <1>4, <1>5, <1>6 DEF Timers

LEMMA ElsewhereWork == ASSUME Typed, Elsewhere PROVE WorkKept
<1>1. IsWork(my) /\ my.csync \in Csync
  BY DEF Typed, IsWork, Work
<1>2. CASE Confirmed \/ NoRoleTimedOut
  <2>1. \E w \in SUBSET Recipient : my' = Progress(my, w)
    BY <1>1, <1>2 DEF Confirmed, NoRoleTimedOut, Csync
  <2> QED
    BY <1>1, <2>1, ProgressHolds DEF WorkKept, HoldsNone
<1>3. CASE Rejected
  <2> DEFINE n == [[my EXCEPT !.csync = NoCsync] EXCEPT !.chain = Unheld(my.chain)]
             c == [my.csync EXCEPT !.failed = TRUE]
  <2>1. my' = FailedOnce([my EXCEPT !.csync = NoCsync, !.chain = Unheld(@)])
        \/ my' = [my EXCEPT !.csync.failed = TRUE]
    BY <1>3 DEF Rejected
  <2>2. IsChain(Unheld(my.chain)) /\ Unheld(my.chain).hold = NoHold
    BY <1>1, UnheldIs DEF IsWork
  <2>3. IsWork([my EXCEPT !.csync = NoCsync])
    BY <1>1, NothingIs, WithCsync
  <2>4. IsWork(n) /\ n.chain.hold = NoHold
    BY <2>2, <2>3, WithChain
  <2>5. [my EXCEPT !.csync = NoCsync, !.chain = Unheld(@)] = n
    BY <1>1 DEF IsWork, Work
  <2>6. c \in Csync /\ [my EXCEPT !.csync.failed = TRUE] = [my EXCEPT !.csync = c]
    BY <1>1 DEF IsWork, Work, Csync
  <2>7. HoldsNone(my, n)
    <3> HIDE DEF n
    <3> QED
      BY <2>4 DEF HoldsNone
  <2>8. HoldsNone(my, [my EXCEPT !.csync = c])
    <3> HIDE DEF c
    <3> QED
      BY <1>1, <2>6, WithCsync DEF HoldsNone
  <2> HIDE DEF n, c
  <2>9. HoldsNone(my, FailedOnce(n))
    BY <2>4, <2>7, FailedOnceHolds, HoldsNoneThen
  <2> QED
    BY <2>1, <2>5, <2>6, <2>8, <2>9, KeptSo
<1>4. CASE UNCHANGED my
  BY <1>1, <1>4 DEF WorkKept
<1> QED
  BY <1>2, <1>3, <1>4 DEF Elsewhere, NameserversServe, ParentScans, NotifyLost

LEMMA TakeWork == ASSUME Typed, Take PROVE WorkKept
<1> DEFINE q == Tail(my.queue)
           m == [my EXCEPT !.queue = q]
           c == [my.chain EXCEPT !.notified = {}, !.rechecks = 0]
           n == [m EXCEPT !.chain.notified = {}, !.chain.rechecks = 0]
<1>1. IsWork(my) /\ my.queue # <<>> /\ IsChain(my.chain) /\ my.chain \in Chain
  BY DEF Typed, IsWork, IsChain, Take
<1>2. q \in Seq(Ask) /\ Len(q) <= QueueSize
  BY <1>1, NextAsk
<1>3. \/ my' = WorkEnded(m) \/ my' = Owe(n, "here") \/ my' = Owe(m, "key") \/ my' = Owe(m, "frozen")
      \/ my' = m
  BY DEF Take
<1>4. IsChain(c) /\ c.hold = my.chain.hold
  <2>1. c \in Chain /\ c.rechecks = 0 /\ c.notified = {}
    BY <1>1, Counts DEF Chain
  <2>2. c.here = my.chain.here /\ c.failures = my.chain.failures /\ c.timer = my.chain.timer
        /\ c.hold = my.chain.hold
    BY <1>1 DEF Chain
  <2> HIDE DEF c
  <2> QED
    BY <1>1, <2>1, <2>2 DEF IsChain, Holding
<1> HIDE DEF q
<1>5. IsWork(m) /\ m.chain = my.chain
  BY <1>1, <1>2 DEF IsWork, Work
<1>6. n = [m EXCEPT !.chain = c]
  BY <1>1 DEF IsWork, Work
<1> HIDE DEF m, c
<1>7. HoldsNone(my, m)
  BY <1>5 DEF HoldsNone
<1>8. HoldsNone(m, [m EXCEPT !.chain = c])
  BY <1>4, <1>5, ChainHolds
<1> HIDE DEF n
<1>9. HoldsNone(m, n) /\ IsWork(n)
  BY <1>6, <1>8 DEF HoldsNone
<1>10. HoldsNone(n, Owe(n, "here")) /\ HoldsNone(m, Owe(m, "key")) /\ HoldsNone(m, Owe(m, "frozen"))
  BY <1>5, <1>9, OweHolds DEF Why
<1>11. HoldsNone(m, WorkEnded(m))
  BY <1>5, EndedHolds DEF HoldsNone
<1>12. HoldsNone(m, Owe(n, "here"))
  BY <1>9, <1>10, HoldsNoneThen
<1> QED
  BY <1>3, <1>7, <1>10, <1>11, <1>12, HoldsNoneThen, KeptSo

LEMMA AnalyseWork == ASSUME Typed, Analyse PROVE WorkKept
<1> DEFINE s == Succeeded(my)
           n == [s EXCEPT !.csync = NoCsync, !.gaveUp = FALSE]
<1>1. IsWork(my)
  BY DEF Typed
<1>2. my' = Owe(my, "here") \/ my' = my \/ my' = n \/ my' = Owe(my, "frozen")
  BY DEF Analyse
<1>3. HoldsNone(my, my) /\ HoldsNone(my, Owe(my, "here")) /\ HoldsNone(my, Owe(my, "frozen"))
  BY <1>1, OweHolds DEF HoldsNone, Why
<1>4. HoldsNone(my, s)
  BY <1>1, SucceededHolds
<1> HIDE DEF s
<1>5. IsWork(s) /\ NoCsync \in Csync
  BY <1>4, NothingIs DEF HoldsNone
<1> HIDE DEF NoCsync
<1>6. IsWork(n) /\ n.chain = s.chain
  BY <1>5 DEF IsWork, Work
<1> HIDE DEF n
<1>7. HoldsNone(s, n)
  BY <1>6 DEF HoldsNone
<1> QED
  BY <1>2, <1>3, <1>4, <1>7, HoldsNoneThen, KeptSo

LEMMA LookWork == ASSUME Typed, Look PROVE WorkKept
<1> DEFINE d == run.diff.ns
           made == [here |-> TRUE, diff |-> d, awaited |-> Recipient, failed |-> FALSE]
           h == [my.chain.hold EXCEPT !.current = FALSE]
           c == [my.chain EXCEPT !.hold = h]
           again == [my.csync EXCEPT !.diff = d]
           n == [my EXCEPT !.csync = made]
<1>1. IsWork(my) /\ d \in NsChange /\ IsChain(my.chain) /\ my.chain \in Chain /\ my.csync \in Csync
  BY DEF Typed, IsRun, Runs, Diff, IsWork, Work, IsChain
<1>2. \/ my' = AfterError(my) \/ my' = my
      \/ my' = [my EXCEPT !.csync.diff = d]
      \/ my' = [my EXCEPT !.csync = made, !.chain.hold.current = FALSE]
      \/ my' = [my EXCEPT !.csync = NoCsync]
  BY DEF Look
<1>3. [my EXCEPT !.csync.diff = d] = [my EXCEPT !.csync = again]
      /\ [my EXCEPT !.csync = made, !.chain.hold.current = FALSE] = [n EXCEPT !.chain = c]
  BY <1>1 DEF IsWork, Work, Chain
<1>4. made \in Csync /\ again \in Csync /\ NoCsync \in Csync
  BY <1>1, NothingIs DEF Csync
<1>5. h \in Hold /\ h.types = my.chain.hold.types /\ (my.chain.hold = NoHold => h = NoHold)
  <2> DEFINE o == my.chain.hold
  <2>1. o \in Hold
    BY <1>1 DEF Chain
  <2> HIDE DEF o
  <2>2. LET x == [o EXCEPT !.current = FALSE] IN x \in Hold /\ x.types = o.types /\ (o = NoHold => x = NoHold)
    <3>1. LET x == [o EXCEPT !.current = FALSE] IN x \in Hold /\ x.types = o.types
      BY <2>1 DEF Hold
    <3>2. ~o.current => [o EXCEPT !.current = FALSE] = o
      BY <2>1 DEF Hold
    <3>3. ~NoHold.current
      BY DEF NoHold
    <3> HIDE DEF NoHold
    <3> QED
      BY <3>1, <3>2, <3>3
  <2> QED
    BY <2>2 DEF o
<1>6. IsChain(c) /\ c.hold = h
  <2> HIDE DEF h
  <2>1. /\ c \in Chain /\ c.hold = h /\ c.here = my.chain.here /\ c.failures = my.chain.failures
        /\ c.rechecks = my.chain.rechecks /\ c.notified = my.chain.notified /\ c.timer = my.chain.timer
    BY <1>1, <1>5 DEF Chain
  <2> HIDE DEF c
  <2> QED
    BY <1>1, <1>5, <2>1 DEF IsChain, Holding
<1> HIDE DEF h, c, made, again
<1>7. HoldsNone(my, [my EXCEPT !.csync = again]) /\ HoldsNone(my, [my EXCEPT !.csync = NoCsync])
  BY <1>1, <1>4, WithCsync DEF HoldsNone
<1>8. IsWork(n) /\ n.chain = my.chain
  BY <1>1, <1>4, WithCsync
<1> HIDE DEF n
<1> DEFINE o == [n EXCEPT !.chain = c]
<1>9. IsWork(o) /\ o.chain = c
  BY <1>6, <1>8, WithChain
<1> HIDE DEF o
<1>10. HoldsNone(my, o)
  BY <1>5, <1>6, <1>9 DEF HoldsNone
<1>11. HoldsNone(my, my) /\ HoldsNone(my, AfterError(my))
  BY <1>1, AfterErrorHolds DEF HoldsNone
<1> QED
  BY <1>2, <1>3, <1>7, <1>10, <1>11, KeptSo DEF o

LEMMA SendWork == ASSUME Typed, SendUpdate \/ SendNotify PROVE WorkKept
<1>1. IsWork(my)
  BY DEF Typed
<1>2. my' = Succeeded(my) \/ my' = my \/ my' = AfterError(my)
  BY DEF SendUpdate, SendNotify
<1>3. HoldsNone(my, my) /\ HoldsNone(my, Succeeded(my)) /\ HoldsNone(my, AfterError(my))
  BY <1>1, SucceededHolds, AfterErrorHolds DEF HoldsNone
<1> QED
  BY <1>2, <1>3, KeptSo

\* A hand-over that goes may hold its NOTIFY, and then with something in it.
LEMMA HandOverWork ==
    ASSUME Typed, HandOver
    PROVE  IsWork(my)' /\ (run.cancelled # "no" => WorkKept)
<1> DEFINE ch == my.chain
           types == Types(run.diff) \union ch.hold.types
           retimed == IF ch.hold # NoHold THEN ch.hold.retimed ELSE ch.timer # "none" /\ ch.rechecks > 0
           Made(w) == [types |-> types, diff |-> <<run.diff>>, retimed |-> retimed, awaiting |-> w, current |-> w]
           after == [ch EXCEPT !.hold = NoHold, !.failures = 0]
           Under(w, t) == Scheduled([ch EXCEPT !.hold = Made(w)], t)
           Under0(w, t) == Scheduled([ch EXCEPT !.hold = Made(w), !.failures = 0], t)
           other == [[my EXCEPT !.csync = NoCsync] EXCEPT !.chain = Unheld(ch)]
<1>1. IsWork(my) /\ IsChain(ch) /\ ch \in Chain /\ run.at = "hand" /\ IsRun(run) /\ run.diff \in Diff
      /\ Found(run.diff) /\ run.frozen \in BOOLEAN
  BY DEF Typed, HandOver, IsWork, IsChain, IsRun, Runs
<1>2. types \in SUBSET RRtype /\ types # {} /\ retimed \in BOOLEAN
  <2>1. Types(run.diff) # {} /\ Types(run.diff) \subseteq RRtype
    BY <1>1 DEF Found, Types, RRtype
  <2>2. ch.hold.types \subseteq RRtype /\ ch.hold.retimed \in BOOLEAN
    BY <1>1 DEF Chain, Hold
  <2> QED
    BY <2>1, <2>2
<1>3. ASSUME NEW w \in BOOLEAN PROVE Made(w) \in Hold /\ Made(w).types # {}
  <2>1. <<run.diff>> \in Seq(Diff)
    <3> HIDE DEF Diff
    <3> QED
      BY <1>1
  <2> HIDE DEF types, retimed, Diff
  <2> QED
    BY <1>2, <1>3, <2>1 DEF Hold
<1>4. ASSUME NEW w \in BOOLEAN, NEW t \in {"release", "awaited", "dead"}
      PROVE  IsWork([my EXCEPT !.chain = Under(w, t)]) /\ IsWork([my EXCEPT !.chain = Under0(w, t)])
  <2> DEFINE h == Made(w)
             x == [ch EXCEPT !.hold = h, !.here = TRUE, !.timer = t]
             y == [ch EXCEPT !.hold = h, !.failures = 0, !.here = TRUE, !.timer = t]
  <2>1. h \in Hold /\ h.types # {} /\ t \in Timer /\ 0 \in Failures
    BY <1>3, <1>4, Counts DEF Timer
  <2>2. Under(w, t) = x /\ Under0(w, t) = y
    <3> HIDE DEF h, ch
    <3> QED
      BY <1>1 DEF Scheduled, Chain, h
  <2> HIDE DEF h, Made, Under, Under0
  <2>3. x \in Chain /\ x.here /\ x.hold = h /\ x.timer = t /\ y \in Chain /\ y.here /\ y.hold = h /\ y.timer = t
    BY <1>1, <2>1 DEF Chain
  <2> HIDE DEF x, y
  <2>4. IsChain(x) /\ IsChain(y)
    BY <1>4, <2>1, <2>3 DEF IsChain, Holding
  <2> QED
    BY <1>1, <2>2, <2>4, WithChain
<1>5. ASSUME run.cancelled # "no" PROVE my' = AfterError(my)
  BY <1>5 DEF HandOver
<1>6. /\ HoldsNone(my, AfterError(my)) /\ HoldsNone(my, FailedOnce(my)) /\ HoldsNone(my, my)
  BY <1>1, AfterErrorHolds, FailedOnceHolds DEF HoldsNone
<1>7. HoldsNone(my, other) /\ HoldsNone(my, FailedOnce(other))
  <2>1. IsWork([my EXCEPT !.csync = NoCsync]) /\ IsChain(Unheld(ch)) /\ Unheld(ch).hold = NoHold
    BY <1>1, NothingIs, WithCsync, UnheldIs
  <2>2. IsWork(other) /\ other.chain.hold = NoHold
    BY <2>1, WithChain
  <2> HIDE DEF other
  <2>3. HoldsNone(my, other)
    BY <2>2 DEF HoldsNone
  <2> QED
    BY <2>2, <2>3, FailedOnceHolds, HoldsNoneThen
<1>8. IsWork(LetGo(my, after, types, run.frozen, retimed))
  <2>1. /\ after \in Chain /\ after.here = ch.here /\ after.rechecks = ch.rechecks /\ after.failures = 0
        /\ after.notified = ch.notified /\ after.hold = NoHold /\ after.timer = ch.timer
    <3> HIDE DEF ch
    <3>1. NoHold \in Hold /\ 0 \in Failures
      BY NothingIs, Counts
    <3> HIDE DEF NoHold
    <3> QED
      BY <1>1, <3>1 DEF Chain
  <2>2. NoHold.types = {}
    BY DEF NoHold
  <2> HIDE DEF after
  <2>3. IsChain(after)
    <3> HIDE DEF NoHold
    <3> QED
      BY <1>1, <2>1, <2>2 DEF IsChain, Holding
  <2> HIDE DEF types, retimed
  <2> QED
    BY <1>1, <1>2, <2>3, LetGoHolds
<1>9. \/ my' = AfterError(my)
      \/ my' = my \/ my' = FailedOnce(my)
      \/ my' = other \/ my' = FailedOnce(other)
      \/ \E t \in {"release", "awaited", "dead"} :
           my' = [my EXCEPT !.chain = Under(TRUE, t)] \/ my' = [my EXCEPT !.chain = Under0(FALSE, t)]
      \/ my' = LetGo(my, after, types, run.frozen, retimed)
  <2>1. ch.hold # NoHold => ch.timer \in {"release", "awaited", "dead"}
    BY <1>1 DEF IsChain, Holding
  <2>2. ch.hold.awaiting => ch.hold # NoHold
    BY DEF NoHold
  <2>3. [my EXCEPT !.csync = NoCsync, !.chain = Unheld(ch)] = other
    OBVIOUS
  <2> HIDE DEF NoHold
  <2> QED
    BY <2>1, <2>2, <2>3 DEF HandOver
<1> HIDE DEF ch, types, retimed, Made, after, Under, Under0, other
<1>10. IsWork(my')
  BY <1>4, <1>6, <1>7, <1>8, <1>9 DEF HoldsNone
<1>11. run.cancelled # "no" => WorkKept
  BY <1>5, <1>6, KeptSo
<1> QED
  BY <1>10, <1>11 DEF IsWork, IsChain, Holding, IsOwed

LEMMA WorkStep ==
    ASSUME Typed, SyncNext PROVE IsWork(my)' /\ (WorkKept \/ (HandOver /\ run.cancelled = "no"))
<1>1. CASE UNCHANGED my
  <2>1. HoldsNone(my, my)
    BY DEF Typed, HoldsNone
  <2> QED
    BY <1>1, <2>1, KeptSo DEF WorkKept
<1>2. CASE HandOver
  BY <1>2, HandOverWork
<1>3. CASE Syncher
  <2>1. ReadHold \/ List => UNCHANGED my
    BY DEF ReadHold, List
  <2>2. Take \/ Analyse \/ Look \/ SendUpdate \/ SendNotify => WorkKept
    BY TakeWork, AnalyseWork, LookWork, SendWork
  <2> QED
    BY <1>1, <1>2, <1>3, <2>1, <2>2 DEF Syncher, WorkKept
<1>4. Beside \/ Timers \/ Elsewhere \/ Callback \/ ReleaseOwed \/ OwedTick => WorkKept
  BY BesideWork, TimersWork, ElsewhereWork, CallbackWork, OwedWork
<1> QED
  BY <1>3, <1>4 DEF SyncNext, WorkKept

LEMMA TypedInit == SyncInit => Typed
<1> SUFFICES ASSUME SyncInit PROVE Typed
  OBVIOUS
<1> DEFINE w == [queue |-> <<>>, chain |-> NoChain, csync |-> NoCsync, owed |-> NoOwed, gaveUp |-> FALSE]
<1>1. IsWork(w)
  <2>1. <<>> \in Seq(Ask) /\ Len(<<>>) <= QueueSize
    BY Bounds
  <2>2. IsChain(NoChain) /\ NoChain \in Chain /\ NoCsync \in Csync /\ IsOwed(NoOwed) /\ NoOwed \in Owed
    BY NothingIs DEF IsChain, IsOwed
  <2> HIDE DEF NoChain, NoCsync, NoOwed
  <2> QED
    BY <2>1, <2>2 DEF IsWork, Work
<1>2. IsWork(my) /\ IsRun(run)
  BY <1>1, NothingIs DEF SyncInit, IsRun
<1>3. zone \in Zones /\ lead \in Leading /\ served \in Serving
  BY DEF SyncInit, Zones, Leading, Serving
<1>4. keys \in Keys
  <2>1. PICK o \in Owned : keys = [word |-> [s \in Signer |-> "yes"], inv |-> Foreign, owned |-> o]
    BY DEF SyncInit
  <2> QED
    BY <2>1, ConstantsAssumption DEF Keys, Word
<1>5. parent \in Parents
  <2>1. PICK s \in Scheme, w1 \in Wait : parent = [ns |-> 1, ds |-> Signer, told |-> {}, scheme |-> s, wait |-> w1]
    BY DEF SyncInit
  <2> QED
    BY <2>1, ConstantsAssumption DEF Parents
<1> QED
  BY <1>2, <1>3, <1>4, <1>5 DEF Typed, RestTypes

LEMMA TypedSuffices == Typed => SyncTypeOK
<1> SUFFICES ASSUME Typed PROVE SyncTypeOK
  OBVIOUS
<1>1. /\ zone \in Zones /\ keys \in Keys /\ lead \in Leading /\ my \in Work /\ run \in Runs
      /\ my.chain \in Chain /\ IsChain(my.chain) /\ IsOwed(my.owed) /\ my.csync \in Csync
      /\ Len(my.queue) <= QueueSize
  BY DEF Typed, RestTypes, IsWork, IsChain, IsRun, Work
<1>2. my.chain.hold # NoHold => my.chain.hold.types # {} /\ my.chain.timer \in {"release", "awaited", "dead"}
  BY <1>1 DEF IsChain, Holding
<1>3. my.chain # NoChain => my.chain.here
  <2> DEFINE ch == my.chain
  <2>1. ch = [here |-> ch.here, failures |-> ch.failures, rechecks |-> ch.rechecks,
              notified |-> ch.notified, timer |-> ch.timer, hold |-> ch.hold]
    BY <1>1 DEF Chain
  <2>2. ch.here \in BOOLEAN
    BY <1>1 DEF Chain
  <2> HIDE DEF ch
  <2> QED
    BY <1>1, <2>1, <2>2 DEF IsChain, NoChain, ch
<1>4. my.owed # NoOwed => my.owed.here
  BY <1>1 DEF IsOwed, Owed, NoOwed
<1>5. my.chain.failures \in 0..MaxFailures /\ my.chain.rechecks \in 0..MaxChecks /\ my.chain.timer \in Timer
  BY <1>1 DEF Chain, Failures, Checks
<1>6. my.csync.awaited \subseteq Recipient /\ run.at \in {"idle", "analyse", "hold", "list", "look", "send", "hand"}
  BY <1>1 DEF Csync, Runs
<1> QED
  BY <1>1, <1>2, <1>3, <1>4, <1>5, <1>6 DEF SyncTypeOK, Zones, Keys, Leading, Timer

\* Every variable has its type; a NOTIFY is held with something in it and by a
\* timer that ends the hold, and a chain or a mark that is not there has nothing.
THEOREM SyncTypeCorrect == SyncSpec => []SyncTypeOK
<1>1. Typed /\ [SyncNext]_syncVars => Typed'
  <2>1. CASE UNCHANGED syncVars
    BY <2>1 DEF syncVars, Typed, IsWork, IsRun, RestTypes
  <2> QED
    BY <2>1, WorkStep, RunStep, RestStep DEF Typed
<1> QED
  BY <1>1, TypedInit, TypedSuffices, PTL DEF SyncSpec

-----------------------------------------------------------------------------
(* What ended stays ended *)

\* How a step changes the run: it is not listed, or as it was, or cancelled,
\* or comes to be looked at, or goes on where the option is set.
LEMMA RunMoves ==
    ASSUME Typed, SyncNext
    PROVE  \/ run' = run
           \/ run'.at \in {"idle", "analyse", "hold", "list"}
           \/ \E cause \in {"ended", "thaw"} : run' = Cancelled(cause)
           \/ /\ List
              /\ run.at = "list" /\ run'.at = "look" /\ run'.hold = run.hold
              /\ run'.cancelled = IF run.hold # 0 /\ run.hold # HoldNow THEN "ended" ELSE "no"
           \/ /\ zone.option /\ run.at \in {"look", "send"} /\ run'.at \in {"send", "hand"}
              /\ run'.hold = run.hold /\ run'.cancelled = run.cancelled
<1>1. run \in Runs /\ NoRun \in Runs /\ NoRun.at = "idle"
  BY NothingIs DEF Typed, IsRun
<1>2. CASE Take
  <2>1. \/ run' = run
        \/ run' = [NoRun EXCEPT !.at = IF Head(my.queue).arm = "explicit" THEN "analyse" ELSE "hold",
                                !.arm = Head(my.queue).arm, !.diff = Head(my.queue).diff]
    BY <1>2 DEF Take
  <2> DEFINE x == IF Head(my.queue).arm = "explicit" THEN "analyse" ELSE "hold"
  <2>2. x \in {"analyse", "hold"}
    OBVIOUS
  <2> HIDE DEF NoRun, x
  <2>3. \A b, d : [NoRun EXCEPT !.at = x, !.arm = b, !.diff = d].at = x
    BY <1>1 DEF Runs
  <2> QED
    BY <2>1, <2>2, <2>3 DEF x
<1>3. CASE Analyse
  <2>1. run' = NoRun \/ run' = [run EXCEPT !.at = "hold", !.diff = Difference]
    BY <1>3 DEF Analyse
  <2>2. \A d : [run EXCEPT !.at = "hold", !.diff = d].at = "hold"
    BY <1>1 DEF Runs
  <2> HIDE DEF NoRun, Difference
  <2> QED
    BY <1>1, <2>1, <2>2
<1>4. CASE ReadHold
  BY <1>1, <1>4 DEF ReadHold, Runs
<1>5. CASE List
  <2> DEFINE x == IF run.hold # 0 /\ run.hold # HoldNow THEN "ended" ELSE "no"
  <2>1. run.at = "list" /\ run' = [run EXCEPT !.at = "look", !.cancelled = x]
    BY <1>5 DEF List
  <2> HIDE DEF x
  <2>2. run'.at = "look" /\ run'.cancelled = x /\ run'.hold = run.hold
    BY <1>1, <2>1 DEF Runs
  <2> QED
    BY <1>5, <2>1, <2>2 DEF x
<1>6. CASE Look
  <2>1. \/ run' = NoRun
        \/ /\ zone.option /\ run.at = "look"
           /\ \/ run' = [run EXCEPT !.at = "send"]
              \/ run' = [run EXCEPT !.at = "send", !.untaken = TRUE]
    BY <1>6 DEF Look
  <2> HIDE DEF NoRun
  <2> QED
    BY <1>1, <2>1 DEF Runs
<1>7. CASE SendNotify
  <2>1. \/ run' = NoRun
        \/ zone.option /\ run.at = "send" /\ run' = [run EXCEPT !.at = "hand", !.frozen = zone.frozen]
    BY <1>7 DEF SendNotify
  <2> HIDE DEF NoRun
  <2> QED
    BY <1>1, <2>1 DEF Runs
<1>8. CASE SendUpdate \/ HandOver
  <2>1. run' = NoRun
    BY <1>8 DEF SendUpdate, HandOver
  <2> QED
    BY <1>1, <2>1
<1>9. Invalidated \/ ThawTurn \/ Callback => run' = run \/ \E cause \in {"ended", "thaw"} : run' = Cancelled(cause)
  BY DEF Invalidated, ThawTurn, Callback
<1> QED
  BY <1>2, <1>3, <1>4, <1>5, <1>6, <1>7, <1>8, <1>9
  DEF SyncNext, Beside, Syncher, Timers, Elsewhere, NsChanges, Inventory, Said, KeysSaid, OwnerTakes, GivenBack,
      Leave, GroupLeft, Return, HoldComes, CaughtUpAgain, KeyReady, Freeze, Unfreeze, LeadLost, Elected,
      OtherSyncs, AskDue, ReleaseDue, AwaitedDue, Confirmed, NoRoleTimedOut, Rejected, NameserversServe,
      ParentScans, NotifyLost, ReleaseOwed, OwedTick

LEMMA RunGoes ==
    ASSUME Typed, SyncNext, Goes' PROVE Goes \/ zone.option
<1>1. IsRun(run)
  BY DEF Typed
<1>2. ASSUME NEW cause \in {"ended", "thaw"}, run' = Cancelled(cause) PROVE Goes
  BY <1>1, <1>2, CancelledIs DEF Goes, Listed
<1> QED
  BY <1>2, RunMoves DEF Goes

LEMMA OwnersStopStep == ASSUME Typed, OwnersStop, SyncNext PROVE OwnersStop'
<1> DEFINE c == <<"ownerSyncs", 0>>
<1> SUFFICES ASSUME ~zone'.option, c \notin todo' PROVE ~Goes' /\ my'.chain.hold = NoHold
  BY DEF OwnersStop, Goes
<1>1. ~zone.option /\ (c \in todo => Callback /\ todo' = todo \ {c})
  <2>1. zone \in Zones
    BY DEF Typed, RestTypes
  <2>2. \/ zone'.option = zone.option /\ (c \in todo => c \in todo')
        \/ c \in todo' \/ zone'.option
        \/ zone' = zone /\ Callback
    BY <2>1 DEF SyncNext, Beside, Syncher, Timers, Elsewhere, NsChanges, Inventory, Said, KeysSaid, OwnerTakes, GivenBack,
         Leave, GroupLeft, Return, HoldComes, CaughtUpAgain, KeyReady, Freeze, Unfreeze, LeadLost, Elected,
         OtherSyncs, AskDue, ReleaseDue, AwaitedDue, Confirmed, NoRoleTimedOut, Rejected, NameserversServe,
         ParentScans, NotifyLost, ReleaseOwed, OwedTick, Invalidated, ThawTurn, Take, Analyse, ReadHold, List,
         Look, SendUpdate, SendNotify, HandOver, Callback, Zones
  <2>3. Callback => \E d \in todo : todo' = todo \ {d}
    BY DEF Callback
  <2> QED
    BY <2>2, <2>3
<1>2. CASE c \notin todo
  <2>1. ~Goes /\ my.chain.hold = NoHold
    BY <1>1, <1>2 DEF OwnersStop
  <2>2. ~(HandOver /\ run.cancelled = "no")
    BY <2>1 DEF HandOver, Goes
  <2> QED
    BY <1>1, <2>1, <2>2, RunGoes, WorkStep DEF WorkKept
<1>3. CASE c \in todo
  <2>1. my' = WorkEnded(my) /\ run' = Cancelled("ended")
    <3>1. PICK d \in todo :
            /\ todo' = todo \ {d}
            /\ d[1] \notin {"setup", "lost"} => my' = WorkEnded(my) /\ run' = Cancelled("ended")
      BY <1>1, <1>3 DEF Callback
    <3>2. d = c
      BY <1>3, <3>1
    <3> QED
      BY <3>1, <3>2
  <2>2. IsWork(my) /\ IsRun(run)
    BY DEF Typed
  <2>3. run'.cancelled = "no" => run'.at \notin {"send", "hand"}
    BY <2>1, <2>2, CancelledIs DEF Listed
  <2> QED
    BY <2>1, <2>2, <2>3, EndedHolds DEF Goes
<1> QED
  BY <1>2, <1>3

LEMMA InItsHoldStep == ASSUME Typed, InItsHold, SyncNext PROVE InItsHold'
<1> DEFINE lost(n) == <<"lost", n>>
           endWork == <<"endWork", 0>>
<1>1. IsRun(run) /\ run \in Runs /\ lead \in Leading
  BY DEF Typed, IsRun, RestTypes
<1> SUFFICES ASSUME Listed', run'.cancelled = "no", run'.hold # 0
             PROVE  run'.hold = lead'.hold \/ lost(run'.hold) \in todo' \/ endWork \in todo'
  BY DEF InItsHold
<1>2. CASE List
  <2>1. run.hold # 0 /\ run.hold # HoldNow => run'.cancelled = "ended"
    BY <1>1, <1>2 DEF List, Runs
  <2>2. run'.hold = run.hold /\ lead' = lead
    BY <1>1, <1>2 DEF List, Runs
  <2> QED
    BY <2>1, <2>2 DEF HoldNow
<1>3. ASSUME ~List PROVE Listed /\ run.cancelled = "no" /\ run'.hold = run.hold
  <2>1. ASSUME NEW cause \in {"ended", "thaw"}, run' = Cancelled(cause) PROVE FALSE
    BY <1>1, <2>1, CancelledIs DEF Listed
  <2> QED
    BY <1>3, <2>1, RunMoves DEF Listed
<1>4. ASSUME ~List PROVE run.hold = lead.hold \/ lost(run.hold) \in todo \/ endWork \in todo
  BY <1>3, <1>4 DEF InItsHold
<1>5. CASE LeadLost
  <2>1. todo' = todo \union {lost(lead.hold)}
    BY <1>5 DEF LeadLost
  <2>2. ~List
    BY <1>5, <1>1 DEF LeadLost, List, Listed, Runs
  <2> QED
    BY <1>3, <1>4, <2>1, <2>2
<1>6. CASE GroupLeft
  BY <1>6 DEF GroupLeft
<1>7. CASE Callback
  <2>1. PICK d \in todo :
          /\ todo' = todo \ {d} /\ lead' = lead
          /\ d[1] \notin {"setup", "lost"} => run' = Cancelled("ended")
          /\ d[1] = "lost" /\ run.hold = d[2] => run' = Cancelled("ended")
    BY <1>7 DEF Callback
  <2>2. run' # Cancelled("ended")
    <3>1. run' = Cancelled("ended") => ~(run'.cancelled = "no" /\ Listed')
      BY <1>1, CancelledIs DEF Listed
    <3> QED
      BY <3>1
  <2>3. d # endWork /\ d # lost(run.hold)
    BY <2>1, <2>2
  <2>4. ~List
    BY <1>7, <1>1, <2>1 DEF Callback, List
  <2> QED
    BY <1>3, <1>4, <2>1, <2>3, <2>4
<1>8. ASSUME ~LeadLost, ~GroupLeft, ~Callback
      PROVE  todo \subseteq todo' /\ (lead.hold # 0 => lead'.hold = lead.hold)
  <2>1. todo \subseteq todo'
    BY <1>8
    DEF SyncNext, Beside, Syncher, Timers, Elsewhere, NsChanges, Inventory, Said, KeysSaid, OwnerTakes, GivenBack,
        Leave, Return, HoldComes, CaughtUpAgain, KeyReady, Freeze, Unfreeze, Elected, Invalidated, ThawTurn,
        OtherSyncs, AskDue, ReleaseDue, AwaitedDue, Confirmed, NoRoleTimedOut, Rejected, NameserversServe,
        ParentScans, NotifyLost, ReleaseOwed, OwedTick, Take, Analyse, ReadHold, List, Look, SendUpdate,
        SendNotify, HandOver
  <2>2. \/ lead' = lead \/ lead' = [lead EXCEPT !.who = "none"]
        \/ Elected
    BY <1>8
    DEF SyncNext, Beside, Syncher, Timers, Elsewhere, NsChanges, Inventory, Said, KeysSaid, OwnerTakes, GivenBack,
        Leave, Return, HoldComes, CaughtUpAgain, KeyReady, Freeze, Unfreeze, Invalidated, ThawTurn,
        OtherSyncs, AskDue, ReleaseDue, AwaitedDue, Confirmed, NoRoleTimedOut, Rejected, NameserversServe,
        ParentScans, NotifyLost, ReleaseOwed, OwedTick, Take, Analyse, ReadHold, List, Look, SendUpdate,
        SendNotify, HandOver
  <2>3. Elected => (lead.hold # 0 => lead'.hold = lead.hold)
    BY DEF Elected
  <2> QED
    BY <1>1, <2>1, <2>2, <2>3 DEF Leading
<1>9. CASE ~List /\ ~LeadLost /\ ~GroupLeft /\ ~Callback
  BY <1>3, <1>4, <1>8, <1>9
<1> QED
  BY <1>2, <1>5, <1>6, <1>7, <1>9

\* Once the owner has the sync and what that started has run, nothing reaches
\* the parent and no NOTIFY is held; and a sync under way goes on only in the
\* hold of the lead it began in, whatever order the refreshes, the election's
\* callbacks, the timers and the syncher's own steps come in.
THEOREM EndedIsStopped == SyncSpec => []EndedWorkIsStopped
<1>1. SyncInit => Stops
  BY DEF SyncInit, Stops, OwnersStop, InItsHold, Goes, Listed, NoRun
<1>2. Typed /\ Stops /\ [SyncNext]_syncVars => Stops'
  <2>1. Stops /\ UNCHANGED syncVars => Stops'
    BY DEF syncVars, Stops, OwnersStop, InItsHold, Goes, Listed
  <2> QED
    BY <2>1, OwnersStopStep, InItsHoldStep DEF Stops
<1>3. Stops => EndedWorkIsStopped
  <2> SUFFICES ASSUME Stops PROVE EndedWorkIsStopped
    OBVIOUS
  <2> DEFINE ended == {c \in todo : c[1] # "setup"}
  <2>1. ASSUME ended = {}
        PROVE  <<"ownerSyncs", 0>> \notin todo /\ <<"lost", run.hold>> \notin todo /\ <<"endWork", 0>> \notin todo
    BY <2>1
  <2> QED
    BY <2>1 DEF Stops, OwnersStop, InItsHold, Goes, Listed, EndedWorkIsStopped
<1>4. Typed /\ [SyncNext]_syncVars => Typed'
  <2>1. CASE UNCHANGED syncVars
    BY <2>1 DEF syncVars, Typed, IsWork, IsRun, RestTypes
  <2> QED
    BY <2>1, WorkStep, RunStep, RestStep DEF Typed
<1> QED
  BY <1>1, <1>2, <1>3, <1>4, TypedInit, PTL DEF SyncSpec

=============================================================================
