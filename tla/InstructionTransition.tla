------------------------ MODULE InstructionTransition ------------------------
(***************************************************************************)
(* How the agents of one zone move from one serial of the owner's          *)
(* instructions to the next (v2/instructions_store.go, instr_freeze.go,    *)
(* instr_thaw.go, instr_restart.go, reconcile.go, and of acting_handover.go *)
(* what the parts are handed).                                             *)
(*                                                                         *)
(* An agent notes newer copies of the instructions and freezes the zone    *)
(* while it agrees on one.  Once every voting member tells, first hand,    *)
(* that it has the same active serial, agrees on the same newer one, and   *)
(* has its signer held, the leader thaws: it makes the serial active.  The *)
(* others follow its telling.  From then on the leader takes the steps of  *)
(* the reconciliation, each held by every member's combiner and signer     *)
(* before the next, and says when the transition is done.                  *)
(*                                                                         *)
(* Every agent here votes under every serial: the judge refuses each       *)
(* change of a role (builtKinds is empty), so no accepted transition has a *)
(* leaving or a new voting member, and its only step is the last one.      *)
(* Serials do not wrap, and a serial has one digest.  Who leads is left    *)
(* open: at any of its turns an agent of Leads may take itself for the     *)
(* leader, and an agent may take another of Leads for it, or nobody.       *)
(*                                                                         *)
(* A turn reads the store and the stamps, and then changes the store under *)
(* its lock: what it has decided is a state of its own (decided), as       *)
(* copies, beats and answers come in between.  A change is on disk before  *)
(* it is told.                                                             *)
(***************************************************************************)
EXTENDS Integers, FiniteSets

CONSTANTS
    Agent,      \* the zone's voting members
    Leads,      \* those that may lead it
    MaxSerial,  \* bound: the owner's serials are 1..MaxSerial
    Refuses,    \* the pairs of serials the judge refuses
    Lists,      \* the lists each serial gives the parts
    Starts      \* how a zone may start, and what may then happen to it

AllEvents == {"unreadable", "rollover", "restart", "lose"}
Serial == 1..MaxSerial
Part == {"combiner", "signer"}

ASSUME LeadsAssumption == Leads \subseteq Agent
ASSUME SerialAssumption == MaxSerial \in Nat \ {0}
ASSUME RefusesAssumption == Refuses \subseteq Serial \X Serial
ASSUME ListsAssumption == Lists \in [Serial -> Nat \ {0}]

\* first: no agent has a record of the zone yet; may: the events from outside
\* that are admitted; left: bound: how many of them there are still to be.
Start == [first : BOOLEAN, may : SUBSET AllEvents, left : Nat]
ASSUME StartsAssumption == Starts \subseteq Start

NoSerial == 0
NoStep == -1
LastStep == 1      \* step 0 is the sets held at the thaw
NoSets == 0

VARIABLES
    store,     \* each agent's zoneSerials, on disk
    told,      \* told[a][b]: b's latest stamp of the zone, as a heard it first hand
    onway,     \* onway[a][b]: the beat of b on its way to a
    decided,   \* what a turn has decided and not yet written
    hand,      \* per part: what its agent wants and knows it to hold, and what it acts by
    rollover,  \* whether a key rollover is under way at the agent's signer
    events     \* the start, and how many events from outside are left

vars == <<store, told, onway, decided, hand, rollover, events>>

-----------------------------------------------------------------------------
(* State *)

SerialOrNone == Serial \cup {NoSerial}
Step == {NoStep, 0, LastStep}
Thaw == [from : SerialOrNone, to : SerialOrNone]
NoThaw == [from |-> NoSerial, to |-> NoSerial]
SetsOrNone == {Lists[s] : s \in Serial} \cup {NoSets}

ZoneSerials ==
    [active : SerialOrNone, from : SerialOrNone, held : SUBSET Serial, thaw : Thaw,
     lastFrom : SerialOrNone, error : BOOLEAN, step : Step, sets : SetsOrNone, pending : BOOLEAN]
InstrStamp ==
    [active : SerialOrNone, newest : SerialOrNone, agreeing : SerialOrNone, error : BOOLEAN,
     thaw : Thaw, reconciling : BOOLEAN, step : Step, sets : SetsOrNone, stepHeld : BOOLEAN,
     hold : BOOLEAN, rollover : BOOLEAN]
Handover ==
    [serial : SerialOrNone, newest : SerialOrNone, rank : {0, 1}, step : Step, sets : SetsOrNone,
     hold : BOOLEAN]
Decision ==
    [rule : {"none", "thaw", "know", "step", "done"}, thaw : Thaw, reconciling : BOOLEAN,
     to : SerialOrNone, step : Step, sets : SetsOrNone]

NoSerials ==
    [active |-> NoSerial, from |-> NoSerial, held |-> {}, thaw |-> NoThaw, lastFrom |-> NoSerial,
     error |-> FALSE, step |-> NoStep, sets |-> NoSets, pending |-> FALSE]
NoStamp ==
    [active |-> NoSerial, newest |-> NoSerial, agreeing |-> NoSerial, error |-> FALSE,
     thaw |-> NoThaw, reconciling |-> FALSE, step |-> NoStep, sets |-> NoSets, stepHeld |-> FALSE,
     hold |-> FALSE, rollover |-> FALSE]
NoHandover ==
    [serial |-> NoSerial, newest |-> NoSerial, rank |-> 0, step |-> NoStep, sets |-> NoSets,
     hold |-> FALSE]
NoDecision ==
    [rule |-> "none", thaw |-> NoThaw, reconciling |-> FALSE, to |-> NoSerial, step |-> NoStep,
     sets |-> NoSets]

-----------------------------------------------------------------------------
(* What follows from a zone's serials *)

Top(S) == IF S = {} THEN NoSerial ELSE CHOOSE s \in S : \A r \in S : r <= s
Above(S, s) == {r \in S : r > s}

Highest(z) == IF z.held = {} THEN z.active ELSE Top(z.held)

\* The highest serial held that the judge accepts against the active one.
Agreeing(z) ==
    IF z.active = NoSerial THEN NoSerial
    ELSE Top({s \in z.held : <<z.active, s>> \notin Refuses})

Reconciling(z) == z.from # NoSerial \/ z.sets # NoSets \/ z.pending

FrozenMutant(z) == \* a transition that is not done is no reason
    /\ z # NoSerials
    /\ z.error \/ z.active = NoSerial \/ Agreeing(z) # NoSerial

\* freezeReasons; a zone with no serials kept is not frozen.
Frozen(z) ==
    /\ z # NoSerials
    /\ z.error \/ z.active = NoSerial \/ Reconciling(z) \/ Agreeing(z) # NoSerial

Keeps(z, s) == s # NoSerial /\ (s = z.active \/ s \in z.held)
ReadingAt(z, s) == Keeps(z, s) \/ (s # NoSerial /\ s \in {z.from, z.lastFrom})

-----------------------------------------------------------------------------
(* What the parts are handed *)

\* wantedHandover: the sets of the step, or at rest the active serial's.  Of
\* the phase its rank counts: a step comes before the "done" (phaseRank).
WantedHandover(z) ==
    [serial |-> z.active, newest |-> Highest(z),
     rank |-> IF Reconciling(z) /\ ~z.error THEN 0 ELSE 1,
     step |-> IF z.sets = NoSets THEN 0 ELSE z.step,
     sets |-> IF z.sets = NoSets THEN Lists[z.active] ELSE z.sets,
     hold |-> Frozen(z)]

\* olderThan: below what the part acts by, by serial, newest, phase and step.
OlderThan(h, o) ==
    \/ h.serial < o.serial
    \/ h.serial = o.serial /\ h.newest < o.newest
    \/ h.serial = o.serial /\ h.newest = o.newest /\ h.rank < o.rank
    \/ h.serial = o.serial /\ h.newest = o.newest /\ h.rank = o.rank /\ h.step < o.step

\* holdLast: the signer keeps what it holds, or was to hold, with the hold.
HoldLast(h) ==
    LET base == IF h.held = NoHandover THEN h.want ELSE h.held
    IN IF base = NoHandover THEN h ELSE [h EXCEPT !.want = [base EXCEPT !.hold = TRUE]]

\* handOverToParts.  Nothing new is handed while the active serial is not
\* known, or while no step's sets are held.
HandOverToPart(z, p, h) ==
    IF z = NoSerials THEN h
    ELSE IF z.active = NoSerial \/ z.pending THEN (IF p = "signer" THEN HoldLast(h) ELSE h)
    ELSE [h EXCEPT !.want = WantedHandover(z)]

\* onFreeze: a zone that freezes, or moves to another serial agreed on, has
\* its signer say again what it holds.
SaysAgain(old, z) == Frozen(z) /\ (~Frozen(old) \/ Agreeing(z) \notin {NoSerial, Agreeing(old)})

\* update, with what it tells the parts.
Update(a, z) ==
    /\ store' = [store EXCEPT ![a] = z]
    /\ hand' = [hand EXCEPT ![a] = [p \in Part |->
         LET h == HandOverToPart(z, p, hand[a][p])
         IN IF p = "signer" /\ SaysAgain(store[a], z) THEN [h EXCEPT !.held = NoHandover] ELSE h]]

\* partsHold: both parts are known to hold what they are handed for the step.
PartsHold(a) ==
    \A p \in Part :
      LET h == hand[a][p]
      IN h.want = h.held /\ h.want.serial = store[a].active /\ h.want.step = store[a].step

\* holdConfirmed: the signer is known to hold what it is handed, the hold with it.
HoldConfirmed(a) ==
    LET h == hand[a]["signer"]
    IN h.want = h.held /\ h.want.hold

\* ownStamp: what a tells of the zone; nothing when it keeps no serials.
OwnStamp(a) ==
    LET z == store[a]
    IN IF z = NoSerials THEN NoStamp
       ELSE [active |-> z.active, newest |-> Highest(z), agreeing |-> Agreeing(z), error |-> z.error,
             thaw |-> z.thaw, reconciling |-> Reconciling(z), step |-> z.step, sets |-> z.sets,
             stepHeld |-> z.sets # NoSets /\ PartsHold(a),
             hold |-> HoldConfirmed(a), rollover |-> rollover[a]]

Active(a) == store[a].active
Knows(a) == Active(a) # NoSerial

-----------------------------------------------------------------------------
(* The initial states *)

\* At rest at serial 1, or at a first start: it is held, and not yet known active.
FirstSerials ==
    IF events.first THEN [NoSerials EXCEPT !.held = {1}] ELSE [NoSerials EXCEPT !.active = 1]
FirstHandover == IF events.first THEN NoHandover ELSE WantedHandover(FirstSerials)

Init ==
    /\ events \in Starts
    /\ store = [a \in Agent |-> FirstSerials]
    /\ told = [a \in Agent |-> [b \in Agent |-> NoStamp]]
    /\ onway = [a \in Agent |-> [b \in Agent |-> NoStamp]]
    /\ decided = [a \in Agent |-> NoDecision]
    /\ hand = [a \in Agent |-> [p \in Part |->
         [want |-> FirstHandover, held |-> FirstHandover, acts |-> FirstHandover]]]
    /\ rollover = [a \in Agent |-> FALSE]

Occurs(event) ==
    /\ event \in events.may
    /\ events.left > 0
    /\ events' = [events EXCEPT !.left = @ - 1]

-----------------------------------------------------------------------------
(* Copies of the instructions *)

\* Note: a copy above every serial held is kept, and ends an owner error.
Note(a, s) ==
    /\ s > Highest(store[a])
    /\ Update(a, [store[a] EXCEPT !.held = @ \cup {s}, !.error = FALSE])
    /\ UNCHANGED <<told, onway, decided, rollover, events>>

\* Note: a copy that cannot be read is an owner error.
NoteUnreadable(a) ==
    /\ Occurs("unreadable")
    /\ ~store[a].error
    /\ Update(a, [store[a] EXCEPT !.error = TRUE])
    /\ UNCHANGED <<told, onway, decided, rollover>>

\* Why a asks b for serial s: b tells it active, it is the from-serial of
\* the thaw b tells, or b agrees on it above what a agrees on.
Wants(a, b, s) ==
    LET z == store[a]
        st == told[a][b]
    IN \/ st.active = s /\ s > z.active
       \/ z.active # NoSerial /\ st.active > z.active /\ Keeps(z, st.active)
          /\ st.thaw.to = st.active /\ st.thaw.from = s /\ s > z.active
       \/ z.active # NoSerial /\ st.agreeing = s /\ s > Agreeing(z) /\ s > z.active

\* fetchInstructions, the answer of a member that has the serial, and Hold.
FetchInstructions(a, b, s) ==
    /\ store[a] # NoSerials /\ Highest(store[a]) # NoSerial
    /\ Wants(a, b, s) /\ ~ReadingAt(store[a], s) /\ ReadingAt(store[b], s)
    /\ Update(a, [store[a] EXCEPT !.held = @ \cup {s}])
    /\ UNCHANGED <<told, onway, decided, rollover, events>>

-----------------------------------------------------------------------------
(* Beats *)

\* b's beat to a, built now: one that was on its way is lost.
SendBeat(a, b) ==
    LET st == OwnStamp(b)
        last == IF onway[a][b] = NoStamp THEN told[a][b] ELSE onway[a][b]
    IN /\ st \notin {NoStamp, last}
       /\ onway' = [onway EXCEPT ![a][b] = st]
       /\ UNCHANGED <<store, told, decided, hand, rollover, events>>

\* keep: epoch and sequence see to it that no older stamp replaces a newer one.
KeepStamp(a, b) ==
    /\ onway[a][b] # NoStamp
    /\ told' = [told EXCEPT ![a][b] = onway[a][b]]
    /\ onway' = [onway EXCEPT ![a][b] = NoStamp]
    /\ UNCHANGED <<store, decided, hand, rollover, events>>

-----------------------------------------------------------------------------
(* A turn: what it decides *)

Undecided(a) == decided[a] = NoDecision

Decide(a, d) ==
    /\ decided' = [decided EXCEPT ![a] = d]
    /\ UNCHANGED <<store, told, onway, hand, rollover, events>>

Others(a) == Agent \ {a}

TellsAgreementNoHoldMutant(st, from, to) ==
    /\ st # NoStamp /\ ~st.error
    /\ st.active = from /\ st.agreeing = to
    /\ ~st.rollover

\* tellsAgreement, and no rollover.
TellsAgreement(st, from, to) ==
    /\ st # NoStamp /\ ~st.error
    /\ st.active = from /\ st.agreeing = to
    /\ st.hold /\ ~st.rollover

ThawReadyAloneMutant(a) == \* the agent waits for a stamp of its own
    LET z == store[a]
    IN /\ Agreeing(z) # NoSerial /\ ~z.error /\ ~Reconciling(z)
       /\ HoldConfirmed(a) /\ ~rollover[a]
       /\ \A b \in Agent : TellsAgreement(told[a][b], z.active, Agreeing(z))

\* thawView and ready: nothing is under way here, and every voting member agrees.
ThawReady(a) ==
    LET z == store[a]
    IN /\ Agreeing(z) # NoSerial /\ ~z.error /\ ~Reconciling(z)
       /\ HoldConfirmed(a) /\ ~rollover[a]
       /\ \A b \in Others(a) : TellsAgreement(told[a][b], z.active, Agreeing(z))

\* thawTurn: the leader's word.
DecideThaw(a) ==
    /\ Undecided(a) /\ a \in Leads /\ ThawReady(a)
    /\ Decide(a, [NoDecision EXCEPT !.rule = "thaw",
                    !.thaw = [from |-> store[a].active, to |-> Agreeing(store[a])]])

\* activateOnTellings: a serial b tells active, with the thaw that made it so,
\* by an agent that holds both and is not past the thaw's from-serial.
ActivateOnTellings(a, b) ==
    LET z == store[a]
        st == told[a][b]
    IN /\ Undecided(a)
       /\ z.active # NoSerial /\ st.active > z.active
       /\ ReadingAt(z, st.active)
       /\ st.thaw.to = st.active
       /\ z.active <= st.thaw.from /\ ReadingAt(z, st.thaw.from)
       /\ Decide(a, [NoDecision EXCEPT !.rule = "thaw", !.thaw = st.thaw])

\* The active serials the other voting members tell, and the thaws told.
Records(a) == {told[a][b].active : b \in Others(a)} \ {NoSerial}
Thaws(a) == {told[a][b].thaw : b \in Others(a)} \ {NoThaw}

\* agreedRecord: of two serials, a thaw told breaks the tie.
AgreedRecord(a, s) ==
    \/ Records(a) = {s}
    \/ \E th \in Thaws(a) : th.from # th.to /\ Records(a) = {th.from, th.to} /\ s = th.to

\* commonNewest: no voting member has a record, and all tell one newest serial.
CommonNewest(a, s) ==
    /\ Records(a) = {}
    /\ s = Highest(store[a]) /\ ~store[a].error
    /\ \A b \in Others(a) : told[a][b].newest = s /\ ~told[a][b].error

\* restartView at the leader, which waits until every voting member is heard.
LeaderTakes(a, d) ==
    /\ a \in Leads
    /\ \A b \in Others(a) : told[a][b] # NoStamp
    /\ \/ CommonNewest(a, d.to) /\ d.thaw = NoThaw /\ ~d.reconciling
       \/ /\ AgreedRecord(a, d.to)
          /\ d.thaw \in (IF \E th \in Thaws(a) : th.to = d.to
                         THEN {th \in Thaws(a) : th.to = d.to} ELSE {NoThaw})
          /\ d.reconciling = (\E b \in Others(a) : told[a][b].active = d.to /\ told[a][b].reconciling)

\* leadersWord: a member takes the word of the agent it takes for the leader.
LeadersWord(a, d) ==
    \E b \in Leads \ {a} :
      LET st == told[a][b]
      IN /\ st.active = d.to
         /\ d.thaw = (IF st.thaw.to = d.to THEN st.thaw ELSE NoThaw)
         /\ d.reconciling = st.reconciling

\* knowActive, while the active serial is not known here.
KnowActive(a) ==
    /\ Undecided(a)
    /\ store[a].active = NoSerial
    /\ \E s \in store[a].held, th \in Thaws(a) \cup {NoThaw}, r \in BOOLEAN :
         LET d == [NoDecision EXCEPT !.rule = "know", !.to = s, !.thaw = th, !.reconciling = r]
         IN /\ LeaderTakes(a, d) \/ LeadersWord(a, d)
            /\ Decide(a, d)

-----------------------------------------------------------------------------
(* The reconciliation's turn *)

InReconciliation(a) == Undecided(a) /\ store[a].active # NoSerial /\ Reconciling(store[a])

DecideStep(a, n, sets) ==
    Decide(a, [NoDecision EXCEPT !.rule = "step", !.to = store[a].active, !.step = n, !.sets = sets])
DecideDone(a) == Decide(a, [NoDecision EXCEPT !.rule = "done"])

\* A leader that holds no step hears every voting member first.
MayLeadOn(a) ==
    /\ InReconciliation(a) /\ a \in Leads
    /\ store[a].sets = NoSets => \A b \in Others(a) : told[a][b] # NoStamp

\* The others that tell a's active serial and a step further than a's.
Further(a) ==
    {b \in Others(a) : told[a][b].active = store[a].active /\ told[a][b].step > store[a].step}

HoldsStepMutant(a, st) == \* the member is at the step, whether its parts hold it or not
    /\ st.active = store[a].active
    /\ ~st.reconciling \/ (st.step = store[a].step /\ st.sets = store[a].sets)

\* Whether a stamp tells that its member holds a's step: one at rest at the
\* serial is past every step.
HoldsStep(a, st) ==
    /\ st.active = store[a].active
    /\ ~st.reconciling \/ (st.stepHeld /\ st.step = store[a].step /\ st.sets = store[a].sets)

\* stepWaits finds nobody to wait for.
StepHeldByAll(a) == PartsHold(a) /\ \A b \in Others(a) : HoldsStep(a, told[a][b])

\* takeFrom at the leader: the furthest step a voting member tells.
AdoptStep(a, b) ==
    /\ MayLeadOn(a)
    /\ b \in Further(a) /\ \A c \in Further(a) : told[a][c].step <= told[a][b].step
    /\ DecideStep(a, told[a][b].step, told[a][b].sets)

TakeStepMutant(a) == \* the last step is taken again
    /\ MayLeadOn(a)
    /\ Further(a) = {}
    /\ store[a].step = NoStep \/ StepHeldByAll(a)
    /\ DecideStep(a, store[a].step + 1, Lists[store[a].active])

\* takeStep: the last step, with the active serial's lists, once the step
\* held is held by all.
TakeStep(a) ==
    /\ MayLeadOn(a)
    /\ Further(a) = {}
    /\ store[a].step = NoStep \/ (store[a].step = 0 /\ StepHeldByAll(a))
    /\ DecideStep(a, LastStep, Lists[store[a].active])

\* The last step is held by all: the leader says "done".
LeaderDone(a) ==
    /\ MayLeadOn(a)
    /\ Further(a) = {}
    /\ store[a].step = LastStep /\ StepHeldByAll(a)
    /\ DecideDone(a)

\* followStep: the step of the agent a takes for the leader, or its "done".
FollowStep(a, b) ==
    LET st == told[a][b]
    IN /\ InReconciliation(a)
       /\ b \in Leads \ {a}
       /\ st.active = store[a].active
       /\ \/ ~st.reconciling /\ DecideDone(a)
          \/ /\ st.reconciling /\ st.step # NoStep
             /\ st.step > store[a].step \/ (st.step = store[a].step /\ st.sets # store[a].sets)
             /\ DecideStep(a, st.step, st.sets)

-----------------------------------------------------------------------------
(* A turn: what it writes, where the store still allows it *)

MayActivate(z, th) ==
    /\ z.active # NoSerial
    /\ Keeps(z, th.to) /\ th.to > z.active
    /\ Keeps(z, th.from) /\ th.from < th.to
    /\ <<th.from, th.to>> \notin Refuses

ActivatedMutant(z, th) == \* the last thaw is not kept
    LET straight == th.from # z.active
        sets == IF z.sets = NoSets THEN Lists[th.from] ELSE z.sets
    IN [z EXCEPT !.active = th.to, !.from = th.from, !.lastFrom = th.from,
                 !.held = Above(@, th.to),
                 !.step = IF straight THEN NoStep ELSE 0,
                 !.sets = IF straight THEN NoSets ELSE sets,
                 !.pending = straight]

\* Activate.  The parts keep the sets they hold, as step 0; a member behind
\* the thaw's from-serial moves straight, and waits for a step.
Activated(z, th) ==
    LET straight == th.from # z.active
        sets == IF z.sets = NoSets THEN Lists[th.from] ELSE z.sets
    IN [z EXCEPT !.active = th.to, !.from = th.from, !.lastFrom = th.from, !.thaw = th,
                 !.held = Above(@, th.to),
                 !.step = IF straight THEN NoStep ELSE 0,
                 !.sets = IF straight THEN NoSets ELSE sets,
                 !.pending = straight]

\* Know; there is no from-serial.
Known(z, d) ==
    [z EXCEPT !.active = d.to, !.held = Above(@, d.to),
              !.thaw = IF d.thaw = NoThaw THEN @ ELSE d.thaw,
              !.step = IF d.reconciling THEN NoStep ELSE @,
              !.sets = IF d.reconciling THEN NoSets ELSE @,
              !.pending = @ \/ d.reconciling]

\* setStep: the step and its sets are kept.
Stepped(z, d) == [z EXCEPT !.step = d.step, !.sets = d.sets, !.pending = FALSE]

\* Done: the from-serial, the step and its sets go.
Ended(z) == [z EXCEPT !.from = NoSerial, !.step = NoStep, !.sets = NoSets, !.pending = FALSE]

\* Whether the store takes a decision, and what it is then.
Allows(z, d) ==
    \/ d.rule = "thaw" /\ MayActivate(z, d.thaw)
    \/ d.rule = "know" /\ z.active = NoSerial /\ Keeps(z, d.to)
    \/ d.rule = "step" /\ z.active = d.to
    \/ d.rule = "done" /\ Reconciling(z)
Written(z, d) ==
    CASE d.rule = "thaw" -> Activated(z, d.thaw)
      [] d.rule = "know" -> Known(z, d)
      [] d.rule = "step" -> Stepped(z, d)
      [] OTHER -> Ended(z)

Write(a) ==
    /\ ~Undecided(a)
    /\ decided' = [decided EXCEPT ![a] = NoDecision]
    /\ IF Allows(store[a], decided[a]) THEN Update(a, Written(store[a], decided[a]))
       ELSE UNCHANGED <<store, hand>>
    /\ UNCHANGED <<told, onway, rollover, events>>

-----------------------------------------------------------------------------
(* The parts, and events from outside *)

\* A refresh of the zone hands over again.
Refresh(a) ==
    /\ hand' = [hand EXCEPT ![a] = [p \in Part |-> HandOverToPart(store[a], p, @[p])]]
    /\ hand' # hand
    /\ UNCHANGED <<store, told, onway, decided, rollover, events>>

\* A part takes what it is handed unless it is older (take), and what it acts
\* by then reaches the agent (confirmation, learned).
PartConfirms(a, p) ==
    LET h == hand[a][p]
        acts == IF h.want = NoHandover \/ OlderThan(h.want, h.acts) THEN h.acts ELSE h.want
        known == [h EXCEPT !.acts = acts, !.held = acts]
    IN /\ known # h
       /\ hand' = [hand EXCEPT ![a][p] =
            IF p = "signer" /\ store[a] # NoSerials /\ ~Knows(a) THEN HoldLast(known) ELSE known]
       /\ UNCHANGED <<store, told, onway, decided, rollover, events>>

\* The signer starts no new rollover while it holds.
RolloverStarts(a) ==
    /\ Occurs("rollover")
    /\ ~rollover[a] /\ ~hand[a]["signer"].acts.hold
    /\ rollover' = [rollover EXCEPT ![a] = TRUE]
    /\ UNCHANGED <<store, told, onway, decided, hand>>

RolloverEnds(a) ==
    /\ rollover[a]
    /\ rollover' = [rollover EXCEPT ![a] = FALSE]
    /\ UNCHANGED <<store, told, onway, decided, hand, events>>

\* What an agent keeps in memory only goes.
Forgets(a) ==
    /\ told' = [told EXCEPT ![a] = [b \in Agent |-> NoStamp]]
    /\ decided' = [decided EXCEPT ![a] = NoDecision]
    /\ hand' = [hand EXCEPT ![a] = [p \in Part |-> [@[p] EXCEPT !.want = NoHandover, !.held = NoHandover]]]
    /\ UNCHANGED <<onway, rollover>>

Restart(a) ==
    /\ Occurs("restart")
    /\ Forgets(a)
    /\ UNCHANGED store

\* The agent restarts with its database lost.
LoseStore(a) ==
    /\ Occurs("lose")
    /\ Forgets(a)
    /\ store' = [store EXCEPT ![a] = NoSerials]

-----------------------------------------------------------------------------
(* The specification *)

Turn(a) ==
    \/ DecideThaw(a)
    \/ KnowActive(a)
    \/ TakeStep(a)
    \/ LeaderDone(a)
    \/ Write(a)
    \/ \E b \in Others(a) :
         \/ ActivateOnTellings(a, b)
         \/ AdoptStep(a, b)
         \/ FollowStep(a, b)

Hears(a) ==
    \/ \E s \in Serial : Note(a, s)
    \/ NoteUnreadable(a)
    \/ \E b \in Others(a) :
         \/ SendBeat(a, b)
         \/ KeepStamp(a, b)
         \/ \E s \in Serial : FetchInstructions(a, b, s)

Outside(a) ==
    \/ Refresh(a)
    \/ \E p \in Part : PartConfirms(a, p)
    \/ RolloverStarts(a)
    \/ RolloverEnds(a)
    \/ Restart(a)
    \/ LoseStore(a)

Next == \E a \in Agent : Turn(a) \/ Hears(a) \/ Outside(a)

Spec == Init /\ [][Next]_vars

-----------------------------------------------------------------------------
(* Properties *)

\* Every variable has the type of what it stands for in the code.
TypeOK ==
    /\ store \in [Agent -> ZoneSerials]
    /\ told \in [Agent -> [Agent -> InstrStamp]]
    /\ onway \in [Agent -> [Agent -> InstrStamp]]
    /\ decided \in [Agent -> Decision]
    /\ hand \in [Agent -> [Part -> [want : Handover, held : Handover, acts : Handover]]]
    /\ rollover \in [Agent -> BOOLEAN]
    /\ events \in Start

\* At work: the active serial is known and nothing holds new work.
AtWork(a) == Knows(a) /\ ~Frozen(store[a])

\* No agent loses its database.
Remembers == "lose" \notin events.may

\* One transition at a time (design 3.3): of two agents, the one ahead came by
\* a thaw from the serial the other is at.
OneTransitionAtATime ==
    \A a, b \in Agent : Knows(a) /\ Active(a) < Active(b) =>
      store[b].thaw = [from |-> Active(a), to |-> Active(b)]

\* From the agreement until "done" nothing new starts (instr_freeze.go): an
\* agent at work has the active serial of every other agent that knows one,
\* in a zone in which no agent loses its database.
WorkIsByOneSerial ==
    Remembers => \A a, b \in Agent : AtWork(a) /\ Knows(b) => Active(a) = Active(b)

\* An agent that has ended its transition finds every other agent's parts
\* acting by the active serial's lists (stepWaits).
DoneMeansHeld ==
    \A a, b \in Agent :
      Knows(a) /\ ~Reconciling(store[a]) /\ Active(b) = Active(a)
      => \A p \in Part : hand[b][p].acts.sets = Lists[Active(a)]

\* The thaw finds no planned rollover under way (thawView): none runs while
\* the agents' active serials differ.
NoRolloverInAThaw ==
    (\E a, b \in Agent : Knows(a) /\ Active(a) < Active(b)) => \A c \in Agent : ~rollover[c]

=============================================================================
