------------------------- MODULE GroupElectionProofs -------------------------
(***************************************************************************)
(* A term names one leader, proved for every group of agents, every set of *)
(* votes and every bound, as long as no agent forgets its election (a      *)
(* restart, or its group's last zone leaving) and no member is excused     *)
(* from the gate.                                                          *)
(*                                                                         *)
(* The argument.  A voting member casts one vote in a term, since it only  *)
(* casts as it enters the term, and its term never falls.  The votes a     *)
(* member holds are votes that were cast, and it names a winner only when  *)
(* it holds one of every voting member: so all name the same winner.  The  *)
(* confirms it holds were sent, and it finalizes only when it holds one of *)
(* every voting member.  Gossip passes on what was finalized.              *)
(*                                                                         *)
(* First the type invariant, for every bound.  It is inductive together    *)
(* with OnlyVotersElect: what a member sends once its votes are in is a    *)
(* message of a voting member because only those have an election running. *)
(***************************************************************************)
EXTENDS GroupElection, FiniteSetTheorems, TLAPS

-----------------------------------------------------------------------------
(* The operators *)

\* There is always a voting member that the gate does not leave out.
LEMMA GateVotersFacts ==
    ASSUME NEW a \in Agent, excused \in [Agent -> SUBSET Voter]
    PROVE  /\ GateVoters(a) \subseteq Voter
           /\ Cardinality(GateVoters(a)) - 1 \in Nat
<1>1. GateVoters(a) \subseteq Voter /\ GateVoters(a) # {}
  BY VoterAssumption DEF GateVoters
<1>2. IsFiniteSet(GateVoters(a))
  BY <1>1, FS_Subset, VoterAssumption
<1>3. Cardinality(GateVoters(a)) \in Nat /\ Cardinality(GateVoters(a)) # 0
  BY <1>1, <1>2, FS_CardinalityType, FS_EmptySet
<1> QED
  BY <1>1, <1>3

\* The winner is a voting member or nobody.
LEMMA DetermineWinnerType ==
    ASSUME NEW ballot
    PROVE  DetermineWinner(ballot) \in Voter \cup {NoOne}
BY DEF DetermineWinner

\* What noteLeaderLocked keeps is numbers.
LEMMA NoteLeaderType ==
    ASSUME TypeOK, NEW a \in Agent, NEW l \in Named, NoteLeader(a, l)
    PROVE  /\ lead' \in [Agent -> [leads : Nat, start : Nat, hold : Nat]]
           /\ lost' \in [Agent -> SUBSET Nat]
<1> DEFINE number == IF Renewal(a) THEN lead[a].start ELSE lead[a].leads + 1
<1>1. lead[a] \in [leads : Nat, start : Nat, hold : Nat]
  BY DEF TypeOK
<1>2. number \in Nat
  BY <1>1
<1>3. HoldAfter(a, l, number) \in Nat
  BY <1>1, <1>2 DEF HoldAfter
<1> QED
  BY <1>1, <1>2, <1>3 DEF TypeOK, NoteLeader

\* Naming a leader keeps the types of what it sets.
LEMMA NameLeaderType ==
    ASSUME TypeOK, NEW a \in Agent, NEW l \in Named, NEW t \in Terms, NEW runs \in BOOLEAN,
           NameLeader(a, l, t, runs)
    PROVE  /\ lead' \in [Agent -> [leads : Nat, start : Nat, hold : Nat]]
           /\ lost' \in [Agent -> SUBSET Nat]
           /\ leader' \in [Agent -> Named]
           /\ leaderTerm' \in [Agent -> Terms]
           /\ lease' \in [Agent -> BOOLEAN]
<1>1. NoteLeader(a, l)
  BY DEF NameLeader
<1> QED
  BY <1>1, NoteLeaderType DEF TypeOK, NameLeader

\* A message of the election is a message.
LEMMA BroadcastType ==
    ASSUME TypeOK, NEW a \in Voter, NEW type, NEW t \in Terms, NEW value,
           Broadcast(a, type, t, value),
           \/ type \in {"CALL", "VOTE"} /\ value \in Vote
           \/ type = "CONFIRM" /\ value \in Voter \cup {NoOne}
    PROVE  msgs' \in SUBSET Message
BY VoterAssumption DEF TypeOK, Broadcast, Message

-----------------------------------------------------------------------------
(* Types *)

LEMMA StartGroupElectionType ==
    ASSUME TypeOK, NEW a \in Agent, NEW tm \in Timers, StartGroupElection(a, tm)
    PROVE  /\ term' \in [Agent -> Terms]
           /\ active' \in [Agent -> BOOLEAN]
           /\ votes' \in [Agent -> [Voter -> Vote \cup {None}]]
           /\ confirms' \in [Agent -> [Voter -> Voter \cup {NoOne, None}]]
           /\ expected' \in [Agent -> Nat]
           /\ early' \in [Agent -> [term : Terms, votes : [Voter -> Vote \cup {None}]]]
           /\ leader' \in [Agent -> Named]
           /\ leaderTerm' \in [Agent -> Terms]
           /\ lease' \in [Agent -> BOOLEAN]
           /\ asked' \in [Agent -> Terms]
           /\ lead' \in [Agent -> [leads : Nat, start : Nat, hold : Nat]]
           /\ lost' \in [Agent -> SUBSET Nat]
           /\ timer' \in [Agent -> Timers]
           /\ msgs' \in SUBSET Message
<1>1. term[a] + 1 \in Terms /\ 0 \in Terms
  BY BoundAssumption DEF TypeOK, StartGroupElection, Terms
<1>2. a \in Voter
  BY GateVotersFacts DEF TypeOK, StartGroupElection, MayStart
<1>3. CASE SelfElect(a, tm)
  <2>1. NameLeader(a, a, term[a] + 1, TRUE) /\ a \in Named
    BY <1>3 DEF SelfElect, Named
  <2>2. timer' \in [Agent -> Timers]
    BY <1>1, <1>3 DEF SelfElect, TypeOK, Timers, TimerName
  <2> QED
    BY <1>1, <1>3, <2>1, <2>2, NameLeaderType DEF SelfElect, TypeOK
<1>4. CASE CallElection(a, tm)
  <2>1. PICK v \in Vote :
          /\ votes' = [votes EXCEPT ![a] = [NoEntries EXCEPT ![a] = v]]
          /\ Broadcast(a, "CALL", term[a] + 1, v)
    BY <1>4 DEF CallElection
  <2>2. msgs' \in SUBSET Message
    BY <1>1, <1>2, <2>1, BroadcastType
  <2>3. votes' \in [Agent -> [Voter -> Vote \cup {None}]]
    BY <1>2, <2>1 DEF TypeOK, NoEntries
  <2>4. confirms' \in [Agent -> [Voter -> Voter \cup {NoOne, None}]]
    BY <1>4 DEF CallElection, TypeOK, NoEntries
  <2>5. expected' \in [Agent -> Nat]
    BY <1>4, GateVotersFacts DEF CallElection, TypeOK
  <2>6. early' \in [Agent -> [term : Terms, votes : [Voter -> Vote \cup {None}]]]
    BY <1>1, <1>4 DEF CallElection, TypeOK, EarlyAfter, NoEarly, NoEntries
  <2>7. timer' \in [Agent -> Timers]
    <3> DEFINE armed == [tm EXCEPT !["vote"] = term[a] + 1, !["confirm"] = 0]
    <3>1. armed \in Timers
      BY <1>1 DEF Timers, TimerName
    <3>2. timer' = [timer EXCEPT ![a] = armed]
      BY <1>4 DEF CallElection
    <3> HIDE DEF armed
    <3> QED
      BY <3>1, <3>2 DEF TypeOK
  <2> QED
    BY <1>1, <1>4, <2>2, <2>3, <2>4, <2>5, <2>6, <2>7 DEF CallElection, TypeOK, leadVars
<1> QED
  BY <1>3, <1>4 DEF StartGroupElection

\* Everything but what an election's start sets.
LEMMA FireStartType ==
    ASSUME TypeOK, NEW a \in Agent, NEW armed, NEW rest \in Timers, FireStart(a, armed, rest)
    PROVE  TypeOK'
<1>1. CASE StartGroupElection(a, rest)
  BY <1>1, StartGroupElectionType DEF FireStart, StartGroupElection, TypeOK, outsideVars, gossipVars
<1>2. CASE /\ timer' = [timer EXCEPT ![a] = rest]
           /\ UNCHANGED <<ballotVars, leadVars, todo, gossipVars, msgs>>
  BY <1>2 DEF FireStart, TypeOK, ballotVars, leadVars, gossipVars, outsideVars
<1> QED
  BY <1>1, <1>2 DEF FireStart

\* The actions that handle a message, a timeout or a goroutine keep the types.
LEMMA ReceivesType ==
    ASSUME TypeOK, NEW a \in Agent, Receives(a)
    PROVE  TypeOK'
<1>1. PICK m \in msgs :
        \/ HandleGroupCall(a, m)
        \/ KeepEarlyVote(a, m)
        \/ HandleGroupVote(a, m)
        \/ HandleGroupConfirm(a, m)
        \/ MergeGossip(a, m)
  BY DEF Receives
<1>2. m \in Message /\ m.term \in Terms
  BY <1>1, BoundAssumption DEF TypeOK, Message, Terms
<1>3. 0 \in Terms
  BY BoundAssumption DEF Terms
<1> USE DEF Spawn
<1>4. CASE HandleGroupCall(a, m)
  <2>1. a \in Voter
    BY <1>4, GateVotersFacts DEF HandleGroupCall, Takes, TypeOK
  <2>2. m.value \in Vote
    BY <1>2, <1>4 DEF HandleGroupCall, Message
  <2> DEFINE ballot(v) == [b \in Voter |->
                 IF early[a].term = m.term /\ early[a].votes[b] # None THEN early[a].votes[b]
                 ELSE IF b = a THEN v
                 ELSE IF b = m.from /\ m.value # 0 THEN m.value
                 ELSE None]
             peers == Cardinality(GateVoters(a)) - 1
  <2>3. PICK v \in Vote :
            /\ votes' = [votes EXCEPT ![a] = ballot(v)]
            /\ expected' = [expected EXCEPT ![a] = peers]
            /\ timer' = [timer EXCEPT ![a]["vote"] = IF Complete(ballot(v), peers) THEN 0 ELSE m.term]
            /\ Spawn(a, "determine", m.term, Complete(ballot(v), peers))
            /\ Broadcast(a, "VOTE", m.term, v)
    BY <1>4 DEF HandleGroupCall
  <2>4. early[a] \in [term : Terms, votes : [Voter -> Vote \cup {None}]]
    BY DEF TypeOK
  <2>5. votes' \in [Agent -> [Voter -> Vote \cup {None}]]
    <3>1. ballot(v) \in [Voter -> Vote \cup {None}]
      BY <2>2, <2>4
    <3> HIDE DEF ballot
    <3> QED
      BY <2>3, <3>1 DEF TypeOK
  <2>6. expected' \in [Agent -> Nat]
    BY <2>3, GateVotersFacts DEF TypeOK
  <2> HIDE DEF ballot, peers
  <2>7. timer' \in [Agent -> Timers] /\ todo' \in [Agent -> SUBSET Steps]
    BY <1>2, <1>3, <2>3 DEF TypeOK, Timers, TimerName, Steps
  <2>8. msgs' \in SUBSET Message
    BY <1>2, <2>1, <2>3, BroadcastType
  <2>9. early' \in [Agent -> [term : Terms, votes : [Voter -> Vote \cup {None}]]]
    BY <1>3, <1>4 DEF HandleGroupCall, TypeOK, EarlyAfter, NoEarly, NoEntries
  <2>10. /\ active' \in [Agent -> BOOLEAN] /\ term' \in [Agent -> Terms]
         /\ confirms' \in [Agent -> [Voter -> Voter \cup {NoOne, None}]]
    BY <1>2, <1>4 DEF HandleGroupCall, TypeOK, NoEntries
  <2> QED
    BY <1>4, <2>5, <2>6, <2>7, <2>8, <2>9, <2>10
    DEF HandleGroupCall, TypeOK, leadVars, gossipVars, outsideVars
<1>5. CASE KeepEarlyVote(a, m)
  <2>1. m.value \in Vote /\ m.from \in Voter
    BY <1>2, <1>5 DEF KeepEarlyVote, Message
  <2>2. early' \in [Agent -> [term : Terms, votes : [Voter -> Vote \cup {None}]]]
    BY <1>2, <1>5, <2>1 DEF KeepEarlyVote, TypeOK, NoEntries
  <2> QED
    BY <1>5, <2>2 DEF KeepEarlyVote, TypeOK, leadVars, gossipVars, outsideVars
<1>6. CASE HandleGroupVote(a, m)
  <2>1. m.value \in Vote /\ m.from \in Voter
    BY <1>2, <1>6 DEF HandleGroupVote, Message
  <2>2. votes' \in [Agent -> [Voter -> Vote \cup {None}]]
    BY <1>6, <2>1 DEF HandleGroupVote, TypeOK
  <2>3. timer' \in [Agent -> Timers] /\ todo' \in [Agent -> SUBSET Steps]
    BY <1>2, <1>3, <1>6 DEF HandleGroupVote, TypeOK, Timers, TimerName, Steps
  <2> QED
    BY <1>6, <2>2, <2>3 DEF HandleGroupVote, TypeOK, leadVars, gossipVars, outsideVars
<1>7. CASE HandleGroupConfirm(a, m)
  <2>1. m.value \in Voter \cup {NoOne} /\ m.from \in Voter
    BY <1>2, <1>7 DEF HandleGroupConfirm, Message
  <2>2. confirms' \in [Agent -> [Voter -> Voter \cup {NoOne, None}]]
    BY <1>7, <2>1 DEF HandleGroupConfirm, TypeOK
  <2>3. timer' \in [Agent -> Timers] /\ todo' \in [Agent -> SUBSET Steps]
    BY <1>2, <1>3, <1>7 DEF HandleGroupConfirm, TypeOK, Timers, TimerName, Steps
  <2> QED
    BY <1>7, <2>2, <2>3 DEF HandleGroupConfirm, TypeOK, leadVars, gossipVars, outsideVars
<1>8. CASE MergeGossip(a, m)
  <2>1. [term |-> m.term, leader |-> m.value] \in Record
    BY <1>2, <1>8 DEF MergeGossip, Message, Record
  <2> QED
    BY <1>8, <2>1 DEF MergeGossip, TypeOK, ballotVars, leadVars, outsideVars
<1> QED
  BY <1>1, <1>4, <1>5, <1>6, <1>7, <1>8

LEMMA TimeoutsType ==
    ASSUME TypeOK, NEW a \in Agent, Timeouts(a)
    PROVE  TypeOK'
<1>1. 0 \in Terms /\ timer[a] \in Timers /\ TimerName # {}
  BY BoundAssumption DEF Terms, TypeOK, TimerName
<1>2. \A n \in TimerName : timer[a][n] \in Terms /\ [timer[a] EXCEPT ![n] = 0] \in Timers
  BY <1>1 DEF Timers
<1>3. ASSUME NEW n \in TimerName, NEW entries, NEW next \in {"determine", "finalize"},
             Timeout(a, timer[a][n], entries, next), timer' = [timer EXCEPT ![a][n] = 0]
      PROVE  TypeOK'
  <2>1. timer' \in [Agent -> Timers]
    <3> DEFINE rest == [timer[a] EXCEPT ![n] = 0]
    <3>1. timer' = [timer EXCEPT ![a] = rest] /\ rest \in Timers
      BY <1>2, <1>3
    <3> HIDE DEF rest
    <3> QED
      BY <3>1 DEF TypeOK
  <2>2. [step |-> next, term |-> timer[a][n]] \in Steps /\ [step |-> "retry", term |-> timer[a][n]] \in Steps
    BY <1>2, <1>3 DEF Steps
  <2>3. todo' \in [Agent -> SUBSET Steps]
    <3> DEFINE go == [step |-> next, term |-> timer[a][n]]
               give == [step |-> "retry", term |-> timer[a][n]]
    <3>1. \/ todo' = [todo EXCEPT ![a] = @ \cup {go}]
          \/ todo' = [todo EXCEPT ![a] = @ \cup {give}]
          \/ todo' = todo
      BY <1>3 DEF Timeout
    <3>2. go \in Steps /\ give \in Steps
      BY <2>2
    <3>3. todo \in [Agent -> SUBSET Steps]
      BY DEF TypeOK
    <3> HIDE DEF go, give
    <3>4. todo[a] \cup {go} \in SUBSET Steps /\ todo[a] \cup {give} \in SUBSET Steps
      BY <3>2, <3>3
    <3> QED
      BY <3>1, <3>3, <3>4
  <2> QED
    BY <1>3, <2>1, <2>3 DEF Timeout, Abort, TypeOK, ballotVars, leadVars, gossipVars, outsideVars
<1>4. CASE OnGroupVoteTimeout(a)
  BY <1>3, <1>4 DEF OnGroupVoteTimeout, TimerName
<1>5. CASE OnGroupConfirmTimeout(a)
  BY <1>3, <1>5 DEF OnGroupConfirmTimeout, TimerName
<1>6. CASE RenewalTimer(a)
  BY <1>2, <1>6, FireStartType DEF RenewalTimer, TimerName
<1>7. CASE RetryTimer(a)
  BY <1>2, <1>7, FireStartType DEF RetryTimer, TimerName
<1> QED
  BY <1>4, <1>5, <1>6, <1>7 DEF Timeouts

\* Only a voting member has an election running.
OnlyVotersElect == \A a \in Agent : active[a] => a \in Voter

LEMMA GoroutinesType ==
    ASSUME TypeOK, OnlyVotersElect, NEW a \in Agent, Goroutines(a)
    PROVE  TypeOK'
<1>1. 0 \in Terms /\ 1..MaxTerm \subseteq Terms
  BY BoundAssumption DEF Terms
<1>2. ASSUME NEW n \in TimerName, NEW u \in Terms, timer' = [timer EXCEPT ![a][n] = u]
      PROVE  timer' \in [Agent -> Timers]
  <2> DEFINE rest == [timer[a] EXCEPT ![n] = u]
  <2>1. rest \in Timers /\ timer' = [timer EXCEPT ![a] = rest]
    BY <1>2 DEF TypeOK, Timers
  <2> HIDE DEF rest
  <2> QED
    BY <2>1 DEF TypeOK
<1>3. ASSUME NEW t \in 1..MaxTerm, DetermineAndConfirmGroup(a, t)
      PROVE  TypeOK'
  <2>1. a \in Voter /\ t \in Terms
    BY <1>1, <1>3 DEF DetermineAndConfirmGroup, OnlyVotersElect
  <2> DEFINE winner == DetermineWinner(votes[a])
             named == [confirms[a] EXCEPT ![a] = winner]
  <2>2. winner \in Voter \cup {NoOne}
    BY DetermineWinnerType
  <2>3. named \in [Voter -> Voter \cup {NoOne, None}]
    BY <2>1, <2>2 DEF TypeOK
  <2>4. /\ confirms' = [confirms EXCEPT ![a] = named]
        /\ timer' = [timer EXCEPT ![a]["confirm"] = IF Complete(named, expected[a]) THEN 0 ELSE t]
        /\ Broadcast(a, "CONFIRM", t, winner)
    BY <1>3 DEF DetermineAndConfirmGroup
  <2>5. todo' \in [Agent -> SUBSET Steps]
    BY <1>3, <2>1 DEF DetermineAndConfirmGroup, TypeOK, Steps
  <2> HIDE DEF winner, named
  <2>6. msgs' \in SUBSET Message
    BY <2>1, <2>2, <2>4, BroadcastType
  <2>7. timer' \in [Agent -> Timers]
    BY <1>1, <1>2, <2>1, <2>4 DEF TimerName
  <2>8. confirms' \in [Agent -> [Voter -> Voter \cup {NoOne, None}]]
    BY <2>3, <2>4 DEF TypeOK
  <2> QED
    BY <1>3, <2>5, <2>6, <2>7, <2>8
    DEF DetermineAndConfirmGroup, TypeOK, leadVars, gossipVars, outsideVars
<1>4. ASSUME NEW t \in 1..MaxTerm, FinalizeGroupElection(a, t)
      PROVE  TypeOK'
  <2>1. t \in Terms
    BY <1>1
  <2>2. PICK w \in Agent : /\ NameLeader(a, w, t, TRUE)
                           /\ asked' = [asked EXCEPT ![a] = IF w = a THEN t ELSE @]
    BY <1>4 DEF FinalizeGroupElection
  <2>3. asked' \in [Agent -> Terms]
    BY <2>1, <2>2 DEF TypeOK
  <2>4. todo' \in [Agent -> SUBSET Steps]
    BY <1>4 DEF FinalizeGroupElection, TypeOK
  <2>5. timer' = [timer EXCEPT ![a]["renew"] = t]
    BY <1>4 DEF FinalizeGroupElection
  <2>6. timer' \in [Agent -> Timers]
    BY <1>2, <2>1, <2>5 DEF TimerName
  <2> QED
    BY <1>4, <2>1, <2>2, <2>3, <2>4, <2>6, NameLeaderType
    DEF FinalizeGroupElection, TypeOK, Named, gossipVars, outsideVars
<1>5. ASSUME NEW t \in 1..MaxTerm, FinalizeWithoutLeader(a, t)
      PROVE  TypeOK'
  <2>1. todo' \in [Agent -> SUBSET Steps]
    BY <1>1, <1>5 DEF FinalizeWithoutLeader, TypeOK, Steps
  <2> QED
    BY <1>5, <2>1 DEF FinalizeWithoutLeader, Abort, TypeOK, leadVars, gossipVars, outsideVars
<1>6. ASSUME NEW t \in 1..MaxTerm, GoroutineReturns(a, t)
      PROVE  TypeOK'
  <2>1. todo' \in [Agent -> SUBSET Steps]
    BY <1>6 DEF GoroutineReturns, TypeOK
  <2> QED
    BY <1>6, <2>1 DEF GoroutineReturns, TypeOK, ballotVars, leadVars, gossipVars, outsideVars
<1>7. ASSUME NEW t \in 1..MaxTerm, RetryGroupElection(a, t)
      PROVE  TypeOK'
  <2>1. todo' \in [Agent -> SUBSET Steps] /\ timer' = [timer EXCEPT ![a]["retry"] = t]
    BY <1>7 DEF RetryGroupElection, TypeOK
  <2>2. timer' \in [Agent -> Timers]
    BY <1>1, <1>2, <2>1 DEF TimerName
  <2> QED
    BY <1>7, <2>1, <2>2 DEF RetryGroupElection, TypeOK, ballotVars, leadVars, gossipVars, outsideVars
<1>8. ASSUME NEW rec \in applying[a], NEW runs \in BOOLEAN, ApplyGossipElection(a, rec, runs)
      PROVE  TypeOK'
  <2>1. rec \in Record /\ rec.term \in Terms /\ rec.leader \in Named
    BY <1>1, <1>8 DEF TypeOK, Record, NoRecord, Named
  <2>2. applying' \in [Agent -> SUBSET Record]
    BY <1>8 DEF ApplyGossipElection, TypeOK
  <2>3. asked' \in [Agent -> Terms]
    <3>1. \E t \in Terms : asked' = [asked EXCEPT ![a] = t]
      BY <1>8, <2>1 DEF ApplyGossipElection, TypeOK
    <3> QED
      BY <3>1 DEF TypeOK
  <2>4. CASE UNCHANGED <<term, active, leader, leaderTerm, lease, lead, lost, timer>>
    BY <1>8, <2>2, <2>3, <2>4 DEF ApplyGossipElection, TypeOK, outsideVars
  <2>5. CASE /\ NameLeader(a, rec.leader, rec.term, runs)
             /\ term' = [term EXCEPT ![a] = rec.term]
             /\ active' = [active EXCEPT ![a] = FALSE]
             /\ timer' = [timer EXCEPT ![a]["renew"] = IF known[a] /\ a \in Voter THEN rec.term ELSE 0]
    <3>1. timer' \in [Agent -> Timers]
      BY <1>1, <1>2, <2>1, <2>5 DEF TimerName
    <3>2. term' \in [Agent -> Terms] /\ active' \in [Agent -> BOOLEAN]
      BY <2>1, <2>5 DEF TypeOK
    <3> QED
      BY <1>8, <2>1, <2>2, <2>3, <2>5, <3>1, <3>2, NameLeaderType
      DEF ApplyGossipElection, TypeOK, outsideVars
  <2> QED
    BY <1>8, <2>4, <2>5 DEF ApplyGossipElection
<1> QED
  BY <1>3, <1>4, <1>5, <1>6, <1>7, <1>8 DEF Goroutines

LEMMA OutsideType ==
    ASSUME TypeOK, NEW a \in Agent, Outside(a)
    PROVE  TypeOK'
<1>1. 0 \in Terms /\ timer[a] \in Timers
  BY BoundAssumption DEF Terms, TypeOK
<1>2. CASE StartGroupElection(a, timer[a]) /\ UNCHANGED <<excused, known>>
           /\ operational' \in [Agent -> BOOLEAN] /\ events' \in 0..MaxEvents
  BY <1>1, <1>2, StartGroupElectionType DEF StartGroupElection, TypeOK, gossipVars
<1>3. \A e : Occurs(e) => events' \in 0..MaxEvents
  BY BoundAssumption DEF TypeOK, Occurs
<1>4. CASE OnGroupOperational(a)
  <2>1. operational' \in [Agent -> BOOLEAN] /\ events' \in 0..MaxEvents
    BY <1>4 DEF OnGroupOperational, TypeOK
  <2>2. CASE UNCHANGED <<ballotVars, leadVars, timer, todo, gossipVars, msgs>>
    BY <1>4, <2>1, <2>2 DEF OnGroupOperational, TypeOK, ballotVars, leadVars, gossipVars
  <2> QED
    BY <1>2, <1>4, <2>1, <2>2 DEF OnGroupOperational
<1>5. CASE OnGroupDegraded(a)
  <2>1. operational' \in [Agent -> BOOLEAN] /\ events' \in 0..MaxEvents
    BY <1>3, <1>5 DEF OnGroupDegraded, TypeOK
  <2>2. CASE UNCHANGED <<leader, lead, lost, timer>>
    BY <1>5, <2>1, <2>2 DEF OnGroupDegraded, TypeOK, ballotVars, gossipVars
  <2>3. CASE /\ NoteLeader(a, NoOne)
             /\ leader' = [leader EXCEPT ![a] = NoOne]
             /\ timer' = [timer EXCEPT ![a]["renew"] = 0]
    <3>1. timer' \in [Agent -> Timers]
      BY <1>1, <2>3 DEF TypeOK, Timers, TimerName
    <3>2. NoOne \in Named
      BY DEF Named
    <3> QED
      BY <1>5, <2>1, <2>3, <3>1, <3>2, NoteLeaderType DEF OnGroupDegraded, TypeOK, ballotVars, gossipVars
  <2> QED
    BY <1>5, <2>2, <2>3 DEF OnGroupDegraded
<1>6. CASE OperatorElection(a)
  BY <1>2, <1>3, <1>6 DEF OperatorElection, TypeOK
<1>7. CASE LeaseRunsOut(a)
  BY <1>7 DEF LeaseRunsOut, TypeOK, ballotVars, gossipVars, outsideVars
<1>8. CASE GateExcusedChanges(a)
  <2>1. excused' \in [Agent -> SUBSET Voter]
    <3>1. excused \in [Agent -> SUBSET Voter]
      BY DEF TypeOK
    <3>2. \E S \in SUBSET Voter : excused' = [excused EXCEPT ![a] = S]
      BY <1>8, <3>1, VoterAssumption DEF GateExcusedChanges
    <3> QED
      BY <3>1, <3>2
  <2> QED
    BY <1>3, <1>8, <2>1 DEF GateExcusedChanges, TypeOK, ballotVars, leadVars, gossipVars
<1>9. CASE GroupBack(a)
  BY <1>9 DEF GroupBack, TypeOK, ballotVars, leadVars, gossipVars
<1>10. ASSUME DropElection(a)
       PROVE  /\ term' \in [Agent -> Terms]
              /\ active' \in [Agent -> BOOLEAN]
              /\ votes' \in [Agent -> [Voter -> Vote \cup {None}]]
              /\ confirms' \in [Agent -> [Voter -> Voter \cup {NoOne, None}]]
              /\ expected' \in [Agent -> Nat]
              /\ early' \in [Agent -> [term : Terms, votes : [Voter -> Vote \cup {None}]]]
              /\ leader' \in [Agent -> Named]
              /\ leaderTerm' \in [Agent -> Terms]
              /\ lease' \in [Agent -> BOOLEAN]
              /\ asked' \in [Agent -> Terms]
              /\ timer' \in [Agent -> Timers]
              /\ heard' \in [Agent -> Record]
              /\ operational' \in [Agent -> BOOLEAN]
  <2>1. NoEntries \in [Voter -> Vote \cup {None}] /\ NoEntries \in [Voter -> Voter \cup {NoOne, None}]
    BY DEF NoEntries
  <2>2. NoEarly \in [term : Terms, votes : [Voter -> Vote \cup {None}]]
    BY <1>1, <2>1 DEF NoEarly
  <2>3. NoTimer \in Timers /\ NoRecord \in Record /\ NoOne \in Named
    BY <1>1 DEF NoTimer, Timers, Record, Named
  <2> QED
    BY <1>1, <1>10, <2>1, <2>2, <2>3 DEF DropElection, TypeOK
<1>11. CASE GroupGone(a)
  <2>1. lead' \in [Agent -> [leads : Nat, start : Nat, hold : Nat]]
    BY <1>11 DEF GroupGone, TypeOK, NoLead
  <2>2. todo' \in [Agent -> SUBSET Steps] /\ known' \in [Agent -> BOOLEAN]
    BY <1>11 DEF GroupGone, TypeOK
  <2> QED
    BY <1>3, <1>10, <1>11, <2>1, <2>2 DEF GroupGone, TypeOK
<1>12. CASE Crash(a)
  <2>1. /\ lead' \in [Agent -> [leads : Nat, start : Nat, hold : Nat]]
        /\ lost' \in [Agent -> SUBSET Nat]
        /\ todo' \in [Agent -> SUBSET Steps]
        /\ applying' \in [Agent -> SUBSET Record]
        /\ excused' \in [Agent -> SUBSET Voter]
        /\ known' \in [Agent -> BOOLEAN]
    BY <1>12 DEF Crash, TypeOK, NoLead
  <2> QED
    BY <1>3, <1>10, <1>12, <2>1 DEF Crash, TypeOK
<1> QED
  BY <1>4, <1>5, <1>6, <1>7, <1>8, <1>9, <1>11, <1>12 DEF Outside

LEMMA BuildGossipForPeerType ==
    ASSUME TypeOK, NEW a \in Agent, BuildGossipForPeer(a)
    PROVE  TypeOK'
<1> DEFINE told == [type |-> "GOSSIP", from |-> a, term |-> Tells(a).term,
                    value |-> Tells(a).leader, to |-> Agent]
<1>1. Tells(a) \in Record
  BY BoundAssumption DEF TypeOK, Tells, Decided, Record, NoRecord, Terms, Named
<1>2. Tells(a).term \in 1..MaxTerm /\ Tells(a).leader \in Agent
  BY <1>1 DEF BuildGossipForPeer, Record, NoRecord
<1>3. told \in Message
  BY <1>2 DEF Message
<1>4. msgs' = msgs \cup {told}
  BY DEF BuildGossipForPeer
<1> HIDE DEF told
<1> QED
  BY <1>3, <1>4 DEF BuildGossipForPeer, TypeOK, ballotVars, leadVars, gossipVars, outsideVars

LEMMA OnlyVotersElectKept ==
    ASSUME TypeOK, OnlyVotersElect, Next
    PROVE  OnlyVotersElect'
<1>1. ASSUME NEW a \in Agent, \A b \in Agent : active'[b] => active[b] \/ (b = a /\ a \in Voter)
      PROVE  OnlyVotersElect'
  BY <1>1 DEF OnlyVotersElect
<1>2. ASSUME NEW a \in Agent, NEW tm, StartGroupElection(a, tm)
      PROVE  OnlyVotersElect'
  <2>1. a \in Voter
    BY <1>2, GateVotersFacts DEF StartGroupElection, MayStart, TypeOK
  <2>2. active' \in {[active EXCEPT ![a] = FALSE], [active EXCEPT ![a] = TRUE]}
    BY <1>2 DEF StartGroupElection, SelfElect, CallElection
  <2> QED
    BY <1>1, <2>1, <2>2 DEF TypeOK
<1>3. ASSUME NEW a \in Agent, Receives(a)
      PROVE  OnlyVotersElect'
  <2>1. PICK m \in msgs :
        \/ HandleGroupCall(a, m)
        \/ KeepEarlyVote(a, m)
        \/ HandleGroupVote(a, m)
        \/ HandleGroupConfirm(a, m)
        \/ MergeGossip(a, m)
    BY <1>3 DEF Receives
  <2>2. CASE HandleGroupCall(a, m)
    <3>1. a \in Voter /\ active' = [active EXCEPT ![a] = TRUE]
      BY <2>2, GateVotersFacts DEF HandleGroupCall, Takes, TypeOK
    <3> QED
      BY <1>1, <3>1 DEF TypeOK
  <2>3. CASE active' = active
    BY <1>1, <2>3
  <2> QED
    BY <2>1, <2>2, <2>3 DEF KeepEarlyVote, HandleGroupVote, HandleGroupConfirm, MergeGossip, ballotVars
<1>4. ASSUME NEW a \in Agent, active' \in {active, [active EXCEPT ![a] = FALSE]}
      PROVE  OnlyVotersElect'
  <2>1. active \in [Agent -> BOOLEAN]
    BY DEF TypeOK
  <2>2. \A b \in Agent : active'[b] => active[b]
    BY <1>4, <2>1
  <2> QED
    BY <2>2 DEF OnlyVotersElect
<1>5. ASSUME NEW a \in Agent, Timeouts(a)
      PROVE  OnlyVotersElect'
  BY <1>2, <1>4, <1>5
  DEF Timeouts, OnGroupVoteTimeout, OnGroupConfirmTimeout, Timeout, Abort, RenewalTimer, RetryTimer,
      FireStart, ballotVars
<1>6. ASSUME NEW a \in Agent, Goroutines(a)
      PROVE  OnlyVotersElect'
  BY <1>4, <1>6
  DEF Goroutines, DetermineAndConfirmGroup, FinalizeGroupElection, FinalizeWithoutLeader, Abort,
      GoroutineReturns, RetryGroupElection, ApplyGossipElection, ballotVars
<1>7. ASSUME NEW a \in Agent, Outside(a) \/ BuildGossipForPeer(a)
      PROVE  OnlyVotersElect'
  BY <1>2, <1>4, <1>7
  DEF Outside, OnGroupOperational, OnGroupDegraded, OperatorElection, LeaseRunsOut, GateExcusedChanges,
      GroupGone, GroupBack, Crash, DropElection, BuildGossipForPeer, ballotVars
<1> QED
  BY <1>3, <1>5, <1>6, <1>7 DEF Next

LEMMA InitType ==
    ASSUME Init
    PROVE  TypeOK /\ OnlyVotersElect
<1>1. 0 \in Terms /\ NoOne \in Named
  BY BoundAssumption DEF Terms, Named
<1>2. NoEntries \in [Voter -> Vote \cup {None}] /\ NoEntries \in [Voter -> Voter \cup {NoOne, None}]
  BY DEF NoEntries
<1>3. NoEarly \in [term : Terms, votes : [Voter -> Vote \cup {None}]]
  BY <1>1, <1>2 DEF NoEarly
<1>4. NoTimer \in Timers /\ NoRecord \in Record /\ NoLead \in [leads : Nat, start : Nat, hold : Nat]
  BY <1>1 DEF NoTimer, Timers, Record, NoLead
<1> QED
  BY <1>1, <1>2, <1>3, <1>4, BoundAssumption DEF Init, TypeOK, OnlyVotersElect

\* Every step keeps the types, and that only voting members elect.
LEMMA StepType ==
    ASSUME TypeOK, OnlyVotersElect, [Next]_vars
    PROVE  TypeOK' /\ OnlyVotersElect'
<1>1. CASE Next
  <2>1. TypeOK'
    BY <1>1, ReceivesType, TimeoutsType, GoroutinesType, BuildGossipForPeerType, OutsideType DEF Next
  <2> QED
    BY <1>1, <2>1, OnlyVotersElectKept
<1>2. CASE UNCHANGED vars
  BY <1>2 DEF TypeOK, OnlyVotersElect, vars, ballotVars, leadVars, gossipVars, outsideVars
<1> QED
  BY <1>1, <1>2

\* The election record always has its types: whatever the handlers, timers
\* and goroutines of v2/parentsync_leader.go do, and in any order.
THEOREM TypeCorrect == Spec => []TypeOK
<1>1. Init => TypeOK /\ OnlyVotersElect
  BY InitType
<1>2. TypeOK /\ OnlyVotersElect /\ [Next]_vars => (TypeOK /\ OnlyVotersElect)'
  BY StepType
<1> QED
  BY <1>1, <1>2, PTL DEF Spec


-----------------------------------------------------------------------------
(* One leader to a term *)

\* No agent forgets its election, and no member is excused.
Steady == Event \cap {"crash", "gone", "excuse"} = {}

\* Among the messages M, voting member v casts vote x in term t.
Cast(M, v, t, x) ==
    \E m \in M : m.type \in {"CALL", "VOTE"} /\ m.from = v /\ m.term = t /\ m.value = x

\* Among the messages M, voting member v names l the winner of term t.
Confirmed(M, v, t, l) ==
    \E m \in M : m.type = "CONFIRM" /\ m.from = v /\ m.term = t /\ m.value = l

NobodyExcused == \A a \in Agent : excused[a] = {}

\* A member casts only as it enters a term: so one vote in a term.
CastInPastTerms == \A v \in Voter : \A t, x : Cast(msgs, v, t, x) => t <= term[v]
CastOnce == \A v \in Voter : \A t, x, y : Cast(msgs, v, t, x) /\ Cast(msgs, v, t, y) => x = y

\* The votes held, of the running term and ahead of it, were cast.
VotesWereCast ==
    \A a \in Agent : active[a] =>
      \A v \in Voter : votes[a][v] # None => Cast(msgs, v, term[a], votes[a][v])
EarlyWereCast ==
    \A a \in Agent : \A v \in Voter :
      early[a].votes[v] # None => Cast(msgs, v, early[a].term, early[a].votes[v])

\* A running election expects every voting member.
ExpectsEveryone == \A a \in Agent : active[a] => expected[a] = Cardinality(Voter) - 1

\* A goroutine is never of a term to come.
TodoInPastTerms == \A v \in Voter : \A s \in todo[v] : s.term <= term[v]

\* A phase is entered with every entry of the one before.
AllVotesBeforeConfirm ==
    \A a \in Agent :
      active[a] /\ [step |-> "determine", term |-> term[a]] \in todo[a] => Holds(votes[a]) = Voter
AllConfirmsBeforeLeader ==
    \A a \in Agent :
      active[a] /\ [step |-> "finalize", term |-> term[a]] \in todo[a] => Holds(confirms[a]) = Voter

\* The confirms held were sent, and each names the winner of a ballot with
\* a vote of every voting member.
ConfirmsWereSent ==
    \A a \in Agent : active[a] =>
      \A v \in Voter : confirms[a][v] # None => Confirmed(msgs, v, term[a], confirms[a][v])
ConfirmNamesTheWinner ==
    \A v \in Voter : \A t, l : Confirmed(msgs, v, t, l) =>
      \E ballot \in [Voter -> Vote] :
        /\ \A w \in Voter : Cast(msgs, w, t, ballot[w])
        /\ l = DetermineWinner(ballot)

Ballots ==
    /\ CastInPastTerms
    /\ CastOnce
    /\ VotesWereCast
    /\ EarlyWereCast
    /\ ExpectsEveryone
    /\ TodoInPastTerms
    /\ AllVotesBeforeConfirm
    /\ AllConfirmsBeforeLeader
    /\ ConfirmsWereSent
    /\ ConfirmNamesTheWinner

\* Whoever is named was confirmed by all, or votes alone.
NamedIsConfirmed ==
    \A t \in Terms : \A l \in Agent :
      NamedIn(t, l) => Voter = {l} \/ \A v \in Voter : Confirmed(msgs, v, t, l)

Inductive == TypeOK /\ OnlyVotersElect /\ NobodyExcused /\ Ballots /\ NamedIsConfirmed

-----------------------------------------------------------------------------
(* The operators *)

LEMMA GateIsEveryone ==
    ASSUME NobodyExcused, NEW a \in Agent
    PROVE  GateVoters(a) = Voter
BY VoterAssumption DEF NobodyExcused, GateVoters

\* The count of entries finds that all are in only when they are.
LEMMA CompleteIsEveryone ==
    ASSUME NEW entries, Complete(entries, Cardinality(Voter) - 1)
    PROVE  Holds(entries) = Voter
<1>1. Holds(entries) \subseteq Voter
  BY DEF Holds
<1>2. /\ Cardinality(Voter) \in Nat /\ Cardinality(Holds(entries)) \in Nat
      /\ Cardinality(Holds(entries)) <= Cardinality(Voter)
      /\ Cardinality(Holds(entries)) = Cardinality(Voter) => Holds(entries) = Voter
  BY <1>1, FS_Subset, FS_CardinalityType, VoterAssumption
<1>3. Cardinality(Holds(entries)) >= Cardinality(Voter)
  BY <1>2 DEF Complete
<1> QED
  BY <1>2, <1>3

\* All confirms of a term name the same winner.
LEMMA OneWinner ==
    ASSUME CastOnce, ConfirmNamesTheWinner, NEW t, NEW k, NEW l,
           NEW v \in Voter, NEW w \in Voter, Confirmed(msgs, v, t, k), Confirmed(msgs, w, t, l)
    PROVE  k = l
<1>1. PICK f \in [Voter -> Vote] : (\A u \in Voter : Cast(msgs, u, t, f[u])) /\ k = DetermineWinner(f)
  BY DEF ConfirmNamesTheWinner
<1>2. PICK g \in [Voter -> Vote] : (\A u \in Voter : Cast(msgs, u, t, g[u])) /\ l = DetermineWinner(g)
  BY DEF ConfirmNamesTheWinner
<1>3. \A u \in Voter : f[u] = g[u]
  BY <1>1, <1>2 DEF CastOnce
<1>4. f = g
  BY <1>3
<1> QED
  BY <1>1, <1>2, <1>4

\* What was cast and confirmed stays so, as messages are only added.
LEMMA CastStays ==
    ASSUME msgs \subseteq msgs', NEW v, NEW t, NEW x
    PROVE  (Cast(msgs, v, t, x) => Cast(msgs', v, t, x)) /\ (Confirmed(msgs, v, t, x) => Confirmed(msgs', v, t, x))
BY DEF Cast, Confirmed

-----------------------------------------------------------------------------
(* Ballots *)

\* A step that casts and confirms nothing, and starts no phase of an election.
Quiet ==
    /\ UNCHANGED <<votes, confirms, expected, early>>
    /\ \A b \in Agent : active'[b] => active[b] /\ term'[b] = term[b]
    /\ \A v \in Voter : term'[v] >= term[v]
    /\ \A b \in Agent : \A s \in todo'[b] : s \in todo[b] \/ (s.step = "retry" /\ s.term <= term[b])
    /\ \A m : m.type # "GOSSIP" => (m \in msgs' <=> m \in msgs)

LEMMA QuietBallots ==
    ASSUME TypeOK, TypeOK', Ballots, Quiet
    PROVE  Ballots'
<1>1. \A v, t, x : (Cast(msgs', v, t, x) <=> Cast(msgs, v, t, x)) /\ (Confirmed(msgs', v, t, x) <=> Confirmed(msgs, v, t, x))
  BY DEF Quiet, Cast, Confirmed
<1>2. \A v \in Voter : v \in Agent /\ term[v] \in Nat /\ term'[v] \in Nat
  BY VoterAssumption, BoundAssumption DEF TypeOK, Terms
<1>3. CastInPastTerms'
  <2> SUFFICES ASSUME NEW v \in Voter, NEW t, NEW x, Cast(msgs', v, t, x)
               PROVE  t <= term'[v]
    BY DEF CastInPastTerms
  <2>1. t \in Terms
    BY DEF Cast, TypeOK, Message
  <2>2. t <= term[v]
    BY <1>1 DEF Ballots, CastInPastTerms
  <2> QED
    BY <1>2, <2>1, <2>2, BoundAssumption DEF Quiet, Terms
<1>4. CastOnce' /\ VotesWereCast' /\ EarlyWereCast' /\ ExpectsEveryone' /\ ConfirmsWereSent'
  BY <1>1 DEF Ballots, CastOnce, VotesWereCast, EarlyWereCast, ExpectsEveryone, ConfirmsWereSent, Quiet
<1>5. TodoInPastTerms'
  <2> SUFFICES ASSUME NEW v \in Voter, NEW s \in todo'[v]
               PROVE  s.term <= term'[v]
    BY DEF TodoInPastTerms
  <2>1. s.term \in Nat
    BY <1>2, BoundAssumption DEF TypeOK, Steps, Terms
  <2>2. s.term <= term[v]
    BY <1>2 DEF Quiet, Ballots, TodoInPastTerms
  <2> QED
    BY <1>2, <2>1, <2>2 DEF Quiet
<1>6. AllVotesBeforeConfirm' /\ AllConfirmsBeforeLeader'
  BY DEF Ballots, AllVotesBeforeConfirm, AllConfirmsBeforeLeader, Quiet, Holds
<1>7. ConfirmNamesTheWinner'
  BY <1>1 DEF Ballots, ConfirmNamesTheWinner, DetermineWinner
<1> QED
  BY <1>3, <1>4, <1>5, <1>6, <1>7 DEF Ballots

\* A vote cast on entering a term.
LEMMA NewVote ==
    ASSUME TypeOK, TypeOK', Ballots, NEW a \in Voter, NEW type \in {"CALL", "VOTE"},
           NEW t \in Terms, t > term[a], NEW x \in Vote,
           Broadcast(a, type, t, x), term' = [term EXCEPT ![a] = t]
    PROVE  /\ msgs \subseteq msgs'
           /\ Cast(msgs', a, t, x)
           /\ CastInPastTerms' /\ CastOnce'
           /\ ConfirmNamesTheWinner'
           /\ \A v, u, l : Confirmed(msgs', v, u, l) <=> Confirmed(msgs, v, u, l)
<1> DEFINE sent == [type |-> type, from |-> a, term |-> t, value |-> x, to |-> Agent \ excused[a]]
<1>1. msgs' = msgs \cup {sent}
  BY DEF Broadcast
<1>2. msgs \subseteq msgs' /\ Cast(msgs', a, t, x)
  <2>1. sent \in msgs' /\ sent.type \in {"CALL", "VOTE"} /\ sent.from = a /\ sent.term = t /\ sent.value = x
    BY <1>1
  <2> HIDE DEF sent
  <2> QED
    BY <1>1, <2>1 DEF Cast
<1>3. \A v, u, y : Cast(msgs', v, u, y) <=> Cast(msgs, v, u, y) \/ (v = a /\ u = t /\ y = x)
  <2> SUFFICES ASSUME NEW v, NEW u, NEW y
               PROVE  Cast(msgs', v, u, y) <=> Cast(msgs, v, u, y) \/ (v = a /\ u = t /\ y = x)
    OBVIOUS
  <2>1. Cast(msgs', v, u, y) => Cast(msgs, v, u, y) \/ (v = a /\ u = t /\ y = x)
    BY <1>1 DEF Cast
  <2>2. Cast(msgs, v, u, y) => Cast(msgs', v, u, y)
    BY <1>1 DEF Cast
  <2> QED
    BY <1>2, <2>1, <2>2
<1>4. \A v, u, l : Confirmed(msgs', v, u, l) <=> Confirmed(msgs, v, u, l)
  BY <1>1 DEF Confirmed
<1>5. a \in Agent /\ term[a] \in Nat /\ t \in Nat
  BY VoterAssumption, BoundAssumption DEF TypeOK, Terms
<1>6. CastInPastTerms'
  <2> SUFFICES ASSUME NEW v \in Voter, NEW u, NEW y, Cast(msgs', v, u, y)
               PROVE  u <= term'[v]
    BY DEF CastInPastTerms
  <2>1. u \in Terms /\ u \in Nat
    BY BoundAssumption DEF Cast, TypeOK, Message, Terms
  <2>2. CASE Cast(msgs, v, u, y)
    <3>1. u <= term[v] /\ term[v] \in Nat
      BY <2>2, VoterAssumption, BoundAssumption DEF Ballots, CastInPastTerms, TypeOK, Terms
    <3> QED
      BY <1>5, <2>1, <3>1, VoterAssumption DEF TypeOK
  <2>3. CASE v = a /\ u = t
    BY <1>5, <2>3 DEF TypeOK
  <2> QED
    BY <1>3, <2>2, <2>3
<1>7. CastOnce'
  <2>1. \A y : ~Cast(msgs, a, t, y)
    BY <1>5 DEF Ballots, CastInPastTerms
  <2> QED
    BY <1>3, <2>1 DEF Ballots, CastOnce
<1>8. ConfirmNamesTheWinner'
  BY <1>3, <1>4 DEF Ballots, ConfirmNamesTheWinner, DetermineWinner
<1> QED
  BY <1>2, <1>4, <1>6, <1>7, <1>8

\* A member enters a term, above its own, with an empty set of confirms.
LEMMA EnterTerm ==
    ASSUME TypeOK, TypeOK', Ballots, NEW a \in Voter, NEW type \in {"CALL", "VOTE"},
           NEW t \in Terms, t > term[a], NEW x \in Vote,
           Broadcast(a, type, t, x), term' = [term EXCEPT ![a] = t],
           active' = [active EXCEPT ![a] = TRUE],
           confirms' = [confirms EXCEPT ![a] = NoEntries],
           expected' = [expected EXCEPT ![a] = Cardinality(Voter) - 1],
           early' = [early EXCEPT ![a] = EarlyAfter(a, t)],
           \A b \in Agent \ {a} : votes'[b] = votes[b] /\ todo'[b] = todo[b],
           \A v \in Voter : votes'[a][v] # None => Cast(msgs', v, t, votes'[a][v]),
           \A s \in todo'[a] :
             \/ s \in todo[a]
             \/ s = [step |-> "determine", term |-> t] /\ Holds(votes'[a]) = Voter
    PROVE  Ballots'
<1>1. /\ msgs \subseteq msgs'
      /\ CastInPastTerms' /\ CastOnce'
      /\ ConfirmNamesTheWinner'
  BY NewVote
<1>2. a \in Agent /\ term[a] \in Nat /\ t \in Nat
  BY VoterAssumption, BoundAssumption DEF TypeOK, Terms
<1>3. term'[a] = t /\ \A b \in Agent \ {a} : term'[b] = term[b]
  BY <1>2 DEF TypeOK
<1>4. active'[a] /\ \A b \in Agent \ {a} : active'[b] = active[b]
  BY <1>2 DEF TypeOK
<1>5. (\A v \in Voter : confirms'[a][v] = None) /\ \A b \in Agent \ {a} : confirms'[b] = confirms[b]
  BY <1>2 DEF TypeOK, NoEntries
<1>6. \A v, u, y : (Cast(msgs, v, u, y) => Cast(msgs', v, u, y)) /\ (Confirmed(msgs, v, u, y) => Confirmed(msgs', v, u, y))
  BY <1>1, CastStays
<1>7. VotesWereCast'
  BY <1>3, <1>4, <1>6 DEF Ballots, VotesWereCast
<1>8. ConfirmsWereSent'
  BY <1>3, <1>4, <1>5, <1>6 DEF Ballots, ConfirmsWereSent
<1>9. EarlyWereCast'
  <2>1. early'[a] \in {early[a], NoEarly} /\ \A b \in Agent \ {a} : early'[b] = early[b]
    BY <1>2 DEF TypeOK, EarlyAfter
  <2>2. \A v \in Voter : NoEarly.votes[v] = None
    BY DEF NoEarly, NoEntries
  <2> QED
    BY <1>6, <2>1, <2>2 DEF Ballots, EarlyWereCast
<1>10. ExpectsEveryone'
  BY <1>2, <1>4 DEF Ballots, ExpectsEveryone, TypeOK
<1>11. TodoInPastTerms'
  <2> SUFFICES ASSUME NEW v \in Voter, NEW s \in todo'[v]
               PROVE  s.term <= term'[v]
    BY DEF TodoInPastTerms
  <2>1. v \in Agent /\ s.term \in Nat
    BY VoterAssumption, BoundAssumption DEF TypeOK, Steps, Terms
  <2>2. CASE v # a
    BY <1>3, <2>1, <2>2 DEF Ballots, TodoInPastTerms
  <2>3. CASE v = a
    BY <1>2, <1>3, <2>1, <2>3 DEF Ballots, TodoInPastTerms
  <2> QED
    BY <2>2, <2>3
<1>12. \A s \in todo[a] : s.term # t
  BY <1>2 DEF Ballots, TodoInPastTerms
<1>13. AllVotesBeforeConfirm' /\ AllConfirmsBeforeLeader'
  <2> SUFFICES ASSUME NEW b \in Agent, active'[b]
               PROVE  /\ [step |-> "determine", term |-> term'[b]] \in todo'[b] => Holds(votes'[b]) = Voter
                      /\ [step |-> "finalize", term |-> term'[b]] \in todo'[b] => Holds(confirms'[b]) = Voter
    BY DEF AllVotesBeforeConfirm, AllConfirmsBeforeLeader, Holds
  <2>1. CASE b # a
    BY <1>3, <1>4, <1>5, <2>1 DEF Ballots, AllVotesBeforeConfirm, AllConfirmsBeforeLeader
  <2>2. CASE b = a
    BY <1>3, <1>12, <2>2
  <2> QED
    BY <2>1, <2>2
<1> QED
  BY <1>1, <1>7, <1>8, <1>9, <1>10, <1>11, <1>13 DEF Ballots

LEMMA CallElectionBallots ==
    ASSUME TypeOK, TypeOK', NobodyExcused, Ballots, NEW a \in Agent, NEW tm,
           StartGroupElection(a, tm), CallElection(a, tm)
    PROVE  Ballots'
<1>1. GateVoters(a) = Voter
  BY GateIsEveryone
<1>2. a \in Voter /\ term[a] + 1 \in Terms /\ term[a] + 1 > term[a]
  BY <1>1, BoundAssumption DEF StartGroupElection, MayStart, TypeOK, Terms
<1>3. PICK v \in Vote :
        /\ votes' = [votes EXCEPT ![a] = [NoEntries EXCEPT ![a] = v]]
        /\ Broadcast(a, "CALL", term[a] + 1, v)
  BY DEF CallElection
<1>4. /\ term' = [term EXCEPT ![a] = term[a] + 1]
      /\ active' = [active EXCEPT ![a] = TRUE]
      /\ confirms' = [confirms EXCEPT ![a] = NoEntries]
      /\ expected' = [expected EXCEPT ![a] = Cardinality(Voter) - 1]
      /\ early' = [early EXCEPT ![a] = EarlyAfter(a, term[a] + 1)]
      /\ todo' = todo
  BY <1>1 DEF CallElection, StartGroupElection
<1>5. Cast(msgs', a, term[a] + 1, v)
  BY <1>2, <1>3, <1>4, NewVote
<1>6. \A b \in Agent \ {a} : votes'[b] = votes[b]
  BY <1>3 DEF TypeOK
<1>7. \A w \in Voter : votes'[a][w] = IF w = a THEN v ELSE None
  BY <1>2, <1>3 DEF TypeOK, NoEntries
<1>8. \A w \in Voter : votes'[a][w] # None => Cast(msgs', w, term[a] + 1, votes'[a][w])
  BY <1>5, <1>7
<1> QED
  BY <1>2, <1>3, <1>4, <1>6, <1>8, EnterTerm

LEMMA HandleGroupCallBallots ==
    ASSUME TypeOK, TypeOK', NobodyExcused, Ballots, NEW a \in Agent, NEW m \in msgs, HandleGroupCall(a, m)
    PROVE  Ballots'
<1> DEFINE ballot(v) == [b \in Voter |->
                 IF early[a].term = m.term /\ early[a].votes[b] # None THEN early[a].votes[b]
                 ELSE IF b = a THEN v
                 ELSE IF b = m.from /\ m.value # 0 THEN m.value
                 ELSE None]
           go == [step |-> "determine", term |-> m.term]
<1>1. GateVoters(a) = Voter
  BY GateIsEveryone
<1>2. a \in Voter /\ m.term \in Terms /\ m.term > term[a]
  BY <1>1, BoundAssumption DEF HandleGroupCall, Takes, Joins, TypeOK, Message, Terms
<1>3. PICK v \in Vote :
        /\ votes' = [votes EXCEPT ![a] = ballot(v)]
        /\ Spawn(a, "determine", m.term, Complete(ballot(v), Cardinality(Voter) - 1))
        /\ Broadcast(a, "VOTE", m.term, v)
  BY <1>1 DEF HandleGroupCall
<1>4. /\ term' = [term EXCEPT ![a] = m.term]
      /\ active' = [active EXCEPT ![a] = TRUE]
      /\ confirms' = [confirms EXCEPT ![a] = NoEntries]
      /\ expected' = [expected EXCEPT ![a] = Cardinality(Voter) - 1]
      /\ early' = [early EXCEPT ![a] = EarlyAfter(a, m.term)]
  BY <1>1 DEF HandleGroupCall
<1>5. msgs \subseteq msgs' /\ Cast(msgs', a, m.term, v)
  BY <1>2, <1>3, <1>4, NewVote
<1>6. \A w \in Voter : ballot(v)[w] # None => Cast(msgs', w, m.term, ballot(v)[w])
  <2> SUFFICES ASSUME NEW w \in Voter, ballot(v)[w] # None
               PROVE  Cast(msgs', w, m.term, ballot(v)[w])
    OBVIOUS
  <2>1. CASE early[a].term = m.term /\ early[a].votes[w] # None
    <3>1. Cast(msgs, w, m.term, early[a].votes[w])
      BY <2>1 DEF Ballots, EarlyWereCast
    <3> QED
      BY <1>5, <2>1, <3>1, CastStays
  <2>2. CASE ~(early[a].term = m.term /\ early[a].votes[w] # None) /\ w = a
    BY <1>5, <2>2
  <2>3. CASE ~(early[a].term = m.term /\ early[a].votes[w] # None) /\ w # a
    <3>1. w = m.from /\ ballot(v)[w] = m.value
      BY <2>3
    <3>2. Cast(msgs, m.from, m.term, m.value)
      BY DEF Cast, HandleGroupCall
    <3> QED
      BY <1>5, <3>1, <3>2, CastStays
  <2> QED
    BY <2>1, <2>2, <2>3
<1> HIDE DEF ballot
<1>7. votes'[a] = ballot(v) /\ \A b \in Agent \ {a} : votes'[b] = votes[b] /\ todo'[b] = todo[b]
  BY <1>3 DEF TypeOK, Spawn
<1>8. \A s \in todo'[a] : s \in todo[a] \/ (s = go /\ Holds(ballot(v)) = Voter)
  <2>1. CASE Complete(ballot(v), Cardinality(Voter) - 1)
    BY <1>3, <2>1, CompleteIsEveryone DEF TypeOK, Spawn
  <2>2. CASE ~Complete(ballot(v), Cardinality(Voter) - 1)
    BY <1>3, <2>2 DEF TypeOK, Spawn
  <2> QED
    BY <2>1, <2>2
<1>9. \A w \in Voter : votes'[a][w] # None => Cast(msgs', w, m.term, votes'[a][w])
  BY <1>6, <1>7
<1>10. \A s \in todo'[a] :
         s \in todo[a] \/ (s = [step |-> "determine", term |-> m.term] /\ Holds(votes'[a]) = Voter)
  BY <1>7, <1>8
<1> QED
  BY <1>2, <1>3, <1>4, <1>7, <1>9, <1>10, EnterTerm

LEMMA KeepEarlyVoteBallots ==
    ASSUME TypeOK, TypeOK', Ballots, NEW a \in Agent, NEW m \in msgs, KeepEarlyVote(a, m)
    PROVE  Ballots'
<1>1. /\ UNCHANGED <<term, active, votes, confirms, expected, todo, msgs>>
      /\ m.from \in Voter /\ Cast(msgs, m.from, m.term, m.value)
  BY DEF KeepEarlyVote, Cast, TypeOK, Message
<1> DEFINE kept == IF m.term > early[a].term THEN NoEntries ELSE early[a].votes
<1>2. early' = [early EXCEPT ![a] = [term |-> m.term, votes |-> [kept EXCEPT ![m.from] = m.value]]]
  BY DEF KeepEarlyVote
<1>3. kept \in [Voter -> Vote \cup {None}] /\ m.term >= early[a].term
      /\ early[a].term \in Nat /\ m.term \in Nat
  BY BoundAssumption DEF KeepEarlyVote, TypeOK, NoEntries, Message, Terms
<1>4. \A v \in Voter : kept[v] # None => kept[v] = early[a].votes[v] /\ m.term = early[a].term
  BY <1>3 DEF NoEntries
<1> HIDE DEF kept
<1>5. /\ early'[a].term = m.term
      /\ \A v \in Voter : early'[a].votes[v] = IF v = m.from THEN m.value ELSE kept[v]
      /\ \A b \in Agent \ {a} : early'[b] = early[b]
  BY <1>1, <1>2, <1>3 DEF TypeOK
<1>6. EarlyWereCast'
  <2> SUFFICES ASSUME NEW b \in Agent, NEW v \in Voter, early'[b].votes[v] # None
               PROVE  Cast(msgs', v, early'[b].term, early'[b].votes[v])
    BY DEF EarlyWereCast
  <2>1. CASE b # a
    BY <1>1, <1>5, <2>1 DEF Ballots, EarlyWereCast
  <2>2. CASE b = a /\ v = m.from
    BY <1>1, <1>5, <2>2
  <2>3. CASE b = a /\ v # m.from
    BY <1>1, <1>4, <1>5, <2>3 DEF Ballots, EarlyWereCast
  <2> QED
    BY <2>1, <2>2, <2>3
<1> QED
  BY <1>1, <1>6
  DEF Ballots, CastInPastTerms, CastOnce, VotesWereCast, ExpectsEveryone, TodoInPastTerms,
      AllVotesBeforeConfirm, AllConfirmsBeforeLeader, ConfirmsWereSent, ConfirmNamesTheWinner, Holds

\* The votes, the confirms and the goroutines of one member change.
LEMMA EntriesBallots ==
    ASSUME TypeOK, TypeOK', Ballots, NEW a \in Agent,
           UNCHANGED <<term, active, expected, early>>,
           msgs \subseteq msgs', \A v, t, x : Cast(msgs', v, t, x) => Cast(msgs, v, t, x),
           \A b \in Agent \ {a} : votes'[b] = votes[b] /\ confirms'[b] = confirms[b] /\ todo'[b] = todo[b],
           active[a] => \A v \in Voter :
             /\ votes'[a][v] # None => Cast(msgs', v, term[a], votes'[a][v])
             /\ confirms'[a][v] # None => Confirmed(msgs', v, term[a], confirms'[a][v]),
           active[a] => Holds(votes[a]) \subseteq Holds(votes'[a]) /\ Holds(confirms[a]) \subseteq Holds(confirms'[a]),
           \A s \in todo'[a] :
             \/ s \in todo[a]
             \/ s.step = "retry" /\ s.term = term[a]
             \/ s = [step |-> "determine", term |-> term[a]] /\ Holds(votes'[a]) = Voter
             \/ s = [step |-> "finalize", term |-> term[a]] /\ Holds(confirms'[a]) = Voter,
           ConfirmNamesTheWinner'
    PROVE  Ballots'
<1>1. \A v, t, x : /\ Cast(msgs, v, t, x) <=> Cast(msgs', v, t, x)
                   /\ Confirmed(msgs, v, t, x) => Confirmed(msgs', v, t, x)
  BY CastStays
<1>2. CastInPastTerms' /\ CastOnce' /\ EarlyWereCast' /\ ExpectsEveryone'
  BY <1>1 DEF Ballots, CastInPastTerms, CastOnce, EarlyWereCast, ExpectsEveryone
<1>3. VotesWereCast'
  BY <1>1 DEF Ballots, VotesWereCast
<1>4. ConfirmsWereSent'
  BY <1>1 DEF Ballots, ConfirmsWereSent
<1>5. TodoInPastTerms'
  <2> SUFFICES ASSUME NEW v \in Voter, NEW s \in todo'[v]
               PROVE  s.term <= term[v]
    BY DEF TodoInPastTerms
  <2>1. v \in Agent /\ term[v] \in Nat
    BY VoterAssumption, BoundAssumption DEF TypeOK, Terms
  <2>2. s \in todo[v] \/ s.term = term[v]
    BY <2>1
  <2> QED
    BY <2>1, <2>2 DEF Ballots, TodoInPastTerms
<1>6. AllVotesBeforeConfirm' /\ AllConfirmsBeforeLeader'
  <2> SUFFICES ASSUME NEW b \in Agent, active[b]
               PROVE  /\ [step |-> "determine", term |-> term[b]] \in todo'[b] => Holds(votes'[b]) = Voter
                      /\ [step |-> "finalize", term |-> term[b]] \in todo'[b] => Holds(confirms'[b]) = Voter
    BY DEF AllVotesBeforeConfirm, AllConfirmsBeforeLeader, Holds
  <2>1. CASE b # a
    BY <2>1 DEF Ballots, AllVotesBeforeConfirm, AllConfirmsBeforeLeader
  <2>2. CASE b = a
    <3>1. Holds(votes'[a]) \subseteq Voter /\ Holds(confirms'[a]) \subseteq Voter
      BY DEF Holds
    <3> QED
      BY <2>2, <3>1 DEF Ballots, AllVotesBeforeConfirm, AllConfirmsBeforeLeader
  <2> QED
    BY <2>1, <2>2
<1> QED
  BY <1>2, <1>3, <1>4, <1>5, <1>6 DEF Ballots

LEMMA HandleGroupVoteBallots ==
    ASSUME TypeOK, TypeOK', Ballots, NEW a \in Agent, NEW m \in msgs, HandleGroupVote(a, m)
    PROVE  Ballots'
<1> DEFINE ballot == [votes[a] EXCEPT ![m.from] = m.value]
<1>1. /\ UNCHANGED <<term, active, expected, early, confirms, msgs>>
      /\ active[a] /\ term[a] = m.term
      /\ votes' = [votes EXCEPT ![a] = ballot]
      /\ Spawn(a, "determine", m.term, Complete(ballot, expected[a]))
  BY DEF HandleGroupVote
<1>2. m.from \in Voter /\ m.value \in Vote /\ Cast(msgs, m.from, term[a], m.value)
  BY <1>1 DEF HandleGroupVote, Cast, TypeOK, Message
<1>3. votes[a] \in [Voter -> Vote \cup {None}] /\ m.value # None
  BY <1>2, VoteAssumption DEF TypeOK, None
<1>4. /\ \A v \in Voter : ballot[v] # None => Cast(msgs, v, term[a], ballot[v])
      /\ Holds(votes[a]) \subseteq Holds(ballot)
  BY <1>1, <1>2, <1>3 DEF Ballots, VotesWereCast, Holds
<1>5. expected[a] = Cardinality(Voter) - 1
  BY <1>1 DEF Ballots, ExpectsEveryone
<1> HIDE DEF ballot
<1>6. votes'[a] = ballot /\ \A b \in Agent \ {a} : votes'[b] = votes[b] /\ todo'[b] = todo[b]
  BY <1>1 DEF TypeOK, Spawn
<1>7. \A s \in todo'[a] :
        s \in todo[a] \/ (s = [step |-> "determine", term |-> term[a]] /\ Holds(ballot) = Voter)
  <2>1. CASE Complete(ballot, expected[a])
    BY <1>1, <1>5, <2>1, CompleteIsEveryone DEF TypeOK, Spawn
  <2>2. CASE ~Complete(ballot, expected[a])
    BY <1>1, <2>2 DEF TypeOK, Spawn
  <2> QED
    BY <2>1, <2>2
<1>8. ConfirmNamesTheWinner'
  BY <1>1 DEF Ballots, ConfirmNamesTheWinner
<1>9. active[a] => \A v \in Voter : confirms[a][v] # None => Confirmed(msgs, v, term[a], confirms[a][v])
  BY DEF Ballots, ConfirmsWereSent
<1> QED
  BY <1>1, <1>4, <1>6, <1>7, <1>8, <1>9, EntriesBallots

LEMMA HandleGroupConfirmBallots ==
    ASSUME TypeOK, TypeOK', Ballots, NEW a \in Agent, NEW m \in msgs, HandleGroupConfirm(a, m)
    PROVE  Ballots'
<1> DEFINE named == [confirms[a] EXCEPT ![m.from] = m.value]
<1>1. /\ UNCHANGED <<term, active, expected, early, votes, msgs>>
      /\ active[a] /\ term[a] = m.term
      /\ confirms' = [confirms EXCEPT ![a] = named]
      /\ Spawn(a, "finalize", m.term, Complete(named, expected[a]))
  BY DEF HandleGroupConfirm
<1>2. m.from \in Voter /\ m.value \in Voter \cup {NoOne} /\ Confirmed(msgs, m.from, term[a], m.value)
  BY <1>1 DEF HandleGroupConfirm, Confirmed, TypeOK, Message
<1>3. confirms[a] \in [Voter -> Voter \cup {NoOne, None}] /\ m.value # None
  BY <1>2, VoterAssumption, AgentAssumption DEF TypeOK, None, NoOne
<1>4. /\ \A v \in Voter : named[v] # None => Confirmed(msgs, v, term[a], named[v])
      /\ Holds(confirms[a]) \subseteq Holds(named)
  BY <1>1, <1>2, <1>3 DEF Ballots, ConfirmsWereSent, Holds
<1>5. expected[a] = Cardinality(Voter) - 1
  BY <1>1 DEF Ballots, ExpectsEveryone
<1> HIDE DEF named
<1>6. confirms'[a] = named /\ \A b \in Agent \ {a} : confirms'[b] = confirms[b] /\ todo'[b] = todo[b]
  BY <1>1 DEF TypeOK, Spawn
<1>7. \A s \in todo'[a] :
        s \in todo[a] \/ (s = [step |-> "finalize", term |-> term[a]] /\ Holds(named) = Voter)
  <2>1. CASE Complete(named, expected[a])
    BY <1>1, <1>5, <2>1, CompleteIsEveryone DEF TypeOK, Spawn
  <2>2. CASE ~Complete(named, expected[a])
    BY <1>1, <2>2 DEF TypeOK, Spawn
  <2> QED
    BY <2>1, <2>2
<1>8. ConfirmNamesTheWinner'
  BY <1>1 DEF Ballots, ConfirmNamesTheWinner
<1>9. active[a] => \A v \in Voter : votes[a][v] # None => Cast(msgs, v, term[a], votes[a][v])
  BY DEF Ballots, VotesWereCast
<1> QED
  BY <1>1, <1>4, <1>6, <1>7, <1>8, <1>9, EntriesBallots

LEMMA DetermineAndConfirmBallots ==
    ASSUME TypeOK, TypeOK', OnlyVotersElect, Ballots, NEW a \in Agent, NEW t, DetermineAndConfirmGroup(a, t)
    PROVE  Ballots'
<1> DEFINE winner == DetermineWinner(votes[a])
           named == [confirms[a] EXCEPT ![a] = winner]
           sent == [type |-> "CONFIRM", from |-> a, term |-> t, value |-> winner, to |-> Agent \ excused[a]]
<1>1. /\ UNCHANGED <<term, active, expected, early, votes>>
      /\ active[a] /\ term[a] = t /\ [step |-> "determine", term |-> t] \in todo[a]
      /\ confirms' = [confirms EXCEPT ![a] = named]
      /\ msgs' = msgs \cup {sent}
      /\ todo' = [todo EXCEPT ![a] = (@ \ {[step |-> "determine", term |-> t]}) \cup
            (IF Complete(named, expected[a]) THEN {[step |-> "finalize", term |-> t]} ELSE {})]
  BY DEF DetermineAndConfirmGroup, Broadcast
<1>2. a \in Voter /\ winner \in Voter \cup {NoOne} /\ winner # None
  BY <1>1, DetermineWinnerType, VoterAssumption, AgentAssumption DEF OnlyVotersElect, None, NoOne
<1>3. votes[a] \in [Voter -> Vote] /\ \A w \in Voter : Cast(msgs, w, t, votes[a][w])
  <2>1. Holds(votes[a]) = Voter
    BY <1>1 DEF Ballots, AllVotesBeforeConfirm
  <2>2. \A w \in Voter : votes[a][w] # None
    BY <2>1 DEF Holds
  <2> QED
    BY <1>1, <2>2 DEF Ballots, VotesWereCast, TypeOK
<1>4. confirms[a] \in [Voter -> Voter \cup {NoOne, None}]
  BY DEF TypeOK
<1>5. expected[a] = Cardinality(Voter) - 1
  BY <1>1 DEF Ballots, ExpectsEveryone
<1>6. /\ sent.type = "CONFIRM" /\ sent.from = a /\ sent.term = t /\ sent.value = winner
      /\ winner = DetermineWinner(votes[a])
      /\ \A v \in Voter : named[v] = IF v = a THEN winner ELSE confirms[a][v]
  BY <1>2, <1>4
<1> HIDE DEF winner, named, sent
<1>7. /\ \A v, u, x : Cast(msgs', v, u, x) <=> Cast(msgs, v, u, x)
      /\ \A v, u, x : Confirmed(msgs', v, u, x) <=> Confirmed(msgs, v, u, x) \/ (v = a /\ u = t /\ x = winner)
  BY <1>1, <1>6 DEF Cast, Confirmed
<1>8. ConfirmNamesTheWinner'
  <2> SUFFICES ASSUME NEW v \in Voter, NEW u, NEW l, Confirmed(msgs', v, u, l)
               PROVE  \E ballot \in [Voter -> Vote] :
                        /\ \A w \in Voter : Cast(msgs', w, u, ballot[w])
                        /\ l = DetermineWinner(ballot)
    BY DEF ConfirmNamesTheWinner, DetermineWinner
  <2>1. CASE Confirmed(msgs, v, u, l)
    BY <1>7, <2>1 DEF Ballots, ConfirmNamesTheWinner
  <2>2. CASE u = t /\ l = winner
    BY <1>3, <1>6, <1>7, <2>2
  <2> QED
    BY <1>7, <2>1, <2>2
<1>9. /\ \A v \in Voter : named[v] # None => Confirmed(msgs', v, term[a], named[v])
      /\ Holds(confirms[a]) \subseteq Holds(named)
  BY <1>1, <1>2, <1>6, <1>7 DEF Ballots, ConfirmsWereSent, Holds
<1>10. confirms'[a] = named /\ \A b \in Agent \ {a} : confirms'[b] = confirms[b] /\ todo'[b] = todo[b]
  BY <1>1 DEF TypeOK
<1>11. \A s \in todo'[a] :
         s \in todo[a] \/ (s = [step |-> "finalize", term |-> term[a]] /\ Holds(named) = Voter)
  <2>1. CASE Complete(named, expected[a])
    BY <1>1, <1>5, <2>1, CompleteIsEveryone DEF TypeOK
  <2>2. CASE ~Complete(named, expected[a])
    BY <1>1, <2>2 DEF TypeOK
  <2> QED
    BY <2>1, <2>2
<1>12. \A v \in Voter : votes'[a][v] # None => Cast(msgs', v, term[a], votes'[a][v])
  BY <1>1, <1>7 DEF Ballots, VotesWereCast
<1>13. msgs \subseteq msgs' /\ \A v, u, x : Cast(msgs', v, u, x) => Cast(msgs, v, u, x)
  BY <1>1, <1>7
<1> QED
  BY <1>1, <1>8, <1>9, <1>10, <1>11, <1>12, <1>13, EntriesBallots

LEMMA TimeoutBallots ==
    ASSUME TypeOK, TypeOK', Ballots, NEW a \in Agent, OnGroupVoteTimeout(a) \/ OnGroupConfirmTimeout(a)
    PROVE  Ballots'
<1>1. PICK t, entries, go :
        /\ Timeout(a, t, entries, go)
        /\ \/ entries = votes[a] /\ go = "determine"
           \/ entries = confirms[a] /\ go = "finalize"
  BY DEF OnGroupVoteTimeout, OnGroupConfirmTimeout
<1>2. UNCHANGED msgs
  BY <1>1 DEF Timeout
<1>3. CASE active[a] /\ term[a] = t /\ Complete(entries, expected[a])
  <2>1. UNCHANGED <<term, active, votes, confirms, expected, early>>
    BY <1>1, <1>3 DEF Timeout, ballotVars
  <2>2. todo' = [todo EXCEPT ![a] = @ \cup {[step |-> go, term |-> t]}]
    BY <1>1, <1>3 DEF Timeout
  <2>3. Holds(entries) = Voter
    BY <1>3, CompleteIsEveryone DEF Ballots, ExpectsEveryone
  <2>4. /\ \A b \in Agent \ {a} : todo'[b] = todo[b]
        /\ \A s \in todo'[a] : s \in todo[a] \/ s = [step |-> go, term |-> t]
    BY <2>2 DEF TypeOK
  <2>5. \A s \in todo'[a] :
             \/ s \in todo[a]
             \/ s.step = "retry" /\ s.term = term[a]
             \/ s = [step |-> "determine", term |-> term[a]] /\ Holds(votes'[a]) = Voter
             \/ s = [step |-> "finalize", term |-> term[a]] /\ Holds(confirms'[a]) = Voter
    BY <1>1, <1>3, <2>1, <2>3, <2>4
  <2>6. active[a] => \A v \in Voter :
             /\ votes[a][v] # None => Cast(msgs, v, term[a], votes[a][v])
             /\ confirms[a][v] # None => Confirmed(msgs, v, term[a], confirms[a][v])
    BY DEF Ballots, VotesWereCast, ConfirmsWereSent
  <2>7. ConfirmNamesTheWinner'
    BY <1>2 DEF Ballots, ConfirmNamesTheWinner
  <2> QED
    BY <1>2, <2>1, <2>4, <2>5, <2>6, <2>7, EntriesBallots
<1>4. CASE ~(active[a] /\ term[a] = t /\ Complete(entries, expected[a]))
  <2>1. /\ UNCHANGED <<term, votes, confirms, expected, early>>
        /\ \/ active' = active /\ todo' = todo
           \/ /\ active' = [active EXCEPT ![a] = FALSE]
              /\ todo' = [todo EXCEPT ![a] = @ \cup {[step |-> "retry", term |-> term[a]]}]
    BY <1>1, <1>4 DEF Timeout, Abort, ballotVars
  <2>2. \A b \in Agent : active'[b] => active[b]
    BY <2>1 DEF TypeOK
  <2>3. \A b \in Agent : \A s \in todo'[b] : s \in todo[b] \/ (s.step = "retry" /\ s.term = term[b])
    <3>1. todo \in [Agent -> SUBSET Steps]
      BY DEF TypeOK
    <3> QED
      BY <2>1, <3>1
  <2>4. \A b \in Agent : term[b] \in Nat /\ term'[b] = term[b]
    BY <2>1, BoundAssumption DEF TypeOK, Terms
  <2>5. Quiet
    BY <1>2, <2>1, <2>2, <2>3, <2>4, VoterAssumption DEF Quiet
  <2> QED
    BY <2>5, QuietBallots
<1> QED
  BY <1>3, <1>4

\* One member's election stops, or nothing happens to it, at a term that
\* does not fall where it votes.
LEMMA QuietStep ==
    ASSUME TypeOK, TypeOK', NEW a \in Agent,
           UNCHANGED <<votes, confirms, expected, early>>,
           \/ UNCHANGED <<term, active>>
           \/ UNCHANGED term /\ active' = [active EXCEPT ![a] = FALSE]
           \/ /\ active' = [active EXCEPT ![a] = FALSE]
              /\ \E t \in Terms : term' = [term EXCEPT ![a] = t] /\ (a \in Voter => t > term[a]),
           \/ todo' = todo
           \/ \E S \in SUBSET todo[a] : todo' = [todo EXCEPT ![a] = S]
           \/ \E S \in SUBSET todo[a] :
                 todo' = [todo EXCEPT ![a] = S \cup {[step |-> "retry", term |-> term[a]]}],
           \A m : m.type # "GOSSIP" => (m \in msgs' <=> m \in msgs)
    PROVE  Quiet
<1>1. \A b \in Agent : term[b] \in Nat /\ term'[b] \in Nat
  BY BoundAssumption DEF TypeOK, Terms
<1>2. \A v \in Voter : term'[v] >= term[v]
  <2>1. term \in [Agent -> Terms] /\ Voter \subseteq Agent
    BY VoterAssumption DEF TypeOK
  <2>2. ASSUME NEW t \in Terms, term' = [term EXCEPT ![a] = t], a \in Voter => t > term[a]
        PROVE  \A v \in Voter : term'[v] >= term[v]
    BY <1>1, <2>1, <2>2
  <2> QED
    BY <1>1, <2>1, <2>2
<1>3. \A b \in Agent : active'[b] => active[b] /\ term'[b] = term[b]
  <2>1. active \in [Agent -> BOOLEAN] /\ term \in [Agent -> Terms]
    BY DEF TypeOK
  <2>2. CASE active' = [active EXCEPT ![a] = FALSE]
    <3>1. ~active'[a] /\ \A b \in Agent \ {a} : active'[b] = active[b] /\ term'[b] = term[b]
      BY <2>1, <2>2
    <3> QED
      BY <3>1
  <2> QED
    BY <2>2
<1>4. \A b \in Agent : \A s \in todo'[b] : s \in todo[b] \/ (s.step = "retry" /\ s.term = term[b])
  <2>1. todo \in [Agent -> SUBSET Steps]
    BY DEF TypeOK
  <2>2. ASSUME NEW S \in SUBSET todo[a],
               todo' = [todo EXCEPT ![a] = S \cup {[step |-> "retry", term |-> term[a]]}]
        PROVE  \A b \in Agent : \A s \in todo'[b] : s \in todo[b] \/ (s.step = "retry" /\ s.term = term[b])
    BY <2>1, <2>2
  <2>3. ASSUME NEW S \in SUBSET todo[a], todo' = [todo EXCEPT ![a] = S]
        PROVE  \A b \in Agent : \A s \in todo'[b] : s \in todo[b]
    BY <2>1, <2>3
  <2> QED
    BY <2>2, <2>3
<1> QED
  BY <1>1, <1>2, <1>3, <1>4 DEF Quiet

LEMMA StartBallots ==
    ASSUME TypeOK, TypeOK', NobodyExcused, Ballots, NEW a \in Agent, NEW tm, StartGroupElection(a, tm)
    PROVE  Ballots'
<1>1. CASE SelfElect(a, tm)
  <2>1. term[a] + 1 \in Terms /\ term[a] + 1 > term[a]
    BY BoundAssumption DEF StartGroupElection, TypeOK, Terms
  <2>2. /\ UNCHANGED <<votes, confirms, expected, early, msgs, todo>>
        /\ active' = [active EXCEPT ![a] = FALSE]
        /\ term' = [term EXCEPT ![a] = term[a] + 1]
    BY <1>1 DEF SelfElect, StartGroupElection
  <2> QED
    BY <2>1, <2>2, QuietStep, QuietBallots
<1> QED
  BY <1>1, CallElectionBallots DEF StartGroupElection

LEMMA StepBallots ==
    ASSUME TypeOK, TypeOK', OnlyVotersElect, NobodyExcused, Ballots, Steady, Next
    PROVE  Ballots'
<1>1. PICK a \in Agent :
        Receives(a) \/ Timeouts(a) \/ Goroutines(a) \/ BuildGossipForPeer(a) \/ Outside(a)
  BY DEF Next
<1>2. CASE Receives(a)
  <2>1. PICK m \in msgs :
        \/ HandleGroupCall(a, m)
        \/ KeepEarlyVote(a, m)
        \/ HandleGroupVote(a, m)
        \/ HandleGroupConfirm(a, m)
        \/ MergeGossip(a, m)
    BY <1>2 DEF Receives
  <2>2. CASE MergeGossip(a, m)
    <3>1. UNCHANGED <<term, active, votes, confirms, expected, early, todo, msgs>>
      BY <2>2 DEF MergeGossip, ballotVars
    <3> QED
      BY <3>1, QuietStep, QuietBallots
  <2> QED
    BY <2>1, <2>2, HandleGroupCallBallots, KeepEarlyVoteBallots, HandleGroupVoteBallots,
       HandleGroupConfirmBallots
<1>3. ASSUME NEW armed, NEW rest, FireStart(a, armed, rest)
      PROVE  Ballots'
  <2>1. CASE UNCHANGED <<ballotVars, leadVars, todo, gossipVars, msgs>>
    <3>1. UNCHANGED <<term, active, votes, confirms, expected, early, todo, msgs>>
      BY <2>1 DEF ballotVars
    <3> QED
      BY <3>1, QuietStep, QuietBallots
  <2> QED
    BY <1>3, <2>1, StartBallots DEF FireStart
<1>4. CASE Timeouts(a)
  BY <1>3, <1>4, TimeoutBallots DEF Timeouts, RenewalTimer, RetryTimer
<1>5. CASE Goroutines(a)
  <2>1. ASSUME NEW t, FinalizeGroupElection(a, t)
        PROVE  Ballots'
    <3>1. /\ UNCHANGED <<term, votes, confirms, expected, early, msgs>>
          /\ active' = [active EXCEPT ![a] = FALSE]
          /\ \E S \in SUBSET todo[a] : todo' = [todo EXCEPT ![a] = S]
      BY <2>1 DEF FinalizeGroupElection
    <3> QED
      BY <3>1, QuietStep, QuietBallots
  <2>2. ASSUME NEW t, FinalizeWithoutLeader(a, t)
        PROVE  Ballots'
    <3>1. /\ UNCHANGED <<term, votes, confirms, expected, early, msgs>>
          /\ active' = [active EXCEPT ![a] = FALSE]
          /\ \E S \in SUBSET todo[a] :
               todo' = [todo EXCEPT ![a] = S \cup {[step |-> "retry", term |-> term[a]]}]
      BY <2>2 DEF FinalizeWithoutLeader, Abort
    <3> QED
      BY <3>1, QuietStep, QuietBallots
  <2>3. ASSUME NEW t, GoroutineReturns(a, t) \/ RetryGroupElection(a, t)
        PROVE  Ballots'
    <3>1. /\ UNCHANGED <<term, active, votes, confirms, expected, early, msgs>>
          /\ \E S \in SUBSET todo[a] : todo' = [todo EXCEPT ![a] = S]
      BY <2>3 DEF GoroutineReturns, RetryGroupElection, ballotVars
    <3> QED
      BY <3>1, QuietStep, QuietBallots
  <2>4. ASSUME NEW rec \in applying[a], NEW runs \in BOOLEAN, ApplyGossipElection(a, rec, runs)
        PROVE  Ballots'
    <3>1. rec.term \in Terms
      BY BoundAssumption DEF TypeOK, Record, NoRecord, Terms
    <3>2. /\ UNCHANGED <<votes, confirms, expected, early, todo, msgs>>
          /\ \/ UNCHANGED <<term, active>>
             \/ /\ active' = [active EXCEPT ![a] = FALSE]
                /\ term' = [term EXCEPT ![a] = rec.term] /\ (a \in Voter => rec.term > term[a])
      BY <2>4 DEF ApplyGossipElection, ObserverTakes
    <3> QED
      BY <3>1, <3>2, QuietStep, QuietBallots
  <2> QED
    BY <1>5, <2>1, <2>2, <2>3, <2>4, DetermineAndConfirmBallots DEF Goroutines
<1>6. CASE BuildGossipForPeer(a)
  <2> DEFINE told == [type |-> "GOSSIP", from |-> a, term |-> Tells(a).term,
                      value |-> Tells(a).leader, to |-> Agent]
  <2>1. UNCHANGED <<term, active, votes, confirms, expected, early, todo>> /\ msgs' = msgs \cup {told}
    BY <1>6 DEF BuildGossipForPeer, ballotVars
  <2>2. told.type = "GOSSIP"
    OBVIOUS
  <2> HIDE DEF told
  <2>3. \A m : m.type # "GOSSIP" => (m \in msgs' <=> m \in msgs)
    BY <2>1, <2>2
  <2> QED
    BY <2>1, <2>3, QuietStep, QuietBallots
<1>7. CASE Outside(a)
  <2>1. CASE \E tm : StartGroupElection(a, tm)
    BY <2>1, StartBallots
  <2>2. CASE UNCHANGED <<term, active, votes, confirms, expected, early, todo, msgs>>
    BY <2>2, QuietStep, QuietBallots
  <2>3. ~GroupGone(a) /\ ~Crash(a) /\ ~GateExcusedChanges(a)
    BY DEF Steady, GroupGone, Crash, GateExcusedChanges, Occurs
  <2> QED
    BY <1>7, <2>1, <2>2, <2>3
    DEF Outside, OnGroupOperational, OnGroupDegraded, OperatorElection, LeaseRunsOut, GroupBack, ballotVars
<1> QED
  BY <1>1, <1>2, <1>4, <1>5, <1>6, <1>7

-----------------------------------------------------------------------------
(* Leaders *)

\* Leader l of term t stands on every voting member's confirm, or votes alone.
Stands(t, l) == Voter = {l} \/ \A v \in Voter : Confirmed(msgs, v, t, l)

\* With every confirm in, the winner that a member takes has them all.
LEMMA FinalizeStands ==
    ASSUME TypeOK, Ballots, NEW a \in Agent, NEW t, NEW w, FinalizeGroupElection(a, t), MayAgreeOn(a, w)
    PROVE  Stands(t, w)
<1>1. active[a] /\ term[a] = t /\ Holds(confirms[a]) = Voter
  BY DEF FinalizeGroupElection, Ballots, AllConfirmsBeforeLeader
<1>2. \A u \in Voter : Confirmed(msgs, u, t, confirms[a][u])
  BY <1>1 DEF Holds, Ballots, ConfirmsWereSent
<1>3. PICK v \in Voter : confirms[a][v] = w
  BY <1>1 DEF MayAgreeOn, Winners
<1>4. \A u \in Voter : confirms[a][u] = w
  BY <1>2, <1>3, OneWinner DEF Ballots
<1> QED
  BY <1>2, <1>4 DEF Stands

\* Messages are only added.
LEMMA MessagesStay ==
    ASSUME Next
    PROVE  msgs \subseteq msgs'
<1>1. \A a, tm : StartGroupElection(a, tm) => msgs \subseteq msgs'
  BY DEF StartGroupElection, SelfElect, CallElection, Broadcast
<1>2. ASSUME NEW a \in Agent, Receives(a) \/ Timeouts(a)
      PROVE  msgs \subseteq msgs'
  BY <1>1, <1>2
  DEF Receives, HandleGroupCall, KeepEarlyVote, HandleGroupVote, HandleGroupConfirm, MergeGossip, Broadcast,
      Timeouts, OnGroupVoteTimeout, OnGroupConfirmTimeout, Timeout, RenewalTimer, RetryTimer, FireStart
<1>3. ASSUME NEW a \in Agent, Goroutines(a) \/ BuildGossipForPeer(a)
      PROVE  msgs \subseteq msgs'
  BY <1>3
  DEF Goroutines, DetermineAndConfirmGroup, FinalizeGroupElection, FinalizeWithoutLeader, GoroutineReturns,
      RetryGroupElection, ApplyGossipElection, Broadcast, BuildGossipForPeer
<1>4. ASSUME NEW a \in Agent, Outside(a)
      PROVE  msgs \subseteq msgs'
  BY <1>1, <1>4
  DEF Outside, OnGroupOperational, OnGroupDegraded, OperatorElection, LeaseRunsOut, GateExcusedChanges,
      GroupGone, GroupBack, Crash
<1> QED
  BY <1>2, <1>3, <1>4 DEF Next

\* Whoever is named after a step was named before it, or stands.
LEMMA NamedStep ==
    ASSUME TypeOK, TypeOK', NamedIsConfirmed, msgs \subseteq msgs',
           \A t \in Terms : \A l \in Agent : NamedIn(t, l)' => NamedIn(t, l) \/ Stands(t, l)
    PROVE  NamedIsConfirmed'
<1> SUFFICES ASSUME NEW t \in Terms, NEW l \in Agent, NamedIn(t, l)'
             PROVE  Voter = {l} \/ \A v \in Voter : Confirmed(msgs', v, t, l)
  BY DEF NamedIsConfirmed
<1>1. Stands(t, l)
  BY DEF NamedIsConfirmed, Stands
<1> QED
  BY <1>1, CastStays DEF Stands

\* A step of a that sets only its leader, and tells and hears of none.
LEMMA NameLeaderNames ==
    ASSUME TypeOK, NEW a \in Agent, NEW k, NEW u,
           leader' = [leader EXCEPT ![a] = k], leaderTerm' = [leaderTerm EXCEPT ![a] = u],
           Stands(u, k) \/ NamedIn(u, k),
           heard' = heard, \A b \in Agent : applying'[b] \subseteq applying[b],
           \A m \in msgs' : m \in msgs \/ m.type # "GOSSIP",
           NEW t \in Terms, NEW l \in Agent, NamedIn(t, l)'
    PROVE  NamedIn(t, l) \/ Stands(t, l)
<1>1. /\ leader'[a] = k /\ leaderTerm'[a] = u
      /\ \A b \in Agent \ {a} : leader'[b] = leader[b] /\ leaderTerm'[b] = leaderTerm[b]
  BY DEF TypeOK
<1> QED
  BY <1>1 DEF NamedIn

\* A step that names no one anew.
LEMMA NoLeaderNames ==
    ASSUME TypeOK, UNCHANGED <<leader, leaderTerm, heard>>,
           \A b \in Agent : applying'[b] \subseteq applying[b],
           \A m \in msgs' : m \in msgs \/ m.type # "GOSSIP",
           NEW t \in Terms, NEW l \in Agent, NamedIn(t, l)'
    PROVE  NamedIn(t, l)
BY DEF NamedIn

\* A message of the election is no gossip.
LEMMA BroadcastIsNoGossip ==
    ASSUME NEW a, NEW type \in {"CALL", "VOTE", "CONFIRM"}, NEW t, NEW value, Broadcast(a, type, t, value)
    PROVE  \A m \in msgs' : m \in msgs \/ m.type # "GOSSIP"
BY DEF Broadcast

LEMMA StartNames ==
    ASSUME TypeOK, NobodyExcused, NEW a \in Agent, NEW tm, StartGroupElection(a, tm),
           NEW t \in Terms, NEW l \in Agent, NamedIn(t, l)'
    PROVE  NamedIn(t, l) \/ Stands(t, l)
<1>1. heard' = heard /\ applying' = applying
  BY DEF StartGroupElection, gossipVars
<1>2. \A m \in msgs' : m \in msgs \/ m.type # "GOSSIP"
  BY BroadcastIsNoGossip DEF StartGroupElection, SelfElect, CallElection
<1>3. CASE SelfElect(a, tm) /\ GateVoters(a) = {a}
  <2>1. leader' = [leader EXCEPT ![a] = a] /\ leaderTerm' = [leaderTerm EXCEPT ![a] = term[a] + 1]
    BY <1>3 DEF SelfElect, NameLeader
  <2>2. Stands(term[a] + 1, a)
    BY <1>3, GateIsEveryone DEF Stands
  <2> QED
    BY <1>1, <1>2, <2>1, <2>2, NameLeaderNames
<1>4. CASE CallElection(a, tm)
  <2>1. UNCHANGED <<leader, leaderTerm>>
    BY <1>4 DEF CallElection, leadVars
  <2> QED
    BY <1>1, <1>2, <2>1, NoLeaderNames
<1> QED
  BY <1>3, <1>4 DEF StartGroupElection

LEMMA StepNamed ==
    ASSUME TypeOK, TypeOK', NobodyExcused, Ballots, NamedIsConfirmed, Steady, Next
    PROVE  NamedIsConfirmed'
<1> SUFFICES ASSUME NEW t \in Terms, NEW l \in Agent, NamedIn(t, l)'
             PROVE  NamedIn(t, l) \/ Stands(t, l)
  BY NamedStep, MessagesStay
<1>1. PICK a \in Agent :
        Receives(a) \/ Timeouts(a) \/ Goroutines(a) \/ BuildGossipForPeer(a) \/ Outside(a)
  BY DEF Next
<1>2. CASE Receives(a)
  <2>1. PICK m \in msgs :
        \/ HandleGroupCall(a, m)
        \/ KeepEarlyVote(a, m)
        \/ HandleGroupVote(a, m)
        \/ HandleGroupConfirm(a, m)
        \/ MergeGossip(a, m)
    BY <1>2 DEF Receives
  <2>2. CASE MergeGossip(a, m)
    <3> DEFINE rec == [term |-> m.term, leader |-> m.value]
    <3>1. /\ m.type = "GOSSIP" /\ UNCHANGED <<leader, leaderTerm, msgs>>
          /\ heard' = [heard EXCEPT ![a] = rec]
          /\ applying' = [applying EXCEPT ![a] = @ \cup {rec}]
      BY <2>2 DEF MergeGossip, leadVars
    <3>2. NamedIn(rec.term, rec.leader)
      BY <3>1 DEF NamedIn
    <3> HIDE DEF rec
    <3>3. /\ \A b \in Agent : heard'[b] = heard[b] \/ heard'[b] = rec
          /\ \A b \in Agent : \A r \in applying'[b] : r \in applying[b] \/ r = rec
      BY <3>1 DEF TypeOK
    <3> QED
      BY <3>1, <3>2, <3>3 DEF NamedIn
  <2>3. CASE ~MergeGossip(a, m)
    <3>1. UNCHANGED <<leader, leaderTerm, heard, applying>> /\ \A n \in msgs' : n \in msgs \/ n.type # "GOSSIP"
      BY <2>1, <2>3, BroadcastIsNoGossip
      DEF HandleGroupCall, KeepEarlyVote, HandleGroupVote, HandleGroupConfirm, leadVars, gossipVars
    <3> QED
      BY <3>1, NoLeaderNames
  <2> QED
    BY <2>2, <2>3
<1>3. CASE Timeouts(a)
  <2>1. CASE UNCHANGED <<leader, leaderTerm, heard, applying, msgs>>
    BY <2>1, NoLeaderNames
  <2> QED
    BY <1>3, <2>1, StartNames
    DEF Timeouts, OnGroupVoteTimeout, OnGroupConfirmTimeout, Timeout, RenewalTimer, RetryTimer, FireStart,
        leadVars, gossipVars
<1>4. CASE Goroutines(a)
  <2>1. ASSUME NEW u, FinalizeGroupElection(a, u)
        PROVE  NamedIn(t, l) \/ Stands(t, l)
    <3>1. PICK w \in Agent :
            /\ MayAgreeOn(a, w)
            /\ leader' = [leader EXCEPT ![a] = w] /\ leaderTerm' = [leaderTerm EXCEPT ![a] = u]
      BY <2>1 DEF FinalizeGroupElection, NameLeader
    <3>2. Stands(u, w)
      BY <2>1, <3>1, FinalizeStands
    <3>3. UNCHANGED <<heard, applying, msgs>>
      BY <2>1 DEF FinalizeGroupElection, gossipVars
    <3> QED
      BY <3>1, <3>2, <3>3, NameLeaderNames
  <2>2. ASSUME NEW u, \/ DetermineAndConfirmGroup(a, u) \/ FinalizeWithoutLeader(a, u)
                      \/ GoroutineReturns(a, u) \/ RetryGroupElection(a, u)
        PROVE  NamedIn(t, l)
    <3>1. UNCHANGED <<leader, leaderTerm, heard, applying>> /\ \A n \in msgs' : n \in msgs \/ n.type # "GOSSIP"
      BY <2>2, BroadcastIsNoGossip
      DEF DetermineAndConfirmGroup, FinalizeWithoutLeader, GoroutineReturns, RetryGroupElection,
          leadVars, gossipVars
    <3> QED
      BY <3>1, NoLeaderNames
  <2>3. ASSUME NEW rec \in applying[a], NEW runs \in BOOLEAN, ApplyGossipElection(a, rec, runs)
        PROVE  NamedIn(t, l) \/ Stands(t, l)
    <3>1. /\ UNCHANGED <<heard, msgs>>
          /\ applying' = [applying EXCEPT ![a] = @ \ {rec}]
          /\ \/ /\ leader' = [leader EXCEPT ![a] = rec.leader]
                /\ leaderTerm' = [leaderTerm EXCEPT ![a] = rec.term]
             \/ UNCHANGED <<leader, leaderTerm>>
      BY <2>3 DEF ApplyGossipElection, NameLeader
    <3>2. \A b \in Agent : applying'[b] \subseteq applying[b]
      BY <3>1 DEF TypeOK
    <3>3. NamedIn(rec.term, rec.leader)
      BY DEF NamedIn
    <3> QED
      BY <3>1, <3>2, <3>3, NameLeaderNames, NoLeaderNames
  <2> QED
    BY <1>4, <2>1, <2>2, <2>3 DEF Goroutines
<1>5. CASE BuildGossipForPeer(a)
  <2> DEFINE told == [type |-> "GOSSIP", from |-> a, term |-> Tells(a).term,
                      value |-> Tells(a).leader, to |-> Agent]
  <2>1. UNCHANGED <<leader, leaderTerm, heard, applying>> /\ msgs' = msgs \cup {told}
    BY <1>5 DEF BuildGossipForPeer, leadVars, gossipVars
  <2>2. told.term = Tells(a).term /\ told.value = Tells(a).leader /\ Tells(a).term # 0
    BY <1>5 DEF BuildGossipForPeer
  <2>3. NamedIn(told.term, told.value)
    BY <2>2 DEF NamedIn, Tells, Decided, NoRecord
  <2> HIDE DEF told
  <2> QED
    BY <2>1, <2>3 DEF NamedIn
<1>6. CASE Outside(a)
  <2>1. CASE \E tm : StartGroupElection(a, tm)
    BY <2>1, StartNames
  <2>2. CASE UNCHANGED <<leader, leaderTerm, heard, applying, msgs>>
    BY <2>2, NoLeaderNames
  <2>3. CASE UNCHANGED <<leaderTerm, heard, applying, msgs>> /\ leader' = [leader EXCEPT ![a] = NoOne]
    <3>1. \A b \in Agent : leader'[b] = leader[b] \/ leader'[b] = NoOne
      BY <2>3 DEF TypeOK
    <3>2. l # NoOne
      BY AgentAssumption DEF NoOne
    <3> QED
      BY <2>3, <3>1, <3>2 DEF NamedIn
  <2>4. ~GroupGone(a) /\ ~Crash(a) /\ ~GateExcusedChanges(a)
    BY DEF Steady, GroupGone, Crash, GateExcusedChanges, Occurs
  <2> QED
    BY <1>6, <2>1, <2>2, <2>3, <2>4
    DEF Outside, OnGroupOperational, OnGroupDegraded, OperatorElection, LeaseRunsOut, GroupBack,
        leadVars, gossipVars
<1> QED
  BY <1>1, <1>2, <1>3, <1>4, <1>5, <1>6

-----------------------------------------------------------------------------
(* The theorems *)

LEMMA StepExcused ==
    ASSUME NobodyExcused, Steady, Next
    PROVE  NobodyExcused'
<1>1. PICK a \in Agent :
        Receives(a) \/ Timeouts(a) \/ Goroutines(a) \/ BuildGossipForPeer(a) \/ Outside(a)
  BY DEF Next
<1>2. CASE UNCHANGED outsideVars
  BY <1>2 DEF NobodyExcused, outsideVars
<1>3. CASE Receives(a)
  BY <1>2, <1>3
  DEF Receives, HandleGroupCall, KeepEarlyVote, HandleGroupVote, HandleGroupConfirm, MergeGossip
<1>4. CASE Timeouts(a)
  BY <1>2, <1>4
  DEF Timeouts, OnGroupVoteTimeout, OnGroupConfirmTimeout, Timeout, RenewalTimer, RetryTimer, FireStart
<1>5. CASE Goroutines(a) \/ BuildGossipForPeer(a)
  BY <1>2, <1>5
  DEF Goroutines, DetermineAndConfirmGroup, FinalizeGroupElection, FinalizeWithoutLeader, GoroutineReturns,
      RetryGroupElection, ApplyGossipElection, BuildGossipForPeer
<1>6. CASE Outside(a)
  <2>1. ~GroupGone(a) /\ ~Crash(a) /\ ~GateExcusedChanges(a)
    BY DEF Steady, GroupGone, Crash, GateExcusedChanges, Occurs
  <2>2. UNCHANGED excused
    BY <1>6, <2>1
    DEF Outside, OnGroupOperational, OnGroupDegraded, OperatorElection, LeaseRunsOut, GroupBack, outsideVars
  <2> QED
    BY <2>2 DEF NobodyExcused
<1> QED
  BY <1>1, <1>3, <1>4, <1>5, <1>6

LEMMA InductiveInit ==
    ASSUME Init
    PROVE  Inductive
<1>1. TypeOK /\ OnlyVotersElect
  BY InitType
<1>2. NobodyExcused
  BY DEF Init, NobodyExcused
<1>3. \A v, t, x : ~Cast(msgs, v, t, x) /\ ~Confirmed(msgs, v, t, x)
  BY DEF Init, Cast, Confirmed
<1>4. \A a \in Agent : ~active[a] /\ todo[a] = {} /\ \A v \in Voter : early[a].votes[v] = None
  BY DEF Init, NoEarly, NoEntries
<1>5. Ballots
  BY <1>3, <1>4, VoterAssumption
  DEF Ballots, CastInPastTerms, CastOnce, VotesWereCast, EarlyWereCast, ExpectsEveryone, TodoInPastTerms,
      AllVotesBeforeConfirm, AllConfirmsBeforeLeader, ConfirmsWereSent, ConfirmNamesTheWinner
<1>6. \A t, l : NamedIn(t, l) => l = NoOne
  BY DEF Init, NamedIn, NoRecord
<1>7. NamedIsConfirmed
  BY <1>6, AgentAssumption DEF NamedIsConfirmed, NoOne
<1> QED
  BY <1>1, <1>2, <1>5, <1>7 DEF Inductive

LEMMA InductiveStep ==
    ASSUME Inductive, Steady, [Next]_vars
    PROVE  Inductive'
<1>1. TypeOK' /\ OnlyVotersElect'
  BY StepType DEF Inductive
<1>2. CASE Next
  BY <1>1, <1>2, StepBallots, StepNamed, StepExcused DEF Inductive
<1>3. CASE UNCHANGED vars
  <2>1. UNCHANGED <<term, active, votes, confirms, expected, early, leader, leaderTerm, todo, heard,
                    applying, excused, msgs>>
    BY <1>3 DEF vars, ballotVars, leadVars, gossipVars, outsideVars
  <2>2. Ballots'
    BY <1>1, <2>1, QuietBallots, QuietStep, VoterAssumption DEF Inductive
  <2>3. NamedIsConfirmed'
    BY <2>1 DEF Inductive, NamedIsConfirmed, NamedIn
  <2> QED
    BY <1>1, <2>1, <2>2, <2>3 DEF Inductive, NobodyExcused
<1> QED
  BY <1>2, <1>3

\* The inductive invariant gives the properties the runs check.
LEMMA InductiveGives ==
    ASSUME Inductive
    PROVE  OneLeaderPerTerm /\ LeaderConfirmedByAll /\ ConfirmFindsItsTerm
<1>1. OneLeaderPerTerm
  <2> SUFFICES ASSUME NEW t \in Terms, NEW k \in Agent, NEW l \in Agent, NamedIn(t, k), NamedIn(t, l)
               PROVE  k = l
    BY DEF OneLeaderPerTerm
  <2>1. \A j \in {k, l} : Voter = {j} \/ \A v \in Voter : Confirmed(msgs, v, t, j)
    BY DEF Inductive, NamedIsConfirmed
  <2>2. \A j \in Agent : \A v \in Voter : Confirmed(msgs, v, t, j) => j \in Voter
    BY AgentAssumption DEF Inductive, TypeOK, Message, Confirmed, NoOne
  <2>3. CASE Voter = {k} \/ Voter = {l}
    BY <2>1, <2>2, <2>3
  <2>4. CASE Voter # {k} /\ Voter # {l}
    <3>1. PICK v \in Voter : TRUE
      BY VoterAssumption
    <3> QED
      BY <2>1, <2>4, <3>1, OneWinner DEF Inductive, Ballots
  <2> QED
    BY <2>3, <2>4
<1>2. LeaderConfirmedByAll
  <2>1. \A l \in Agent : Voter = {l} => Cardinality(Voter) = 1
    BY FS_Singleton
  <2> QED
    BY <2>1 DEF Inductive, NamedIsConfirmed, LeaderConfirmedByAll, Confirmed
<1>3. ConfirmFindsItsTerm
  <2> SUFFICES ASSUME NEW m \in msgs, m.type = "CONFIRM", NEW v \in Voter
               PROVE  term[v] >= m.term
    BY DEF ConfirmFindsItsTerm
  <2>1. m.from \in Voter /\ m.term \in Nat /\ Confirmed(msgs, m.from, m.term, m.value)
    BY BoundAssumption DEF Inductive, TypeOK, Message, Confirmed, Terms
  <2>2. \E x : Cast(msgs, v, m.term, x)
    BY <2>1 DEF Inductive, Ballots, ConfirmNamesTheWinner
  <2>3. m.term <= term[v] /\ term[v] \in Nat
    BY <2>2, VoterAssumption, BoundAssumption DEF Inductive, Ballots, CastInPastTerms, TypeOK, Terms
  <2> QED
    BY <2>1, <2>3
<1> QED
  BY <1>1, <1>2, <1>3

\* The inductive invariant holds of a steady group.
LEMMA InductiveHolds ==
    ASSUME Steady
    PROVE  Spec => []Inductive
<1>1. Init => Inductive
  BY InductiveInit
<1>2. Inductive /\ [Next]_vars => Inductive'
  BY InductiveStep
<1> QED
  BY <1>1, <1>2, PTL DEF Spec

\* A term names one leader: whoever finalized it and whoever was told of it
\* names the same agent, in every group that is steady.
THEOREM TermNamesOneLeader ==
    ASSUME Steady
    PROVE  Spec => []OneLeaderPerTerm
BY InductiveHolds, InductiveGives, PTL

\* Nobody leads in a term that some voting member did not confirm.
THEOREM LeaderIsConfirmed ==
    ASSUME Steady
    PROVE  Spec => []LeaderConfirmedByAll
BY InductiveHolds, InductiveGives, PTL

\* A confirm never comes ahead of its term, so that handleGroupConfirm may
\* drop one it has no election for (keepEarlyVote says why, in a comment).
THEOREM ConfirmIsNeverEarly ==
    ASSUME Steady
    PROVE  Spec => []ConfirmFindsItsTerm
BY InductiveHolds, InductiveGives, PTL
-----------------------------------------------------------------------------
(* The numbers of a lead *)

\* The holds reported lost, the present one and the lead are all of the
\* numbers drawn so far; the present hold is not lost, and no older than its
\* lead.
Numbered(a) ==
    /\ lost[a] \subseteq 1..lead[a].leads
    /\ lead[a].hold \in 0..lead[a].leads /\ lead[a].hold \notin lost[a]
    /\ lead[a].start \in 0..lead[a].leads
    /\ lead[a].start # 0 => lead[a].hold \in 1..lead[a].start
    /\ lead[a].start # 0 <=> leader[a] = a

AllNumbered == \A a \in Agent : Numbered(a)

\* noteLeaderLocked: a renewal keeps the lead's number, a new lead draws the
\* next, and a hold goes to the lost ones only with another agent named.
LEMMA NoteLeaderNumbers ==
    ASSUME TypeOK, AllNumbered, NEW a \in Agent, NEW l \in Named, NoteLeader(a, l),
           leader' = [leader EXCEPT ![a] = l]
    PROVE  AllNumbered'
<1> DEFINE o == lead[a]
           number == IF Renewal(a) THEN o.start ELSE o.leads + 1
           n == [leads |-> IF l # a \/ Renewal(a) THEN o.leads ELSE number,
                 start |-> IF l # a THEN 0 ELSE number,
                 hold |-> HoldAfter(a, l, number)]
           g == IF LosesHold(a, l) THEN lost[a] \cup {o.hold} ELSE lost[a]
<1>1. /\ o.leads \in Nat /\ o.start \in Nat /\ o.hold \in Nat /\ lost[a] \in SUBSET Nat
      /\ lead \in [Agent -> [leads : Nat, start : Nat, hold : Nat]]
      /\ lost \in [Agent -> SUBSET Nat] /\ leader \in [Agent -> Named]
  BY DEF TypeOK
<1>2. a # NoOne /\ Numbered(a)
  BY AgentAssumption DEF AllNumbered, NoOne
<1>3. lead' = [lead EXCEPT ![a] = n] /\ lost' = [lost EXCEPT ![a] = g]
  BY DEF NoteLeader
<1>4. /\ Renewal(a) => number = o.start /\ o.start # 0 /\ o.start <= o.leads /\ o.hold \in 1..o.start
      /\ ~Renewal(a) => number = o.leads + 1
      /\ number \in Nat /\ number # 0
  BY <1>1, <1>2 DEF Renewal, Numbered
<1>5. n.leads \in Nat /\ o.leads <= n.leads /\ (l = a => number <= n.leads /\ n.start = number)
      /\ (l # a => n.start = 0)
  BY <1>1, <1>4
<1> DEFINE h == HoldAfter(a, l, number)
<1>6. n.hold = h
  OBVIOUS
<1>7. CASE l = NoOne
  <2>1. h = o.hold /\ g = lost[a]
    BY <1>7 DEF HoldAfter, LosesHold
  <2> HIDE DEF n, number, h, g
  <2>2. /\ n.hold \in 0..n.leads /\ n.hold \notin g /\ g \subseteq 1..n.leads
        /\ n.start \in 0..n.leads /\ n.start = 0 /\ l # a
    BY <1>1, <1>2, <1>5, <1>6, <1>7, <2>1 DEF Numbered
  <2> QED
    BY <1>1, <1>3, <2>2 DEF AllNumbered, Numbered
<1>8. CASE l \notin {a, NoOne}
  <2>1. h = 0 /\ g \subseteq 1..o.leads
    BY <1>1, <1>2, <1>8 DEF HoldAfter, LosesHold, Numbered
  <2> HIDE DEF n, number, h, g
  <2>2. /\ n.hold \in 0..n.leads /\ n.hold \notin g /\ g \subseteq 1..n.leads
        /\ n.start \in 0..n.leads /\ n.start = 0 /\ l # a
    BY <1>1, <1>5, <1>6, <1>8, <2>1
  <2> QED
    BY <1>1, <1>3, <2>2 DEF AllNumbered, Numbered
<1>9. CASE l = a
  <2>1. g = lost[a] /\ h = IF o.hold = 0 THEN number ELSE o.hold
    BY <1>2, <1>9 DEF HoldAfter, LosesHold
  <2>2. o.hold = 0 => ~Renewal(a)
    BY <1>4
  <2> HIDE DEF n, number, h, g
  <2>3. h \in 1..number /\ h \notin lost[a]
    BY <1>1, <1>2, <1>4, <2>1, <2>2 DEF Numbered
  <2>4. /\ n.hold \in 1..n.start /\ n.hold \in 0..n.leads /\ n.hold \notin g
        /\ g \subseteq 1..n.leads /\ n.start \in 0..n.leads /\ n.start # 0
    BY <1>1, <1>2, <1>4, <1>5, <1>6, <1>9, <2>1, <2>3 DEF Numbered
  <2> QED
    BY <1>1, <1>3, <1>9, <2>4 DEF AllNumbered, Numbered
<1> QED
  BY <1>7, <1>8, <1>9

\* A step that leaves the leads alone.
LEMMA SameNumbers ==
    ASSUME AllNumbered, UNCHANGED <<leader, lead, lost>> PROVE AllNumbered'
BY DEF AllNumbered, Numbered

LEMMA StartNumbers ==
    ASSUME TypeOK, AllNumbered, NEW a \in Agent, NEW tm, StartGroupElection(a, tm)
    PROVE  AllNumbered'
<1>1. CASE SelfElect(a, tm)
  <2>1. NoteLeader(a, a) /\ leader' = [leader EXCEPT ![a] = a] /\ a \in Named
    BY <1>1 DEF SelfElect, NameLeader, Named
  <2> QED
    BY <2>1, NoteLeaderNumbers
<1>2. CASE CallElection(a, tm)
  BY <1>2, SameNumbers DEF CallElection, leadVars
<1> QED
  BY <1>1, <1>2 DEF StartGroupElection

\* A dropped election keeps the numbers drawn, or is of a new process.
LEMMA DropNumbers ==
    ASSUME TypeOK, AllNumbered, NEW a \in Agent, GroupGone(a) \/ Crash(a) PROVE AllNumbered'
<1>1. /\ lead \in [Agent -> [leads : Nat, start : Nat, hold : Nat]]
      /\ lost \in [Agent -> SUBSET Nat] /\ leader \in [Agent -> Named]
      /\ a # NoOne
  BY AgentAssumption DEF TypeOK, NoOne
<1>2. leader' = [leader EXCEPT ![a] = NoOne]
  BY DEF GroupGone, Crash, DropElection
<1>3. CASE GroupGone(a)
  <2>1. /\ lead' = [lead EXCEPT ![a] = [NoLead EXCEPT !.leads = lead[a].leads]] /\ lost' = lost
    BY <1>3 DEF GroupGone
  <2>2. /\ lead'[a].leads = lead[a].leads /\ lead'[a].start = 0 /\ lead'[a].hold = 0
        /\ \A b \in Agent : b # a => lead'[b] = lead[b]
    BY <1>1, <2>1 DEF NoLead
  <2> QED
    BY <1>1, <1>2, <2>1, <2>2 DEF AllNumbered, Numbered
<1>4. CASE Crash(a)
  <2>1. lead' = [lead EXCEPT ![a] = NoLead] /\ lost' = [lost EXCEPT ![a] = {}]
    BY <1>4 DEF Crash
  <2> QED
    BY <1>1, <1>2, <2>1 DEF AllNumbered, Numbered, NoLead
<1> QED
  BY <1>3, <1>4

LEMMA StepNumbers ==
    ASSUME TypeOK, AllNumbered, Next PROVE AllNumbered'
<1>1. PICK a \in Agent :
        Receives(a) \/ Timeouts(a) \/ Goroutines(a) \/ BuildGossipForPeer(a) \/ Outside(a)
  BY DEF Next
<1>2. CASE UNCHANGED leadVars
  BY <1>2, SameNumbers DEF leadVars
<1>3. CASE Receives(a)
  BY <1>2, <1>3
  DEF Receives, HandleGroupCall, KeepEarlyVote, HandleGroupVote, HandleGroupConfirm, MergeGossip
<1>4. CASE Timeouts(a)
  BY <1>2, <1>4, StartNumbers
  DEF Timeouts, OnGroupVoteTimeout, OnGroupConfirmTimeout, Timeout, RenewalTimer, RetryTimer, FireStart
<1>5. CASE BuildGossipForPeer(a)
  BY <1>2, <1>5 DEF BuildGossipForPeer
<1>6. CASE Goroutines(a)
  <2>1. ASSUME NEW u, FinalizeGroupElection(a, u) PROVE AllNumbered'
    <3>1. PICK w \in Agent : NoteLeader(a, w) /\ leader' = [leader EXCEPT ![a] = w]
      BY <2>1 DEF FinalizeGroupElection, NameLeader
    <3> QED
      BY <3>1, NoteLeaderNumbers DEF Named
  <2>2. ASSUME NEW u, \/ DetermineAndConfirmGroup(a, u) \/ FinalizeWithoutLeader(a, u)
                      \/ GoroutineReturns(a, u) \/ RetryGroupElection(a, u)
        PROVE  AllNumbered'
    BY <1>2, <2>2
    DEF DetermineAndConfirmGroup, FinalizeWithoutLeader, GoroutineReturns, RetryGroupElection
  <2>3. ASSUME NEW rec \in applying[a], NEW runs \in BOOLEAN, ApplyGossipElection(a, rec, runs)
        PROVE  AllNumbered'
    <3>1. rec.leader \in Named
      BY DEF TypeOK, Record, NoRecord, Named
    <3>2. \/ NoteLeader(a, rec.leader) /\ leader' = [leader EXCEPT ![a] = rec.leader]
          \/ UNCHANGED <<leader, lead, lost>>
      BY <2>3 DEF ApplyGossipElection, NameLeader
    <3> QED
      BY <3>1, <3>2, NoteLeaderNumbers, SameNumbers
  <2> QED
    BY <1>6, <2>1, <2>2, <2>3 DEF Goroutines
<1>7. CASE Outside(a)
  <2>1. CASE OnGroupDegraded(a)
    <3>1. \/ NoteLeader(a, NoOne) /\ leader' = [leader EXCEPT ![a] = NoOne]
          \/ UNCHANGED <<leader, lead, lost>>
      BY <2>1 DEF OnGroupDegraded
    <3> QED
      BY <3>1, NoteLeaderNumbers, SameNumbers DEF Named
  <2>2. CASE LeaseRunsOut(a)
    BY <2>2, SameNumbers DEF LeaseRunsOut
  <2>3. CASE GroupGone(a) \/ Crash(a)
    BY <2>3, DropNumbers
  <2>4. CASE OnGroupOperational(a) \/ OperatorElection(a) \/ GateExcusedChanges(a) \/ GroupBack(a)
    BY <1>2, <2>4, StartNumbers DEF OnGroupOperational, OperatorElection, GateExcusedChanges, GroupBack
  <2> QED
    BY <1>7, <2>1, <2>2, <2>3, <2>4 DEF Outside
<1> QED
  BY <1>1, <1>3, <1>4, <1>5, <1>6, <1>7

\* A hold reported lost (onLeadLost) is over for good, whatever is lost,
\* restarted or excused: work begun in it is never taken for work of the
\* present hold, of which the lead is part.
THEOREM LeadIsOfItsHold == Spec => []LeadBelongsToItsHold
<1>1. Init => AllNumbered
  <2> SUFFICES ASSUME Init, NEW a \in Agent PROVE Numbered(a)
    BY DEF AllNumbered
  <2>1. lead[a].leads = 0 /\ lead[a].start = 0 /\ lead[a].hold = 0 /\ lost[a] = {} /\ leader[a] = NoOne
    BY DEF Init, NoLead
  <2>2. a # NoOne
    BY AgentAssumption DEF NoOne
  <2> QED
    BY <2>1, <2>2 DEF Numbered
<1>2. TypeOK /\ AllNumbered /\ [Next]_vars => AllNumbered'
  <2>1. AllNumbered /\ UNCHANGED vars => AllNumbered'
    BY SameNumbers DEF vars, leadVars
  <2> QED
    BY <2>1, StepNumbers
<1>3. AllNumbered => LeadBelongsToItsHold
  BY DEF AllNumbered, Numbered, LeadBelongsToItsHold
<1> QED
  BY <1>1, <1>2, <1>3, TypeCorrect, PTL DEF Spec


=============================================================================
