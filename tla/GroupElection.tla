---------------------------- MODULE GroupElection ----------------------------
(***************************************************************************)
(* The leader election of one provider group (v2/parentsync_leader.go),    *)
(* with the part of the gossip that carries its result (v2/gossip.go).     *)
(*                                                                         *)
(* Every agent of the group keeps a LeaderElection record.  A voting       *)
(* member starts a term with an ELECT-CALL, each member that joins answers *)
(* with an ELECT-VOTE, a member that holds every vote names the winner in  *)
(* an ELECT-CONFIRM, and a member that holds every confirm, all naming one *)
(* agent, takes that agent as the group's leader for a lease.  A member    *)
(* tells the terms it knows decided in its beats (gossip).                 *)
(*                                                                         *)
(* Messages are a set that only grows: each may be handled late, more than *)
(* once, in any order, or never (broadcastElectToZone sends once, in a     *)
(* goroutine per peer, and only logs a failure).  Timers fire at any time  *)
(* after they are armed, and a lease may end at any time.  A timer's Stop  *)
(* that comes too late adds nothing: every callback tests Active and Term. *)
(* Each section under le.mu is one step; what a handler does after it has  *)
(* let go of the lock is a step of its own (todo, applying).               *)
(***************************************************************************)
EXTENDS Integers, FiniteSets

CONSTANTS
    Agent,      \* the members of the group, numbered in the order of their identities
    Voter,      \* its voting members; the others observe
    Leaving,    \* the voting members the agreed instructions no longer list as such
    Vote,       \* the votes rand.Uint32 can draw
    MaxTerm,    \* bound: the highest term of a run
    Event,      \* the events from outside that a run admits
    MaxEvents   \* bound: how many of them

AllEvents == {"beat", "lapse", "operator", "degrade", "crash", "gone", "excuse"}

ASSUME AgentAssumption == Agent \subseteq Nat \ {0}
ASSUME VoterAssumption == Voter \subseteq Agent /\ Voter # {} /\ IsFiniteSet(Voter) /\ Leaving \subseteq Voter
ASSUME VoteAssumption == Vote \subseteq Nat
ASSUME BoundAssumption == MaxTerm \in Nat /\ MaxEvents \in Nat /\ Event \subseteq AllEvents

NoOne == 0   \* the empty AgentId
None == -1   \* no entry in a map

VARIABLES
    term, active, votes, confirms, expected, early, \* LeaderElection: the running election
    leader, leaderTerm, lease, asked,               \* LeaderElection: its result
    lead, lost,      \* the numbers of this agent's leads; the holds reported lost
    timer,           \* the term each timer was armed in, 0 when it is not
    todo,            \* what a goroutine, or a handler past its lock, has yet to do
    heard, applying, \* the gossip table's record; records on their way to the election
    operational, excused, known, \* what the gate, the thaws and the group manager say
    msgs, events

ballotVars == <<term, active, votes, confirms, expected, early>>
leadVars == <<leader, leaderTerm, lease, asked, lead, lost>>
gossipVars == <<heard, applying>>
outsideVars == <<operational, excused, known, events>>
vars == <<ballotVars, leadVars, timer, todo, gossipVars, outsideVars, msgs>>

-----------------------------------------------------------------------------
(* State *)

Terms == 0..MaxTerm
Named == Agent \cup {NoOne}
Message == [type : {"CALL", "VOTE"}, from : Voter, term : Terms, value : Vote, to : SUBSET Agent]
           \cup [type : {"CONFIRM"}, from : Voter, term : Terms, value : Voter \cup {NoOne}, to : SUBSET Agent]
           \cup [type : {"GOSSIP"}, from : Agent, term : 1..MaxTerm, value : Agent, to : SUBSET Agent]
NoRecord == [term |-> 0, leader |-> NoOne]
Record == [term : 1..MaxTerm, leader : Agent] \cup {NoRecord}
Steps == [step : {"determine", "finalize", "retry"}, term : Terms]
TimerName == {"vote", "confirm", "renew", "retry"}
Timers == [TimerName -> Terms]

NoEntries == [v \in Voter |-> None]
NoEarly == [term |-> 0, votes |-> NoEntries]
NoTimer == [n \in TimerName |-> 0]
NoLead == [leads |-> 0, start |-> 0, hold |-> 0]

Init ==
    /\ term = [a \in Agent |-> 0]
    /\ active = [a \in Agent |-> FALSE]
    /\ votes = [a \in Agent |-> NoEntries]
    /\ confirms = [a \in Agent |-> NoEntries]
    /\ expected = [a \in Agent |-> 0]
    /\ early = [a \in Agent |-> NoEarly]
    /\ leader = [a \in Agent |-> NoOne]
    /\ leaderTerm = [a \in Agent |-> 0]
    /\ lease = [a \in Agent |-> FALSE]
    /\ asked = [a \in Agent |-> 0]
    /\ lead = [a \in Agent |-> NoLead]
    /\ lost = [a \in Agent |-> {}]
    /\ timer = [a \in Agent |-> NoTimer]
    /\ todo = [a \in Agent |-> {}]
    /\ heard = [a \in Agent |-> NoRecord]
    /\ applying = [a \in Agent |-> {}]
    /\ operational = [a \in Agent |-> FALSE]
    /\ excused = [a \in Agent |-> {}]
    /\ known = [a \in Agent |-> TRUE]
    /\ msgs = {}
    /\ events = 0

-----------------------------------------------------------------------------
(* The operators the handlers share *)

\* The voting members less those the gate excuses; never none.
GateVoters(a) == IF Voter \subseteq excused[a] THEN Voter ELSE Voter \ excused[a]

Holds(entries) == {v \in Voter : entries[v] # None}

\* Every expected entry is in: the code counts entries, whoever they are from.
CompleteMutant(entries, peers) == Cardinality(Holds(entries)) >= peers
Complete(entries, peers) == Cardinality(Holds(entries)) >= peers + 1

DetermineWinnerMutant(ballot) ==
    IF \A v \in Voter : ballot[v] = 0 THEN None
    ELSE CHOOSE v \in Voter : \A w \in Voter : ballot[w] <= ballot[v]

\* The highest vote above zero, ties to the first identity; nobody when all are zero.
DetermineWinner(ballot) ==
    LET best == {v \in Voter :
                   /\ ballot[v] > 0
                   /\ \A w \in Voter : ballot[w] < ballot[v] \/ (ballot[w] = ballot[v] /\ v <= w)}
    IN IF best = {} THEN NoOne ELSE CHOOSE v \in best : TRUE

\* With every entry in, the next phase is started in a goroutine, or past the lock.
SpawnMutant(a, s, t, all) == UNCHANGED todo
Spawn(a, s, t, all) ==
    todo' = [todo EXCEPT ![a] = IF all THEN @ \cup {[step |-> s, term |-> t]} ELSE @]

\* What is left of the early votes once term t is joined or started.
EarlyAfter(a, t) == IF early[a].term <= t THEN NoEarly ELSE early[a]

\* What noteLeaderLocked does to the number of a's lead, as a itself is named:
\* a renewal, while its lease runs, keeps the number.
Renewal(a) == leader[a] = a /\ lead[a].start # 0 /\ lease[a]

\* Another agent named ends a's hold, and onLeadLost is told which it was.
LosesHold(a, l) == l \notin {a, NoOne} /\ lead[a].hold # 0

\* The hold after l is named: an invalidation, which names nobody, keeps it.
HoldAfter(a, l, number) ==
    IF l = NoOne THEN lead[a].hold
    ELSE IF l # a THEN 0
    ELSE IF lead[a].hold = 0 THEN number ELSE lead[a].hold

\* noteLeaderLocked, under le.mu, before leader and lease change.
NoteLeader(a, l) ==
    LET number == IF Renewal(a) THEN lead[a].start ELSE lead[a].leads + 1
    IN /\ lead' = [lead EXCEPT ![a] =
            [leads |-> IF l # a \/ Renewal(a) THEN @.leads ELSE number,
             start |-> IF l # a THEN 0 ELSE number,
             hold |-> HoldAfter(a, l, number)]]
       /\ lost' = [lost EXCEPT ![a] = IF LosesHold(a, l) THEN @ \cup {lead[a].hold} ELSE @]

\* An election, or gossip of one, names l the leader of term t.
NameLeader(a, l, t, runs) ==
    /\ NoteLeader(a, l)
    /\ leader' = [leader EXCEPT ![a] = l]
    /\ leaderTerm' = [leaderTerm EXCEPT ![a] = t]
    /\ lease' = [lease EXCEPT ![a] = runs]

\* broadcastElectToZone: a peer that is not OPERATIONAL here is not sent to,
\* and a member is excused only while it is not (gateExcused).
Broadcast(a, type, t, value) ==
    msgs' = msgs \cup {[type |-> type, from |-> a, term |-> t, value |-> value, to |-> Agent \ excused[a]]}

Occurs(event) ==
    /\ event \in Event
    /\ events < MaxEvents
    /\ events' = events + 1

-----------------------------------------------------------------------------
(* Starting an election *)

\* The only voting member elects itself, at the next term.
SelfElect(a, tm) ==
    /\ term' = [term EXCEPT ![a] = @ + 1]
    /\ active' = [active EXCEPT ![a] = FALSE]
    /\ NameLeader(a, a, term[a] + 1, TRUE)
    /\ asked' = [asked EXCEPT ![a] = term[a] + 1]
    /\ timer' = [timer EXCEPT ![a] = [tm EXCEPT !["renew"] = term[a] + 1]]
    /\ UNCHANGED <<votes, confirms, expected, early, msgs>>

\* A new term with the caller's own vote; the vote travels in the CALL.
CallElection(a, tm) ==
    \E v \in Vote :
      /\ active' = [active EXCEPT ![a] = TRUE]
      /\ term' = [term EXCEPT ![a] = @ + 1]
      /\ votes' = [votes EXCEPT ![a] = [NoEntries EXCEPT ![a] = v]]
      /\ confirms' = [confirms EXCEPT ![a] = NoEntries]
      /\ expected' = [expected EXCEPT ![a] = Cardinality(GateVoters(a)) - 1]
      /\ early' = [early EXCEPT ![a] = EarlyAfter(a, term[a] + 1)]
      /\ timer' = [timer EXCEPT ![a] = [tm EXCEPT !["vote"] = term[a] + 1, !["confirm"] = 0]]
      /\ Broadcast(a, "CALL", term[a] + 1, v)
      /\ UNCHANGED leadVars

\* Whether startGroupElection, called for no timer, starts anything.
MayStart(a) == known[a] /\ a \in GateVoters(a)

\* startGroupElection past its guards; tm is what the caller leaves of the timers.
StartGroupElection(a, tm) ==
    /\ term[a] < MaxTerm
    /\ MayStart(a)
    /\ IF GateVoters(a) = {a} THEN SelfElect(a, tm) ELSE CallElection(a, tm)
    /\ UNCHANGED <<todo, gossipVars>>

\* The lease renewal, and the retry after an aborted election: a timer acts
\* only while the election still stands in the term it was armed in.
FireStart(a, armed, rest) ==
    /\ armed # 0
    /\ \/ /\ ~active[a] /\ term[a] = armed
          /\ StartGroupElection(a, rest)
       \/ /\ active[a] \/ term[a] # armed \/ ~MayStart(a)
          /\ timer' = [timer EXCEPT ![a] = rest]
          /\ UNCHANGED <<ballotVars, leadVars, todo, gossipVars, msgs>>
    /\ UNCHANGED outsideVars

RenewalTimer(a) == FireStart(a, timer[a]["renew"], [timer[a] EXCEPT !["renew"] = 0])
RetryTimer(a) == FireStart(a, timer[a]["retry"], [timer[a] EXCEPT !["retry"] = 0])

\* The operator's command, at any voting member.
OperatorElection(a) ==
    /\ a \in Voter
    /\ Occurs("operator")
    /\ StartGroupElection(a, timer[a])
    /\ UNCHANGED <<operational, excused, known>>

\* The gate finds the group mutually OPERATIONAL: its first voting member
\* starts an election, unless it holds a leader whose lease runs.  (A gate
\* that starts nothing matters only where it may close again.)
OnGroupOperational(a) ==
    /\ known[a] /\ ~operational[a]
    /\ operational' = [operational EXCEPT ![a] = TRUE]
    /\ LET starts == /\ a \in GateVoters(a)
                     /\ \A v \in GateVoters(a) : a <= v
                     /\ leader[a] = NoOne \/ ~lease[a]
       IN \/ starts /\ StartGroupElection(a, timer[a])
          \/ ~starts /\ "degrade" \in Event /\ UNCHANGED <<ballotVars, leadVars, timer, todo, gossipVars, msgs>>
    /\ UNCHANGED <<excused, known, events>>

-----------------------------------------------------------------------------
(* The election's messages *)

\* HandleGroupMessage: from a voting member, and handled by a voting member.
Takes(a, m) ==
    /\ known[a]
    /\ {a, m.from} \subseteq GateVoters(a)
    /\ m.from # a /\ a \in m.to

Joins(a, m) == term[a] < m.term

\* A CALL above our term is joined: own vote, the caller's (when it is not
\* zero), and the votes that came early for this term.
HandleGroupCall(a, m) ==
    /\ m.type = "CALL" /\ Takes(a, m)
    /\ Joins(a, m)
    /\ \E v \in Vote :
         LET ballot == [b \in Voter |->
                 IF early[a].term = m.term /\ early[a].votes[b] # None THEN early[a].votes[b]
                 ELSE IF b = a THEN v
                 ELSE IF b = m.from /\ m.value # 0 THEN m.value
                 ELSE None]
             peers == Cardinality(GateVoters(a)) - 1
             all == Complete(ballot, peers)
         IN /\ votes' = [votes EXCEPT ![a] = ballot]
            /\ expected' = [expected EXCEPT ![a] = peers]
            /\ timer' = [timer EXCEPT ![a]["vote"] = IF all THEN 0 ELSE m.term]
            /\ Spawn(a, "determine", m.term, all)
            /\ Broadcast(a, "VOTE", m.term, v)
    /\ active' = [active EXCEPT ![a] = TRUE]
    /\ term' = [term EXCEPT ![a] = m.term]
    /\ confirms' = [confirms EXCEPT ![a] = NoEntries]
    /\ early' = [early EXCEPT ![a] = EarlyAfter(a, m.term)]
    /\ UNCHANGED <<leadVars, gossipVars, outsideVars>>

\* keepEarlyVote: a vote ahead of its CALL; only the newest term is kept.
KeepEarlyVote(a, m) ==
    /\ m.type = "VOTE" /\ Takes(a, m)
    /\ m.term > term[a] /\ m.term >= early[a].term
    /\ LET kept == IF m.term > early[a].term THEN NoEntries ELSE early[a].votes
       IN early' = [early EXCEPT ![a] =
            [term |-> m.term, votes |-> [kept EXCEPT ![m.from] = m.value]]]
    /\ UNCHANGED <<term, active, votes, confirms, expected>>
    /\ UNCHANGED <<leadVars, timer, todo, gossipVars, outsideVars, msgs>>

\* A vote of the running term.
HandleGroupVote(a, m) ==
    /\ m.type = "VOTE" /\ Takes(a, m)
    /\ active[a] /\ term[a] = m.term
    /\ LET ballot == [votes[a] EXCEPT ![m.from] = m.value]
           all == Complete(ballot, expected[a])
       IN /\ votes' = [votes EXCEPT ![a] = ballot]
          /\ timer' = [timer EXCEPT ![a]["vote"] = IF all THEN 0 ELSE @]
          /\ Spawn(a, "determine", m.term, all)
    /\ UNCHANGED <<term, active, confirms, expected, early>>
    /\ UNCHANGED <<leadVars, gossipVars, outsideVars, msgs>>

HandleGroupConfirm(a, m) ==
    /\ m.type = "CONFIRM" /\ Takes(a, m)
    /\ active[a] /\ term[a] = m.term
    /\ LET named == [confirms[a] EXCEPT ![m.from] = m.value]
           all == Complete(named, expected[a])
       IN /\ confirms' = [confirms EXCEPT ![a] = named]
          /\ timer' = [timer EXCEPT ![a]["confirm"] = IF all THEN 0 ELSE @]
          /\ Spawn(a, "finalize", m.term, all)
    /\ UNCHANGED <<term, active, votes, expected, early>>
    /\ UNCHANGED <<leadVars, gossipVars, outsideVars, msgs>>

-----------------------------------------------------------------------------
(* Timeouts, and what the goroutines do *)

\* The election of the current term ends without a leader; the retry is
\* armed once the lock has been let go (RetryGroupElection).
Abort(a) ==
    /\ active' = [active EXCEPT ![a] = FALSE]
    /\ UNCHANGED <<term, votes, confirms, expected, early>>

\* A vote or a confirm timer armed in term t fires.
Timeout(a, t, entries, whenComplete) ==
    /\ t # 0
    /\ \/ /\ active[a] /\ term[a] = t
          /\ IF Complete(entries, expected[a])
             THEN /\ todo' = [todo EXCEPT ![a] = @ \cup {[step |-> whenComplete, term |-> t]}]
                  /\ UNCHANGED ballotVars
             ELSE /\ todo' = [todo EXCEPT ![a] = @ \cup {[step |-> "retry", term |-> t]}]
                  /\ Abort(a)
       \/ /\ ~active[a] \/ term[a] # t
          /\ UNCHANGED <<ballotVars, todo>>
    /\ UNCHANGED <<leadVars, gossipVars, outsideVars, msgs>>

OnGroupVoteTimeout(a) ==
    /\ Timeout(a, timer[a]["vote"], votes[a], "determine")
    /\ timer' = [timer EXCEPT ![a]["vote"] = 0]

OnGroupConfirmTimeout(a) ==
    /\ Timeout(a, timer[a]["confirm"], confirms[a], "finalize")
    /\ timer' = [timer EXCEPT ![a]["confirm"] = 0]

\* determineAndConfirmGroup: names the winner of the votes it holds.
DetermineAndConfirmGroup(a, t) ==
    LET step == [step |-> "determine", term |-> t]
        winner == DetermineWinner(votes[a])
        named == [confirms[a] EXCEPT ![a] = winner]
        all == Complete(named, expected[a])
    IN /\ step \in todo[a]
       /\ active[a] /\ term[a] = t
       /\ confirms' = [confirms EXCEPT ![a] = named]
       /\ timer' = [timer EXCEPT ![a]["confirm"] = IF all THEN 0 ELSE t]
       /\ Broadcast(a, "CONFIRM", t, winner)
       /\ todo' = [todo EXCEPT ![a] = (@ \ {step}) \cup
            (IF all THEN {[step |-> "finalize", term |-> t]} ELSE {})]
       /\ UNCHANGED <<term, active, votes, expected, early>>
       /\ UNCHANGED <<leadVars, gossipVars, outsideVars>>

\* The winners named in a's confirms.
Winners(a) == {confirms[a][v] : v \in Holds(confirms[a])}

\* The loop over the confirms, in the map's order: a confirm of nobody is
\* passed over before the first winner, and is a disagreement after it.
MayAgreeOn(a, w) == Winners(a) \ {NoOne} = {w}
MayDisagree(a) == \A w \in Named \ {NoOne} : Winners(a) # {w}

\* finalizeGroupElection finds a winner that votes in the group.
FinalizeGroupElection(a, t) ==
    LET step == [step |-> "finalize", term |-> t]
    IN /\ step \in todo[a]
       /\ active[a] /\ term[a] = t
       /\ \E w \in Agent :
            /\ MayAgreeOn(a, w)
            /\ known[a] => w \in GateVoters(a)
            /\ NameLeader(a, w, t, TRUE)
            /\ asked' = [asked EXCEPT ![a] = IF w = a THEN t ELSE @]
       /\ active' = [active EXCEPT ![a] = FALSE]
       /\ timer' = [timer EXCEPT ![a]["renew"] = t]
       /\ todo' = [todo EXCEPT ![a] = @ \ {step}]
       /\ UNCHANGED <<term, votes, confirms, expected, early>>
       /\ UNCHANGED <<gossipVars, outsideVars, msgs>>

\* finalizeGroupElection finds no consensus, or a winner that does not vote.
FinalizeWithoutLeader(a, t) ==
    LET step == [step |-> "finalize", term |-> t]
    IN /\ step \in todo[a]
       /\ active[a] /\ term[a] = t
       /\ \/ MayDisagree(a)
          \/ known[a] /\ \E w \in Agent \ GateVoters(a) : MayAgreeOn(a, w)
       /\ Abort(a)
       /\ todo' = [todo EXCEPT ![a] = (@ \ {step}) \cup {[step |-> "retry", term |-> t]}]
       /\ UNCHANGED <<leadVars, timer, gossipVars, outsideVars, msgs>>

\* The election has moved on, or is over: the goroutine returns.
GoroutineReturns(a, t) ==
    /\ ~active[a] \/ term[a] # t
    /\ \E step \in {"determine", "finalize"} :
         /\ [step |-> step, term |-> t] \in todo[a]
         /\ todo' = [todo EXCEPT ![a] = @ \ {[step |-> step, term |-> t]}]
    /\ UNCHANGED <<ballotVars, leadVars, timer, gossipVars, outsideVars, msgs>>

\* retryGroupElection, which takes the lock again: one retry timer is kept.
RetryGroupElection(a, t) ==
    LET step == [step |-> "retry", term |-> t]
    IN /\ step \in todo[a]
       /\ todo' = [todo EXCEPT ![a] = @ \ {step}]
       /\ timer' = [timer EXCEPT ![a]["retry"] = t]
       /\ UNCHANGED <<ballotVars, leadVars, gossipVars, outsideVars, msgs>>

-----------------------------------------------------------------------------
(* Gossip of the result *)

\* GroupElectionForGossip: only a decided term is told.
DecidedMutant(a) == leader[a] # NoOne
Decided(a) == ~active[a] /\ leader[a] # NoOne /\ leaderTerm[a] = term[a]

\* BuildGossipForPeer: the member's own word, or, with no election of its
\* own, what it heard.
Tells(a) ==
    IF term[a] = 0 THEN heard[a]
    ELSE IF Decided(a) THEN [term |-> term[a], leader |-> leader[a]]
    ELSE NoRecord

BuildGossipForPeer(a) ==
    /\ "beat" \in Event
    /\ known[a] /\ Tells(a).term # 0
    /\ msgs' = msgs \cup {[type |-> "GOSSIP", from |-> a, term |-> Tells(a).term,
                            value |-> Tells(a).leader, to |-> Agent]}
    /\ UNCHANGED <<ballotVars, leadVars, timer, todo, gossipVars, outsideVars>>

ObserverTakes(a, rec, held, later) ==
    /\ a \notin Voter /\ ~lease[a]
    /\ \/ rec.term < held.term
       \/ rec.term = held.term /\ (rec.leader # held.leader \/ later)

\* MergeGossip: a voting member's beat, into the table and on to the election.
MergeGossip(a, m) ==
    LET rec == [term |-> m.term, leader |-> m.value]
    IN /\ m.type = "GOSSIP" /\ m.from \in Voter \ {a} /\ known[a]
       /\ rec.term > heard[a].term \/ ObserverTakes(a, rec, heard[a], TRUE)
       /\ heard' = [heard EXCEPT ![a] = rec]
       /\ applying' = [applying EXCEPT ![a] = @ \cup {rec}]
       /\ UNCHANGED <<ballotVars, leadVars, timer, todo, outsideVars, msgs>>

\* ApplyGossipElection, called once the table's lock is let go; runs: the
\* lease told has not ended by now.
ApplyGossipElection(a, rec, runs) ==
    LET held == [term |-> term[a], leader |-> leader[a]]
        news == rec.term > term[a] \/ (known[a] /\ ObserverTakes(a, rec, held, runs))
        asks(l, t) == l = a /\ asked[a] # t /\ known[a]
    IN /\ rec \in applying[a]
       /\ applying' = [applying EXCEPT ![a] = @ \ {rec}]
       /\ \/ /\ news
             /\ NameLeader(a, rec.leader, rec.term, runs)
             /\ term' = [term EXCEPT ![a] = rec.term]
             /\ active' = [active EXCEPT ![a] = FALSE]
             /\ asked' = [asked EXCEPT ![a] = IF asks(rec.leader, rec.term) THEN rec.term ELSE @]
             /\ timer' = [timer EXCEPT ![a]["renew"] = IF known[a] /\ a \in Voter THEN rec.term ELSE 0]
          \/ /\ ~news
             /\ asked' = [asked EXCEPT ![a] =
                  IF rec.term = term[a] /\ asks(leader[a], term[a]) THEN term[a] ELSE @]
             /\ UNCHANGED <<term, active, leader, leaderTerm, lease, lead, lost, timer>>
       /\ UNCHANGED <<votes, confirms, expected, early, todo, heard, outsideVars, msgs>>

-----------------------------------------------------------------------------
(* Events from outside *)

\* The gate finds the group degraded, and InvalidateGroupLeader clears the
\* leader: neither a running election nor its timers are touched.
OnGroupDegraded(a) ==
    /\ operational[a]
    /\ Occurs("degrade")
    /\ operational' = [operational EXCEPT ![a] = FALSE]
    /\ \/ /\ leader[a] # NoOne
          /\ NoteLeader(a, NoOne)
          /\ leader' = [leader EXCEPT ![a] = NoOne]
          /\ timer' = [timer EXCEPT ![a]["renew"] = 0]
       \/ /\ leader[a] = NoOne
          /\ UNCHANGED <<leader, lead, lost, timer>>
    /\ UNCHANGED <<ballotVars, leaderTerm, lease, asked, todo, gossipVars, excused, known, msgs>>

\* Time passes the end of the lease of the leader held.
LeaseRunsOut(a) ==
    /\ "lapse" \in Event
    /\ lease[a]
    /\ lease' = [lease EXCEPT ![a] = FALSE]
    /\ UNCHANGED <<ballotVars, leader, leaderTerm, asked, lead, lost>>
    /\ UNCHANGED <<timer, todo, gossipVars, outsideVars, msgs>>

\* gateExcused: a leaving member not heard here is excused from the gate,
\* once it holds no running lease of the lead; heard again, it no longer is.
GateExcusedChanges(a) ==
    /\ Occurs("excuse")
    /\ \/ \E v \in Leaving \ ({a} \cup excused[a]) :
            /\ leader[a] # v \/ ~lease[a]
            /\ excused' = [excused EXCEPT ![a] = @ \cup {v}]
       \/ \E v \in excused[a] : excused' = [excused EXCEPT ![a] = @ \ {v}]
    /\ UNCHANGED <<ballotVars, leadVars, timer, todo, gossipVars, operational, known, msgs>>

\* The election entry is dropped: a new one starts from term 0.
DropElection(a) ==
    /\ term' = [term EXCEPT ![a] = 0]
    /\ active' = [active EXCEPT ![a] = FALSE]
    /\ votes' = [votes EXCEPT ![a] = NoEntries]
    /\ confirms' = [confirms EXCEPT ![a] = NoEntries]
    /\ expected' = [expected EXCEPT ![a] = 0]
    /\ early' = [early EXCEPT ![a] = NoEarly]
    /\ leader' = [leader EXCEPT ![a] = NoOne]
    /\ leaderTerm' = [leaderTerm EXCEPT ![a] = 0]
    /\ lease' = [lease EXCEPT ![a] = FALSE]
    /\ asked' = [asked EXCEPT ![a] = 0]
    /\ timer' = [timer EXCEPT ![a] = NoTimer]
    /\ heard' = [heard EXCEPT ![a] = NoRecord]
    /\ operational' = [operational EXCEPT ![a] = FALSE]

GroupGoneMutant(a) ==
    /\ known[a]
    /\ Occurs("gone")
    /\ DropElection(a)
    /\ known' = [known EXCEPT ![a] = FALSE]
    /\ todo' = [todo EXCEPT ![a] = {s \in @ : s.step # "retry"}]
    /\ UNCHANGED <<lead, lost, applying, excused, msgs>>

\* The group's last zone leaves it here: groupGone and forgetGroup.  The
\* goroutines that look the election up by its group live on; the numbers of
\* the leads are the process's.
GroupGone(a) ==
    /\ known[a]
    /\ Occurs("gone")
    /\ DropElection(a)
    /\ known' = [known EXCEPT ![a] = FALSE]
    /\ todo' = [todo EXCEPT ![a] = {s \in @ : s.step # "retry"}]
    /\ lead' = [lead EXCEPT ![a] = [NoLead EXCEPT !.leads = lead[a].leads]]
    /\ UNCHANGED <<lost, applying, excused, msgs>>

\* A zone is back in the group.
GroupBack(a) ==
    /\ ~known[a]
    /\ known' = [known EXCEPT ![a] = TRUE]
    /\ UNCHANGED <<ballotVars, leadVars, timer, todo, gossipVars, operational, excused, events, msgs>>

\* The process restarts: nothing of the election is kept on disk.
Crash(a) ==
    /\ Occurs("crash")
    /\ DropElection(a)
    /\ todo' = [todo EXCEPT ![a] = {}]
    /\ applying' = [applying EXCEPT ![a] = {}]
    /\ lead' = [lead EXCEPT ![a] = NoLead]
    /\ lost' = [lost EXCEPT ![a] = {}]
    /\ excused' = [excused EXCEPT ![a] = {}]
    /\ known' = [known EXCEPT ![a] = TRUE]
    /\ UNCHANGED msgs

-----------------------------------------------------------------------------
(* The specification *)

Timeouts(a) ==
    \/ OnGroupVoteTimeout(a)
    \/ OnGroupConfirmTimeout(a)
    \/ RenewalTimer(a)
    \/ RetryTimer(a)

Goroutines(a) ==
    \/ \E t \in 1..MaxTerm :
         \/ DetermineAndConfirmGroup(a, t)
         \/ FinalizeGroupElection(a, t)
         \/ FinalizeWithoutLeader(a, t)
         \/ GoroutineReturns(a, t)
         \/ RetryGroupElection(a, t)
    \/ \E rec \in applying[a]  : \E runs \in BOOLEAN : ApplyGossipElection(a, rec, runs)

Receives(a) ==
    \E m \in msgs :
      \/ HandleGroupCall(a, m)
      \/ KeepEarlyVote(a, m)
      \/ HandleGroupVote(a, m)
      \/ HandleGroupConfirm(a, m)
      \/ MergeGossip(a, m)

Outside(a) ==
    \/ OnGroupOperational(a)
    \/ OnGroupDegraded(a)
    \/ OperatorElection(a)
    \/ LeaseRunsOut(a)
    \/ GateExcusedChanges(a)
    \/ GroupGone(a)
    \/ GroupBack(a)
    \/ Crash(a)

Next ==
    \E a \in Agent :
      \/ Receives(a)
      \/ Timeouts(a)
      \/ Goroutines(a)
      \/ BuildGossipForPeer(a)
      \/ Outside(a)

Spec == Init /\ [][Next]_vars

\* Timers that end a phase fire, and goroutines of the next are scheduled; no
\* message has to arrive.
PhasesGoOn ==
    \A a \in Agent :
      /\ WF_vars(OnGroupVoteTimeout(a))
      /\ WF_vars(OnGroupConfirmTimeout(a))
      /\ \A t \in 1..MaxTerm :
           /\ WF_vars(DetermineAndConfirmGroup(a, t))
           /\ WF_vars(FinalizeGroupElection(a, t) \/ FinalizeWithoutLeader(a, t))

\* So do the timers and goroutines that start elections.
ElectionsGoOn ==
    \A a \in Agent :
      /\ WF_vars(RetryTimer(a))
      /\ WF_vars(RenewalTimer(a))
      /\ \A t \in 1..MaxTerm : WF_vars(RetryGroupElection(a, t))

PhaseSpec == Spec /\ PhasesGoOn
FairSpec == PhaseSpec /\ ElectionsGoOn

-----------------------------------------------------------------------------
(* Properties *)

\* Every variable has the type of the field of LeaderElection it stands for.
TypeOK ==
    /\ term \in [Agent -> Terms]
    /\ active \in [Agent -> BOOLEAN]
    /\ votes \in [Agent -> [Voter -> Vote \cup {None}]]
    /\ confirms \in [Agent -> [Voter -> Voter \cup {NoOne, None}]]
    /\ expected \in [Agent -> Nat]
    /\ early \in [Agent -> [term : Terms, votes : [Voter -> Vote \cup {None}]]]
    /\ leader \in [Agent -> Named]
    /\ leaderTerm \in [Agent -> Terms]
    /\ lease \in [Agent -> BOOLEAN]
    /\ asked \in [Agent -> Terms]
    /\ lead \in [Agent -> [leads : Nat, start : Nat, hold : Nat]]
    /\ lost \in [Agent -> SUBSET Nat]
    /\ timer \in [Agent -> Timers]
    /\ todo \in [Agent -> SUBSET Steps]
    /\ heard \in [Agent -> Record]
    /\ applying \in [Agent -> SUBSET Record]
    /\ operational \in [Agent -> BOOLEAN]
    /\ excused \in [Agent -> SUBSET Voter]
    /\ known \in [Agent -> BOOLEAN]
    /\ msgs \in SUBSET Message
    /\ events \in 0..MaxEvents

\* A leader of a term, as held by an agent, told in a beat, heard, or on its
\* way from the gossip table to the election.
NamedIn(t, l) ==
    \/ \E a \in Agent : leaderTerm[a] = t /\ leader[a] = l
    \/ \E m \in msgs : m.type = "GOSSIP" /\ m.term = t /\ m.value = l
    \/ \E a \in Agent : heard[a].term = t /\ heard[a].leader = l
    \/ \E a \in Agent : \E rec \in applying[a] : rec.term = t /\ rec.leader = l

\* "A term names one leader" (handleGroupCall): whoever decided a term, and
\* whoever was told of it, names the same agent.
OneLeaderPerTerm ==
    \A t \in Terms : \A k, l \in Agent : NamedIn(t, k) /\ NamedIn(t, l) => k = l

\* A leader leads only when every voting member has confirmed it: no member
\* takes the lead, or tells of it, in a term some voting member did not
\* confirm (finalizeGroupElection, with ExpectedPeers all the others).
LeaderConfirmedByAll ==
    \A t \in Terms : \A l \in Agent :
      NamedIn(t, l) /\ Cardinality(Voter) > 1 =>
        \A v \in Voter : \E m \in msgs :
          m.type = "CONFIRM" /\ m.from = v /\ m.term = t /\ m.value = l

\* "A CONFIRM needs no such care" (keepEarlyVote): a confirm never comes
\* ahead of its term, so the handler may drop one it has no term for.
ConfirmFindsItsTerm ==
    \A m \in msgs : m.type = "CONFIRM" => \A v \in Voter : term[v] >= m.term

\* A hold that was reported lost (onLeadLost) is over: the present hold
\* is another, so work begun in it is never taken for work of this one.
\* And a lead is part of a hold, never older than it (LeadStart, LeadHold).
LeadBelongsToItsHold ==
    \A a \in Agent :
      /\ lead[a].hold \notin lost[a]
      /\ lead[a].start # 0 => lead[a].hold \in 1..lead[a].start
      /\ lead[a].start # 0 <=> leader[a] = a

\* An election in a term ends, with or without a leader, whatever is lost: at no
\* agent does it run for ever.
ElectionEnds ==
    \A a \in Agent : \A t \in 1..MaxTerm : []<>(~active[a] \/ term[a] # t)

=============================================================================
