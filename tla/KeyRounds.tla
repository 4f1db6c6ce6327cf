----------------------------- MODULE KeyRounds -----------------------------
(***************************************************************************)
(* The zone's SIG(0) key at its agents: what each holds of it              *)
(* (zone_key.go), the rounds that ask the others for it (key_rounds.go)    *)
(* and what their answers decide (key_round_agent.go), the leader's set-up *)
(* that publishes the key (leader_key_setup.go), its polls with the parent *)
(* (parentsync_bootstrap.go) and the book of them that holds the leader's  *)
(* sync (key_hold.go).                                                     *)
(*                                                                         *)
(* Each agent has its own keystore, its own copy of the zone, its own word *)
(* of who leads and its own phase of a transition of the zone's            *)
(* instructions.  What runs under the key-setup lock is one job of several *)
(* steps; the checks, the answers, the polls, the election and the other   *)
(* agents go on beside it.  Rounds are paced by timers in the code: here   *)
(* the next round goes out at any time.                                    *)
(***************************************************************************)
EXTENDS Naturals, FiniteSets, SequencesExt

CONSTANTS
  Agent,     \* the agents
  Key,       \* the keys that may be made
  Scenarios  \* bound: who votes, where the key is and what happens in a behaviour

Event == {"elect", "renew", "move", "roll", "silent", "fail", "refuse", "unread", "behind", "crash"}
None == "none"
Words == {"no key", "several", "refused", "silent", "other serial"}

ASSUME ConstantsAssumption ==
  /\ IsFiniteSet(Agent) /\ None \notin Agent \union Key
  /\ Key \intersect (Words \union {"-", "out"}) = {}
  /\ Scenarios \subseteq [voters : [1..2 -> SUBSET Agent], holder : Agent \union {None},
                          published : SUBSET Key, mix : [Event -> Nat]]
  \* a behaviour begins with a leader, and with one key published at most
  /\ \A sc \in Scenarios : sc.voters[1] # {} /\ \E k \in Key : sc.published \subseteq {k}

VARIABLES
  my,      \* my[a]: the keystore, the copy of the zone, the round, the job and the book of agent a
  phase,   \* phase[a]: 0 at the first serial, 1 frozen at it, 2 frozen at the second, 3 at it
  reqs,    \* the requests whose answer is not in
  net,     \* net[b][a]: the KEY from a that b has not had yet
  zone,    \* who won the last election, the keys made, what the parent trusts, its DSYNC, a rollover
  voters,  \* voters[s]: who votes under serial s
  left     \* left[e]: how many of each event are left
vars == <<my, phase, reqs, net, zone, voters, left>>

NoJob == [at |-> "idle", kind |-> "-", made |-> None, told |-> FALSE, round |-> FALSE]
NoAnswers == [p \in Agent |-> "-"]
Fresh == [rows |-> <<>>, apex |-> {}, from |-> [p \in Agent |-> None], trusted |-> {},
          leader |-> None, hold |-> 0, wake |-> FALSE, check |-> TRUE, caughtUp |-> TRUE,
          here |-> FALSE, out |-> FALSE, serial |-> 0, alone |-> FALSE, answers |-> NoAnswers,
          job |-> NoJob, running |-> 0, unpublished |-> FALSE,
          ended |-> [key |-> None, hold |-> 0], polls |-> <<>>]

(***************************************************************************)
(* What an agent reads.                                                    *)
(***************************************************************************)
Active(a) == IF phase[a] <= 1 THEN 1 ELSE 2
Frozen(a) == phase[a] \in {1, 2}
Votes(a) == a \in voters[Active(a)]
TransitionVoters(a) == IF Frozen(a) THEN voters[1] \union voters[2] ELSE voters[Active(a)]
\* the owner takes a provider's role first, and its record later
Listed(serial) == IF serial = 1 THEN voters[1] ELSE voters[1] \union voters[2]
Leads(a) == my[a].leader = a

\* readZoneKey: the zone's key, when the agent holds it
Several(s) == Cardinality(s.apex) > 1
Held(s) ==
  IF s.apex = {} THEN IF s.rows = <<>> THEN None ELSE s.rows[1]
  ELSE IF ~Several(s) /\ s.apex \subseteq ToSet(s.rows) THEN CHOOSE k \in s.apex : TRUE
  ELSE None
Retired(s) == [s EXCEPT !.rows = <<Held(s)>>]

\* a parent whose DSYNC records cannot be read may take UPDATE
UsesKey == zone.dsync # "notify"
KeyPending(a, s) == Leads(a) /\ UsesKey /\ (Held(s) = None \/ Held(s) \notin s.trusted)
OfferHeldThroughout(a, s) == Frozen(a)
OfferHeld(a, s) == Frozen(a) /\ ~(zone.rolling /\ KeyPending(a, s))
KeyHold(s) ==
  /\ UsesKey
  /\ \/ Held(s) = None
     \/ Len(s.rows) # 1
     \/ s.running > 0
     \/ s.unpublished
     \/ Held(s) \notin s.trusted
RenewalKeepsKey(s) ==
  /\ s.hold # 0 /\ s.ended = [key |-> Held(s), hold |-> s.hold]
  /\ Len(s.rows) = 1 /\ s.apex = {Held(s)}

Wants(a, s) ==
  /\ Votes(a) /\ UsesKey
  /\ ~Several(s)
  /\ Held(s) = None \/ KeyPending(a, s)
KeyRoundPeers(a, s) ==
  IF Held(s) # None THEN {} ELSE (Listed(Active(a)) \union TransitionVoters(a)) \ {a}

(***************************************************************************)
(* The steps the actions are made of.                                      *)
(***************************************************************************)
Spend(e) == left[e] > 0 /\ left' = [left EXCEPT ![e] = @ - 1]
Idle(a) == my[a].job.at = "idle"
\* no round of the entry is out any more; one that was counts for nothing
NoRound(s) == [s EXCEPT !.out = FALSE, !.serial = 0, !.alone = FALSE, !.answers = NoAnswers, !.job.round = FALSE]
Dropped(s) == [NoRound(s) EXCEPT !.here = FALSE]
Restarted(s) == [NoRound(s) EXCEPT !.check = TRUE]
Outdated(a) == {IF r.from = a THEN [r EXCEPT !.current = FALSE] ELSE r : r \in reqs}
\* keyRoundEnded: the entry goes when the key is held, unless it was started over meanwhile
RoundEnded(s, done) == IF done THEN Dropped(s) ELSE NoRound(s)
JobEnded(s, done) == LET t == [s EXCEPT !.job = NoJob] IN IF s.job.round THEN RoundEnded(t, done) ELSE t
Begun(s, job) == [s EXCEPT !.job = [job EXCEPT !.round = s.out], !.running = @ + 1]
Ends(s) == [s EXCEPT !.running = @ - 1]
Polling(s, key) == [s EXCEPT !.polls = Append(@, [key |-> key, hold |-> s.hold, runs |-> FALSE])]
Changes(a, s) == my' = [my EXCEPT ![a] = s]

Init ==
  \E sc \in Scenarios :
   LET a == CHOOSE v \in Agent : v \in sc.voters[1]
       k == CHOOSE x \in Key : sc.published \subseteq {x}
   IN
    /\ voters = sc.voters /\ left = sc.mix
    /\ my = [b \in Agent |->
         [Fresh EXCEPT
           !.rows = IF b = sc.holder THEN <<k>> ELSE <<>>,
           !.apex = sc.published,
           !.from[IF sc.holder = None THEN b ELSE sc.holder] = IF sc.published = {} THEN None ELSE k,
           !.leader = a, !.hold = IF a = b THEN 1 ELSE 0, !.wake = a = b, !.caughtUp = sc.mix["behind"] = 0]]
    /\ phase = [b \in Agent |-> 0]
    /\ reqs = {} /\ net = [b \in Agent |-> [c \in Agent |-> None]]
    /\ zone = [won |-> a, terms |-> 1,
               made |-> sc.published \union (IF sc.holder = None THEN {} ELSE {k}),
               trusts |-> {}, dsync |-> IF sc.mix["unread"] > 0 THEN "unread" ELSE "update",
               rolling |-> sc.mix["roll"] > 0]

(***************************************************************************)
(* The round loop.                                                         *)
(***************************************************************************)

\* wantsZoneKey retires the other active keys where the key is held; that may fail
Looked(a, s) ==
  \/ /\ s = IF Held(my[a]) # None THEN Retired(my[a]) ELSE my[a]
     /\ UNCHANGED left
  \/ /\ Held(my[a]) # None /\ Len(my[a].rows) > 1 /\ s = my[a]
     /\ Spend("fail")

Check(a) ==
  /\ my[a].check /\ Idle(a)
  /\ \E s \in {my[a], Retired(my[a])} :
       /\ Looked(a, s)
       /\ LET t == [s EXCEPT !.check = FALSE] IN
            IF Wants(a, s)
            THEN Changes(a, [t EXCEPT !.here = TRUE]) /\ UNCHANGED reqs
            ELSE Changes(a, Dropped(t)) /\ reqs' = Outdated(a)
  /\ UNCHANGED <<phase, net, zone, voters>>

StartKeyRound(a) ==
  /\ my[a].here /\ ~my[a].out /\ Idle(a)
  /\ \E s \in {my[a], Retired(my[a])} :
       /\ Looked(a, s)
       /\ LET peers == KeyRoundPeers(a, s) IN
            IF Wants(a, s)
            THEN /\ Changes(a, [s EXCEPT !.out = TRUE, !.serial = Active(a),
                         !.alone = \A b \in Agent : my[b].leader = b <=> b = a,
                         !.answers = [p \in Agent |-> IF p \in peers THEN "out" ELSE "-"]])
                 /\ reqs' = Outdated(a) \union
                      {[from |-> a, to |-> p, current |-> TRUE, is |-> "out", at |-> 0] : p \in peers}
            ELSE Changes(a, Dropped(s)) /\ reqs' = Outdated(a)
  /\ UNCHANGED <<phase, net, zone, voters>>

\* the holder answers by its own instructions and its own copy of the zone
Answer(r) ==
  /\ r.is = "out"
  /\ LET h == my[r.to]
         word == IF r.from \notin voters[Active(r.to)] THEN "refused"
                 ELSE IF Several(h) THEN "several"
                 ELSE IF Held(h) = None THEN "no key" ELSE Held(h)
     IN  reqs' = (reqs \ {r}) \union {[r EXCEPT !.is = word, !.at = Active(r.to)]}
  /\ UNCHANGED <<my, phase, net, zone, voters, left>>

\* a key or a "no key" counts at the round's serial only
AtSerial(r, serial) == IF r.is \in Key \union {"no key"} /\ r.at # serial THEN "other serial" ELSE r.is

KeyRecord(r) ==
  /\ r.is # "out"
  /\ reqs' = reqs \ {r}
  /\ my' = IF r.current THEN [my EXCEPT ![r.from].answers[r.to] = AtSerial(r, my[r.from].serial)] ELSE my
  /\ UNCHANGED <<phase, net, zone, voters, left>>

\* not OPERATIONAL, not delivered, or not answered in time
Silent(r) ==
  /\ Spend("silent")
  /\ reqs' = reqs \ {r}
  /\ my' = IF r.current THEN [my EXCEPT ![r.from].answers[r.to] = "silent"] ELSE my
  /\ UNCHANGED <<phase, net, zone, voters>>

(***************************************************************************)
(* A round's decision, under the key-setup lock.                           *)
(***************************************************************************)
Asked(s) == {p \in Agent : s.answers[p] # "-"}
Complete(a) == my[a].out /\ "out" \notin {my[a].answers[p] : p \in Agent} /\ Idle(a)
SameSerial(a) == my[a].serial = Active(a)
Offered(s) == {s.answers[p] : p \in Asked(s)} \intersect Key
\* the import takes only the key the zone publishes, if it publishes one
Taken(s) == {k \in Offered(s) : s.apex \subseteq {k}}
AllNoneOrSilent(a, s) ==
  /\ \A p \in Asked(s) : s.answers[p] \in {"no key", "silent"}
  /\ (voters[Active(a)] \union TransitionVoters(a)) \ {a} \subseteq Asked(s)
AllNone(a, s) ==
  /\ \A p \in Asked(s) : s.answers[p] = "no key"
  /\ (voters[Active(a)] \union TransitionVoters(a)) \ {a} \subseteq Asked(s)
MayMake(a, s) ==
  /\ Leads(a) /\ AllNone(a, s) /\ s.apex = {}
  /\ s.caughtUp /\ ~Frozen(a)

StartOver(a) ==
  /\ Complete(a) /\ ~SameSerial(a)
  /\ Changes(a, Restarted(my[a])) /\ reqs' = Outdated(a)
  /\ UNCHANGED <<phase, net, zone, voters, left>>

DecideHeld(a) ==
  /\ Complete(a) /\ SameSerial(a)
  /\ LET s == my[a] IN
       /\ Held(s) # None \/ Several(s)
       /\ Changes(a,
            IF Several(s) \/ ~KeyPending(a, s) THEN RoundEnded(s, TRUE)
            ELSE IF s.running > 0 \/ OfferHeld(a, s) THEN RoundEnded(s, FALSE)
            ELSE IF s.unpublished
            THEN Begun(s, [NoJob EXCEPT !.at = "publish", !.kind = "offer"])
            ELSE RoundEnded(Polling([s EXCEPT !.running = @ + 1], Held(s)), FALSE))
  /\ UNCHANGED <<phase, reqs, net, zone, voters, left>>

\* a member that does not lead publishes nothing; a retire that fails leaves the key not the only one
ImportKey(a) ==
  /\ Complete(a) /\ SameSerial(a)
  /\ Held(my[a]) = None /\ ~Several(my[a])
  /\ \E k \in Taken(my[a]) :
       \E rows \in {<<k>>, Append(my[a].rows, k)} :
         LET s == [my[a] EXCEPT !.rows = rows] IN
           /\ IF Len(rows) > 1 THEN Spend("fail") ELSE UNCHANGED left
           /\ Changes(a, IF Leads(a) THEN Begun(s, [NoJob EXCEPT !.at = "publish", !.kind = "take"])
                         ELSE RoundEnded(s, TRUE))
  /\ UNCHANGED <<phase, reqs, net, zone, voters>>

DecideNone(a) ==
  /\ Complete(a) /\ SameSerial(a)
  /\ LET s == my[a] IN
       /\ Held(s) = None /\ ~Several(s) /\ Taken(s) = {}
       /\ IF MayMake(a, s) /\ zone.dsync = "update"
          THEN Changes(a, Begun(s, [NoJob EXCEPT !.at = "make", !.kind = "make"]))
          ELSE Changes(a, RoundEnded(s, MayMake(a, s) /\ ~UsesKey))
  /\ UNCHANGED <<phase, reqs, net, zone, voters, left>>

\* makeZoneKey: the key can be told from the others unless a read of the keystore failed
Make(a) ==
  /\ my[a].job.at = "make" /\ zone.made # Key
  /\ \E k \in {CHOOSE k \in Key : k \notin zone.made}, told \in BOOLEAN :
       /\ IF told THEN UNCHANGED left ELSE Spend("fail")
       /\ LET job == [my[a].job EXCEPT !.at = "publish", !.made = k, !.told = told] IN
            Changes(a, [my[a] EXCEPT !.rows = Append(@, k), !.job = job])
       /\ zone' = [zone EXCEPT !.made = @ \union {k}]
  /\ UNCHANGED <<phase, reqs, net, voters>>

(***************************************************************************)
(* The publication of the key, for a set-up, a key taken or made, or an    *)
(* offer that failed before.                                               *)
(***************************************************************************)
KeptNever(s) == [s EXCEPT !.rows = <<>>]
Kept(s) == IF s.job.told /\ s.rows = <<s.job.made>> THEN [s EXCEPT !.rows = <<>>] ELSE s
Failed(s, unpublished) ==
  LET t == Ends([s EXCEPT !.unpublished = @ \/ unpublished, !.check = @ \/ s.job.kind = "setup"])
  IN  JobEnded(t, s.job.kind \in {"take", "make"})

LeadMoved(a) ==
  /\ my[a].job.at = "publish" /\ ~Leads(a)
  /\ LET s == my[a] IN
       Changes(a, Failed(Kept(s), s.job.kind = "take" \/ (s.job.kind = "make" /\ ~s.job.told)))
  /\ UNCHANGED <<phase, reqs, net, zone, voters, left>>

PublishHeld(a) ==
  /\ my[a].job.at = "publish" /\ Leads(a)
  /\ \/ OfferHeld(a, my[a]) /\ UNCHANGED left
     \/ ~OfferHeld(a, my[a]) /\ Held(my[a]) = None /\ UNCHANGED left
     \/ ~OfferHeld(a, my[a]) /\ Spend("fail")
  /\ Changes(a, Failed(my[a], TRUE))
  /\ UNCHANGED <<phase, reqs, net, zone, voters>>

PublishZoneKey(a) ==
  /\ my[a].job.at = "publish" /\ Leads(a) /\ ~OfferHeld(a, my[a]) /\ Held(my[a]) # None
  /\ LET s == my[a]
         k == Held(s)
         t == [Polling(Retired(s), k) EXCEPT
                 !.from[a] = k, !.unpublished = FALSE, !.check = @ \/ s.job.kind = "setup"]
     IN  /\ Changes(a, JobEnded(t, s.job.kind \in {"take", "make"}))
         /\ net' = [b \in Agent |-> IF b = a THEN net[b] ELSE [net[b] EXCEPT ![a] = k]]
  /\ UNCHANGED <<phase, reqs, zone, voters, left>>

LeaderKeySetup(a) ==
  /\ my[a].wake /\ Idle(a)
  /\ LET s == [my[a] EXCEPT !.wake = FALSE] IN
       Changes(a,
         IF ~Votes(a) \/ ~UsesKey THEN s
         ELSE IF Held(s) = None \/ RenewalKeepsKey(s) THEN [s EXCEPT !.check = TRUE]
         ELSE [Begun(s, [NoJob EXCEPT !.at = "publish", !.kind = "setup"]) EXCEPT !.job.round = FALSE])
  /\ UNCHANGED <<phase, reqs, net, zone, voters, left>>

(***************************************************************************)
(* The polls.  tdns runs one for a key, gives up in the end, and returns   *)
(* when its run is cancelled.                                              *)
(***************************************************************************)
PollOver(s, i, finished) ==
  LET p == s.polls[i]
      t == Ends([s EXCEPT !.polls = RemoveAt(@, i)])
  IN  IF finished /\ p.hold # 0 /\ p.hold = s.hold THEN [t EXCEPT !.ended = [key |-> p.key, hold |-> p.hold]] ELSE t

PollStarts(a, i) ==
  LET s == my[a]
      runs == \E j \in DOMAIN s.polls : s.polls[j].runs /\ s.polls[j].key = s.polls[i].key
  IN  /\ ~s.polls[i].runs
      /\ Changes(a,
           IF Leads(a) /\ Votes(a) /\ OfferHeld(a, s) THEN PollOver(s, i, FALSE)
           ELSE IF ~Leads(a) \/ ~Votes(a) \/ runs THEN PollOver(s, i, TRUE)
           ELSE [s EXCEPT !.polls[i].runs = TRUE])
      /\ UNCHANGED <<phase, reqs, net, zone, voters, left>>

PollEnds(a, i) ==
  LET s == my[a]
      k == s.polls[i].key
  IN  /\ s.polls[i].runs
      /\ \/ /\ k \in s.apex \* served: the parent takes it
            /\ Changes(a, [PollOver(s, i, TRUE) EXCEPT !.trusted = @ \union {k}])
            /\ zone' = [zone EXCEPT !.trusts = @ \union {k}]
            /\ UNCHANGED left
         \/ /\ k \notin s.apex \/ left["refuse"] > 0
            /\ left' = IF k \notin s.apex THEN left ELSE [left EXCEPT !["refuse"] = @ - 1]
            /\ Changes(a, PollOver(s, i, TRUE)) /\ UNCHANGED zone
      /\ UNCHANGED <<phase, reqs, net, voters>>

(***************************************************************************)
(* The KEY on its way: each combiner serves what each agent contributed.   *)
(***************************************************************************)

\* a KEY is taken from the leader only; one refused is not sent again
TakeKey(b, a) ==
  /\ net[b][a] # None
  /\ net' = [net EXCEPT ![b][a] = None]
  /\ Changes(b, IF my[b].leader = a
                THEN [my[b] EXCEPT !.from[a] = net[b][a], !.check = @ \/ net[b][a] # my[b].from[a]]
                ELSE my[b])
  /\ UNCHANGED <<phase, reqs, zone, voters, left>>

Served(s) == {s.from[p] : p \in Agent} \ {None}
Refresh(a) ==
  /\ my[a].apex # Served(my[a])
  /\ Changes(a, [my[a] EXCEPT !.apex = Served(my[a]), !.check = TRUE])
  /\ UNCHANGED <<phase, reqs, net, zone, voters, left>>

(***************************************************************************)
(* The election, the transition, the parent, a restart.                    *)
(***************************************************************************)
Elect(a) ==
  /\ Votes(a) /\ zone.won # a /\ Spend("elect")
  /\ zone' = [zone EXCEPT !.won = a, !.terms = @ + 1]
  /\ my' = [b \in Agent |->
              IF b = a THEN [my[a] EXCEPT !.leader = a, !.hold = zone.terms + 1, !.wake = TRUE]
              ELSE [my[b] EXCEPT !.alone = FALSE]]
  /\ UNCHANGED <<phase, reqs, net, voters>>

\* the others hear of it later; a lead lost stops the polls' runs
Learn(b) ==
  /\ my[b].leader # zone.won
  /\ Changes(b, [my[b] EXCEPT !.leader = zone.won, !.hold = 0,
                   !.polls = [i \in DOMAIN @ |-> [@[i] EXCEPT !.runs = FALSE]]])
  /\ UNCHANGED <<phase, reqs, net, zone, voters, left>>

\* the lead is renewed as long as it lasts: where it is more than one check it is an event
Quiet(a) == Idle(a) /\ my[a].polls = <<>> /\ ~my[a].check /\ ~my[a].here /\ KeyHold(my[a])
Renew(a) ==
  /\ Leads(a) /\ Votes(a) /\ ~my[a].wake
  /\ IF Quiet(a) THEN UNCHANGED left ELSE Spend("renew")
  /\ Changes(a, [my[a] EXCEPT !.wake = TRUE])
  /\ UNCHANGED <<phase, reqs, net, zone, voters>>

\* A newer serial arrives, is made active once all have it and no rollover is under way, and is done.
Arrive(a) ==
  /\ phase[a] = 0
  /\ IF \E b \in Agent : phase[b] > 0 THEN UNCHANGED left ELSE Spend("move")
  /\ phase' = [phase EXCEPT ![a] = 1]
  /\ Changes(a, Restarted(my[a])) /\ reqs' = Outdated(a)
  /\ UNCHANGED <<net, zone, voters>>

Activate(a) ==
  /\ phase[a] = 1 /\ ~zone.rolling /\ \A b \in Agent : phase[b] >= 1
  /\ phase' = [phase EXCEPT ![a] = 2]
  /\ IF a \notin voters[2] /\ Leads(a)
     THEN /\ Changes(a, [my[a] EXCEPT !.leader = None, !.hold = 0,
                           !.polls = [i \in DOMAIN @ |-> [@[i] EXCEPT !.runs = FALSE]]])
          /\ zone' = [zone EXCEPT !.won = None]
     ELSE UNCHANGED <<my, zone>>
  /\ UNCHANGED <<reqs, net, voters, left>>

TakeUp(a) ==
  /\ phase[a] = 2 /\ \A b \in Agent : phase[b] >= 2
  /\ phase' = [phase EXCEPT ![a] = 3]
  /\ Changes(a, IF Leads(a) THEN [my[a] EXCEPT !.wake = TRUE] ELSE my[a])
  /\ UNCHANGED <<reqs, net, zone, voters, left>>

\* the rollover's DS sync, which the key's hold lets go
RolloverEnds(a) ==
  /\ zone.rolling /\ Leads(a) /\ ~KeyHold(my[a])
  /\ zone' = [zone EXCEPT !.rolling = FALSE]
  /\ UNCHANGED <<my, phase, reqs, net, voters, left>>

ParentRead ==
  /\ zone.dsync = "unread"
  /\ \E d \in {"update", "notify"} : zone' = [zone EXCEPT !.dsync = d]
  /\ UNCHANGED <<my, phase, reqs, net, voters, left>>

BecomeCaughtUp(a) ==
  /\ ~my[a].caughtUp
  /\ Changes(a, [my[a] EXCEPT !.caughtUp = TRUE, !.check = TRUE])
  /\ UNCHANGED <<phase, reqs, net, zone, voters, left>>

\* what is not in a store is lost; what it sent to the others is sent on by nobody
Crash(a) ==
  /\ Spend("crash")
  /\ Changes(a, [Fresh EXCEPT !.rows = my[a].rows, !.apex = my[a].apex, !.from = my[a].from,
                              !.trusted = my[a].trusted, !.caughtUp = FALSE])
  /\ zone' = [zone EXCEPT !.won = IF @ = a THEN None ELSE @]
  /\ reqs' = {IF r.to = a /\ r.is = "out" THEN [r EXCEPT !.is = "silent"] ELSE r : r \in {q \in reqs : q.from # a}}
  /\ net' = [b \in Agent |-> [net[b] EXCEPT ![a] = None]]
  /\ UNCHANGED <<phase, voters>>

Decide(a) == StartOver(a) \/ DecideHeld(a) \/ ImportKey(a) \/ DecideNone(a)
Job(a) == Make(a) \/ LeadMoved(a) \/ PublishHeld(a) \/ PublishZoneKey(a)
Poll(a) == \E i \in DOMAIN my[a].polls : PollStarts(a, i) \/ PollEnds(a, i)
Transition(a) == Arrive(a) \/ Activate(a) \/ TakeUp(a)
Messages == (\E r \in reqs : Answer(r) \/ KeyRecord(r)) \/ \E a, b \in Agent : TakeKey(b, a)
Next ==
  \/ \E a \in Agent :
       \/ Check(a) \/ StartKeyRound(a) \/ Decide(a) \/ Job(a) \/ LeaderKeySetup(a) \/ Poll(a)
       \/ Refresh(a) \/ Elect(a) \/ Learn(a) \/ Renew(a) \/ Transition(a) \/ RolloverEnds(a)
       \/ BecomeCaughtUp(a) \/ Crash(a)
  \/ Messages \/ (\E r \in reqs : Silent(r)) \/ ParentRead

Spec == Init /\ [][Next]_vars

\* The loops and the jobs of each agent go on, the messages and the polls come
\* to an end, an election is heard of, and a transition begun is carried through.
FairSpec ==
  /\ Spec
  /\ \A a \in Agent :
       /\ WF_vars(Check(a)) /\ WF_vars(StartKeyRound(a)) /\ WF_vars(Decide(a)) /\ WF_vars(Job(a))
       /\ WF_vars(LeaderKeySetup(a)) /\ WF_vars(Poll(a)) /\ WF_vars(Refresh(a) \/ Learn(a))
       /\ WF_vars(RolloverEnds(a) \/ Activate(a) \/ TakeUp(a) \/ BecomeCaughtUp(a))
       /\ WF_vars(phase[a] = 0 /\ (\E b \in Agent : phase[b] > 0) /\ Arrive(a))
       /\ WF_vars(Quiet(a) /\ Renew(a))
       /\ WF_vars(\E r \in reqs : r.from = a /\ (Answer(r) \/ KeyRecord(r)))
       /\ WF_vars(\E b \in Agent : TakeKey(a, b))
  /\ WF_vars(ParentRead)

(***************************************************************************)
(* The properties.                                                         *)
(***************************************************************************)

\* The types, and the book's count: it is the polls that run and the set-up
\* that may start one, so that a sync is held while they go on and not after
\* (keyPollBook, key_hold.go).
TypeOK ==
  /\ \A a \in Agent :
       LET s == my[a] IN
         /\ s.rows \in Seq(Key) /\ IsInjective(s.rows) /\ s.apex \subseteq Key /\ s.trusted \subseteq Key
         /\ s.leader \in Agent \union {None} /\ s.from \in [Agent -> Key \union {None}]
         /\ s.answers \in [Agent -> Words \union Key \union {"-", "out"}]
         /\ s.out => s.here
         /\ s.running = Len(s.polls) + (IF s.job.at = "idle" THEN 0 ELSE 1)
  /\ phase \in [Agent -> 0..3]
  /\ zone.trusts \subseteq zone.made /\ zone.made \subseteq Key

\* A leader that has led alone since its round went out makes no key while
\* another voting member holds one, also where the voting members change
\* while the answers are on their way (decideZoneKeyLocked, atSerial,
\* zoneKeyPeerIDs: key_round_agent.go, key_rounds.go).  A key made or taken in
\* a lead that was then lost, which cannot be deleted and is not published, is
\* no such key ("kept whatever becomes of the lead": makeZoneKey).
NoKeyBesideAHeldOne ==
  [][\A a \in Agent :
       my[a].job.at = "make" /\ my'[a].job.at = "publish" /\ my[a].alone
         => \A b \in (voters[Active(a)] \union TransitionVoters(a)) \ {a} :
              my[b].rows = <<>> \/ ~Idle(b) \/ my[b].unpublished]_vars

\* A key the parent trusts stays with a member: what an agent retires or
\* deletes is never the last copy of it (retireOtherActiveKeys, zone_key.go;
\* dropKeyMadeForALostLead, parentsync_leader.go).
TrustedKeyIsHeld == \A k \in zone.trusts : \E a \in Agent : k \in ToSet(my[a].rows)

\* The operator has to act: several KEYs are published, or one nobody has.
Stalled(a) ==
  \/ Several(my[a])
  \/ my[a].apex # {} /\ Held(my[a]) = None
       /\ \A b \in Agent : Several(my[b]) \/ Held(my[b]) \notin my[a].apex

\* A set-up's publication was held or failed after another's poll had begun:
\* the parent trusts the key and the renewals keep it, so nothing publishes it
\* in this lead; in a freeze the rollover's sync waits for it and it for the thaw.
NeverPublished(a) ==
  /\ my[a].unpublished /\ Held(my[a]) \in my[a].trusted
  /\ RenewalKeepsKey(my[a]) \/ (Frozen(a) /\ zone.rolling)

\* Once the elections and the faults are over, the leader comes to hold the
\* zone's key, published, polled and trusted by the parent, and the sync that
\* waits for it goes out, a rollover under way and its freeze included
\* (keyPending, offerHeld: key_hold.go; reofferZoneKey, key_round_agent.go).
KeyComesToUse ==
  <>[](\/ zone.won = None \/ ~UsesKey
       \/ Stalled(zone.won) \/ NeverPublished(zone.won)
       \/ ~KeyHold(my[zone.won]) /\ ~zone.rolling)

=============================================================================
