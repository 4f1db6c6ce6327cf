------------------------------ MODULE CatchUp ------------------------------
(***************************************************************************)
(* The data engine of the agents and the catch-up between them, for one    *)
(* zone: operator edits, their distribution to the peers and the hand-over *)
(* to the agent's own combiner (syncheddataengine.go, agent_policy.go),    *)
(* the own read from the combiner (own_read.go), the requests for a peer's *)
(* state and their answers (catchup.go, catchup_answer.go), and rule 6 for *)
(* messages between serials with the kept and the owed lists               *)
(* (instr_receive.go, instr_kept.go, instr_freeze.go).                     *)
(*                                                                         *)
(* One set of records per agent stands for the sets an answer replaces:    *)
(* every sender sends whole sets.  A message's number n is the time it was *)
(* made at its sender, dist the distribution it belongs to.  The           *)
(* transition that moves the active serial is InstructionTransition's;     *)
(* here it is its effect: agreeing, activating, done.                      *)
(***************************************************************************)
EXTENDS Integers, FiniteSets, SequencesExt

CONSTANTS
  Provider,      \* the agents, the zone's providers
  Rec,        \* the records an agent may contribute
  Faulty,     \* the agents that restart
  Editor,     \* the agents whose operators edit
  NotYetsKept, \* how many refused distributions an agent's book holds
  MaxKept,    \* bound: the messages kept at a time, the others wait in the queue
  Scenarios   \* bound: the voting members under each serial of a behaviour, and
              \* the faults and inputs in it, events[e] times e

CatchEvent == {"edit", "restart", "unread", "forgotten", "agree", "cut", "lost", "unacked", "slow",
          "manual", "unconfirmed"}

ASSUME ConstantsAssumption ==
  /\ IsFiniteSet(Provider) /\ Editor \subseteq Provider /\ Faulty \subseteq Provider
  /\ {NotYetsKept, MaxKept} \subseteq Nat \ {0}
  /\ \A c \in Scenarios : c.voters \in Seq(SUBSET Provider) /\ c.voters # <<>> /\ c.events \in [CatchEvent -> Nat]

VARIABLES
  ag,         \* ag[a]: the state of agent a and of its combiner
  votersAt,   \* votersAt[v]: the zone's voting members under serial v
  left        \* left[e]: how many of each are left

catchVars == <<ag, votersAt, left>>

----------------------------------------------------------------------------
(* The state *)

Serials == DOMAIN votersAt
NoCatchUp == [name |-> 0, complete |-> FALSE]

\* A request of the tracker to one peer.  none: the peer was never asked;
\* idle: its last answer was complete; sent: the peer acknowledged it.
\* arrived: its answer is in the kept list.  back: the peer's start request
\* that a peer-start asks back for.
NoAsk == [st |-> "none", name |-> 0, reason |-> "none", arrived |-> FALSE, back |-> 0]

Ask == [st : {"none", "idle", "noted", "due", "sent", "retry", "paused"},
        name : Nat, reason : {"none", "start", "peer-start", "outage", "manual"},
        arrived : BOOLEAN, back : Nat]

Msg == [to : Provider, n : Nat, dist : Nat, set : SUBSET Rec, whole : BOOLEAN,
        cu : [name : Nat, complete : BOOLEAN]]

AgentState ==
  [loaded : BOOLEAN,                  \* the zone has loaded
   data : [Provider -> SUBSET Rec],      \* the repo: each agent's contribution
   stored : [Provider -> SUBSET Rec],    \* the same at its combiner, on disk
   note : [Provider -> {"none", "sent", "confirmed"}],  \* setNote
   read : BOOLEAN,                    \* the own read is done
   reading : {"no", "out", "answer"}, \* a re-read
   answer : [Provider -> SUBSET Rec],    \* what the combiner answered it
   fresh : SUBSET Provider,              \* the sets changed or confirmed since it was sent
   origin : [Provider -> Nat],           \* lastReplace, on disk
   active : Serials \cup {0},          \* the active serial, 0 while not known
   phase : {"steady", "agreeing", "reconciling"},
   kept : Seq([from : Provider, made : Serials \cup {0}, m : Msg]),  \* on disk
   owed : Seq(SUBSET Rec),            \* on disk
   notYet : Seq([to : Provider, dist : Nat, told : Serials]),  \* the newest NotYetsKept
   calls : Seq([set : SUBSET Rec, gone : SUBSET Rec]),  \* edits on their way to the engine
   queue : SUBSET Msg,                \* the reliable queue to the peers
   todo : SUBSET [from : Provider, name : Nat, reason : {"start", "peer-start", "outage", "manual"}],
   ask : [Provider -> Ask],
   link : [Provider -> {"never", "ok", "short", "long"}],  \* the beats to the peer
   told : SUBSET Provider,               \* history: a replace came since the start
   undone : SUBSET Provider]             \* history: and an own read put back what it removed

CatchTypeOK ==
  /\ ag \in [Provider -> AgentState]
  /\ \A a \in Provider : Len(ag[a].notYet) <= NotYetsKept /\ Len(ag[a].kept) <= MaxKept
  /\ votersAt \in Seq(SUBSET Provider)
  /\ left \in [CatchEvent -> Nat]

\* Every agent runs, has read its own state and is caught up.
CatchInit ==
  /\ \E c \in Scenarios : votersAt = c.voters /\ left = c.events
  /\ ag = [a \in Provider |->
       [loaded |-> TRUE, data |-> [b \in Provider |-> {}], stored |-> [b \in Provider |-> {}],
        note |-> [b \in Provider |-> "none"], read |-> TRUE, reading |-> "no",
        answer |-> [b \in Provider |-> {}], fresh |-> {}, origin |-> [b \in Provider |-> 0],
        active |-> 1, phase |-> "steady", kept |-> <<>>, owed |-> <<>>,
        notYet |-> <<>>, calls |-> <<>>, queue |-> {}, todo |-> {},
        ask |-> [b \in Provider |-> IF b # a /\ {a, b} \subseteq votersAt[1]
                                 THEN [NoAsk EXCEPT !.st = "idle"] ELSE NoAsk],
        link |-> [b \in Provider |-> "ok"], told |-> {}, undone |-> {}]]

Spend(e) == left[e] > 0 /\ left' = [left EXCEPT ![e] = @ - 1] /\ UNCHANGED votersAt
Free == UNCHANGED <<votersAt, left>>

\* The instructions an agent's decisions read: the active ones, and while
\* they are not known the newest held.
Reading(A) == IF A.active = 0 THEN Len(votersAt) ELSE A.active
Votes(A, b) == b \in votersAt[Reading(A)]
Frozen(A) == A.active = 0 \/ A.phase # "steady"
\* An answer of this agent can be complete.
CanAnswer(A) == A.loaded /\ A.read

\* A request's name is new between the two.
NewName(a, p) ==
  LET inUse == {ag[a].ask[p].name, ag[p].ask[a].back} \cup {q.name : q \in {q \in ag[p].todo : q.from = a}} \cup
               {m.cu.name : m \in {m \in ag[p].queue : m.to = a}} \cup
               {k.m.cu.name : k \in {k \in ToSet(ag[a].kept) : k.from = p}}
  IN CHOOSE i \in 1..(Cardinality(inUse) + 1) : i \notin inUse

----------------------------------------------------------------------------
(* The catch-up tracker *)

Outstanding(e) == e.st \notin {"none", "idle"}
HeldBack(e, reason, back) ==
  /\ Outstanding(e)
  /\ \/ reason # "peer-start"
     \/ e.reason = "peer-start" /\ (e.st # "sent" \/ e.back = back)

\* Ask: a request under a new name, unless one is outstanding (an answer
\* less than a minute old: Beat).  A peer that is not OPERATIONAL is asked when it is.
Asked(A, a, p, reason, back) ==
  IF HeldBack(A.ask[p], reason, back) THEN A
  ELSE [A EXCEPT !.ask[p] = [NoAsk EXCEPT !.st = IF A.link[p] = "ok" THEN "due" ELSE "noted",
                                          !.name = NewName(a, p), !.reason = reason, !.back = back]]

\* As a request that failed was forgotten.
FailedForGood(e) == NoAsk

Failed(e) == [e EXCEPT !.st = "retry", !.arrived = FALSE]

\* An answer that names the request outstanding ends it when it is complete
\* and fails it when it is not; any other counts for nothing.
Answered(A, p, cu) ==
  LET e == A.ask[p] IN
  IF cu = NoCatchUp \/ e.st # "sent" \/ e.name # cu.name THEN A
  ELSE [A EXCEPT !.ask[p] = IF cu.complete
                            THEN [NoAsk EXCEPT !.st = "idle"]
                            ELSE Failed(e)]

\* A kept answer has arrived: its request waits for nothing more.
Arrived(A, p, cu) ==
  IF cu # NoCatchUp /\ A.ask[p].st = "sent" /\ A.ask[p].name = cu.name
  THEN [A EXCEPT !.ask[p].arrived = TRUE] ELSE A

\* The active serial changed or became known: the answer time runs again.
ActiveChanged(A) == [A EXCEPT !.ask = [p \in Provider |-> [A.ask[p] EXCEPT !.arrived = FALSE]]]

BothVote(A, a, p) == Votes(A, a) /\ Votes(A, p)
\* A refresh drops the requests that no longer apply.
Pruned(A, a) == [A EXCEPT !.ask = [p \in Provider |-> IF BothVote(A, a, p) THEN A.ask[p] ELSE NoAsk]]

\* The zone is caught up with p.
CaughtUp(a, p) ==
  LET A == ag[a] IN A.read /\ A.ask[p].st = "idle"

----------------------------------------------------------------------------
(* The data engine *)

Peers(A, a) == votersAt[Reading(A)] \ {a}

KeptFrom(G, a) == {k \in UNION {ToSet(G[r].kept) : r \in Provider} : k.from = a}
\* The times of a's that a set or a message still holds; a new message is
\* later than all of them.
Times(G, a) == {G[r].origin[a] : r \in Provider} \cup {m.n : m \in G[a].queue} \cup
               {k.m.n : k \in KeptFrom(G, a)}
Now(A, a) == 1 + Max(Times([ag EXCEPT ![a] = A], a))
\* Only their order matters: the senders' are counted from 0 again.
Ranked(G, senders) ==
  LET times == [s \in senders |-> Times(G, s) \ {0}]
      rank(s, x) == IF s \in senders THEN Cardinality({y \in times[s] : y <= x}) ELSE x
      with(s, m) == [m EXCEPT !.n = rank(s, @)]
      counted(k) == [k EXCEPT !.m = with(k.from, @)] IN
  IF \A s \in senders : times[s] = 1..Cardinality(times[s]) THEN G
  ELSE [r \in Provider |->
     [G[r] EXCEPT !.origin = [s \in Provider |-> rank(s, G[r].origin[s])],
                  !.queue = {with(r, m) : m \in @},
                  !.kept = [i \in DOMAIN G[r].kept |-> counted(G[r].kept[i])]]]
\* The name of a new distribution.
NewDist(A, a) ==
  LET inUse == {m.dist : m \in A.queue} \cup {x.dist : x \in ToSet(A.notYet)} \cup
               {k.m.dist : k \in KeptFrom(ag, a)}
  IN CHOOSE i \in 1..(Cardinality(inUse) + 1) : i \notin inUse

\* A message with the agent's whole contribution.
Whole(A, a, to, dist, cu) ==
  [to |-> to, n |-> Now(A, a), dist |-> dist, set |-> A.data[a], whole |-> TRUE, cu |-> cu]

\* A local change: stored, passed to the combiner and enqueued for every
\* peer as one distribution; nothing goes out when it changes nothing.
LocalChange(A, a, set) ==
  IF A.data[a] = set THEN A
  ELSE LET B == [A EXCEPT !.data[a] = set, !.note[a] = "sent", !.fresh = @ \cup {a}] IN
       [B EXCEPT !.queue = @ \cup {Whole(B, a, p, NewDist(A, a), NoCatchUp) : p \in Peers(B, a)}]

LocallyChanged(A, a, sets) ==
  LET after[n \in 0..Len(sets)] == IF n = 0 THEN A ELSE LocalChange(after[n - 1], a, sets[n])
  IN after[Len(sets)]

\* instrDone: the owed changes are released in order when the zone is no
\* longer frozen; an agent that no longer votes drops them and reads its own
\* state again.
OwedReleased(A, a) ==
  IF Frozen(A) \/ A.owed = <<>> THEN A
  ELSE LET B == [A EXCEPT !.owed = <<>>] IN
       IF Votes(A, a) THEN LocallyChanged(B, a, A.owed) ELSE [B EXCEPT !.read = FALSE]

\* A remote replace: the newest origin wins.  A set that changed, or whose
\* last hand-over the combiner has not confirmed, goes to the combiner.
RemoteReplace(A, s, m) ==
  IF ~m.whole \/ m.n < A.origin[s] THEN A
  ELSE LET goes == A.data[s] # m.set \/ A.note[s] = "sent" IN
       [A EXCEPT !.origin[s] = m.n, !.data[s] = m.set,
                 !.note[s] = IF goes THEN "sent" ELSE @,
                 !.fresh = IF goes THEN @ \cup {s} ELSE @,
                 !.told = @ \cup {s}, !.undone = @ \ {s}]

Taken(A, s, m) == Answered(RemoteReplace(A, s, m), s, m.cu)

\* Rule 6 for a message made under made (0: its sender tells none).
Receipt(active, made) ==
  CASE active = 0 -> "keep"
    [] active # 0 /\ made \in {0, active} -> "take"
    [] active # 0 /\ made # 0 /\ made < active -> "stale"
    [] OTHER -> "keep"

Keeps(A, s, m) == \E i \in DOMAIN A.kept : A.kept[i].from = s /\ A.kept[i].m.dist = m.dist

\* The part of s at the places I.
Subsequence(s, I) ==
  LET first[n \in 0..Len(s)] ==
        IF n = 0 THEN <<>> ELSE IF n \in I THEN Append(first[n - 1], s[n]) ELSE first[n - 1]
  IN first[Len(s)]

\* The book of refused distributions: the oldest goes first.
Booked(book, x) ==
  LET more == Append(book, x) IN IF Len(more) > NotYetsKept THEN Tail(more) ELSE more

\* A stale refusal is booked at the sender, which sends its whole state
\* again once the two are in step.
Refused(A, r, m, told) ==
  [A EXCEPT !.queue = @ \ {m},
            !.notYet = Booked(Subsequence(@, {i \in DOMAIN @ : @[i].to # r \/ @[i].dist # m.dist}),
                              [to |-> r, dist |-> m.dist, told |-> told])]

\* The API's edit reads the repo, with the owed changes laid over it, and
\* hands the engine the whole set it makes.
Intended(A, a) == IF A.owed = <<>> THEN A.data[a] ELSE Last(A.owed)

EditCall(a, r) ==
  LET A == ag[a]  cur == Intended(A, a) IN
  /\ a \in Editor /\ Votes(A, a) /\ Spend("edit")
  /\ \E call \in {[set |-> cur \cup {r}, gone |-> {}], [set |-> cur \ {r}, gone |-> {r}]} :
       ag' = [ag EXCEPT ![a].calls = Append(@, call)]

\* applyLocalUpdate: what is owed goes first; a removal of what the agent
\* does not hold, and an edit of an agent without a role, are refused; an
\* edit in a freeze is owed.
LocallyApplied(A, a, call) ==
  LET B == OwedReleased(A, a)
      ok == Votes(B, a) /\ call.gone \subseteq (B.data[a] \cup Intended(B, a)) IN
  CASE ~ok -> B
    [] ok /\ Frozen(B) ->
         IF B.owed # <<>> /\ Last(B.owed) = call.set THEN B ELSE [B EXCEPT !.owed = Append(@, call.set)]
    [] OTHER -> LocalChange(B, a, call.set)

ApplyLocal(a) ==
  /\ ag[a].calls # <<>>
  /\ ag' = [ag EXCEPT ![a] = [LocallyApplied(ag[a], a, Head(ag[a].calls)) EXCEPT !.calls = Tail(ag[a].calls)]]
  /\ Free

\* The end of the freeze asks the engine to release what is owed; its tick
\* catches what a restart came between.
InstrDone(a) ==
  /\ ~Frozen(ag[a]) /\ ag[a].owed # <<>>
  /\ ag' = [ag EXCEPT ![a] = OwedReleased(@, a)]
  /\ Free

\* The combiner takes the newest set handed over and confirms it.
HandOver(a, b) ==
  LET A == ag[a] IN
  /\ A.note[b] = "sent"
  /\ ag' = [ag EXCEPT ![a] = [A EXCEPT !.stored[b] = A.data[b], !.note[b] = "confirmed", !.fresh = @ \cup {b}]]
  /\ Free

\* A message that its receiver has confirmed leaves the queue.
Confirmed(G, s, m) == [G EXCEPT ![s].queue = @ \ {m}]

MayArrive(s, m) ==
  LET R == ag[m.to] IN
  /\ R.loaded /\ Votes(R, s)
  /\ Receipt(R.active, ag[s].active) = "keep" => ~Keeps(R, s, m) /\ Len(R.kept) < MaxKept

\* A message is sent, stamped with its sender's active serial now, and is
\* kept (the sender is told PENDING), refused or taken; a sender that does
\* not vote by the receiver's instructions is refused and tries again.  The
\* answer may be lost, and the queue sends the message again.
Deliver(s, m) ==
  LET r == m.to  made == ag[s].active  receipt == Receipt(ag[r].active, made) IN
  /\ m \in ag[s].queue /\ MayArrive(s, m)
  /\ \/ /\ receipt = "keep" /\ Free
        /\ ag' = [ag EXCEPT ![r] = Arrived([ag[r] EXCEPT !.kept = Append(@, [from |-> s, made |-> made, m |-> m])], s, m.cu)]
     \/ /\ receipt = "stale" /\ Free
        /\ ag' = [ag EXCEPT ![s] = Refused(@, r, m, ag[r].active)]
     \/ /\ receipt = "take" /\ Free
        /\ ag' = Ranked(Confirmed([ag EXCEPT ![r] = Taken(@, s, m)], s, m), {s})
     \/ /\ receipt = "take" /\ Spend("unconfirmed")
        /\ ag' = Ranked([ag EXCEPT ![r] = Taken(@, s, m)], {s})

\* instrActivated, one kept message: by the active serial now it waits on,
\* is refused, or is taken when its sender may still send.
Released(G, a, k) ==
  LET receipt == Receipt(G[a].active, k.made)
      H == [G EXCEPT ![a].kept = Subsequence(@, {i \in DOMAIN @ : @[i] # k})] IN
  CASE receipt = "keep" -> G
    [] receipt = "stale" -> [H EXCEPT ![k.from] = Refused(@, a, k.m, G[a].active)]
    [] OTHER -> Confirmed([H EXCEPT ![a] = IF Votes(@, k.from) THEN Taken(@, k.from, k.m) ELSE @],
                          k.from, k.m)

AllReleased(a) ==
  LET after[n \in 0..Len(ag[a].kept)] ==
        IF n = 0 THEN ag ELSE Released(after[n - 1], a, ag[a].kept[n])
  IN after[Len(ag[a].kept)]

InStep(A) == {x \in ToSet(A.notYet) : A.active # 0 /\ x.told <= A.active}
StillOut(A) == Subsequence(A.notYet, {i \in DOMAIN A.notYet : A.notYet[i] \notin InStep(A)})
\* As a refused distribution was given up.
ResentNot(A, a) == [A EXCEPT !.notYet = StillOut(A)]

\* resendInStep: the whole state again, under the distribution's own
\* identifier, to the peers this agent is in step with.
Resent(A, a) ==
  IF ~Votes(A, a) THEN [A EXCEPT !.notYet = StillOut(A)]
  ELSE IF ~CanAnswer(A) \/ InStep(A) = {} THEN A
  ELSE [A EXCEPT !.notYet = StillOut(A),
                 !.queue = @ \cup {Whole(A, a, x.to, x.dist, NoCatchUp) : x \in InStep(A)}]

InstrActivated(a) ==
  LET A == ag[a] IN
  /\ \/ \E i \in DOMAIN A.kept : Receipt(A.active, A.kept[i].made) # "keep"
     \/ InStep(A) # {} /\ (CanAnswer(A) \/ ~Votes(A, a))
  /\ ag' = Ranked([AllReleased(a) EXCEPT ![a] = Resent(@, a)], Provider)
  /\ Free

----------------------------------------------------------------------------
(* The own read *)

OwnReadAsk(a) ==
  /\ ag[a].loaded /\ ~ag[a].read /\ ag[a].reading = "no"
  /\ ag' = [ag EXCEPT ![a] = [@ EXCEPT !.reading = "out", !.fresh = {}]]
  /\ Free

\* The combiner answers with what it has stored.
OwnReadAnswer(a) ==
  /\ ag[a].reading = "out"
  /\ ag' = [ag EXCEPT ![a] = [@ EXCEPT !.reading = "answer", !.answer = ag[a].stored]]
  /\ Free

\* As a set the combiner has confirmed could always be read.
MayApplyConfirmed(A, b) == A.note[b] \in {"none", "confirmed"}

\* The answer must not undo what the engine did while the request was out.
MayApplyOwnRead(A, b) ==
  \/ A.note[b] = "none"
  \/ A.note[b] = "confirmed" /\ b \notin A.fresh

NoReading(A) == [A EXCEPT !.reading = "no", !.answer = [b \in Provider |-> {}], !.fresh = {}]

OwnReadDone(a) ==
  LET A == ag[a]  apply == {b \in Provider : MayApplyOwnRead(A, b)} IN
  /\ A.reading = "answer"
  /\ ag' = [ag EXCEPT ![a] =
       [NoReading(A) EXCEPT !.read = TRUE,
          !.data = [b \in Provider |-> IF b \in apply THEN A.answer[b] ELSE A.data[b]],
          !.undone = @ \cup {b \in apply \cap A.told : A.note[b] = "none" /\ A.answer[b] # A.data[b]}]]
  /\ Free

----------------------------------------------------------------------------
(* Requests and answers *)

\* The peer's sender sends a request that is due and waits for the peer to
\* acknowledge it.  It fails when it does not reach the peer, when the
\* peer's instructions do not name this agent, or when only the
\* acknowledgement is lost.
Send(a, p) ==
  LET A == ag[a]  e == A.ask[p]
      named == {a, p} \subseteq votersAt[Reading(ag[p])]
      taken == [ag EXCEPT ![p].todo = @ \cup {[from |-> a, name |-> e.name, reason |-> e.reason]}] IN
  /\ e.st = "due"
  /\ \/ /\ A.link[p] # "ok" /\ Free
        /\ ag' = [ag EXCEPT ![a].ask[p].st = "noted"]
     \/ /\ A.link[p] = "ok" /\ named /\ Free
        /\ ag' = [taken EXCEPT ![a].ask[p].st = "sent"]
     \/ /\ A.link[p] = "ok" /\ named /\ Spend("unacked")
        /\ ag' = [taken EXCEPT ![a].ask[p] = Failed(@)]
     \/ /\ A.link[p] = "ok" /\ (IF named THEN Spend("lost") ELSE Free)
        /\ ag' = [ag EXCEPT ![a].ask[p] = Failed(@)]

\* An answer on its way to a.
ComingTo(a, p, name) ==
  \/ \E q \in ag[p].todo : q.from = a /\ q.name = name
  \/ \E m \in ag[p].queue : m.to = a /\ m.cu.name = name

\* The wait for an answer ends; it stands still while the answer is kept
\* or the active serial is not known.  A slow answer may still be coming.
Timeout(a, p) ==
  LET e == ag[a].ask[p] IN
  /\ e.st = "sent" /\ ~e.arrived /\ ag[a].active # 0
  /\ IF ComingTo(a, p, e.name) THEN Spend("slow") ELSE Free
  /\ ag' = [ag EXCEPT ![a].ask[p] = Failed(@)]

\* A retry, 5 s later at the least: the engines have answered the requests
\* they had by then.
Retry(a, p) ==
  LET A == ag[a]  e == A.ask[p] IN
  /\ e.st = "retry" /\ A.todo = {} /\ ag[p].todo = {}
  /\ ag' = [ag EXCEPT ![a].ask[p] =
       CASE ~BothVote(A, a, p) -> NoAsk
         [] BothVote(A, a, p) /\ A.link[p] # "ok" -> [e EXCEPT !.st = "paused"]
         [] OTHER -> [e EXCEPT !.st = "due", !.name = NewName(a, p)]]
  /\ Free

\* The engine answers a request: a newer answer takes the older one out of
\* the queue, an agent with no role answers nothing, and a peer that started
\* is asked back.
OlderAnswers(A, to) == {m \in A.queue : m.to = to /\ m.cu # NoCatchUp}
AnswerRequest(p, q) ==
  LET A == [ag[p] EXCEPT !.todo = @ \ {q}]
      full == CanAnswer(A)
      answer == Whole(A, p, q.from, NewDist(A, p), [name |-> q.name, complete |-> full])
      B == [A EXCEPT !.queue = (@ \ OlderAnswers(A, q.from)) \cup
                       {IF full THEN answer ELSE [answer EXCEPT !.whole = FALSE, !.set = {}, !.n = 0]}]
      back == q.reason = "start" /\ BothVote(B, p, q.from) IN
  /\ q \in ag[p].todo
  /\ ag' = Ranked([ag EXCEPT ![p] =
       CASE ~Votes(A, p) -> A
         [] Votes(A, p) /\ back -> Asked(B, p, q.from, "peer-start", q.name)
         [] OTHER -> B], {p})
  /\ Free

\* A beat to the peer succeeds: what waits for it goes out; the first since
\* the start, and the first after a long gap, ask it, unless its complete
\* answer is less than a minute old (recent).
Beat(a, p) ==
  LET A == ag[a]  e == A.ask[p]
      wakes == [A EXCEPT !.link[p] = "ok",
                  !.ask[p] = CASE e.st = "noted" -> [e EXCEPT !.st = "due"]
                               [] e.st = "paused" -> [e EXCEPT !.st = "due", !.name = NewName(a, p)]
                               [] OTHER -> e]
      shares == A.loaded /\ BothVote(A, a, p) IN
  /\ p # a /\ A.link[p] # "ok"
  /\ \E recent \in {FALSE, e.st = "idle"} :
       ag' = [ag EXCEPT ![a] =
         CASE A.link[p] = "never" /\ shares /\ ~recent -> Asked(wakes, a, p, "start", 0)
           [] A.link[p] = "long" /\ shares /\ ~recent -> Asked(wakes, a, p, "outage", 0)
           [] OTHER -> wakes]
  /\ Free

\* The beats to the peer fail, for a while or for a long time.
Cut(a, p) ==
  /\ p # a /\ ag[a].link[p] = "ok" /\ Spend("cut")
  /\ \E gap \in {"short", "long"} : ag' = [ag EXCEPT ![a].link[p] = gap]

\* The operator asks every voting peer.
AskZone(A, a, reason) ==
  IF ~Votes(A, a) THEN A
  ELSE [A EXCEPT !.ask = [p \in Provider |->
         IF p \in Peers(A, a) THEN Asked(A, a, p, reason, 0).ask[p] ELSE A.ask[p]]]

OperatorAsks(a) ==
  /\ ag[a].loaded /\ Spend("manual")
  /\ ag' = [ag EXCEPT ![a] = AskZone(@, a, "manual")]

----------------------------------------------------------------------------
(* Refresh, transitions and restarts *)

\* The zone's first load asks every voting peer.  A later refresh drops what
\* no longer applies; it asks nothing by itself, as the active instructions
\* it compares are the same before it and after it.
FirstLoad(a) ==
  /\ ~ag[a].loaded
  /\ ag' = [ag EXCEPT ![a] = AskZone([@ EXCEPT !.loaded = TRUE], a, "start")]
  /\ Free

ZoneRefresh(a) ==
  /\ ag[a].loaded /\ Pruned(ag[a], a) # ag[a]
  /\ ag' = [ag EXCEPT ![a] = Pruned(@, a)]
  /\ Free

Agree(a) ==
  /\ ag[a].active \in 1..(Len(votersAt) - 1) /\ ag[a].phase = "steady" /\ Spend("agree")
  /\ ag' = [ag EXCEPT ![a].phase = "agreeing"]

\* The thaw, and a member's activation on another's telling.
Activate(a) ==
  LET A == ag[a] IN
  /\ A.active \in 1..(Len(votersAt) - 1)
  /\ A.phase = "agreeing" \/ \E b \in Provider : ag[b].active > A.active
  /\ ag' = [ag EXCEPT ![a] = ActiveChanged([A EXCEPT !.active = @ + 1, !.phase = "reconciling"])]
  /\ Free

\* The restart rule makes the active serial known.
Know(a) ==
  /\ ag[a].active = 0
  /\ \E b \in Provider : ag[b].active # 0 /\
       ag' = [ag EXCEPT ![a] = ActiveChanged([@ EXCEPT !.active = ag[b].active, !.phase = "reconciling"])]
  /\ Free

Done(a) ==
  /\ ag[a].phase = "reconciling" /\ \A b \in Provider : ag[b].active = ag[a].active
  /\ ag' = [ag EXCEPT ![a].phase = "steady"]
  /\ Free

\* An agent restarts: what is on disk stays.  The start-up read finds the
\* combiner, or not; the active serial may be lost with the store.
Started(A, a, hydrated) ==
  [NoReading(A) EXCEPT
     !.loaded = FALSE, !.read = hydrated,
     !.data = [b \in Provider |-> IF hydrated THEN A.stored[b] ELSE {}],
     !.note = [b \in Provider |-> "none"], !.notYet = <<>>, !.calls = <<>>, !.queue = {}, !.todo = {},
     !.ask = [b \in Provider |-> NoAsk], !.link = [b \in Provider |-> IF b = a THEN "ok" ELSE "never"],
     !.told = {}, !.undone = {}]

AgentRestart(a) ==
  /\ a \in Faulty
  /\ \/ Spend("restart") /\ ag' = [ag EXCEPT ![a] = Started(@, a, TRUE)]
     \/ Spend("unread") /\ ag' = [ag EXCEPT ![a] = Started(@, a, FALSE)]
     \/ /\ Spend("forgotten") /\ \E b \in Provider \ {a} : ag[b].active # 0
        /\ ag' = [ag EXCEPT ![a] = [Started(@, a, TRUE) EXCEPT !.active = 0, !.phase = "steady"]]

----------------------------------------------------------------------------
(* The specification *)

Engine(a) ==
  \/ ApplyLocal(a) \/ InstrDone(a) \/ InstrActivated(a)
  \/ \E b \in Provider : HandOver(a, b)
OwnRead(a) == OwnReadAsk(a) \/ OwnReadAnswer(a) \/ OwnReadDone(a)

Tracker(a, p) ==
  \/ Send(a, p)
  \/ Timeout(a, p) \/ Retry(a, p) \/ Beat(a, p)

Transition(a) == FirstLoad(a) \/ Activate(a) \/ Know(a) \/ Done(a)

CatchNext ==
  \E a \in Provider :
    \/ \E q \in ag[a].todo : AnswerRequest(a, q)
    \/ \E m \in ag[a].queue : Deliver(a, m)
    \/ Engine(a) \/ OwnRead(a) \/ Transition(a) \/ ZoneRefresh(a) \/ Agree(a) \/ OperatorAsks(a) \/ AgentRestart(a)
    \/ \E r \in Rec : EditCall(a, r)
    \/ \E p \in Provider : Tracker(a, p) \/ Cut(a, p)

\* The engine's loop and the reliable queue, the own read's tick, each peer's
\* sender and its timers, the beats and the thaw's turn run for ever.  Of
\* requests to answer and messages that may arrive, some are always done in
\* the end.
Answers(a) == ~(ag[a].todo \subseteq ag'[a].todo)
Arrives(a) ==
  \/ Cardinality(ag'[a].queue) < Cardinality(ag[a].queue)
  \/ \E r \in Provider : Len(ag'[r].kept) > Len(ag[r].kept)
Fairness ==
  /\ \A a \in Provider :
       /\ WF_catchVars(Engine(a)) /\ WF_catchVars(OwnRead(a) \/ Transition(a))
       /\ []<>(ag[a].todo = {}) \/ []<><<Answers(a)>>_catchVars
       /\ []<>(\A m \in ag[a].queue : ~MayArrive(a, m)) \/ []<><<Arrives(a)>>_catchVars
  /\ \A a \in Provider : \A p \in Provider \ {a} : WF_catchVars(Tracker(a, p) /\ Free)

CatchSpec == CatchInit /\ [][CatchNext]_catchVars /\ Fairness

----------------------------------------------------------------------------
(* Properties *)

OnItsWay(s, r) ==
  \/ \E m \in ag[s].queue : m.to = r
  \/ \E i \in DOMAIN ag[r].kept : ag[r].kept[i].from = s
  \/ \E x \in ToSet(ag[s].notYet) : x.to = r

\* Two voting members that are caught up with each other, with nothing of
\* the one's on its way to the other, agree on what the one contributes:
\* whatever was lost with a queue, refused between serials or rolled back
\* with the sender's own state has been made good.
CaughtUpIsSame ==
  \A s, r \in Provider :
    /\ s # r /\ CaughtUp(s, r) /\ CaughtUp(r, s) /\ ~OnItsWay(s, r)
    /\ {s, r} \subseteq votersAt[Reading(ag[r])] \cap votersAt[Reading(ag[s])]
    /\ s \notin ag[r].undone
    => ag[r].data[s] = ag[s].data[s]

\* What an agent contributes reaches its own combiner and is not undone by
\* an answer the combiner gave before it: with nothing handed over and no
\* read under way, the combiner holds what the agent does.
CombinerHoldsOwn ==
  \A a \in Provider : ag[a].read /\ ag[a].note[a] # "sent" => ag[a].stored[a] = ag[a].data[a]

\* The catch-up ends: from some time on every voting member is caught up
\* with every other.
CatchesUp ==
  <>[](\A a, p \in Provider : a # p /\ BothVote(ag[a], a, p) => CaughtUp(a, p))

=============================================================================
