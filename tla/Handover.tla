------------------------------ MODULE Handover ------------------------------
(***************************************************************************)
(* How an agent hands its combiner what it acts by for one zone, and what  *)
(* may go to the combiner meanwhile (v2/acting_handover.go, and of         *)
(* combiner_acting.go and combiner_msg_handler.go the combiner's side).    *)
(*                                                                         *)
(* The agent sends each hand-over as a message of its own on the queue to  *)
(* the combiner, and lets an update pass only while the combiner is known  *)
(* to hold what the agent wants; others wait, in order.  It knows what the *)
(* combiner holds from the word on a hand-over and from the combiner's     *)
(* answer to its own read.  A refusal of an update that was sent under     *)
(* another hand-over, or made under another serial, is not final: the      *)
(* update goes again.                                                      *)
(*                                                                         *)
(* The tracker's lock is let go before anything is queued: what is let     *)
(* through (passing), taken from those that wait (draining), or to be      *)
(* handed over (sending) reaches the queue in a step of its own.  Words    *)
(* come back in any order.  The queue itself is another repository's: it   *)
(* delivers one recipient's messages in order, may deliver one again while *)
(* it is unconfirmed, and may give one up.                                 *)
(*                                                                         *)
(* A hand-over's order key (serial, newest, phase, step) is a number, and  *)
(* Serial says which serial and step it names: the combiner's word names   *)
(* those alone.  Its sets are the flag hold.                               *)
(***************************************************************************)
EXTENDS Integers, Sequences, FiniteSets

CONSTANTS
    Update,   \* the updates the agent has for the combiner
    MaxKey,   \* bound: the order keys are 1..MaxKey; 0: no instructions
    Serial,   \* the serial and step each order key names
    MaxWants, \* bound: how often what the agent wants changes
    MaxMade,  \* bound: the hand-overs made before the ticker makes no more
    Mixes     \* the events from outside a run admits, each with how often

Key == 0..MaxKey

\* What happens from outside: the combiner restarts, or with its database
\* lost; the agent restarts; its operator forgets the zone's serials; the
\* zone's instructions are gone; an own read; a combine fails; the queue is
\* full, gives a message up, or delivers one again; a word is lost; an edit
\* waits for the operator.
Events == {"start", "lose", "agent", "forget", "gone", "read", "fail", "full",
           "giveup", "again", "lost", "approval"}

ASSUME KeyAssumption == MaxKey \in Nat \ {0} /\ MaxWants \in Nat /\ MaxMade \in Nat
\* Of two order keys the later one names no earlier serial and step.
ASSUME SerialAssumption ==
    /\ Serial \in [Key -> Nat]
    /\ \A k, l \in Key : k <= l => Serial[k] <= Serial[l]
ASSUME MixesAssumption == Mixes \subseteq [Events -> Nat]

\* made orders the hand-overs by when they were made; 0 for what is wanted.
Handover == [key : Key, hold : BOOLEAN, made : Nat, reset : BOOLEAN]
None == [key |-> -1, hold |-> FALSE, made |-> 0, reset |-> FALSE]
MaybeHandover == Handover \cup {None}

\* A serial as a word tells it: -1 for none.
Told == {-1} \cup Nat

\* What is on the queue, and the words that come back; start is the
\* combiner's start report and its repeat.
Message == [kind : {"handover"}, hand : Handover] \cup [kind : {"update"}, upd : Update]
Words ==
    [kind : {"handover"}, made : Nat, ok : BOOLEAN]
    \cup [kind : {"update"}, upd : Update, ok : BOOLEAN, by : Told, acting : Told]
    \cup [kind : {"answer"}, held : MaybeHandover]
    \cup [kind : {"start"}]

Ends == {"open", "done", "refused", "failed", "lost"}

VARIABLES
    my,     \* the agent's handoverTracker, for the zone
    queue,  \* the messages on the queue to the combiner
    words,  \* the combiner's words on their way to the agent
    comb,   \* the combiner: what it holds, and whether it owes a combine
    over,   \* how each update ended, as the agent was told
    zone,   \* what the zone's instructions make the agent want, on disk
    left    \* the updates not yet sent, and the events that may still occur

vars == <<my, queue, words, comb, over, zone, left>>

-----------------------------------------------------------------------------
(* Hand-overs *)

\* sameAs: when either was made, and its flags, do not count.
Same(h, o) == h.key = o.key /\ h.hold = o.hold

\* olderThan.
OlderThan(h, o) ==
    /\ o # None
    /\ IF h.reset \/ h.key = 0 THEN h.made < o.made
       ELSE \/ h.key < o.key
            \/ h.key = o.key /\ ~Same(h, o) /\ h.made < o.made

\* names: the word names what h names.
Names(serial, h) == h # None /\ serial = Serial[h.key]

Acting == IF comb.holds = None THEN -1 ELSE Serial[comb.holds.key]

-----------------------------------------------------------------------------
(* The initial states *)

\* A tracker that knows nothing; time is what the clock says.
NewTracker(clock) ==
    [want |-> None, held |-> None, flight |-> None, reset |-> FALSE,
     waiting |-> <<>>, draining |-> FALSE, sent |-> [u \in Update |-> None],
     passing |-> {}, sending |-> {}, clock |-> clock]

\* How an update ended: not yet; it failed or was lost on the way; or by the
\* final word, which for a refusal keeps the serial it was judged by and the
\* serial the agent then wanted.  loose: it went without a hand-over, as the
\* agent had handed nothing yet, or was delivered twice.
Open == [end |-> "open", by |-> -1, want |-> -1, loose |-> FALSE]

Init ==
    /\ my = NewTracker(0)
    /\ queue = <<>>
    /\ words = {}
    /\ comb = [holds |-> None, owes |-> FALSE, kept |-> {}, judged |-> {}]
    /\ over = [u \in Update |-> Open]
    /\ zone = [wants |-> None, forgot |-> FALSE]
    /\ \E mix \in Mixes :
         left = [mix |-> mix, may |-> {e \in Events : mix[e] > 0},
                 wants |-> MaxWants, fresh |-> Update]

Occurs(event) ==
    /\ left.mix[event] > 0
    /\ left' = [left EXCEPT !.mix[event] = @ - 1]

-----------------------------------------------------------------------------
(* The agent: what it hands over *)

\* dueLocked: the tracker with the hand-over due in flight and to be sent.
Due(m, again) ==
    IF m.want = None \/ Same(m.want, m.held) \/ (~again /\ Same(m.want, m.flight)) THEN m
    ELSE LET h == [m.want EXCEPT !.made = m.clock + 1, !.reset = m.reset]
         IN [m EXCEPT !.flight = h, !.sending = @ \cup {h}, !.clock = @ + 1]

\* handOver.
HandOver(h) ==
    /\ my' = Due([my EXCEPT !.want = h], FALSE)
    /\ UNCHANGED <<queue, words, comb, over>>

\* wantedHandover changes, and the parts are handed it.  The serials rise
\* unless the operator has forgotten them, or the instructions are gone.
Changes(h) ==
    /\ left.wants > 0
    /\ ~Same(h, zone.wants)
    /\ IF h.key = 0 THEN left.mix["gone"] > 0 ELSE h.key >= zone.wants.key \/ zone.forgot
    /\ left' = [left EXCEPT !.wants = @ - 1, !.mix["gone"] = IF h.key = 0 THEN @ - 1 ELSE @]
    /\ zone' = [wants |-> h, forgot |-> FALSE]
    /\ HandOver(h)

\* A refresh hands over what is wanted again.
Refresh ==
    /\ zone.wants \notin {None, my.want}
    /\ HandOver(zone.wants)
    /\ UNCHANGED <<zone, left>>

\* deliver: on the queue, or in flight no more.
Deliver(h) ==
    /\ \/ /\ queue' = Append(queue, [kind |-> "handover", hand |-> h])
          /\ my' = [my EXCEPT !.sending = @ \ {h}]
          /\ UNCHANGED left
       \/ /\ Occurs("full")
          /\ my' = [my EXCEPT !.sending = @ \ {h},
                              !.flight = IF @.made = h.made THEN None ELSE @]
          /\ UNCHANGED queue
    /\ UNCHANGED <<words, comb, over, zone>>

\* forgot, and what the zone's copy still says is handed over, told so.
Forgot ==
    /\ Occurs("forget")
    /\ zone.wants # None
    /\ my' = Due([my EXCEPT !.reset = TRUE, !.held = None, !.want = zone.wants], FALSE)
    /\ zone' = [zone EXCEPT !.forgot = TRUE]
    /\ UNCHANGED <<queue, words, comb, over>>

-----------------------------------------------------------------------------
(* The agent: what may go *)

\* Whether anything may go to the combiner now.
MayGo == my.want # None /\ Same(my.want, my.held)

\* gate: it goes, noted with what the combiner holds, or it waits.  Nothing
\* is noted or held up in a zone the agent has handed nothing.
Gate(u) ==
    /\ u \in left.fresh
    /\ left' = [left EXCEPT !.fresh = @ \ {u}]
    /\ my' = IF my.want = None THEN [my EXCEPT !.passing = @ \cup {u}]
             ELSE IF MayGo /\ ~my.draining /\ my.waiting = <<>>
             THEN [my EXCEPT !.passing = @ \cup {u}, !.sent[u] = my.held]
             ELSE [my EXCEPT !.waiting = Append(@, u)]
    /\ over' = [over EXCEPT ![u].loose = my.want = None]
    /\ UNCHANGED <<queue, words, comb, zone>>

\* enqueueToCombiner, and unsent when the queue is full.
Pass(u) ==
    /\ u \in my.passing
    /\ \/ /\ queue' = Append(queue, [kind |-> "update", upd |-> u])
          /\ my' = [my EXCEPT !.passing = @ \ {u}]
          /\ UNCHANGED <<over, left>>
       \/ /\ Occurs("full")
          /\ my' = [my EXCEPT !.passing = @ \ {u}, !.sent[u] = None]
          /\ over' = [over EXCEPT ![u].end = "failed"]
          /\ UNCHANGED queue
    /\ UNCHANGED <<words, comb, zone>>

\* drain: the first of those that wait is noted as sent ...
DrainTake ==
    LET u == Head(my.waiting)
    IN /\ ~my.draining /\ my.waiting # <<>> /\ MayGo
       /\ my' = [my EXCEPT !.draining = TRUE, !.sent[u] = my.held]
       /\ UNCHANGED <<queue, words, comb, over, zone, left>>

\* ... and queued; one the queue refuses stays first.
DrainEnqueue ==
    LET u == Head(my.waiting)
    IN /\ my.draining
       /\ \/ /\ queue' = Append(queue, [kind |-> "update", upd |-> u])
             /\ my' = [my EXCEPT !.draining = FALSE, !.waiting = Tail(@)]
             /\ UNCHANGED left
          \/ /\ Occurs("full")
             /\ my' = [my EXCEPT !.draining = FALSE, !.sent[u] = None]
             /\ UNCHANGED queue
       /\ UNCHANGED <<words, comb, over, zone>>

-----------------------------------------------------------------------------
(* The agent: what it hears *)

Hears(w) == w \in words /\ words' = words \ {w}

\* A mutant: the word on any hand-over is taken for one on that in flight.
HandoverConfirmedByAny(w) ==
    /\ Hears(w) /\ w.kind = "handover"
    /\ LET h == my.flight
           m == [my EXCEPT !.flight = None]
       IN my' = IF h = None THEN my
                ELSE IF ~w.ok THEN [m EXCEPT !.held = None]
                ELSE Due([m EXCEPT !.held = h, !.reset = @ /\ ~h.reset], FALSE)
    /\ UNCHANGED <<queue, comb, over, zone, left>>

\* confirmation of the hand-over in flight: a success means the combiner
\* holds it; after anything else what it holds is not known.
HandoverConfirmed(w) ==
    /\ Hears(w) /\ w.kind = "handover"
    /\ LET h == my.flight
           m == [my EXCEPT !.flight = None]
       IN my' = IF h = None \/ h.made # w.made THEN my
                ELSE IF ~w.ok THEN [m EXCEPT !.held = None]
                ELSE Due([m EXCEPT !.held = h, !.reset = @ /\ ~h.reset], FALSE)
    /\ UNCHANGED <<queue, comb, over, zone, left>>

\* A mutant: what the combiner judged by does not count.
StaleByWant(w, under) == my.want # None /\ ~Same(my.want, under)

\* stale: the word on an update is not of what the agent wants.
Stale(w, under) ==
    /\ my.want # None
    /\ \/ ~Same(my.want, under)
       \/ w.acting # -1 /\ ~Names(w.acting, under)

\* The word goes on to the engine.
GoesOn(w) ==
    over' = [over EXCEPT ![w.upd] =
      IF @.end # "open" THEN @
      ELSE IF w.ok THEN [@ EXCEPT !.end = "done"]
      ELSE [@ EXCEPT !.end = "refused", !.by = w.by,
                     !.want = IF my.want = None THEN -1 ELSE Serial[my.want.key]]]

\* confirmation of an update: a refusal that is stale has it sent again.
UpdateConfirmed(w) ==
    /\ Hears(w) /\ w.kind = "update"
    /\ LET under == my.sent[w.upd]
       IN IF under # None /\ ~w.ok /\ Stale(w, under)
          THEN /\ my' = [my EXCEPT !.sent[w.upd] = None, !.waiting = Append(@, w.upd)]
               /\ UNCHANGED over
          ELSE /\ my' = [my EXCEPT !.sent[w.upd] = None]
               /\ GoesOn(w)
    /\ UNCHANGED <<queue, comb, zone, left>>

\* learned: the answer to an own read, unless it is older than what is known.
Learned(w) ==
    /\ Hears(w) /\ w.kind = "answer"
    /\ my' = IF my.held # None /\ (w.held = None \/ OlderThan(w.held, my.held)) THEN my
             ELSE Due([my EXCEPT !.held = w.held], FALSE)
    /\ UNCHANGED <<queue, comb, over, zone, left>>

\* combinerStarted, and again: what the combiner holds is not known now.
CombinerStarted(w) ==
    /\ Hears(w) /\ w.kind = "start"
    /\ my' = Due([my EXCEPT !.held = None], TRUE)
    /\ UNCHANGED <<queue, comb, over, zone, left>>

\* Whether a hand-over is on its way, or the word on it: the queue has given
\* it up, or the word is lost, long before it is sent again.
UnderWay(h) ==
    \/ h \in my.sending
    \/ \E i \in DOMAIN queue : queue[i] = [kind |-> "handover", hand |-> h]
    \/ \E w \in words : w.kind = "handover" /\ w.made = h.made

\* A mutant: the ticker leaves alone what is in flight.
TickNotAgain ==
    /\ my.clock < MaxMade
    /\ my' = Due(my, FALSE)
    /\ my' # my
    /\ UNCHANGED <<queue, words, comb, over, zone, left>>

\* tick: hands over again what is not held.
Tick ==
    /\ my.clock < MaxMade
    /\ my.flight = None \/ ~UnderWay(my.flight)
    /\ my' = Due(my, TRUE)
    /\ my' # my
    /\ UNCHANGED <<queue, words, comb, over, zone, left>>

\* Whether an update's word may still come.
Awaited(u) ==
    \/ u \in my.passing
    \/ my.draining /\ u = Head(my.waiting)
    \/ \E i \in DOMAIN queue : queue[i] = [kind |-> "update", upd |-> u]
    \/ \E w \in words : w.kind = "update" /\ w.upd = u
    \/ u \in comb.kept
    \/ \E j \in comb.judged : j.upd = u

\* tick: forgets what was sent a day ago and never answered.
Unanswered(u) ==
    /\ my.sent[u] # None /\ ~Awaited(u)
    /\ my' = [my EXCEPT !.sent[u] = None]
    /\ over' = [over EXCEPT ![u].end = IF @ = "open" THEN "lost" ELSE @]
    /\ UNCHANGED <<queue, words, comb, zone, left>>

\* The agent restarts: what it had in memory is gone.
AgentRestart ==
    /\ Occurs("agent")
    /\ my' = NewTracker(my.clock)
    /\ queue' = <<>>
    /\ over' = [u \in Update |-> IF u \notin left.fresh /\ over[u].end = "open"
                                THEN [over[u] EXCEPT !.end = "lost"] ELSE over[u]]
    /\ UNCHANGED <<words, comb, zone>>

-----------------------------------------------------------------------------
(* The combiner *)

\* The queue may deliver what is first again, while it is unconfirmed.
Delivered ==
    \/ queue' = Tail(queue) /\ UNCHANGED left
    \/ Occurs("again") /\ UNCHANGED queue

\* take: refused when it is older; the same again changes nothing; one of no
\* instructions drops what is held.
Taken(h) == IF h.key = 0 THEN None ELSE h

\* combinerTakeHandover: acted by at once; a combine that fails is owed, and
\* tried at the next hand-over, the same one included.
TakeHandover ==
    /\ queue # <<>> /\ Head(queue).kind = "handover"
    /\ LET h == Head(queue).hand
           older == OlderThan(h, comb.holds)
           changed == ~older /\ ~Same(h, comb.holds) /\ Taken(h) # comb.holds
           combines == changed \/ (~older /\ comb.owes)
           word(ok) == [kind |-> "handover", made |-> h.made, ok |-> ok]
           holds == IF changed THEN Taken(h) ELSE comb.holds
       IN \/ /\ Delivered
             /\ comb' = [comb EXCEPT !.holds = holds, !.owes = @ /\ older]
             /\ words' = words \cup {word(~older)}
          \/ /\ combines /\ Occurs("fail")
             /\ queue' = Tail(queue)
             /\ comb' = [comb EXCEPT !.holds = holds, !.owes = TRUE]
             /\ words' = words \cup {word(FALSE)}
    /\ UNCHANGED <<my, over, zone>>

\* The word on an update, made as the combiner acts by now.
Word(u, ok, by) == [kind |-> "update", upd |-> u, ok |-> ok, by |-> by, acting |-> Acting]

\* Marks an update the queue delivers again.
Twice(u) ==
    over' = [over EXCEPT ![u].loose = @ \/ queue' = queue]

\* CombinerProcessUpdate: taken or refused by what the combiner holds ...
Judge ==
    /\ queue # <<>> /\ Head(queue).kind = "update"
    /\ Delivered /\ Twice(Head(queue).upd)
    /\ \E ok \in BOOLEAN : words' = words \cup {Word(Head(queue).upd, ok, Acting)}
    /\ UNCHANGED <<my, comb, zone>>

\* ... or kept until the operator approves it.
KeepForApproval ==
    /\ queue # <<>> /\ Head(queue).kind = "update"
    /\ Occurs("approval")
    /\ queue' = Tail(queue)
    /\ comb' = [comb EXCEPT !.kept = @ \cup {Head(queue).upd}]
    /\ UNCHANGED <<my, words, over, zone>>

\* The operator's call judges it, beside the combiner's loop ...
Approve(u) ==
    /\ u \in comb.kept
    /\ \E ok \in BOOLEAN :
         comb' = [comb EXCEPT !.kept = @ \ {u},
                              !.judged = @ \cup {[upd |-> u, ok |-> ok, by |-> Acting]}]
    /\ UNCHANGED <<my, queue, words, over, zone, left>>

\* ... and then sends the word.
SendApproval(j) ==
    /\ j \in comb.judged
    /\ comb' = [comb EXCEPT !.judged = @ \ {j}]
    /\ words' = words \cup {Word(j.upd, j.ok, j.by)}
    /\ UNCHANGED <<my, queue, over, zone, left>>

\* reportCombinerStart, at a start that reads what was held, or has lost it.
Starts ==
    /\ \/ Occurs("start") /\ comb' = [comb EXCEPT !.owes = FALSE]
       \/ Occurs("lose") /\ comb' = [comb EXCEPT !.owes = FALSE, !.holds = None]
    /\ words' = words \cup {[kind |-> "start"]}
    /\ UNCHANGED <<my, queue, over, zone>>

\* Its repeat, every minute, while it holds nothing and the zone's copy has
\* a serial.
Waits ==
    /\ comb.holds = None /\ zone.wants.key > 0
    /\ my.held # None \/ my.flight = None
    /\ words' = words \cup {[kind |-> "start"]}
    /\ words' # words
    /\ UNCHANGED <<my, queue, comb, over, zone, left>>

\* The answer to an own read says what it holds.
AnswerRead ==
    /\ Occurs("read")
    /\ words' = words \cup {[kind |-> "answer", held |-> comb.holds]}
    /\ UNCHANGED <<my, queue, comb, over, zone>>

\* The queue gives its first message up; a word is lost.
GiveUp ==
    /\ queue # <<>>
    /\ Occurs("giveup")
    /\ queue' = Tail(queue)
    /\ UNCHANGED <<my, words, comb, over, zone>>

Lost(w) ==
    /\ Occurs("lost")
    /\ Hears(w)
    /\ UNCHANGED <<my, queue, comb, over, zone>>

-----------------------------------------------------------------------------
(* The specification *)

Agent ==
    \/ \E h \in my.sending : Deliver(h)
    \/ \E u \in my.passing : Pass(u)
    \/ DrainTake
    \/ DrainEnqueue
    \/ \E w \in words :
         \/ HandoverConfirmed(w)
         \/ UpdateConfirmed(w)
         \/ Learned(w)
         \/ CombinerStarted(w)
    \/ Refresh
    \/ Tick
    \/ \E u \in Update : Unanswered(u)

Combiner ==
    \/ TakeHandover
    \/ Judge
    \/ \E u \in comb.kept : Approve(u)
    \/ \E j \in comb.judged : SendApproval(j)
    \/ Waits

Outside ==
    \/ \E k \in Key, hold \in BOOLEAN :
         Changes([key |-> k, hold |-> hold, made |-> 0, reset |-> FALSE])
    \/ \E u \in left.fresh : Gate(u)
    \/ Forgot
    \/ AgentRestart
    \/ KeepForApproval
    \/ Starts
    \/ AnswerRead
    \/ GiveUp
    \/ \E w \in words : Lost(w)

Next == Agent \/ Combiner \/ Outside

Spec == Init /\ [][Next]_vars

-----------------------------------------------------------------------------
(* Properties *)

\* Every variable has the type of what it stands for in the code.
TypeOK ==
    /\ my \in [want : MaybeHandover, held : MaybeHandover, flight : MaybeHandover,
              reset : BOOLEAN, waiting : Seq(Update), draining : BOOLEAN,
              sent : [Update -> MaybeHandover], passing : SUBSET Update,
              sending : SUBSET Handover, clock : Nat]
    /\ queue \in Seq(Message)
    /\ words \subseteq Words
    /\ comb \in [holds : MaybeHandover, owes : BOOLEAN, kept : SUBSET Update,
                judged : SUBSET [upd : Update, ok : BOOLEAN, by : Told]]
    /\ over \in [Update -> [end : Ends, by : Told, want : Told, loose : BOOLEAN]]
    /\ zone \in [wants : MaybeHandover, forgot : BOOLEAN]
    /\ left \in [mix : [Events -> Nat], may : SUBSET Events, wants : Nat, fresh : SUBSET Update]

\* The order keys the agent hands over only rise, and none takes one back.
Rises == left.may \cap {"forget", "gone"} = {}

\* The agent takes its combiner to hold no more than it holds (gate,
\* confirmation, learned): what lets an update go was held, or is surpassed,
\* in a zone in which no hand-over held is lost or taken back.
Keeps == Rises /\ "lose" \notin left.may
HeldIsHeld == Keeps => my.held.key <= comb.holds.key

\* A refusal that goes on to the engine was judged by the serial the agent
\* wants (confirmation): no update is given up for what an older or a newer
\* serial says of it.  An approval is judged before its word is made, and must
\* not be the word of a combiner that has been handed an older serial since.
RefusedByTheWanted ==
    Keeps \/ "approval" \notin left.may =>
      \A u \in Update : over[u].end = "refused" /\ ~over[u].loose /\ over[u].by # -1
        => over[u].by = over[u].want

-----------------------------------------------------------------------------
(* Liveness *)

\* The agent's and the combiner's goroutines go on, each on its own.
FairSpec ==
    /\ Spec
    /\ WF_vars(\E h \in my.sending : Deliver(h))
    /\ WF_vars(\E u \in my.passing : Pass(u))
    /\ WF_vars(DrainTake \/ DrainEnqueue)
    /\ WF_vars(\E w \in words : HandoverConfirmed(w))
    /\ WF_vars(\E w \in words : UpdateConfirmed(w))
    /\ WF_vars(\E w \in words : Learned(w))
    /\ WF_vars(\E w \in words : CombinerStarted(w))
    /\ WF_vars(Refresh)
    /\ WF_vars(Tick)
    /\ WF_vars(\E u \in Update : Unanswered(u))
    /\ WF_vars(TakeHandover \/ Judge)
    /\ WF_vars(\E u \in comb.kept : Approve(u))
    /\ WF_vars(\E j \in comb.judged : SendApproval(j))
    /\ WF_vars(Waits)

HoldsWanted ==
    /\ comb.holds.key = IF zone.wants.key = 0 THEN -1 ELSE zone.wants.key
    /\ comb.owes => "read" \in left.may

\* The combiner comes to act by the order key its agent wants, where the
\* keys rise, and every update that was noted ends (tick, drain).
ComesToHold ==
    Rises => <>[](HoldsWanted /\ \A u \in Update \ left.fresh : over[u].end # "open" \/ over[u].loose)

=============================================================================
