--------------------------- MODULE HandoverProofs ---------------------------
(***************************************************************************)
(* What an agent takes its combiner to hold, and what it makes of the      *)
(* combiner's refusals, proved for any number of updates, order keys,      *)
(* changes and events.                                                     *)
(*                                                                         *)
(* Two inductive invariants follow one another.  The first (Held) says     *)
(* that what was made to hand over is told apart by when it was made, so   *)
(* that a word of success on what is in flight is of what is in flight.    *)
(* The second (Noted) says that an update is in one place at a time, with  *)
(* the note of what it was let go under, so that the word on it meets that *)
(* note; what it was judged by then lies between the note and what the     *)
(* word says the combiner acts by.                                         *)
(***************************************************************************)
EXTENDS Handover, SequenceTheorems, TLAPS

-----------------------------------------------------------------------------
(* The invariants *)

\* What drains is the first of those that wait.
Drains == my.draining => my.waiting # <<>>

\* What may not happen in a behaviour has no occurrence left.
Spent == \A e \in Events \ left.may : left.mix[e] = 0

\* Where the keys rise nothing is taken back: every hand-over names a key.
NamesAKey(h) == h.key >= 1 /\ ~h.reset

\* What is in flight at tracker m is known by when it was made.
Known(m, h) == h.made <= m.clock /\ (m.flight # None /\ h.made = m.flight.made => h = m.flight)

Rising(m) ==
    /\ ~m.reset
    /\ m.want = None \/ m.want.key >= 1
    /\ m.flight = None \/ NamesAKey(m.flight)
    /\ m.flight.made <= m.clock
    /\ \A h \in m.sending : NamesAKey(h) /\ Known(m, h)

RisingQueue(m, q) ==
    \A i \in DOMAIN q : q[i].kind = "handover" => NamesAKey(q[i].hand) /\ Known(m, q[i].hand)

\* What the combiner has said it holds, it holds or has surpassed.
SaidIsHeld(m, ws, key) ==
    \A w \in ws :
      /\ w.kind = "handover" =>
           /\ w.made <= m.clock
           /\ w.ok /\ m.flight # None /\ w.made = m.flight.made => m.flight.key <= key
      /\ w.kind = "answer" => w.held.key <= key

Held ==
    /\ zone.wants = None \/ zone.wants.key >= 1
    /\ ~zone.forgot
    /\ Rising(my)
    /\ RisingQueue(my, queue)
    /\ SaidIsHeld(my, words, comb.holds.key)
    /\ my.held.key <= comb.holds.key

\* The first invariant.
Knows == TypeOK /\ Drains /\ Spent /\ (Keeps => Held)

\* Where an update is.
Has(s, x) == \E i \in DOMAIN s : s[i] = x
Once(s, x) == \A i, j \in DOMAIN s : s[i] = x /\ s[j] = x => i = j
Upd(u) == [kind |-> "update", upd |-> u]
Answered(u) == \E w \in words : w.kind = "update" /\ w.upd = u
Judged(u) == \E j \in comb.judged : j.upd = u
AtCombiner(u) == Has(queue, Upd(u)) \/ u \in comb.kept \/ Judged(u) \/ Answered(u)

\* One that was never sent is nowhere; one that has not ended, and was not
\* delivered twice, is in one place.
Nowhere(u) == u \notin my.passing /\ ~Has(my.waiting, u) /\ ~AtCombiner(u) /\ my.sent[u] = None

OnePlace(u) ==
    /\ Once(my.waiting, u) /\ Once(queue, Upd(u))
    /\ u \in my.passing => ~Has(my.waiting, u) /\ ~AtCombiner(u)
    /\ Has(my.waiting, u) => ~AtCombiner(u)
    /\ Has(queue, Upd(u)) => u \notin comb.kept /\ ~Judged(u) /\ ~Answered(u)
    /\ u \in comb.kept => ~Judged(u) /\ ~Answered(u)
    /\ Judged(u) => ~Answered(u)
    /\ \A v, w \in words : v.kind = "update" /\ w.kind = "update" /\ v.upd = u /\ w.upd = u => v = w
    /\ \A i, j \in comb.judged : i.upd = u /\ j.upd = u => i = j

\* It has the note of what it was let go under.
HasNote(u) ==
    /\ u \in my.passing \/ AtCombiner(u) => my.sent[u] # None
    /\ Has(my.waiting, u) => (my.sent[u] # None <=> my.draining /\ u = Head(my.waiting))

Underway(u) == over[u].end = "open" /\ ~over[u].loose

Noted ==
    /\ \A u \in left.fresh : Nowhere(u) /\ over[u].end = "open" /\ ~over[u].loose
    /\ \A u \in Update : Underway(u) => OnePlace(u) /\ HasNote(u)
    /\ my.want = None => \A u \in Update : my.sent[u] = None

\* What it was judged by lies between what it was let go under and what the
\* combiner then acts by.
JudgedBetween ==
    /\ \A u \in Update : my.sent[u].key <= comb.holds.key
    /\ \A j \in comb.judged : Underway(j.upd) /\ j.by # -1 =>
         Serial[my.sent[j.upd].key] <= j.by /\ j.by <= Acting
    /\ \A w \in words : w.kind = "update" /\ Underway(w.upd) /\ w.by # -1 =>
         w.acting # -1 /\ Serial[my.sent[w.upd].key] <= w.by /\ w.by <= w.acting

\* Where nothing waits for the operator the word says what it was judged by.
JudgedAtOnce ==
    /\ comb.kept = {} /\ comb.judged = {}
    /\ \A w \in words : w.kind = "update" => w.by = w.acting

\* The second invariant.
NoApproval == "approval" \notin left.may

Inductive ==
    /\ Drains /\ Spent
    /\ Keeps => Held
    /\ Noted
    /\ Keeps => JudgedBetween
    /\ NoApproval => JudgedAtOnce
    /\ RefusedByTheWanted

-----------------------------------------------------------------------------
(* Types *)

Tracker ==
    [want : MaybeHandover, held : MaybeHandover, flight : MaybeHandover,
     reset : BOOLEAN, waiting : Seq(Update), draining : BOOLEAN,
     sent : [Update -> MaybeHandover], passing : SUBSET Update,
     sending : SUBSET Handover, clock : Nat]

\* The tracker with a hand-over made.
WithMade(m, h) == [m EXCEPT !.flight = h, !.sending = @ \cup {h}, !.clock = @ + 1]

\* What is due is the wanted, made now.
LEMMA DueFacts ==
    ASSUME NEW m \in Tracker, NEW again \in BOOLEAN
    PROVE  \/ Due(m, again) = m
           \/ \E h \in Handover :
                /\ m.want # None
                /\ h.key = m.want.key /\ h.reset = m.reset /\ h.made = m.clock + 1
                /\ Due(m, again) = WithMade(m, h)
<1> DEFINE h == [m.want EXCEPT !.made = m.clock + 1, !.reset = m.reset]
<1>1. CASE m.want = None \/ Same(m.want, m.held) \/ (~again /\ Same(m.want, m.flight))
  BY <1>1 DEF Due
<1>2. CASE ~(m.want = None \/ Same(m.want, m.held) \/ (~again /\ Same(m.want, m.flight)))
  <2>1. m.want \in Handover /\ m.clock + 1 \in Nat /\ m.reset \in BOOLEAN
    BY <1>2 DEF Tracker, MaybeHandover
  <2>2. h \in Handover /\ h.key = m.want.key /\ h.reset = m.reset /\ h.made = m.clock + 1
    BY <2>1 DEF Handover
  <2>3. Due(m, again) = WithMade(m, h)
    BY <1>2 DEF Due, WithMade
  <2> QED
    BY <1>2, <2>2, <2>3
<1> QED
  BY <1>1, <1>2

\* All else stays.
LEMMA DueKeeps ==
    ASSUME NEW m \in Tracker, NEW again \in BOOLEAN
    PROVE  /\ Due(m, again).want = m.want /\ Due(m, again).held = m.held
           /\ Due(m, again).reset = m.reset /\ Due(m, again).waiting = m.waiting
           /\ Due(m, again).draining = m.draining /\ Due(m, again).sent = m.sent
           /\ Due(m, again).passing = m.passing
<1> DEFINE d == Due(m, again)
<1>1. ASSUME NEW h \in Handover
      PROVE  /\ WithMade(m, h).want = m.want /\ WithMade(m, h).held = m.held
             /\ WithMade(m, h).reset = m.reset /\ WithMade(m, h).waiting = m.waiting
             /\ WithMade(m, h).draining = m.draining /\ WithMade(m, h).sent = m.sent
             /\ WithMade(m, h).passing = m.passing
  BY DEF WithMade, Tracker
<1>2. d = m \/ \E h \in Handover : d = WithMade(m, h)
  BY DueFacts
<1> HIDE DEF d
<1> QED
  BY <1>1, <1>2 DEF d

\* A tracker stays one.
LEMMA DueType ==
    ASSUME NEW m \in Tracker, NEW again \in BOOLEAN
    PROVE  Due(m, again) \in Tracker
<1>1. CASE Due(m, again) = m
  BY <1>1
<1>2. ASSUME NEW h \in Handover PROVE WithMade(m, h) \in Tracker
  <2>1. m.clock + 1 \in Nat /\ m.sending \cup {h} \in SUBSET Handover /\ h \in MaybeHandover
    BY DEF Tracker, MaybeHandover
  <2> QED
    BY <2>1 DEF Tracker, WithMade
<1> QED
  BY <1>1, <1>2, DueFacts

LEMMA NewTrackerType == ASSUME NEW clock \in Nat PROVE NewTracker(clock) \in Tracker
BY DEF NewTracker, Tracker, MaybeHandover

LEMMA NoneFacts == None.key = -1 /\ None \in MaybeHandover /\ None \notin Handover
BY KeyAssumption DEF None, MaybeHandover, Handover, Key

LEMMA OccursType ==
    ASSUME TypeOK, NEW e \in Events, Occurs(e)
    PROVE  left' \in [mix : [Events -> Nat], may : SUBSET Events, wants : Nat, fresh : SUBSET Update]
<1>1. left.mix[e] - 1 \in Nat
  BY DEF TypeOK, Occurs
<1> QED
  BY <1>1 DEF TypeOK, Occurs

LEMMA ActingType == TypeOK => Acting \in Told
BY SerialAssumption DEF TypeOK, Acting, Told, MaybeHandover, Handover

LEMMA TypeInit == Init => TypeOK
<1> SUFFICES ASSUME Init PROVE TypeOK
  OBVIOUS
<1>1. my \in Tracker
  BY NewTrackerType DEF Init
<1>2. over \in [Update -> [end : Ends, by : Told, want : Told, loose : BOOLEAN]]
  BY DEF Init, Open, Ends, Told
<1>3. PICK mix \in Mixes :
        left = [mix |-> mix, may |-> {e \in Events : mix[e] > 0}, wants |-> MaxWants, fresh |-> Update]
  BY DEF Init
<1>4. left \in [mix : [Events -> Nat], may : SUBSET Events, wants : Nat, fresh : SUBSET Update]
  BY <1>3, MixesAssumption, KeyAssumption
<1> QED
  BY <1>1, <1>2, <1>4, NoneFacts DEF Init, TypeOK, Tracker

Left == [mix : [Events -> Nat], may : SUBSET Events, wants : Nat, fresh : SUBSET Update]
Ended == [end : Ends, by : Told, want : Told, loose : BOOLEAN]
Part == [holds : MaybeHandover, owes : BOOLEAN, kept : SUBSET Update,
         judged : SUBSET [upd : Update, ok : BOOLEAN, by : Told]]

\* TypeOK by the names of the types.
LEMMA TypesByName ==
    TypeOK <=>
      /\ my \in Tracker /\ queue \in Seq(Message) /\ words \subseteq Words /\ comb \in Part
      /\ over \in [Update -> Ended] /\ zone \in [wants : MaybeHandover, forgot : BOOLEAN] /\ left \in Left
BY DEF TypeOK, Tracker, Part, Ended, Left

LEMMA TypesByNamePrimed ==
    TypeOK' <=>
      /\ my' \in Tracker /\ queue' \in Seq(Message) /\ words' \subseteq Words /\ comb' \in Part
      /\ over' \in [Update -> Ended] /\ zone' \in [wants : MaybeHandover, forgot : BOOLEAN] /\ left' \in Left
BY DEF TypeOK, Tracker, Part, Ended, Left

\* The wanted and the rest of the tracker's fields, set to what they may be.
LEMMA TrackerSet ==
    ASSUME NEW m \in Tracker, NEW h \in MaybeHandover, NEW u \in Update
    PROVE  /\ [m EXCEPT !.want = h] \in Tracker
           /\ [m EXCEPT !.reset = TRUE, !.held = None, !.want = h] \in Tracker
           /\ [m EXCEPT !.held = h] \in Tracker
           /\ [m EXCEPT !.flight = None] \in Tracker
           /\ [m EXCEPT !.passing = @ \cup {u}] \in Tracker
           /\ [m EXCEPT !.passing = @ \cup {u}, !.sent[u] = h] \in Tracker
           /\ [m EXCEPT !.passing = @ \ {u}] \in Tracker
           /\ [m EXCEPT !.passing = @ \ {u}, !.sent[u] = None] \in Tracker
           /\ [m EXCEPT !.waiting = Append(@, u)] \in Tracker
           /\ [m EXCEPT !.sent[u] = None, !.waiting = Append(@, u)] \in Tracker
           /\ [m EXCEPT !.sent[u] = None] \in Tracker
           /\ [m EXCEPT !.draining = TRUE, !.sent[u] = h] \in Tracker
           /\ [m EXCEPT !.draining = FALSE, !.sent[u] = None] \in Tracker
           /\ m.waiting # <<>> => [m EXCEPT !.draining = FALSE, !.waiting = Tail(@)] \in Tracker
<1>1. m.sent \in [Update -> MaybeHandover] /\ m.waiting \in Seq(Update) /\ m.passing \in SUBSET Update
  BY DEF Tracker
<1>2. \A x \in MaybeHandover : [m.sent EXCEPT ![u] = x] \in [Update -> MaybeHandover]
  BY <1>1
<1>3. /\ m.passing \cup {u} \in SUBSET Update /\ m.passing \ {u} \in SUBSET Update
      /\ Append(m.waiting, u) \in Seq(Update)
      /\ m.waiting # <<>> => Tail(m.waiting) \in Seq(Update)
  BY <1>1
<1>4. /\ [m EXCEPT !.want = h] \in Tracker
      /\ [m EXCEPT !.reset = TRUE, !.held = None, !.want = h] \in Tracker
      /\ [m EXCEPT !.held = h] \in Tracker
      /\ [m EXCEPT !.flight = None] \in Tracker
  BY NoneFacts DEF Tracker
<1>5. /\ [m EXCEPT !.passing = @ \cup {u}] \in Tracker
      /\ [m EXCEPT !.passing = @ \cup {u}, !.sent[u] = h] \in Tracker
      /\ [m EXCEPT !.passing = @ \ {u}] \in Tracker
      /\ [m EXCEPT !.passing = @ \ {u}, !.sent[u] = None] \in Tracker
  BY <1>2, <1>3, NoneFacts DEF Tracker
<1>6. /\ [m EXCEPT !.waiting = Append(@, u)] \in Tracker
      /\ [m EXCEPT !.sent[u] = None, !.waiting = Append(@, u)] \in Tracker
      /\ [m EXCEPT !.sent[u] = None] \in Tracker
  BY <1>2, <1>3, NoneFacts DEF Tracker
<1>7. /\ [m EXCEPT !.draining = TRUE, !.sent[u] = h] \in Tracker
      /\ [m EXCEPT !.draining = FALSE, !.sent[u] = None] \in Tracker
      /\ m.waiting # <<>> => [m EXCEPT !.draining = FALSE, !.waiting = Tail(@)] \in Tracker
  BY <1>2, <1>3, NoneFacts DEF Tracker
<1> QED
  BY <1>4, <1>5, <1>6, <1>7

\* A message and a word of each kind are what they should be.
LEMMA MessageTypes ==
    /\ \A h \in Handover : [kind |-> "handover", hand |-> h] \in Message
    /\ \A u \in Update : [kind |-> "update", upd |-> u] \in Message
    /\ \A m \in Message : m.kind = "handover" => m.hand \in Handover
    /\ \A m \in Message : m.kind = "update" => m.upd \in Update
    /\ \A m \in Message : m.kind \in {"handover", "update"}
BY DEF Message

LEMMA WordTypes ==
    /\ \A n \in Nat, ok \in BOOLEAN : [kind |-> "handover", made |-> n, ok |-> ok] \in Words
    /\ \A u \in Update, ok \in BOOLEAN, by \in Told, acting \in Told :
         [kind |-> "update", upd |-> u, ok |-> ok, by |-> by, acting |-> acting] \in Words
    /\ \A h \in MaybeHandover : [kind |-> "answer", held |-> h] \in Words
    /\ [kind |-> "start"] \in Words
    /\ \A w \in Words : w.kind = "update" => w.upd \in Update /\ w.ok \in BOOLEAN /\ w.by \in Told /\ w.acting \in Told
    /\ \A w \in Words : w.kind = "answer" => w.held \in MaybeHandover
    /\ \A w \in Words : w.kind = "handover" => w.made \in Nat /\ w.ok \in BOOLEAN
BY DEF Words

LEMMA HandOverType ==
    ASSUME TypeOK, NEW h \in MaybeHandover, HandOver(h)
    PROVE  my' \in Tracker
<1>1. my \in Tracker
  BY TypesByName
<1>2. PICK u : u = my
  OBVIOUS
<1>3. [my EXCEPT !.want = h] \in Tracker
  BY <1>1 DEF Tracker
<1> QED
  BY <1>3, DueType DEF HandOver

LEMMA AgentTypes ==
    ASSUME TypeOK, Drains, Agent
    PROVE  TypeOK'
<1> USE TypesByName, TypesByNamePrimed
<1>t. my \in Tracker /\ words \subseteq Words /\ queue \in Seq(Message)
  OBVIOUS
<1>1. ASSUME NEW h \in my.sending, Deliver(h) PROVE TypeOK'
  <2>1. h \in Handover /\ my.sending \ {h} \in SUBSET Handover /\ my.flight \in MaybeHandover
    BY <1>t DEF Tracker
  <2>2. [my EXCEPT !.sending = @ \ {h}] \in Tracker
    BY <1>t, <2>1 DEF Tracker
  <2>3. [my EXCEPT !.sending = @ \ {h}, !.flight = IF @.made = h.made THEN None ELSE @] \in Tracker
    BY <1>t, <2>1, NoneFacts DEF Tracker
  <2>4. Append(queue, [kind |-> "handover", hand |-> h]) \in Seq(Message)
    BY <1>t, <2>1, MessageTypes
  <2>5. Occurs("full") => left' \in Left
    BY OccursType DEF Events, Left
  <2> QED
    BY <1>1, <2>2, <2>3, <2>4, <2>5 DEF Deliver
<1>2. ASSUME NEW u \in my.passing, Pass(u) PROVE TypeOK'
  <2>1. u \in Update
    BY <1>t DEF Tracker
  <2>2. Append(queue, [kind |-> "update", upd |-> u]) \in Seq(Message)
    BY <1>t, <2>1, MessageTypes
  <2>3. Occurs("full") => left' \in Left
    BY OccursType DEF Events, Left
  <2>4. [over EXCEPT ![u].end = "failed"] \in [Update -> Ended]
    BY <2>1 DEF Ended, Ends
  <2> QED
    <3>1. /\ [my EXCEPT !.passing = @ \ {u}] \in Tracker
          /\ [my EXCEPT !.passing = @ \ {u}, !.sent[u] = None] \in Tracker
      BY <1>t, <2>1, TrackerSet, NoneFacts
    <3> QED
      BY <1>2, <2>2, <2>3, <2>4, <3>1 DEF Pass
<1>3. ASSUME DrainTake PROVE TypeOK'
  <2>1. Head(my.waiting) \in Update /\ my.held \in MaybeHandover
    BY <1>3, <1>t DEF DrainTake, Tracker
  <2> QED
    BY <1>3, <1>t, <2>1, TrackerSet DEF DrainTake
<1>4. ASSUME DrainEnqueue PROVE TypeOK'
  <2>1. Head(my.waiting) \in Update /\ my.waiting # <<>>
    BY <1>4, <1>t DEF DrainEnqueue, Drains, Tracker
  <2>2. Append(queue, [kind |-> "update", upd |-> Head(my.waiting)]) \in Seq(Message)
    BY <1>t, <2>1, MessageTypes
  <2>3. Occurs("full") => left' \in Left
    BY OccursType DEF Events, Left
  <2>4. /\ [my EXCEPT !.draining = FALSE, !.waiting = Tail(@)] \in Tracker
        /\ [my EXCEPT !.draining = FALSE, !.sent[Head(my.waiting)] = None] \in Tracker
    BY <1>t, <2>1, TrackerSet, NoneFacts
  <2> QED
    BY <1>4, <2>2, <2>3, <2>4 DEF DrainEnqueue
<1>5. ASSUME NEW w \in words, HandoverConfirmed(w) PROVE TypeOK'
  <2> DEFINE m == [my EXCEPT !.flight = None]
  <2>1. my.flight \in MaybeHandover /\ my.reset \in BOOLEAN
    BY <1>t DEF Tracker
  <2>2. m \in Tracker /\ [m EXCEPT !.held = None] \in Tracker
    BY <1>t, NoneFacts DEF Tracker
  <2>3. ASSUME my.flight # None
        PROVE  [m EXCEPT !.held = my.flight, !.reset = @ /\ ~my.flight.reset] \in Tracker
    <3>1. (m.reset /\ ~my.flight.reset) \in BOOLEAN
      OBVIOUS
    <3> QED
      BY <2>1, <2>2, <3>1 DEF Tracker
  <2>4. my' \in Tracker
    BY <1>5, <1>t, <2>2, <2>3, DueType DEF HandoverConfirmed
  <2> QED
    BY <1>5, <2>4 DEF HandoverConfirmed, Hears
<1>6. ASSUME NEW w \in words, UpdateConfirmed(w) PROVE TypeOK'
  <2>1. w.upd \in Update /\ w.by \in Told
    BY <1>6, <1>t, WordTypes DEF UpdateConfirmed
  <2>2. GoesOn(w) => over' \in [Update -> Ended]
    <3>1. over[w.upd] \in Ended
      BY <2>1
    <3>2. (IF my.want = None THEN -1 ELSE Serial[my.want.key]) \in Told
      BY <1>t, SerialAssumption DEF Tracker, MaybeHandover, Handover, Told
    <3>3. /\ [over[w.upd] EXCEPT !.end = "done"] \in Ended
          /\ [over[w.upd] EXCEPT !.end = "refused", !.by = w.by,
                     !.want = IF my.want = None THEN -1 ELSE Serial[my.want.key]] \in Ended
      BY <2>1, <3>1, <3>2 DEF Ended, Ends
    <3> QED
      BY <2>1, <3>1, <3>3 DEF GoesOn
  <2> QED
    <3>1. /\ [my EXCEPT !.sent[w.upd] = None, !.waiting = Append(@, w.upd)] \in Tracker
          /\ [my EXCEPT !.sent[w.upd] = None] \in Tracker
      BY <1>t, <2>1, TrackerSet, NoneFacts
    <3>2. my' \in Tracker /\ over' \in [Update -> Ended] /\ words' \subseteq Words
      BY <1>6, <1>t, <2>2, <3>1 DEF UpdateConfirmed, Hears
    <3> QED
      BY <1>6, <3>2 DEF UpdateConfirmed
<1>7. ASSUME NEW w \in words, Learned(w) PROVE TypeOK'
  <2>1. w.held \in MaybeHandover
    BY <1>7, <1>t, WordTypes DEF Learned
  <2>2. [my EXCEPT !.held = w.held] \in Tracker
    BY <1>t, <2>1 DEF Tracker
  <2> QED
    BY <1>7, <1>t, <2>2, DueType DEF Learned, Hears
<1>8. ASSUME NEW w \in words, CombinerStarted(w) PROVE TypeOK'
  <2>1. [my EXCEPT !.held = None] \in Tracker
    BY <1>t, NoneFacts DEF Tracker
  <2> QED
    BY <1>8, <2>1, DueType DEF CombinerStarted, Hears
<1>9. ASSUME Refresh PROVE TypeOK'
  BY <1>9, HandOverType DEF Refresh, HandOver
<1>10. ASSUME Tick PROVE TypeOK'
  BY <1>10, <1>t, DueType DEF Tick
<1>11. ASSUME NEW u \in Update, Unanswered(u) PROVE TypeOK'
  <2>1. [over EXCEPT ![u].end = IF @ = "open" THEN "lost" ELSE @] \in [Update -> Ended]
    <3>1. over[u] \in Ended
      OBVIOUS
    <3> QED
      BY <3>1 DEF Ended, Ends
  <2> QED
    BY <1>11, <1>t, <2>1, TrackerSet, NoneFacts DEF Unanswered
<1> QED
  BY <1>1, <1>2, <1>3, <1>4, <1>5, <1>6, <1>7, <1>8, <1>9, <1>10, <1>11 DEF Agent

LEMMA CombinerTypes ==
    ASSUME TypeOK, Combiner
    PROVE  TypeOK'
<1> USE TypesByName, TypesByNamePrimed
<1>t. words \subseteq Words /\ queue \in Seq(Message) /\ comb \in Part
  OBVIOUS
<1>1. ASSUME Delivered, queue # <<>> PROVE queue' \in Seq(Message) /\ left' \in Left
  <2>1. Tail(queue) \in Seq(Message)
    BY <1>t, <1>1
  <2>2. Occurs("again") => left' \in Left
    BY OccursType DEF Events, Left
  <2> QED
    BY <1>1, <1>t, <2>1, <2>2 DEF Delivered
<1>2. ASSUME TakeHandover PROVE TypeOK'
  <2> DEFINE h == Head(queue).hand
  <2>1. Head(queue) \in Message /\ queue # <<>> /\ Head(queue).kind = "handover"
    BY <1>2, <1>t DEF TakeHandover
  <2>2. h \in Handover
    BY <2>1, MessageTypes
  <2>3. Taken(h) \in MaybeHandover /\ h.made \in Nat
    BY <2>2, NoneFacts DEF Taken, MaybeHandover, Handover
  <2>4. \A holds \in MaybeHandover, owes \in BOOLEAN : [comb EXCEPT !.holds = holds, !.owes = owes] \in Part
    BY <1>t DEF Part
  <2>5. /\ words' \subseteq Words
        /\ \E holds \in MaybeHandover, owes \in BOOLEAN : comb' = [comb EXCEPT !.holds = holds, !.owes = owes]
    <3>1. \A ok \in BOOLEAN : [kind |-> "handover", made |-> h.made, ok |-> ok] \in Words
      BY <2>3, WordTypes
    <3>2. comb.holds \in MaybeHandover /\ comb.owes \in BOOLEAN
      BY <1>t DEF Part
    <3> HIDE DEF h
    <3>3. PICK older, changed \in BOOLEAN :
            \/ /\ comb' = [comb EXCEPT !.holds = IF changed THEN Taken(h) ELSE comb.holds, !.owes = @ /\ older]
               /\ words' = words \cup {[kind |-> "handover", made |-> h.made, ok |-> ~older]}
            \/ /\ comb' = [comb EXCEPT !.holds = IF changed THEN Taken(h) ELSE comb.holds, !.owes = TRUE]
               /\ words' = words \cup {[kind |-> "handover", made |-> h.made, ok |-> FALSE]}
      <4> DEFINE older == OlderThan(h, comb.holds)
                 changed == ~older /\ ~Same(h, comb.holds) /\ Taken(h) # comb.holds
      <4>1. older \in BOOLEAN /\ changed \in BOOLEAN
        BY DEF OlderThan
      <4>2. \/ /\ comb' = [comb EXCEPT !.holds = IF changed THEN Taken(h) ELSE comb.holds, !.owes = @ /\ older]
               /\ words' = words \cup {[kind |-> "handover", made |-> h.made, ok |-> ~older]}
            \/ /\ comb' = [comb EXCEPT !.holds = IF changed THEN Taken(h) ELSE comb.holds, !.owes = TRUE]
               /\ words' = words \cup {[kind |-> "handover", made |-> h.made, ok |-> FALSE]}
        BY <1>2 DEF TakeHandover, h
      <4> QED
        BY <4>1, <4>2
    <3>4. (IF changed THEN Taken(h) ELSE comb.holds) \in MaybeHandover /\ (comb.owes /\ older) \in BOOLEAN
      BY <2>3, <3>2
    <3> QED
      BY <1>t, <3>1, <3>3, <3>4
  <2>6. queue' \in Seq(Message) /\ left' \in Left
    <3>1. Delivered \/ (Occurs("fail") /\ queue' = Tail(queue))
      BY <1>2 DEF TakeHandover
    <3>2. Occurs("fail") => left' \in Left
      BY OccursType DEF Events, Left
    <3>3. Tail(queue) \in Seq(Message)
      BY <1>t, <2>1
    <3> QED
      BY <1>1, <2>1, <3>1, <3>2, <3>3
  <2> QED
    <3>1. UNCHANGED <<my, over, zone>>
      BY <1>2 DEF TakeHandover
    <3>2. comb' \in Part
      BY <2>4, <2>5
    <3> QED
      BY <2>5, <2>6, <3>1, <3>2
<1>3. ASSUME Judge PROVE TypeOK'
  <2>1. Head(queue) \in Message /\ queue # <<>> /\ Head(queue).kind = "update" /\ Delivered
    BY <1>3, <1>t DEF Judge
  <2>2. Head(queue).upd \in Update
    BY <2>1, MessageTypes
  <2>3. words' \subseteq Words
    BY <1>3, <1>t, <2>2, ActingType, WordTypes DEF Judge, Word
  <2>4. over' \in [Update -> Ended]
    <3>1. over[Head(queue).upd] \in Ended /\ Twice(Head(queue).upd)
      BY <1>3, <2>2 DEF Judge
    <3>2. [over[Head(queue).upd] EXCEPT !.loose = @ \/ queue' = queue] \in Ended
      BY <3>1 DEF Ended
    <3> QED
      BY <3>1, <3>2 DEF Twice
  <2> QED
    BY <1>1, <1>3, <2>1, <2>3, <2>4 DEF Judge
<1>4. ASSUME NEW u \in comb.kept, Approve(u) PROVE TypeOK'
  <2>1. u \in Update /\ comb.kept \ {u} \in SUBSET Update
    BY <1>t DEF Part
  <2>2. PICK ok \in BOOLEAN :
          comb' = [comb EXCEPT !.kept = @ \ {u}, !.judged = @ \cup {[upd |-> u, ok |-> ok, by |-> Acting]}]
    BY <1>4 DEF Approve
  <2>3. comb.judged \cup {[upd |-> u, ok |-> ok, by |-> Acting]} \in SUBSET [upd : Update, ok : BOOLEAN, by : Told]
    BY <1>t, <2>1, ActingType DEF Part
  <2>4. comb' \in Part
    BY <1>t, <2>1, <2>2, <2>3 DEF Part
  <2> QED
    BY <1>4, <2>4 DEF Approve
<1>5. ASSUME NEW j \in comb.judged, SendApproval(j) PROVE TypeOK'
  <2>1. j \in [upd : Update, ok : BOOLEAN, by : Told] /\ comb.judged \ {j} \in SUBSET [upd : Update, ok : BOOLEAN, by : Told]
    BY <1>t DEF Part
  <2>2. comb' \in Part
    BY <1>5, <1>t, <2>1 DEF SendApproval, Part
  <2>3. words' \subseteq Words
    BY <1>5, <1>t, <2>1, ActingType, WordTypes DEF SendApproval, Word
  <2> QED
    BY <1>5, <2>2, <2>3 DEF SendApproval
<1>6. ASSUME Waits PROVE TypeOK'
  BY <1>6, <1>t, WordTypes DEF Waits
<1> QED
  BY <1>2, <1>3, <1>4, <1>5, <1>6 DEF Combiner

LEMMA OutsideTypes ==
    ASSUME TypeOK, Outside
    PROVE  TypeOK'
<1> USE TypesByName, TypesByNamePrimed
<1>t. my \in Tracker /\ words \subseteq Words /\ queue \in Seq(Message) /\ comb \in Part /\ left \in Left
  OBVIOUS
<1>o. \A e \in Events : Occurs(e) => left' \in Left
  BY OccursType DEF Left
<1>1. ASSUME NEW k \in Key, NEW hold \in BOOLEAN,
             Changes([key |-> k, hold |-> hold, made |-> 0, reset |-> FALSE])
      PROVE  TypeOK'
  <2> DEFINE h == [key |-> k, hold |-> hold, made |-> 0, reset |-> FALSE]
  <2>1. h \in Handover /\ h \in MaybeHandover /\ h.key = k
    BY DEF Handover, MaybeHandover
  <2> HIDE DEF h
  <2>2. my' \in Tracker
    BY <1>1, <2>1, HandOverType DEF Changes, h
  <2>3. left' \in Left
    <3>1. left.wants - 1 \in Nat /\ "gone" \in Events
      BY <1>1, <1>t DEF Changes, Left, Events
    <3>2. left.mix \in [Events -> Nat] /\ (k = 0 => left.mix["gone"] > 0)
      BY <1>1, <1>t DEF Changes, Left
    <3>3. (IF k = 0 THEN left.mix["gone"] - 1 ELSE left.mix["gone"]) \in Nat
      BY <3>1, <3>2
    <3>4. left' = [left EXCEPT !.wants = left.wants - 1,
                               !.mix["gone"] = IF k = 0 THEN left.mix["gone"] - 1 ELSE left.mix["gone"]]
      BY <1>1 DEF Changes
    <3> QED
      BY <1>t, <3>1, <3>2, <3>3, <3>4 DEF Left
  <2>4. zone' = [wants |-> h, forgot |-> FALSE] /\ UNCHANGED <<queue, words, comb, over>>
    BY <1>1 DEF Changes, HandOver, h
  <2> QED
    BY <2>1, <2>2, <2>3, <2>4
<1>2. ASSUME NEW u \in left.fresh, Gate(u) PROVE TypeOK'
  <2>1. u \in Update /\ left.fresh \ {u} \in SUBSET Update /\ my.held \in MaybeHandover
    BY <1>t DEF Left, Tracker
  <2>2. left' \in Left
    BY <1>2, <1>t, <2>1 DEF Gate, Left
  <2>3. my' \in Tracker
    BY <1>2, <1>t, <2>1, TrackerSet DEF Gate
  <2>4. over' \in [Update -> Ended]
    <3>1. over[u] \in Ended /\ over' = [over EXCEPT ![u].loose = (my.want = None)]
      BY <1>2, <2>1 DEF Gate
    <3> QED
      BY <2>1, <3>1 DEF Ended
  <2> QED
    BY <1>2, <2>2, <2>3, <2>4 DEF Gate
<1>3. ASSUME Forgot PROVE TypeOK'
  <2>1. zone.wants \in MaybeHandover
    OBVIOUS
  <2>2. [my EXCEPT !.reset = TRUE, !.held = None, !.want = zone.wants] \in Tracker
    BY <1>t, <2>1, NoneFacts DEF Tracker
  <2>3. my' \in Tracker
    BY <1>3, <2>2, DueType DEF Forgot
  <2>4. left' \in Left
    BY <1>3, <1>o DEF Forgot, Events
  <2> QED
    BY <1>3, <2>3, <2>4 DEF Forgot
<1>4. ASSUME AgentRestart PROVE TypeOK'
  <2>1. my' \in Tracker
    BY <1>4, <1>t, NewTrackerType DEF AgentRestart, Tracker
  <2>2. over' \in [Update -> Ended]
    <3>1. \A u \in Update : [over[u] EXCEPT !.end = "lost"] \in Ended
      BY DEF Ended, Ends
    <3> QED
      BY <1>4, <3>1 DEF AgentRestart
  <2>3. left' \in Left
    BY <1>4, <1>o DEF AgentRestart, Events
  <2> QED
    BY <1>4, <2>1, <2>2, <2>3 DEF AgentRestart
<1>5. ASSUME KeepForApproval PROVE TypeOK'
  <2>1. Head(queue) \in Message /\ Tail(queue) \in Seq(Message) /\ Head(queue).kind = "update"
    BY <1>5, <1>t DEF KeepForApproval
  <2>2. Head(queue).upd \in Update
    BY <2>1, MessageTypes
  <2>3. comb' \in Part
    BY <1>5, <1>t, <2>2 DEF KeepForApproval, Part
  <2>4. left' \in Left
    BY <1>5, <1>o DEF KeepForApproval, Events
  <2> QED
    BY <1>5, <2>1, <2>3, <2>4 DEF KeepForApproval
<1>6. ASSUME Starts PROVE TypeOK'
  <2>1. comb' \in Part
    BY <1>6, <1>t, NoneFacts DEF Starts, Part
  <2>2. left' \in Left
    BY <1>6, <1>o DEF Starts, Events
  <2> QED
    BY <1>6, <1>t, <2>1, <2>2, WordTypes DEF Starts
<1>7. ASSUME AnswerRead PROVE TypeOK'
  <2>1. left' \in Left /\ comb.holds \in MaybeHandover
    BY <1>7, <1>o, <1>t DEF AnswerRead, Events, Part
  <2> QED
    BY <1>7, <1>t, <2>1, WordTypes DEF AnswerRead
<1>8. ASSUME GiveUp PROVE TypeOK'
  <2>1. left' \in Left /\ Tail(queue) \in Seq(Message)
    BY <1>8, <1>o, <1>t DEF GiveUp, Events
  <2> QED
    BY <1>8, <2>1 DEF GiveUp
<1>9. ASSUME NEW w \in words, Lost(w) PROVE TypeOK'
  <2>1. left' \in Left
    BY <1>9, <1>o DEF Lost, Events
  <2> QED
    BY <1>9, <1>t, <2>1 DEF Lost, Hears
<1> QED
  BY <1>1, <1>2, <1>3, <1>4, <1>5, <1>6, <1>7, <1>8, <1>9 DEF Outside

LEMMA DrainsStays ==
    ASSUME TypeOK, Drains, [Next]_vars
    PROVE  Drains'
<1> USE DEF Drains
<1>t. my \in Tracker
  BY TypesByName
<1>0. \A m \in Tracker, again \in BOOLEAN :
        Due(m, again).draining = m.draining /\ Due(m, again).waiting = m.waiting
  BY DueKeeps
<1>d. \A h \in MaybeHandover : HandOver(h) => my'.draining = my.draining /\ my'.waiting = my.waiting
  <2> SUFFICES ASSUME NEW h \in MaybeHandover, HandOver(h)
               PROVE  my'.draining = my.draining /\ my'.waiting = my.waiting
    OBVIOUS
  <2>1. [my EXCEPT !.want = h] \in Tracker
    BY <1>t DEF Tracker
  <2> QED
    BY <1>0, <1>t, <2>1 DEF HandOver, Tracker
<1>1. ASSUME NEW h \in my.sending, Deliver(h) PROVE Drains'
  BY <1>1, <1>t DEF Deliver, Tracker
<1>2. ASSUME NEW u \in my.passing, Pass(u) PROVE Drains'
  BY <1>2, <1>t DEF Pass, Tracker
<1>3. DrainTake => Drains'
  BY <1>t DEF DrainTake, Tracker
<1>4. DrainEnqueue => Drains'
  BY <1>t DEF DrainEnqueue, Tracker
<1>5. ASSUME NEW w \in words, HandoverConfirmed(w) PROVE Drains'
  <2> DEFINE m == [my EXCEPT !.flight = None]
             n == [m EXCEPT !.held = my.flight, !.reset = @ /\ ~my.flight.reset]
  <2>1. m \in Tracker /\ m.draining = my.draining /\ m.waiting = my.waiting
    BY <1>t, NoneFacts DEF Tracker
  <2>2. n \in Tracker /\ n.draining = my.draining /\ n.waiting = my.waiting
    <3>1. (m.reset /\ ~my.flight.reset) \in BOOLEAN /\ my.flight \in MaybeHandover
      BY <1>t DEF Tracker
    <3> QED
      BY <2>1, <3>1 DEF Tracker
  <2>3. my' \in {my, [m EXCEPT !.held = None], Due(n, FALSE)}
    BY <1>5 DEF HandoverConfirmed
  <2> QED
    <3>1. [m EXCEPT !.held = None].draining = m.draining /\ [m EXCEPT !.held = None].waiting = m.waiting
      BY <2>1 DEF Tracker
    <3>2. Due(n, FALSE).draining = n.draining /\ Due(n, FALSE).waiting = n.waiting
      BY <1>0, <2>2
    <3> HIDE DEF m, n
    <3> QED
      BY <2>1, <2>2, <2>3, <3>1, <3>2
<1>6. ASSUME NEW w \in words, UpdateConfirmed(w) PROVE Drains'
  <2>1. w.upd \in Update
    BY <1>6, WordTypes, TypesByName DEF UpdateConfirmed
  <2>2. Append(my.waiting, w.upd) # <<>>
    BY <1>t, <2>1 DEF Tracker
  <2> QED
    <3>1. \/ my' = [my EXCEPT !.sent[w.upd] = None, !.waiting = Append(@, w.upd)]
          \/ my' = [my EXCEPT !.sent[w.upd] = None]
      BY <1>6 DEF UpdateConfirmed
    <3>2. my'.draining = my.draining /\ my'.waiting \in {my.waiting, Append(my.waiting, w.upd)}
      BY <1>t, <3>1 DEF Tracker
    <3> QED
      BY <2>2, <3>2
<1>7. ASSUME NEW w \in words, Learned(w) PROVE Drains'
  <2>1. w.held \in MaybeHandover
    BY <1>7, WordTypes, TypesByName DEF Learned
  <2>2. [my EXCEPT !.held = w.held] \in Tracker
    BY <1>t, <2>1 DEF Tracker
  <2> QED
    BY <1>0, <1>7, <1>t, <2>2 DEF Learned, Tracker
<1>8. ASSUME NEW w \in words, CombinerStarted(w) PROVE Drains'
  <2>1. [my EXCEPT !.held = None] \in Tracker
    BY <1>t, NoneFacts DEF Tracker
  <2> QED
    BY <1>0, <1>8, <1>t, <2>1 DEF CombinerStarted, Tracker
<1>9. Refresh => Drains'
  <2>1. zone.wants \in MaybeHandover
    BY TypesByName
  <2> QED
    BY <1>d, <2>1 DEF Refresh
<1>10. Tick => Drains'
  BY <1>0, <1>t DEF Tick
<1>11. ASSUME NEW u \in Update, Unanswered(u) PROVE Drains'
  BY <1>11, <1>t DEF Unanswered, Tracker
<1>12. Combiner => Drains'
  BY DEF Combiner, TakeHandover, Judge, Approve, SendApproval, Waits
<1>13. ASSUME NEW k \in Key, NEW hold \in BOOLEAN,
              Changes([key |-> k, hold |-> hold, made |-> 0, reset |-> FALSE])
       PROVE  Drains'
  <2>1. [key |-> k, hold |-> hold, made |-> 0, reset |-> FALSE] \in MaybeHandover
    BY DEF MaybeHandover, Handover
  <2> QED
    BY <1>13, <1>d, <2>1 DEF Changes
<1>14. ASSUME NEW u \in left.fresh, Gate(u) PROVE Drains'
  <2>1. Append(my.waiting, u) # <<>>
    BY <1>t, TypesByName DEF Left, Tracker
  <2> QED
    BY <1>14, <1>t, <2>1 DEF Gate, Tracker
<1>15. Forgot => Drains'
  <2>1. zone.wants \in MaybeHandover
    BY TypesByName
  <2>2. [my EXCEPT !.reset = TRUE, !.held = None, !.want = zone.wants] \in Tracker
    BY <1>t, <2>1, NoneFacts DEF Tracker
  <2> QED
    BY <1>0, <1>t, <2>2 DEF Forgot, Tracker
<1>16. AgentRestart => Drains'
  BY DEF AgentRestart, NewTracker
<1>17. KeepForApproval \/ Starts \/ AnswerRead \/ GiveUp \/ (\E w \in words : Lost(w)) => Drains'
  BY DEF KeepForApproval, Starts, AnswerRead, GiveUp, Lost
<1> QED
  BY <1>1, <1>2, <1>3, <1>4, <1>5, <1>6, <1>7, <1>8, <1>9, <1>10, <1>11, <1>12, <1>13, <1>14, <1>15,
     <1>16, <1>17 DEF Next, Agent, Outside, vars

\* Every variable has the type of what it stands for, in every behaviour.
THEOREM TypeCorrect == Spec => [](TypeOK /\ Drains)
<1>1. Init => TypeOK /\ Drains
  <2>1. Init => Drains
    BY DEF Init, Drains, NewTracker
  <2> QED
    BY <2>1, TypeInit
<1>2. TypeOK /\ Drains /\ [Next]_vars => (TypeOK /\ Drains)'
  <2>1. ASSUME TypeOK, UNCHANGED vars PROVE TypeOK'
    BY <2>1 DEF TypeOK, vars
  <2> QED
    BY <2>1, AgentTypes, CombinerTypes, OutsideTypes, DrainsStays DEF Next
<1> QED
  BY <1>1, <1>2, PTL DEF Spec
-----------------------------------------------------------------------------
(* What the agent takes its combiner to hold *)

\* What is due is the newest made, and nothing has been said of it.
LEMMA DueRises ==
    ASSUME NEW m \in Tracker, NEW again \in BOOLEAN, Rising(m)
    PROVE  /\ Rising(Due(m, again))
           /\ \A q \in Seq(Message) : RisingQueue(m, q) => RisingQueue(Due(m, again), q)
           /\ \A ws \in SUBSET Words, key \in Int : SaidIsHeld(m, ws, key) => SaidIsHeld(Due(m, again), ws, key)
<1>1. CASE Due(m, again) = m
  BY <1>1
<1>2. ASSUME NEW h \in Handover, m.want # None,
             h.key = m.want.key, h.reset = m.reset, h.made = m.clock + 1,
             Due(m, again) = WithMade(m, h)
      PROVE  /\ Rising(Due(m, again))
             /\ \A q \in Seq(Message) : RisingQueue(m, q) => RisingQueue(Due(m, again), q)
             /\ \A ws \in SUBSET Words, key \in Int :
                  SaidIsHeld(m, ws, key) => SaidIsHeld(Due(m, again), ws, key)
  <2> DEFINE n == WithMade(m, h)
  <2>1. /\ n.flight = h /\ n.sending = m.sending \cup {h} /\ n.clock = m.clock + 1
        /\ n.want = m.want /\ n.reset = m.reset
    BY DEF WithMade, Tracker
  <2>2. m.clock \in Nat /\ m.sending \subseteq Handover
    BY DEF Tracker
  <2>3. NamesAKey(h)
    BY <1>2 DEF Rising, NamesAKey
  <2> HIDE DEF n
  <2>4. \A x \in Handover : x.made <= m.clock => Known(n, x)
    BY <1>2, <2>1, <2>2 DEF Known, Handover
  <2>5. Known(n, h)
    BY <1>2, <2>1, <2>2 DEF Known
  <2>6. Rising(n)
    BY <1>2, <2>1, <2>2, <2>3, <2>4, <2>5 DEF Rising, Known
  <2>7. ASSUME NEW q \in Seq(Message), RisingQueue(m, q) PROVE RisingQueue(n, q)
    <3>1. \A i \in DOMAIN q : q[i].kind = "handover" => q[i].hand \in Handover
      BY MessageTypes
    <3> QED
      BY <2>4, <2>7, <3>1 DEF RisingQueue, Known
  <2>8. ASSUME NEW ws \in SUBSET Words, NEW key \in Int, SaidIsHeld(m, ws, key)
        PROVE  SaidIsHeld(n, ws, key)
    <3>1. \A w \in ws : w.kind = "handover" => w.made \in Nat
      BY WordTypes
    <3> QED
      BY <1>2, <2>1, <2>2, <2>8, <3>1 DEF SaidIsHeld
  <2> QED
    BY <1>2, <2>6, <2>7, <2>8 DEF n
<1> QED
  BY <1>1, <1>2, DueFacts

\* The tracker's other fields do not count, nor what is no longer in flight or sent.
LEMMA FewerRise ==
    ASSUME NEW m \in Tracker, NEW n \in Tracker, Rising(m),
           n.want = m.want \/ n.want.key >= 1, n.reset = m.reset, n.clock = m.clock,
           n.sending \subseteq m.sending, n.flight \in {m.flight, None}
    PROVE  /\ Rising(n)
           /\ \A q : RisingQueue(m, q) => RisingQueue(n, q)
           /\ \A ws, key : SaidIsHeld(m, ws, key) => SaidIsHeld(n, ws, key)
<1>1. None.made = 0 /\ m.clock \in Nat
  BY DEF None, Tracker
<1>2. \A h : Known(m, h) => Known(n, h)
  BY DEF Known
<1> QED
  BY <1>1, <1>2 DEF Rising, RisingQueue, SaidIsHeld

\* What the combiner holds is named by a number, and it comes to no lower one.
LEMMA HoldsFacts ==
    ASSUME NEW h \in MaybeHandover
    PROVE  h.key \in Int /\ h.key >= -1 /\ (h = None \/ h.key >= 0) /\ h.made \in Nat
BY KeyAssumption DEF MaybeHandover, Handover, None, Key

LEMMA TakenRises ==
    ASSUME NEW h \in Handover, NEW o \in MaybeHandover, NamesAKey(h), ~OlderThan(h, o)
    PROVE  /\ o.key <= h.key
           /\ Taken(h) = h
           /\ Same(h, o) \/ h = o => h.key = o.key
<1>1. h.key \in Int /\ o.key \in Int /\ h.key >= 1 /\ ~h.reset
  BY HoldsFacts DEF NamesAKey, MaybeHandover
<1>2. o = None => o.key = -1
  BY NoneFacts
<1> QED
  BY <1>1, <1>2 DEF OlderThan, Taken, Same

LEMMA QueueShrinks ==
    ASSUME NEW m, NEW q \in Seq(Message), q # <<>>, RisingQueue(m, q)
    PROVE  RisingQueue(m, Tail(q))
<1>1. \A i \in DOMAIN Tail(q) : i + 1 \in DOMAIN q /\ Tail(q)[i] = q[i + 1]
  OBVIOUS
<1> QED
  BY <1>1 DEF RisingQueue

LEMMA QueueGrows ==
    ASSUME NEW m, NEW q \in Seq(Message), NEW x \in Message, RisingQueue(m, q),
           x.kind = "handover" => NamesAKey(x.hand) /\ Known(m, x.hand)
    PROVE  RisingQueue(m, Append(q, x))
<1>1. \A i \in DOMAIN Append(q, x) : (i \in DOMAIN q /\ Append(q, x)[i] = q[i]) \/ Append(q, x)[i] = x
  OBVIOUS
<1> QED
  BY <1>1 DEF RisingQueue


\* What may occur is settled at the start, and what may not has nothing left.
LEMMA SpentStays ==
    ASSUME TypeOK, Spent, [Next]_vars
    PROVE  Spent' /\ left'.may = left.may
<1>t. left \in Left /\ left.mix \in [Events -> Nat] /\ my \in Tracker
  BY TypesByName DEF Left
<1>1. \A e \in Events : Occurs(e) => Spent' /\ left'.may = left.may
  <2> SUFFICES ASSUME NEW e \in Events, Occurs(e) PROVE Spent' /\ left'.may = left.may
    OBVIOUS
  <2>1. left.mix[e] > 0 /\ left' = [left EXCEPT !.mix = [left.mix EXCEPT ![e] = left.mix[e] - 1]]
    BY DEF Occurs
  <2>2. left'.may = left.may /\ left'.mix = [left.mix EXCEPT ![e] = left.mix[e] - 1]
    BY <1>t, <2>1 DEF Left
  <2> QED
    BY <1>t, <2>1, <2>2 DEF Spent
<1>2. UNCHANGED left => Spent' /\ left'.may = left.may
  BY DEF Spent
<1>3. Delivered => Spent' /\ left'.may = left.may
  BY <1>1, <1>2 DEF Delivered, Events
<1>4. ASSUME NEW u, Gate(u) PROVE Spent' /\ left'.may = left.may
  <2>1. left'.may = left.may /\ left'.mix = left.mix
    BY <1>4, <1>t DEF Gate, Left
  <2> QED
    BY <2>1 DEF Spent
<1>5. ASSUME NEW h, Changes(h) PROVE Spent' /\ left'.may = left.may
  <2>1. left' = [left EXCEPT !.wants = left.wants - 1,
                 !.mix = [left.mix EXCEPT !["gone"] = IF h.key = 0 THEN left.mix["gone"] - 1 ELSE left.mix["gone"]]]
    BY <1>5 DEF Changes
  <2>2. /\ left'.may = left.may
        /\ left'.mix = [left.mix EXCEPT !["gone"] = IF h.key = 0 THEN left.mix["gone"] - 1 ELSE left.mix["gone"]]
    BY <1>t, <2>1 DEF Left
  <2>3. h.key = 0 => left.mix["gone"] > 0
    BY <1>5 DEF Changes
  <2> QED
    BY <1>t, <2>2, <2>3 DEF Spent
<1>6. Agent => Spent' /\ left'.may = left.may
  <2>1. (\E h \in my.sending : Deliver(h)) => Spent' /\ left'.may = left.may
    BY <1>1, <1>2 DEF Deliver, Events
  <2>2. (\E u \in my.passing : Pass(u)) => Spent' /\ left'.may = left.may
    BY <1>1, <1>2 DEF Pass, Events
  <2>3. DrainTake \/ DrainEnqueue => Spent' /\ left'.may = left.may
    BY <1>1, <1>2 DEF DrainTake, DrainEnqueue, Events
  <2>4. ASSUME NEW w \in words, HandoverConfirmed(w) \/ UpdateConfirmed(w) \/ Learned(w) \/ CombinerStarted(w)
        PROVE  UNCHANGED left
    BY <2>4 DEF HandoverConfirmed, UpdateConfirmed, Learned, CombinerStarted
  <2>5. Refresh \/ Tick \/ (\E u \in Update : Unanswered(u)) => UNCHANGED left
    BY DEF Refresh, Tick, Unanswered
  <2> QED
    BY <1>2, <2>1, <2>2, <2>3, <2>4, <2>5 DEF Agent
<1>7. Combiner => Spent' /\ left'.may = left.may
  <2>1. TakeHandover => Delivered \/ Occurs("fail")
    BY DEF TakeHandover
  <2>2. Judge => Delivered
    BY DEF Judge
  <2>3. ASSUME NEW u, Approve(u) PROVE UNCHANGED left
    BY <2>3 DEF Approve
  <2>4. ASSUME NEW j, SendApproval(j) PROVE UNCHANGED left
    BY <2>4 DEF SendApproval
  <2>5. Waits => UNCHANGED left
    BY DEF Waits
  <2> QED
    BY <1>1, <1>2, <1>3, <2>1, <2>2, <2>3, <2>4, <2>5 DEF Combiner, Events
<1>8. Outside => Spent' /\ left'.may = left.may
  <2>1. Forgot \/ AgentRestart \/ KeepForApproval \/ Starts \/ AnswerRead \/ GiveUp \/ (\E w \in words : Lost(w))
          => \E e \in Events : Occurs(e)
    BY DEF Forgot, AgentRestart, KeepForApproval, Starts, AnswerRead, GiveUp, Lost, Events
  <2> QED
    BY <1>1, <1>4, <1>5, <2>1 DEF Outside
<1> QED
  BY <1>2, <1>6, <1>7, <1>8 DEF Next, vars

\* Held is kept where the tracker knows no more than before, but of what it
\* hands over anew, and what it is told is so.
LEMMA HeldByFewer ==
    ASSUME TypeOK, TypeOK', Held, NEW m \in Tracker, NEW again \in BOOLEAN,
           m.want = my.want \/ m.want.key >= 1,
           m.reset = my.reset, m.clock = my.clock, m.sending \subseteq my.sending,
           m.flight \in {my.flight, None},
           my' = m \/ my' = Due(m, again),
           RisingQueue(my, queue'), SaidIsHeld(my, words', comb'.holds.key),
           m.held.key <= comb'.holds.key,
           zone'.wants = None \/ zone'.wants.key >= 1, ~zone'.forgot
    PROVE  Held'
<1>t. my \in Tracker /\ queue' \in Seq(Message) /\ words' \in SUBSET Words /\ comb'.holds.key \in Int
  BY TypesByName, TypesByNamePrimed, HoldsFacts DEF Part
<1>1. Rising(m) /\ RisingQueue(m, queue') /\ SaidIsHeld(m, words', comb'.holds.key)
  BY <1>t, FewerRise DEF Held
<1>2. /\ Rising(Due(m, again)) /\ RisingQueue(Due(m, again), queue')
      /\ SaidIsHeld(Due(m, again), words', comb'.holds.key) /\ Due(m, again).held = m.held
  BY <1>t, <1>1, DueRises, DueKeeps
<1>3. /\ Rising(my') /\ RisingQueue(my', queue')
      /\ SaidIsHeld(my', words', comb'.holds.key) /\ my'.held = m.held
  BY <1>1, <1>2
<1> QED
  BY <1>3 DEF Held, Rising, RisingQueue, SaidIsHeld, Known, NamesAKey

\* Words that are not of a hand-over or an answer say nothing of what is held.
LEMMA SaidFacts ==
    ASSUME NEW m, NEW ws, NEW key \in Int, SaidIsHeld(m, ws, key)
    PROVE  /\ \A vs : vs \subseteq ws => SaidIsHeld(m, vs, key)
           /\ \A w : w.kind \in {"update", "start"} => SaidIsHeld(m, ws \cup {w}, key)
           /\ ws \in SUBSET Words /\ m \in Tracker => \A k \in Int : key <= k => SaidIsHeld(m, ws, k)
<1>1. ASSUME ws \in SUBSET Words, m \in Tracker, NEW k \in Int, key <= k PROVE SaidIsHeld(m, ws, k)
  <2>1. /\ \A w \in ws : w.kind = "answer" => w.held.key \in Int
        /\ m.flight.key \in Int
    BY <1>1, WordTypes, HoldsFacts DEF Tracker
  <2> QED
    BY <1>1, <2>1 DEF SaidIsHeld
<1> QED
  BY <1>1 DEF SaidIsHeld

\* What the combiner holds rises when it takes a hand-over.
LEMMA TakeRaises ==
    ASSUME TypeOK, RisingQueue(my, queue), TakeHandover
    PROVE  \E h \in Handover, ok \in BOOLEAN :
             /\ NamesAKey(h) /\ Known(my, h)
             /\ words' = words \cup {[kind |-> "handover", made |-> h.made, ok |-> ok]}
             /\ comb.holds.key <= comb'.holds.key
             /\ ok => h.key <= comb'.holds.key
<1> DEFINE h == Head(queue).hand
           older == OlderThan(h, comb.holds)
           changed == ~older /\ ~Same(h, comb.holds) /\ Taken(h) # comb.holds
<1>t. comb.holds \in MaybeHandover /\ comb.holds.key \in Int /\ queue \in Seq(Message)
  BY TypesByName, HoldsFacts DEF Part
<1>1. queue # <<>> /\ Head(queue) \in Message /\ Head(queue).kind = "handover" /\ 1 \in DOMAIN queue /\ Head(queue) = queue[1]
  BY <1>t DEF TakeHandover
<1>2. h \in Handover /\ NamesAKey(h) /\ Known(my, h)
  BY <1>1, MessageTypes DEF RisingQueue
<1> HIDE DEF h
<1>3. PICK ok \in BOOLEAN :
        /\ words' = words \cup {[kind |-> "handover", made |-> h.made, ok |-> ok]}
        /\ comb'.holds = IF changed THEN Taken(h) ELSE comb.holds
        /\ ok => ~older
  <2>1. \A holds, owes : [comb EXCEPT !.holds = holds, !.owes = owes].holds = holds
    BY TypesByName DEF Part
  <2>2. older \in BOOLEAN
    BY DEF OlderThan
  <2> HIDE DEF older, changed
  <2>3. \/ /\ comb' = [comb EXCEPT !.holds = IF changed THEN Taken(h) ELSE comb.holds, !.owes = @ /\ older]
           /\ words' = words \cup {[kind |-> "handover", made |-> h.made, ok |-> ~older]}
        \/ /\ comb' = [comb EXCEPT !.holds = IF changed THEN Taken(h) ELSE comb.holds, !.owes = TRUE]
           /\ words' = words \cup {[kind |-> "handover", made |-> h.made, ok |-> FALSE]}
    BY DEF TakeHandover, h, older, changed
  <2> QED
    BY <2>1, <2>2, <2>3
<1>4. /\ comb.holds.key <= comb'.holds.key
      /\ ok => h.key <= comb'.holds.key
  <2>1. ~older => comb.holds.key <= h.key /\ Taken(h) = h /\ (Same(h, comb.holds) \/ h = comb.holds => h.key = comb.holds.key)
    BY <1>2, <1>t, TakenRises
  <2>2. h.key \in Int
    BY <1>2, HoldsFacts DEF MaybeHandover
  <2> QED
    BY <1>3, <1>t, <2>1, <2>2
<1> QED
  BY <1>2, <1>3, <1>4

LEMMA HeldStays ==
    ASSUME TypeOK, TypeOK', Spent, Keeps, Held, [Next]_vars
    PROVE  Held'
<1>t. /\ my \in Tracker /\ queue \in Seq(Message) /\ words \subseteq Words /\ comb.holds \in MaybeHandover
      /\ my.held \in MaybeHandover /\ my.flight \in MaybeHandover /\ my.want \in MaybeHandover
      /\ zone.wants \in MaybeHandover /\ comb.holds.key \in Int
  BY TypesByName, HoldsFacts DEF Part, Tracker
<1>h. /\ RisingQueue(my, queue) /\ SaidIsHeld(my, words, comb.holds.key) /\ Rising(my)
      /\ my.held.key <= comb.holds.key
      /\ zone.wants = None \/ zone.wants.key >= 1
      /\ ~zone.forgot
  BY DEF Held
<1>s. left.mix["forget"] = 0 /\ left.mix["gone"] = 0 /\ left.mix["lose"] = 0
  BY DEF Spent, Keeps, Rises, Events
<1>n. -1 <= comb.holds.key /\ None.key = -1
  BY <1>t, HoldsFacts, NoneFacts
<1>w. \A vs : vs \subseteq words => SaidIsHeld(my, vs, comb.holds.key)
  BY <1>h, <1>t, SaidFacts
<1>0. ASSUME UNCHANGED vars PROVE Held'
  BY <1>0 DEF vars, Held, Rising, RisingQueue, SaidIsHeld, Known, NamesAKey
<1>u. \A x \in Message : x.kind = "update" => RisingQueue(my, Append(queue, x))
  BY <1>h, <1>t, QueueGrows
<1>q. queue # <<>> => RisingQueue(my, Tail(queue))
  BY <1>h, <1>t, QueueShrinks
<1>1. ASSUME NEW h \in my.sending, Deliver(h) PROVE Held'
  <2> DEFINE m == [my EXCEPT !.sending = @ \ {h}]
             n == [my EXCEPT !.sending = @ \ {h}, !.flight = IF @.made = h.made THEN None ELSE @]
  <2>1. h \in Handover /\ my.sending \ {h} \in SUBSET Handover
    BY <1>t DEF Tracker
  <2>2. /\ m \in Tracker /\ m.want = my.want /\ m.reset = my.reset /\ m.clock = my.clock
        /\ m.sending \subseteq my.sending /\ m.flight = my.flight /\ m.held = my.held
    BY <1>t, <2>1 DEF Tracker
  <2>3. /\ n \in Tracker /\ n.want = my.want /\ n.reset = my.reset /\ n.clock = my.clock
        /\ n.sending \subseteq my.sending /\ n.flight \in {my.flight, None} /\ n.held = my.held
    BY <1>t, <2>1, NoneFacts DEF Tracker
  <2>4. RisingQueue(my, Append(queue, [kind |-> "handover", hand |-> h]))
    BY <1>h, <1>t, <2>1, QueueGrows, MessageTypes DEF Rising
  <2>5. /\ (my' = m /\ queue' = Append(queue, [kind |-> "handover", hand |-> h])) \/ (my' = n /\ queue' = queue)
        /\ UNCHANGED <<words, comb, over, zone>>
    BY <1>1 DEF Deliver
  <2> HIDE DEF m, n
  <2>6. CASE my' = m /\ queue' = Append(queue, [kind |-> "handover", hand |-> h])
    BY <1>h, <2>2, <2>4, <2>5, <2>6, HeldByFewer
  <2>7. CASE my' = n /\ queue' = queue
    BY <1>h, <2>3, <2>5, <2>7, HeldByFewer
  <2> QED
    BY <2>5, <2>6, <2>7
<1>2. ASSUME NEW m \in Tracker,
             m.want = my.want, m.reset = my.reset, m.clock = my.clock, m.sending = my.sending,
             m.flight = my.flight, m.held = my.held, my' = m,
             RisingQueue(my, queue'), words' \subseteq words, UNCHANGED <<comb, zone>>
      PROVE  Held'
  BY <1>2, <1>h, <1>w, HeldByFewer
<1>3. ASSUME NEW u \in my.passing, Pass(u) PROVE Held'
  <2>1. u \in Update
    BY <1>t DEF Tracker
  <2>2. /\ my' \in Tracker /\ my'.want = my.want /\ my'.reset = my.reset /\ my'.clock = my.clock
        /\ my'.sending = my.sending /\ my'.flight = my.flight /\ my'.held = my.held
    BY <1>3, <1>t, TypesByNamePrimed DEF Pass, Tracker
  <2>3. RisingQueue(my, queue')
    BY <1>3, <1>h, <1>u, <2>1, MessageTypes DEF Pass
  <2> QED
    BY <1>2, <1>3, <2>2, <2>3 DEF Pass
<1>4. ASSUME DrainTake PROVE Held'
  <2>2. /\ my' \in Tracker /\ my'.want = my.want /\ my'.reset = my.reset /\ my'.clock = my.clock
        /\ my'.sending = my.sending /\ my'.flight = my.flight /\ my'.held = my.held
    BY <1>4, <1>t, TypesByNamePrimed DEF DrainTake, Tracker
  <2> QED
    BY <1>2, <1>4, <1>h, <2>2 DEF DrainTake
<1>5. ASSUME DrainEnqueue PROVE Held'
  <2>1. queue' = queue \/ queue' = Append(queue, [kind |-> "update", upd |-> Head(my.waiting)])
    BY <1>5 DEF DrainEnqueue
  <2>2. /\ my' \in Tracker /\ my'.want = my.want /\ my'.reset = my.reset /\ my'.clock = my.clock
        /\ my'.sending = my.sending /\ my'.flight = my.flight /\ my'.held = my.held
    BY <1>5, <1>t, TypesByNamePrimed DEF DrainEnqueue, Tracker
  <2>3. RisingQueue(my, queue')
    <3>1. \A i \in DOMAIN Append(queue, [kind |-> "update", upd |-> Head(my.waiting)]) :
            \/ i \in DOMAIN queue /\ Append(queue, [kind |-> "update", upd |-> Head(my.waiting)])[i] = queue[i]
            \/ Append(queue, [kind |-> "update", upd |-> Head(my.waiting)])[i].kind = "update"
      BY <1>t
    <3> QED
      BY <1>h, <2>1, <3>1 DEF RisingQueue
  <2> QED
    BY <1>2, <1>5, <2>2, <2>3 DEF DrainEnqueue
<1>6. ASSUME NEW w \in words, HandoverConfirmed(w) PROVE Held'
  <2> DEFINE m == [my EXCEPT !.flight = None]
             n == [m EXCEPT !.held = None]
             o == [m EXCEPT !.held = my.flight, !.reset = @ /\ ~my.flight.reset]
  <2>1. m \in Tracker /\ n \in Tracker
    BY <1>t, NoneFacts DEF Tracker
  <2>2. /\ n.want = my.want /\ n.reset = my.reset /\ n.clock = my.clock
        /\ n.sending = my.sending /\ n.flight = None /\ n.held = None
    BY <1>t, NoneFacts DEF Tracker
  <2>3. my.reset = FALSE
    BY <1>h, <1>t DEF Rising, Tracker
  <2>4. /\ o \in Tracker /\ o.want = my.want /\ o.reset = my.reset /\ o.clock = my.clock
        /\ o.sending = my.sending /\ o.flight = None /\ o.held = my.flight
    <3>1. (m.reset /\ ~my.flight.reset) = FALSE /\ FALSE \in BOOLEAN
      BY <1>t, <2>3 DEF Tracker
    <3>2. o = [m EXCEPT !.held = my.flight, !.reset = FALSE]
      BY <2>1, <3>1
    <3> QED
      BY <1>t, <2>1, <2>3, <3>2, NoneFacts DEF Tracker
  <2>5. /\ \/ my' = my \/ my' = n
           \/ my' = Due(o, FALSE) /\ my.flight # None /\ my.flight.made = w.made /\ w.ok
        /\ words' \subseteq words /\ w.kind = "handover" /\ UNCHANGED <<queue, comb, zone>>
    BY <1>6 DEF HandoverConfirmed, Hears
  <2>6. my.flight # None /\ my.flight.made = w.made /\ w.ok => my.flight.key <= comb.holds.key
    BY <1>h, <2>5 DEF SaidIsHeld
  <2> HIDE DEF m, n, o
  <2>7. CASE my' = my
    BY <1>2, <1>h, <1>t, <2>5, <2>7
  <2>8. CASE my' = n
    BY <1>h, <1>n, <1>w, <2>1, <2>2, <2>5, <2>8, HeldByFewer
  <2>9. CASE my' = Due(o, FALSE) /\ my.flight # None /\ my.flight.made = w.made /\ w.ok
    BY <1>h, <1>w, <2>4, <2>5, <2>6, <2>9, HeldByFewer
  <2> QED
    BY <2>5, <2>7, <2>8, <2>9
<1>7. ASSUME NEW w \in words, UpdateConfirmed(w) PROVE Held'
  <2>1. \/ my' = [my EXCEPT !.sent[w.upd] = None, !.waiting = Append(@, w.upd)]
        \/ my' = [my EXCEPT !.sent[w.upd] = None]
    BY <1>7 DEF UpdateConfirmed
  <2>2. /\ my' \in Tracker /\ my'.want = my.want /\ my'.reset = my.reset /\ my'.clock = my.clock
        /\ my'.sending = my.sending /\ my'.flight = my.flight /\ my'.held = my.held
    BY <1>t, <2>1, TypesByNamePrimed DEF Tracker
  <2> QED
    BY <1>2, <1>7, <1>h, <2>2 DEF UpdateConfirmed, Hears
<1>8. ASSUME NEW w \in words, Learned(w) PROVE Held'
  <2> DEFINE m == [my EXCEPT !.held = w.held]
  <2>1. w.held \in MaybeHandover /\ w.held.key <= comb.holds.key
    BY <1>8, <1>t, <1>h, WordTypes DEF Learned, SaidIsHeld
  <2>2. /\ m \in Tracker /\ m.want = my.want /\ m.reset = my.reset /\ m.clock = my.clock
        /\ m.sending = my.sending /\ m.flight = my.flight /\ m.held = w.held
    BY <1>t, <2>1 DEF Tracker
  <2>3. my' \in {my, Due(m, FALSE)} /\ words' \subseteq words /\ UNCHANGED <<queue, comb, zone>>
    BY <1>8 DEF Learned, Hears
  <2> HIDE DEF m
  <2>4. CASE my' = my
    BY <1>2, <1>h, <1>t, <2>3, <2>4
  <2>5. CASE my' = Due(m, FALSE)
    BY <1>h, <1>w, <2>1, <2>2, <2>3, <2>5, HeldByFewer
  <2> QED
    BY <2>3, <2>4, <2>5
<1>9. ASSUME NEW w \in words, CombinerStarted(w) PROVE Held'
  <2> DEFINE m == [my EXCEPT !.held = None]
  <2>1. /\ m \in Tracker /\ m.want = my.want /\ m.reset = my.reset /\ m.clock = my.clock
        /\ m.sending = my.sending /\ m.flight = my.flight /\ m.held = None
    BY <1>t, NoneFacts DEF Tracker
  <2>2. my' = Due(m, TRUE) /\ words' \subseteq words /\ UNCHANGED <<queue, comb, zone>>
    BY <1>9 DEF CombinerStarted, Hears
  <2> HIDE DEF m
  <2> QED
    BY <1>h, <1>n, <1>w, <2>1, <2>2, HeldByFewer
<1>10. ASSUME NEW h \in MaybeHandover, h.key >= 1, HandOver(h),
              zone'.wants.key >= 1, ~zone'.forgot
       PROVE  Held'
  <2> DEFINE m == [my EXCEPT !.want = h]
  <2>1. /\ m \in Tracker /\ m.want = h /\ m.reset = my.reset /\ m.clock = my.clock
        /\ m.sending = my.sending /\ m.flight = my.flight /\ m.held = my.held
    BY <1>t DEF Tracker
  <2>2. my' = Due(m, FALSE) /\ UNCHANGED <<queue, comb, words>>
    BY <1>10 DEF HandOver
  <2> HIDE DEF m
  <2> QED
    BY <1>10, <1>h, <2>1, <2>2, HeldByFewer
<1>11. ASSUME Refresh PROVE Held'
  BY <1>10, <1>11, <1>h, <1>t DEF Refresh
<1>12. ASSUME Tick PROVE Held'
  <2>1. my' = Due(my, TRUE) /\ UNCHANGED <<queue, words, comb, zone>>
    BY <1>12 DEF Tick
  <2> QED
    BY <1>h, <1>t, <2>1, HeldByFewer
<1>13. ASSUME NEW u \in Update, Unanswered(u) PROVE Held'
  <2>2. /\ my' \in Tracker /\ my'.want = my.want /\ my'.reset = my.reset /\ my'.clock = my.clock
        /\ my'.sending = my.sending /\ my'.flight = my.flight /\ my'.held = my.held
    BY <1>13, <1>t, TypesByNamePrimed DEF Unanswered, Tracker
  <2> QED
    BY <1>2, <1>13, <1>h, <2>2 DEF Unanswered
<1>14. ASSUME NEW u \in left.fresh, Gate(u) PROVE Held'
  <2>2. /\ my' \in Tracker /\ my'.want = my.want /\ my'.reset = my.reset /\ my'.clock = my.clock
        /\ my'.sending = my.sending /\ my'.flight = my.flight /\ my'.held = my.held
    BY <1>14, <1>t, TypesByNamePrimed DEF Gate, Tracker
  <2> QED
    BY <1>2, <1>14, <1>h, <2>2 DEF Gate
<1>15. ASSUME NEW k \in Key, NEW hold \in BOOLEAN,
              Changes([key |-> k, hold |-> hold, made |-> 0, reset |-> FALSE])
       PROVE  Held'
  <2> DEFINE h == [key |-> k, hold |-> hold, made |-> 0, reset |-> FALSE]
  <2>1. h \in MaybeHandover /\ h.key = k
    BY DEF MaybeHandover, Handover
  <2>2. k # 0
    BY <1>15, <1>s DEF Changes
  <2>3. k >= 1
    BY <2>2, KeyAssumption DEF Key
  <2>4. HandOver(h) /\ zone' = [wants |-> h, forgot |-> FALSE]
    BY <1>15 DEF Changes
  <2> HIDE DEF h
  <2> QED
    BY <1>10, <2>1, <2>3, <2>4
<1>16. ASSUME AgentRestart PROVE Held'
  <2>1. /\ my' = NewTracker(my.clock) /\ queue' = <<>> /\ UNCHANGED <<words, comb, zone>>
    BY <1>16 DEF AgentRestart
  <2>2. /\ my'.want = None /\ my'.held = None /\ my'.flight = None /\ my'.reset = FALSE
        /\ my'.sending = {} /\ my'.clock = my.clock /\ None.made = 0 /\ my.clock \in Nat
    BY <1>t, <2>1 DEF NewTracker, None, Tracker
  <2>3. Rising(my') /\ RisingQueue(my', <<>>)
    BY <2>2 DEF Rising, RisingQueue
  <2>4. SaidIsHeld(my', words, comb.holds.key)
    BY <1>h, <2>2 DEF SaidIsHeld
  <2> QED
    BY <1>h, <1>n, <2>1, <2>2, <2>3, <2>4 DEF Held, Rising, RisingQueue, SaidIsHeld, Known, NamesAKey
<1>17. ASSUME RisingQueue(my, queue'), SaidIsHeld(my, words', comb'.holds.key),
              comb.holds.key <= comb'.holds.key, UNCHANGED <<my, zone>>
       PROVE  Held'
  <2>1. my.held.key <= comb'.holds.key
    <3>1. my.held.key \in Int /\ comb'.holds.key \in Int
      BY <1>t, HoldsFacts, TypesByNamePrimed DEF Part
    <3> QED
      BY <1>17, <1>h, <1>t, <3>1
  <2> QED
    BY <1>17, <1>h, <1>t, <2>1, HeldByFewer
<1>18. ASSUME TakeHandover PROVE Held'
  <2>1. PICK h \in Handover, ok \in BOOLEAN :
          /\ NamesAKey(h) /\ Known(my, h)
          /\ words' = words \cup {[kind |-> "handover", made |-> h.made, ok |-> ok]}
          /\ comb.holds.key <= comb'.holds.key
          /\ ok => h.key <= comb'.holds.key
    BY <1>18, <1>h, TakeRaises
  <2>2. RisingQueue(my, queue')
    BY <1>18, <1>h, <1>q DEF TakeHandover, Delivered
  <2>3. SaidIsHeld(my, words, comb'.holds.key)
    <3>1. comb'.holds.key \in Int
      BY HoldsFacts, TypesByNamePrimed DEF Part
    <3> QED
      BY <1>h, <1>t, <2>1, <3>1, SaidFacts
  <2>4. SaidIsHeld(my, words', comb'.holds.key)
    BY <2>1, <2>3 DEF SaidIsHeld, Known
  <2> QED
    BY <1>17, <1>18, <2>1, <2>2, <2>4 DEF TakeHandover
<1>19. ASSUME Judge PROVE Held'
  <2>1. RisingQueue(my, queue')
    BY <1>19, <1>h, <1>q DEF Judge, Delivered
  <2>2. SaidIsHeld(my, words', comb.holds.key)
    BY <1>19, <1>h, <1>t, SaidFacts DEF Judge, Word
  <2> QED
    BY <1>17, <1>19, <1>t, <2>1, <2>2 DEF Judge
<1>20. ASSUME NEW u \in comb.kept, Approve(u) PROVE Held'
  <2>1. comb'.holds = comb.holds
    BY <1>20, TypesByName DEF Approve, Part
  <2> QED
    BY <1>17, <1>20, <1>h, <1>t, <2>1 DEF Approve
<1>21. ASSUME NEW j \in comb.judged, SendApproval(j) PROVE Held'
  <2>1. comb'.holds = comb.holds
    BY <1>21, TypesByName DEF SendApproval, Part
  <2>2. SaidIsHeld(my, words', comb.holds.key)
    BY <1>21, <1>h, <1>t, SaidFacts DEF SendApproval, Word
  <2> QED
    BY <1>17, <1>21, <1>h, <1>t, <2>1, <2>2 DEF SendApproval
<1>22. ASSUME Waits PROVE Held'
  <2>1. SaidIsHeld(my, words', comb.holds.key)
    BY <1>22, <1>h, <1>t, SaidFacts DEF Waits
  <2> QED
    BY <1>17, <1>22, <1>h, <1>t, <2>1 DEF Waits
<1>23. ASSUME KeepForApproval PROVE Held'
  <2>1. comb'.holds = comb.holds
    BY <1>23, TypesByName DEF KeepForApproval, Part
  <2> QED
    BY <1>17, <1>23, <1>h, <1>q, <1>t, <2>1 DEF KeepForApproval
<1>24. ASSUME Starts PROVE Held'
  <2>1. comb' = [comb EXCEPT !.owes = FALSE] /\ UNCHANGED <<my, queue, zone>>
    BY <1>24, <1>s DEF Starts, Occurs
  <2>2. comb'.holds = comb.holds
    BY <2>1, TypesByName DEF Part
  <2>3. SaidIsHeld(my, words', comb.holds.key)
    BY <1>24, <1>h, <1>t, SaidFacts DEF Starts
  <2> QED
    BY <1>17, <1>h, <1>t, <2>1, <2>2, <2>3
<1>25. ASSUME AnswerRead PROVE Held'
  <2>1. SaidIsHeld(my, words', comb.holds.key)
    BY <1>25, <1>h, <1>t DEF AnswerRead, SaidIsHeld
  <2> QED
    BY <1>17, <1>25, <1>h, <1>t, <2>1 DEF AnswerRead
<1>26. ASSUME GiveUp PROVE Held'
  BY <1>17, <1>26, <1>h, <1>q, <1>t DEF GiveUp
<1>27. ASSUME NEW w \in words, Lost(w) PROVE Held'
  BY <1>17, <1>27, <1>h, <1>t, <1>w DEF Lost, Hears
<1>28. ~Forgot
  BY <1>s DEF Forgot, Occurs
<1> QED
  BY <1>0, <1>1, <1>3, <1>4, <1>5, <1>6, <1>7, <1>8, <1>9, <1>11, <1>12, <1>13, <1>14, <1>15, <1>16,
     <1>18, <1>19, <1>20, <1>21, <1>22, <1>23, <1>24, <1>25, <1>26, <1>27, <1>28
     DEF Next, Agent, Combiner, Outside

LEMMA InvInit == ASSUME Init PROVE Knows
<1>1. TypeOK
  BY TypeInit
<1>2. /\ my = NewTracker(0) /\ queue = <<>> /\ words = {} /\ comb.holds = None
      /\ zone = [wants |-> None, forgot |-> FALSE]
  BY DEF Init
<1>3. /\ my.want = None /\ my.held = None /\ my.flight = None /\ my.reset = FALSE /\ ~my.draining
      /\ my.sending = {} /\ my.clock = 0 /\ None.made = 0
  BY <1>2 DEF NewTracker, None
<1>4. Spent
  <2>1. PICK mix \in Mixes :
          left = [mix |-> mix, may |-> {e \in Events : mix[e] > 0}, wants |-> MaxWants, fresh |-> Update]
    BY DEF Init
  <2>2. \A e \in Events : mix[e] \in Nat
    BY MixesAssumption
  <2> QED
    BY <2>1, <2>2 DEF Spent
<1>5. Held
  <2>1. Rising(my)
    BY <1>3 DEF Rising
  <2>2. RisingQueue(my, queue)
    BY <1>2 DEF RisingQueue
  <2>3. SaidIsHeld(my, words, comb.holds.key)
    BY <1>2 DEF SaidIsHeld
  <2>4. zone.wants = None /\ zone.forgot = FALSE /\ my.held.key <= comb.holds.key
    BY <1>2, <1>3, NoneFacts
  <2> QED
    BY <2>1, <2>2, <2>3, <2>4 DEF Held
<1> QED
  BY <1>1, <1>3, <1>4, <1>5 DEF Drains, Knows

LEMMA InvNext == ASSUME Knows, [Next]_vars PROVE Knows'
<1> USE DEF Knows
<1>1. TypeOK'
  <2>1. UNCHANGED vars => TypeOK'
    BY DEF TypeOK, vars
  <2> QED
    BY <2>1, AgentTypes, CombinerTypes, OutsideTypes DEF Next
<1>2. Drains'
  BY DrainsStays
<1>3. Spent' /\ left'.may = left.may
  BY SpentStays
<1>4. Keeps' => Held'
  BY <1>1, <1>3, HeldStays DEF Keeps, Rises
<1> QED
  BY <1>1, <1>2, <1>3, <1>4

\* What lets an update go was held, or is surpassed (gate, confirmation,
\* learned): in a zone in which no hand-over held is lost or taken back the
\* agent never takes its combiner to hold a later order key than it does.
THEOREM AgentKnowsNoMore == Spec => []HeldIsHeld
<1>1. Init => Knows
  BY InvInit
<1>2. Knows /\ [Next]_vars => Knows'
  BY InvNext
<1>3. Knows => HeldIsHeld
  BY DEF Held, HeldIsHeld, Knows
<1> QED
  BY <1>1, <1>2, <1>3, PTL DEF Spec

-----------------------------------------------------------------------------
(* Where an update is *)

LEMMA HasAppend ==
    ASSUME NEW S, NEW s \in Seq(S), NEW y \in S, NEW x
    PROVE  /\ Has(Append(s, y), x) <=> Has(s, x) \/ x = y
           /\ Once(s, x) /\ (x = y => ~Has(s, x)) => Once(Append(s, y), x)
           /\ s # <<>> => Head(Append(s, y)) = Head(s)
<1> DEFINE t == Append(s, y)
<1>1. /\ DOMAIN s = 1..Len(s) /\ DOMAIN t = 1..(Len(s) + 1) /\ Len(s) \in Nat
      /\ \A i \in 1..Len(s) : t[i] = s[i]
      /\ t[Len(s) + 1] = y
  OBVIOUS
<1>2. s # <<>> => Head(t) = Head(s)
  OBVIOUS
<1> HIDE DEF t
<1>3. Has(t, x) <=> Has(s, x) \/ x = y
  BY <1>1 DEF Has
<1>4. Once(s, x) /\ (x = y => ~Has(s, x)) => Once(t, x)
  BY <1>1 DEF Has, Once
<1> QED
  BY <1>2, <1>3, <1>4 DEF t

LEMMA HasTail ==
    ASSUME NEW S, NEW s \in Seq(S), s # <<>>, NEW x
    PROVE  /\ Has(s, Head(s))
           /\ Has(Tail(s), x) => Has(s, x)
           /\ Once(s, x) => Once(Tail(s), x)
           /\ Once(s, x) /\ x = Head(s) => ~Has(Tail(s), x)
<1> DEFINE t == Tail(s)
<1>1. /\ DOMAIN s = 1..Len(s) /\ DOMAIN t = 1..(Len(s) - 1) /\ Len(s) \in Nat /\ Len(s) >= 1
      /\ \A i \in 1..(Len(s) - 1) : t[i] = s[i + 1]
      /\ Head(s) = s[1]
  OBVIOUS
<1> HIDE DEF t
<1>2. Has(s, Head(s))
  BY <1>1 DEF Has
<1>3. ASSUME NEW i \in DOMAIN t, t[i] = x PROVE Has(s, x)
  <2>1. i \in Int /\ i + 1 \in DOMAIN s /\ s[i + 1] = x
    BY <1>1, <1>3
  <2> QED
    BY <2>1 DEF Has
<1>4. ASSUME Once(s, x) PROVE Once(t, x)
  <2> SUFFICES ASSUME NEW i \in DOMAIN t, NEW j \in DOMAIN t, t[i] = x, t[j] = x PROVE i = j
    BY DEF Once
  <2>1. i \in Int /\ j \in Int /\ i + 1 \in DOMAIN s /\ j + 1 \in DOMAIN s /\ s[i + 1] = x /\ s[j + 1] = x
    BY <1>1
  <2>2. i + 1 = j + 1
    BY <1>4, <2>1 DEF Once
  <2> QED
    BY <2>1, <2>2
<1>5. Once(s, x) /\ x = Head(s) => ~Has(t, x)
  BY <1>1 DEF Has, Once
<1> QED
  BY <1>2, <1>3, <1>4, <1>5 DEF Has, t

\* An update a step does not move, nor has it another note or end.
Elsewhere(u) ==
    /\ over'[u] = over[u] /\ my'.sent[u] = my.sent[u]
    /\ u \in my'.passing => u \in my.passing
    /\ Has(my'.waiting, u) => Has(my.waiting, u)
    /\ Once(my.waiting, u) => Once(my'.waiting, u)
    /\ Has(my.waiting, u) => (my'.draining /\ u = Head(my'.waiting) <=> my.draining /\ u = Head(my.waiting))
    /\ Has(queue', Upd(u)) => Has(queue, Upd(u))
    /\ Once(queue, Upd(u)) => Once(queue', Upd(u))
    /\ u \in comb'.kept => u \in comb.kept
    /\ \A j \in comb'.judged : j.upd = u => j \in comb.judged
    /\ \A w \in words' : w.kind = "update" /\ w.upd = u => w \in words

LEMMA ElsewhereStays ==
    ASSUME NEW u \in Update, Elsewhere(u)
    PROVE  /\ Nowhere(u) => Nowhere(u)'
           /\ Underway(u)' <=> Underway(u)
           /\ OnePlace(u) => OnePlace(u)'
           /\ HasNote(u) => HasNote(u)'
<1>1. /\ Judged(u)' => Judged(u)
      /\ Answered(u)' => Answered(u)
  BY DEF Elsewhere, Judged, Answered
<1>2. AtCombiner(u)' => AtCombiner(u)
  BY <1>1 DEF Elsewhere, AtCombiner, Upd
<1>3. Underway(u)' <=> Underway(u)
  BY DEF Elsewhere, Underway
<1>4. Nowhere(u) => Nowhere(u)'
  BY <1>2 DEF Elsewhere, Nowhere
<1>5. HasNote(u) => HasNote(u)'
  BY <1>2 DEF Elsewhere, HasNote
<1>6. ASSUME OnePlace(u) PROVE OnePlace(u)'
  <2>1. /\ \A v, w \in words' : v.kind = "update" /\ w.kind = "update" /\ v.upd = u /\ w.upd = u => v = w
        /\ \A i, j \in comb'.judged : i.upd = u /\ j.upd = u => i = j
    BY <1>6 DEF Elsewhere, OnePlace
  <2>2. Once(my'.waiting, u) /\ Once(queue', Upd(u))
    BY <1>6 DEF Elsewhere, OnePlace
  <2> QED
    BY <1>1, <1>2, <1>6, <2>1, <2>2 DEF Elsewhere, OnePlace, Upd
<1> QED
  BY <1>3, <1>4, <1>5, <1>6

\* A step that moves no update.
Still ==
    /\ my'.waiting = my.waiting /\ my'.draining = my.draining
    /\ my'.sent = my.sent /\ my'.passing = my.passing
    /\ my'.want = my.want \/ my'.want # None
    /\ left'.fresh = left.fresh /\ over' = over
    /\ \A u \in Update :
         /\ Has(queue', Upd(u)) => Has(queue, Upd(u))
         /\ Once(queue, Upd(u)) => Once(queue', Upd(u))
    /\ comb'.kept = comb.kept /\ comb'.judged = comb.judged
    /\ \A w \in words' : w.kind = "update" => w \in words

Moves ==
    \/ \E u \in my.passing : Pass(u)
    \/ DrainTake \/ DrainEnqueue
    \/ \E w \in words : UpdateConfirmed(w)
    \/ \E u \in Update : Unanswered(u)
    \/ Judge
    \/ \E u \in comb.kept : Approve(u)
    \/ \E j \in comb.judged : SendApproval(j)
    \/ \E u \in left.fresh : Gate(u)
    \/ AgentRestart
    \/ KeepForApproval

\* The queue keeps its updates when a hand-over joins it, or its first goes.
LEMMA QueueStill ==
    ASSUME NEW q \in Seq(Message), NEW u \in Update
    PROVE  /\ \A h \in Handover :
                LET r == Append(q, [kind |-> "handover", hand |-> h])
                IN /\ Has(r, Upd(u)) => Has(q, Upd(u))
                   /\ Once(q, Upd(u)) => Once(r, Upd(u))
           /\ q # <<>> => /\ Has(Tail(q), Upd(u)) => Has(q, Upd(u))
                          /\ Once(q, Upd(u)) => Once(Tail(q), Upd(u))
<1>1. \A h \in Handover : [kind |-> "handover", hand |-> h] # Upd(u)
  BY DEF Upd
<1> QED
  BY <1>1, HasAppend, HasTail, MessageTypes

LEMMA OccursFresh ==
    ASSUME TypeOK, NEW e \in Events, Occurs(e)
    PROVE  left'.fresh = left.fresh
BY TypesByName DEF Occurs, Left

LEMMA StillBy ==
    ASSUME NEW m \in Tracker, NEW again \in BOOLEAN,
           m.waiting = my.waiting, m.draining = my.draining, m.sent = my.sent, m.passing = my.passing,
           m.want = my.want \/ m.want # None,
           my' = m \/ my' = Due(m, again),
           queue' = queue, comb'.kept = comb.kept, comb'.judged = comb.judged,
           left'.fresh = left.fresh, over' = over,
           \A w \in words' : w.kind = "update" => w \in words
    PROVE  Still
<1>1. /\ my'.waiting = my.waiting /\ my'.draining = my.draining
      /\ my'.sent = my.sent /\ my'.passing = my.passing
      /\ my'.want = my.want \/ my'.want # None
  BY DueKeeps
<1> QED
  BY <1>1 DEF Still

LEMMA StillOrMoves ==
    ASSUME TypeOK, [Next]_vars
    PROVE  Still \/ Moves
<1>t. /\ my \in Tracker /\ queue \in Seq(Message) /\ words \subseteq Words /\ comb \in Part /\ left \in Left
      /\ my.held \in MaybeHandover /\ my.want \in MaybeHandover /\ my.flight \in MaybeHandover
      /\ zone.wants \in MaybeHandover
  BY TypesByName DEF Tracker
<1>o. \A e \in Events : Occurs(e) => left'.fresh = left.fresh
  BY OccursFresh
<1>1. ASSUME NEW h \in my.sending, Deliver(h) PROVE Still
  <2>1. /\ my'.waiting = my.waiting /\ my'.draining = my.draining /\ my'.sent = my.sent
        /\ my'.passing = my.passing /\ my'.want = my.want
    BY <1>1, <1>t DEF Deliver, Tracker
  <2>2. left'.fresh = left.fresh /\ over' = over /\ words' = words /\ comb' = comb
    BY <1>1, <1>o DEF Deliver, Events
  <2>3. queue' = queue \/ queue' = Append(queue, [kind |-> "handover", hand |-> h])
    BY <1>1 DEF Deliver
  <2>4. h \in Handover
    BY <1>t DEF Tracker
  <2> QED
    BY <1>t, <2>1, <2>2, <2>3, <2>4, QueueStill DEF Still
<1>2. ASSUME NEW w \in words, HandoverConfirmed(w) PROVE Still
  <2>1. /\ words' \subseteq words /\ UNCHANGED <<queue, comb, over, left>>
    BY <1>2 DEF HandoverConfirmed, Hears
  <2> DEFINE m == [my EXCEPT !.flight = None]
             n == [m EXCEPT !.held = None]
             o == [m EXCEPT !.held = my.flight, !.reset = @ /\ ~my.flight.reset]
  <2>2. CASE my' = my
    BY <1>t, <2>1, <2>2, StillBy
  <2>3. CASE my' = n
    <3>1. n \in Tracker /\ n.waiting = my.waiting /\ n.draining = my.draining /\ n.sent = my.sent
          /\ n.passing = my.passing /\ n.want = my.want
      BY <1>t, NoneFacts DEF Tracker
    <3> HIDE DEF n
    <3> QED
      BY <2>1, <2>3, <3>1, StillBy
  <2>4. CASE my' = Due(o, FALSE) /\ my.flight # None
    <3>1. my.flight \in Handover /\ (my.reset /\ ~my.flight.reset) \in BOOLEAN
      BY <1>t, <2>4 DEF MaybeHandover
    <3>2. o \in Tracker /\ o.waiting = my.waiting /\ o.draining = my.draining /\ o.sent = my.sent
          /\ o.passing = my.passing /\ o.want = my.want
      BY <1>t, <3>1, NoneFacts DEF Tracker
    <3> HIDE DEF o
    <3> QED
      BY <2>1, <2>4, <3>2, StillBy
  <2>5. my' = my \/ my' = n \/ (my' = Due(o, FALSE) /\ my.flight # None)
    BY <1>2 DEF HandoverConfirmed
  <2> QED
    BY <2>2, <2>3, <2>4, <2>5
<1>3. ASSUME NEW h \in MaybeHandover, NEW m \in {my, [my EXCEPT !.held = h], [my EXCEPT !.want = h],
                [my EXCEPT !.reset = TRUE, !.held = None, !.want = h]},
             m.want = my.want \/ h # None, NEW again \in BOOLEAN, my' = m \/ my' = Due(m, again),
             UNCHANGED <<queue, comb, over>>, left'.fresh = left.fresh,
             \A w \in words' : w.kind = "update" => w \in words
      PROVE  Still
  <2>1. /\ m \in Tracker /\ m.waiting = my.waiting /\ m.draining = my.draining
        /\ m.sent = my.sent /\ m.passing = my.passing
        /\ m.want = my.want \/ m.want # None
    BY <1>3, <1>t, NoneFacts DEF Tracker
  <2> QED
    BY <1>3, <2>1, StillBy
<1>4. ASSUME NEW w \in words, Learned(w) PROVE Still
  <2>1. w.held \in MaybeHandover
    BY <1>4, <1>t, WordTypes DEF Learned
  <2>2. my' = my \/ my' = Due([my EXCEPT !.held = w.held], FALSE)
    BY <1>4 DEF Learned
  <2>3. [my EXCEPT !.held = w.held].want = my.want
    BY <1>t DEF Tracker
  <2>4. words' \subseteq words /\ UNCHANGED <<queue, comb, over, left>>
    BY <1>4 DEF Learned, Hears
  <2> QED
    BY <1>3, <2>1, <2>2, <2>3, <2>4
<1>5. ASSUME NEW w \in words, CombinerStarted(w) PROVE Still
  <2>1. my' = Due([my EXCEPT !.held = None], TRUE)
    BY <1>5 DEF CombinerStarted
  <2>2. [my EXCEPT !.held = None].want = my.want
    BY <1>t DEF Tracker
  <2>3. words' \subseteq words /\ UNCHANGED <<queue, comb, over, left>>
    BY <1>5 DEF CombinerStarted, Hears
  <2> QED
    BY <1>3, <2>1, <2>2, <2>3, NoneFacts
<1>6. ASSUME NEW h \in MaybeHandover, h # None, HandOver(h), left'.fresh = left.fresh PROVE Still
  BY <1>3, <1>6 DEF HandOver
<1>7. ASSUME Refresh PROVE Still
  BY <1>6, <1>7, <1>t DEF Refresh
<1>8. ASSUME Tick PROVE Still
  BY <1>3, <1>8, NoneFacts DEF Tick
<1>9. ASSUME NEW k \in Key, NEW hold \in BOOLEAN,
             Changes([key |-> k, hold |-> hold, made |-> 0, reset |-> FALSE])
      PROVE  Still
  <2> DEFINE h == [key |-> k, hold |-> hold, made |-> 0, reset |-> FALSE]
  <2>1. h \in Handover
    BY DEF Handover
  <2>2. HandOver(h) /\ left'.fresh = left.fresh
    BY <1>9, <1>t DEF Changes, Left
  <2> HIDE DEF h
  <2> QED
    BY <1>6, <2>1, <2>2, NoneFacts DEF MaybeHandover
<1>10. ASSUME Forgot PROVE Still
  <2>1. /\ zone.wants # None /\ my' = Due([my EXCEPT !.reset = TRUE, !.held = None, !.want = zone.wants], FALSE)
        /\ UNCHANGED <<queue, words, comb, over>>
    BY <1>10 DEF Forgot
  <2>2. left'.fresh = left.fresh
    BY <1>10, <1>o DEF Forgot, Events
  <2> QED
    BY <1>3, <1>t, <2>1, <2>2
<1>11. ASSUME \A w \in words' : w.kind = "update" => w \in words,
              UNCHANGED <<my, over>>, comb'.kept = comb.kept, comb'.judged = comb.judged,
              left'.fresh = left.fresh,
              queue' = queue \/ (queue # <<>> /\ queue' = Tail(queue))
       PROVE  Still
  BY <1>11, <1>t, QueueStill DEF Still
<1>12. ASSUME TakeHandover PROVE Still
  <2>1. \E ok \in BOOLEAN : words' = words \cup {[kind |-> "handover", made |-> Head(queue).hand.made, ok |-> ok]}
    BY <1>12 DEF TakeHandover
  <2>2. left'.fresh = left.fresh /\ (queue' = queue \/ (queue # <<>> /\ queue' = Tail(queue)))
    BY <1>12, <1>o DEF TakeHandover, Delivered, Events
  <2>3. comb'.kept = comb.kept /\ comb'.judged = comb.judged /\ UNCHANGED <<my, over>>
    BY <1>12, <1>t DEF TakeHandover, Part
  <2> QED
    BY <1>11, <2>1, <2>2, <2>3
<1>13. ASSUME Waits PROVE Still
  BY <1>11, <1>13 DEF Waits
<1>14. ASSUME Starts PROVE Still
  <2>1. comb'.kept = comb.kept /\ comb'.judged = comb.judged /\ left'.fresh = left.fresh
    BY <1>14, <1>o, <1>t DEF Starts, Part, Events
  <2> QED
    BY <1>11, <1>14, <2>1 DEF Starts
<1>15. ASSUME AnswerRead PROVE Still
  <2>1. left'.fresh = left.fresh
    BY <1>15, <1>o DEF AnswerRead, Events
  <2> QED
    BY <1>11, <1>15, <2>1 DEF AnswerRead
<1>16. ASSUME GiveUp PROVE Still
  <2>1. left'.fresh = left.fresh
    BY <1>16, <1>o DEF GiveUp, Events
  <2> QED
    BY <1>11, <1>16, <2>1, WordTypes DEF GiveUp
<1>17. ASSUME NEW w \in words, Lost(w) PROVE Still
  <2>1. left'.fresh = left.fresh
    BY <1>17, <1>o DEF Lost, Events
  <2> QED
    BY <1>11, <1>17, <2>1 DEF Lost, Hears
<1>18. ASSUME UNCHANGED vars PROVE Still
  BY <1>11, <1>18 DEF vars
<1> QED
  BY <1>1, <1>2, <1>4, <1>5, <1>7, <1>8, <1>9, <1>10, <1>12, <1>13, <1>14, <1>15, <1>16, <1>17, <1>18
     DEF Next, Agent, Combiner, Outside, Moves

\* A step moves one update and leaves the others where they are.
LEMMA NotedBy ==
    ASSUME TypeOK, Noted, NEW x \in Update,
           left'.fresh \subseteq left.fresh \ {x},
           \A u \in Update \ {x} : Elsewhere(u),
           Underway(x)' => OnePlace(x)' /\ HasNote(x)',
           my'.want = None => my.want = None /\ my'.sent[x] \in {None, my.sent[x]}
    PROVE  Noted'
<1>1. left.fresh \subseteq Update
  BY TypesByName DEF Left
<1>2. ASSUME NEW u \in left'.fresh PROVE Nowhere(u)' /\ over'[u].end = "open" /\ ~over'[u].loose
  <2>1. u \in Update \ {x} /\ Elsewhere(u) /\ u \in left.fresh
    BY <1>1
  <2> QED
    BY <2>1, ElsewhereStays DEF Noted, Elsewhere
<1>3. ASSUME NEW u \in Update, Underway(u)' PROVE OnePlace(u)' /\ HasNote(u)'
  BY <1>3, ElsewhereStays DEF Noted
<1>4. ASSUME NEW u \in Update, my'.want = None PROVE my'.sent[u] = None
  BY <1>4 DEF Noted, Elsewhere
<1> QED
  BY <1>2, <1>3, <1>4 DEF Noted

LEMMA NotedStill ==
    ASSUME TypeOK, Noted, Still
    PROVE  Noted'
<1>1. \A u \in Update : Elsewhere(u)
  BY DEF Still, Elsewhere
<1>2. left.fresh \subseteq Update
  BY TypesByName DEF Left
<1>3. ASSUME NEW u \in left'.fresh PROVE Nowhere(u)' /\ over'[u].end = "open" /\ ~over'[u].loose
  <2>1. u \in Update /\ Elsewhere(u) /\ u \in left.fresh
    BY <1>1, <1>2 DEF Still
  <2> QED
    BY <2>1, ElsewhereStays DEF Noted, Elsewhere
<1>4. ASSUME NEW u \in Update, Underway(u)' PROVE OnePlace(u)' /\ HasNote(u)'
  BY <1>1, <1>4, ElsewhereStays DEF Noted
<1>5. my'.want = None => \A u \in Update : my'.sent[u] = None
  BY DEF Noted, Still
<1> QED
  BY <1>3, <1>4, <1>5 DEF Noted

LEMMA UpdFacts ==
    /\ \A u, v : Upd(u) = Upd(v) => u = v
    /\ \A u \in Update : Upd(u) \in Message
    /\ \A m \in Message : m.kind = "update" => m = Upd(m.upd) /\ m.upd \in Update
<1>1. ASSUME NEW m \in Message, m.kind = "update" PROVE m = Upd(m.upd) /\ m.upd \in Update
  BY <1>1 DEF Message, Upd
<1>2. ASSUME NEW u, NEW v, Upd(u) = Upd(v) PROVE u = v
  <2>1. Upd(u).upd = u /\ Upd(v).upd = v
    BY DEF Upd
  <2> QED
    BY <1>2, <2>1
<1> QED
  BY <1>1, <1>2, MessageTypes DEF Upd

\* What a step does to an update's place, by where it was.
LEMMA OnePlaceFacts ==
    ASSUME NEW u \in Update, OnePlace(u)
    PROVE  /\ Once(my.waiting, u) /\ Once(queue, Upd(u))
           /\ u \in my.passing =>
                ~Has(my.waiting, u) /\ ~Has(queue, Upd(u)) /\ u \notin comb.kept /\ ~Judged(u) /\ ~Answered(u)
           /\ Has(my.waiting, u) => ~Has(queue, Upd(u)) /\ u \notin comb.kept /\ ~Judged(u) /\ ~Answered(u)
           /\ Has(queue, Upd(u)) => u \notin comb.kept /\ ~Judged(u) /\ ~Answered(u)
           /\ u \in comb.kept => ~Judged(u) /\ ~Answered(u)
           /\ Judged(u) => ~Answered(u)
BY DEF OnePlace, AtCombiner

LEMMA NotedPass ==
    ASSUME TypeOK, TypeOK', Noted, NEW x \in my.passing, Pass(x)
    PROVE  Noted'
<1>t. /\ my \in Tracker /\ queue \in Seq(Message) /\ over \in [Update -> Ended] /\ left \in Left /\ x \in Update
      /\ my.sent \in [Update -> MaybeHandover] /\ my.passing \subseteq Update /\ left.fresh \subseteq Update
  BY TypesByName DEF Tracker, Left
<1>1. left'.fresh = left.fresh /\ UNCHANGED <<words, comb>>
  BY OccursFresh DEF Pass, Events
<1>2. left'.fresh \subseteq left.fresh \ {x}
  BY <1>1 DEF Noted, Nowhere
<1>3. my'.waiting = my.waiting /\ my'.draining = my.draining /\ my'.want = my.want /\ my'.passing = my.passing \ {x}
  BY <1>t DEF Pass, Tracker
<1>4. CASE queue' = Append(queue, Upd(x)) /\ my' = [my EXCEPT !.passing = @ \ {x}] /\ over' = over
  <2>1. my'.sent = my.sent
    BY <1>4, <1>t DEF Tracker
  <2>2. \A u \in Update \ {x} : Elsewhere(u)
    <3>1. \A u \in Update \ {x} : Upd(u) # Upd(x)
      BY UpdFacts
    <3> QED
      BY <1>1, <1>3, <1>4, <1>t, <2>1, <3>1, UpdFacts, HasAppend DEF Elsewhere
  <2>3. ASSUME Underway(x)' PROVE OnePlace(x)' /\ HasNote(x)'
    <3>1. OnePlace(x) /\ HasNote(x) /\ Underway(x)
      BY <1>4, <1>t, <2>3 DEF Noted, Underway
    <3>2. Once(queue', Upd(x))
      BY <1>4, <1>t, <3>1, OnePlaceFacts, UpdFacts, HasAppend
    <3>3. (Judged(x)' <=> Judged(x)) /\ (Answered(x)' <=> Answered(x))
      BY <1>1 DEF Judged, Answered
    <3>4. OnePlace(x)'
      BY <1>1, <1>3, <3>1, <3>2, <3>3, OnePlaceFacts DEF OnePlace, AtCombiner
    <3>5. my'.sent[x] # None /\ ~Has(my'.waiting, x)
      BY <1>3, <1>t, <2>1, <3>1, OnePlaceFacts DEF HasNote
    <3> QED
      BY <3>4, <3>5 DEF HasNote
  <2> QED
    BY <1>2, <1>3, <1>t, <2>1, <2>2, <2>3, NotedBy
<1>5. CASE queue' = queue /\ my' = [my EXCEPT !.passing = @ \ {x}, !.sent[x] = None]
           /\ over' = [over EXCEPT ![x].end = "failed"]
  <2>1. my'.sent = [my.sent EXCEPT ![x] = None]
    BY <1>5, <1>t DEF Tracker
  <2>2. over'[x].end = "failed" /\ \A u \in Update \ {x} : over'[u] = over[u] /\ my'.sent[u] = my.sent[u]
    BY <1>5, <1>t, <2>1 DEF Ended
  <2>3. \A u \in Update \ {x} : Elsewhere(u)
    BY <1>1, <1>3, <1>5, <2>2 DEF Elsewhere
  <2>4. ~Underway(x)' /\ my'.sent[x] = None
    BY <1>t, <2>1, <2>2 DEF Underway
  <2> QED
    BY <1>2, <1>3, <1>t, <2>3, <2>4, NotedBy
<1> QED
  BY <1>4, <1>5 DEF Pass, Upd

LEMMA NotedDrains ==
    ASSUME TypeOK, TypeOK', Drains, Noted, DrainTake \/ DrainEnqueue
    PROVE  Noted'
<1>t. /\ my \in Tracker /\ queue \in Seq(Message) /\ over \in [Update -> Ended] /\ left \in Left
      /\ my.sent \in [Update -> MaybeHandover] /\ my.waiting \in Seq(Update) /\ left.fresh \subseteq Update
  BY TypesByName DEF Tracker, Left
<1>1. my.waiting # <<>>
  BY DEF Drains, DrainTake, DrainEnqueue
<1>2. PICK x \in Update : x = Head(my.waiting) /\ Has(my.waiting, x)
  BY <1>1, <1>t, HasTail
<1>3. left'.fresh = left.fresh /\ UNCHANGED <<words, comb, over>>
  BY OccursFresh DEF DrainTake, DrainEnqueue, Events
<1>4. left'.fresh \subseteq left.fresh \ {x}
  BY <1>2, <1>3 DEF Noted, Nowhere
<1>5. (Underway(x)' <=> Underway(x)) /\ (Judged(x)' <=> Judged(x)) /\ (Answered(x)' <=> Answered(x))
  BY <1>3 DEF Underway, Judged, Answered
<1>6. CASE DrainTake
  <2>1. /\ my.want # None /\ ~my.draining /\ queue' = queue
        /\ my' = [my EXCEPT !.draining = TRUE, !.sent[x] = my.held]
    BY <1>2, <1>6 DEF DrainTake, MayGo
  <2>5. my.held # None
    <3>1. my.want.key = my.held.key /\ my.want \in MaybeHandover
      BY <1>6, <1>t DEF DrainTake, MayGo, Same, Tracker
    <3> QED
      BY <2>1, <3>1, NoneFacts, HoldsFacts, KeyAssumption
  <2>2. /\ my'.waiting = my.waiting /\ my'.draining /\ my'.want = my.want /\ my'.passing = my.passing
        /\ my'.sent = [my.sent EXCEPT ![x] = my.held]
    BY <1>t, <2>1 DEF Tracker
  <2>3. ASSUME NEW u \in Update \ {x} PROVE Elsewhere(u)
    <3>1. my'.sent[u] = my.sent[u]
      BY <1>t, <2>2, <2>3
    <3> QED
      BY <1>2, <1>3, <2>1, <2>2, <2>3, <3>1 DEF Elsewhere
  <2>4. ASSUME Underway(x)' PROVE OnePlace(x)' /\ HasNote(x)'
    <3>1. OnePlace(x)
      BY <1>2, <1>5, <2>4 DEF Noted
    <3>2. OnePlace(x)'
      BY <1>3, <1>5, <2>1, <2>2, <3>1 DEF OnePlace, AtCombiner
    <3>3. my'.sent[x] # None
      BY <1>2, <1>t, <2>1, <2>5, <2>2
    <3> QED
      BY <1>2, <2>2, <3>2, <3>3 DEF HasNote
  <2> QED
    BY <1>2, <1>4, <2>1, <2>2, <2>3, <2>4, NotedBy
<1>7. CASE /\ my.draining /\ queue' = Append(queue, Upd(x))
           /\ my' = [my EXCEPT !.draining = FALSE, !.waiting = Tail(@)]
  <2>2. /\ my'.waiting = Tail(my.waiting) /\ my'.draining = FALSE /\ my'.want = my.want
        /\ my'.passing = my.passing /\ my'.sent = my.sent
    BY <1>7, <1>t DEF Tracker
  <2>3. ASSUME NEW u \in Update \ {x} PROVE Elsewhere(u)
    <3>1. Upd(u) # Upd(x)
      BY <2>3, UpdFacts
    <3>2. /\ Has(my'.waiting, u) => Has(my.waiting, u)
          /\ Once(my.waiting, u) => Once(my'.waiting, u)
      BY <1>1, <1>t, <2>2, HasTail
    <3>3. /\ Has(queue', Upd(u)) => Has(queue, Upd(u))
          /\ Once(queue, Upd(u)) => Once(queue', Upd(u))
      BY <1>2, <1>7, <1>t, <2>3, <3>1, UpdFacts, HasAppend
    <3> QED
      BY <1>2, <1>3, <1>7, <2>2, <2>3, <3>2, <3>3 DEF Elsewhere
  <2>4. ASSUME Underway(x)' PROVE OnePlace(x)' /\ HasNote(x)'
    <3>1. OnePlace(x) /\ HasNote(x)
      BY <1>2, <1>5, <2>4 DEF Noted
    <3>2. ~Has(my'.waiting, x) /\ Once(my'.waiting, x)
      BY <1>1, <1>2, <1>t, <2>2, <3>1, OnePlaceFacts, HasTail
    <3>3. Once(queue', Upd(x)) /\ x \notin my.passing
      BY <1>2, <1>7, <1>t, <3>1, OnePlaceFacts, UpdFacts, HasAppend
    <3>4. OnePlace(x)'
      BY <1>2, <1>3, <1>5, <2>2, <3>1, <3>2, <3>3, OnePlaceFacts DEF OnePlace, AtCombiner
    <3>5. my'.sent[x] # None
      BY <1>2, <1>7, <2>2, <3>1 DEF HasNote
    <3> QED
      BY <3>2, <3>4, <3>5 DEF HasNote
  <2> QED
    BY <1>2, <1>4, <2>2, <2>3, <2>4, NotedBy
<1>8. CASE /\ my.draining /\ queue' = queue
           /\ my' = [my EXCEPT !.draining = FALSE, !.sent[x] = None]
  <2>2. /\ my'.waiting = my.waiting /\ my'.draining = FALSE /\ my'.want = my.want
        /\ my'.passing = my.passing /\ my'.sent = [my.sent EXCEPT ![x] = None]
    BY <1>8, <1>t DEF Tracker
  <2>3. ASSUME NEW u \in Update \ {x} PROVE Elsewhere(u)
    <3>1. my'.sent[u] = my.sent[u]
      BY <1>t, <2>2, <2>3
    <3> QED
      BY <1>2, <1>3, <1>8, <2>2, <2>3, <3>1 DEF Elsewhere
  <2>4. ASSUME Underway(x)' PROVE OnePlace(x)' /\ HasNote(x)'
    <3>1. OnePlace(x)
      BY <1>2, <1>5, <2>4 DEF Noted
    <3>2. OnePlace(x)'
      BY <1>3, <1>5, <1>8, <2>2, <3>1 DEF OnePlace, AtCombiner
    <3>3. x \notin my'.passing /\ ~AtCombiner(x)'
      BY <1>2, <2>2, <3>2 DEF OnePlace
    <3>4. my'.sent[x] = None
      BY <1>2, <1>t, <2>2
    <3> QED
      BY <2>2, <3>2, <3>3, <3>4 DEF HasNote
  <2>5. my'.sent[x] = None
    BY <1>2, <1>t, <2>2
  <2> QED
    BY <1>2, <1>4, <2>2, <2>3, <2>4, <2>5, NotedBy
<1> QED
  BY <1>2, <1>6, <1>7, <1>8 DEF DrainEnqueue, Upd

LEMMA NotedGate ==
    ASSUME TypeOK, TypeOK', Drains, Noted, NEW x \in left.fresh, Gate(x)
    PROVE  Noted'
<1>t. /\ my \in Tracker /\ queue \in Seq(Message) /\ over \in [Update -> Ended] /\ left \in Left /\ x \in Update
      /\ my.sent \in [Update -> MaybeHandover] /\ my.waiting \in Seq(Update) /\ left.fresh \subseteq Update
      /\ my.held \in MaybeHandover /\ my.want \in MaybeHandover
  BY TypesByName DEF Tracker, Left
<1>1. UNCHANGED <<words, comb, queue>> /\ left'.fresh \subseteq left.fresh \ {x}
  BY <1>t DEF Gate, Left
<1>2. (over'[x].loose <=> my.want = None) /\ \A u \in Update \ {x} : over'[u] = over[u]
  BY <1>t DEF Gate, Ended
<1>3. Nowhere(x)
  BY DEF Noted
<1>4. (Judged(x)' <=> Judged(x)) /\ (Answered(x)' <=> Answered(x))
  BY <1>1 DEF Judged, Answered
<1>5. ~Has(queue, Upd(x)) /\ x \notin comb.kept /\ ~Judged(x) /\ ~Answered(x) /\ my.sent[x] = None
      /\ x \notin my.passing /\ ~Has(my.waiting, x)
  BY <1>3 DEF Nowhere, AtCombiner
<1>5a. /\ ~AtCombiner(x)'
       /\ Once(queue', Upd(x))
       /\ \A v, w \in words' : v.kind = "update" /\ w.kind = "update" /\ v.upd = x /\ w.upd = x => v = w
       /\ \A i, j \in comb'.judged : i.upd = x /\ j.upd = x => i = j
  BY <1>1, <1>4, <1>5 DEF AtCombiner, Has, Once, Judged, Answered
<1>6. CASE my.want = None /\ my' = [my EXCEPT !.passing = @ \cup {x}]
  <2>1. /\ my'.waiting = my.waiting /\ my'.draining = my.draining /\ my'.want = my.want
        /\ my'.passing = my.passing \cup {x} /\ my'.sent = my.sent
    BY <1>6, <1>t DEF Tracker
  <2>2. \A u \in Update \ {x} : Elsewhere(u)
    BY <1>1, <1>2, <2>1 DEF Elsewhere
  <2>3. ~Underway(x)'
    BY <1>2, <1>6 DEF Underway
  <2> QED
    BY <1>1, <1>t, <2>1, <2>2, <2>3, NotedBy
<1>7. CASE my.want # None /\ MayGo /\ my' = [my EXCEPT !.passing = @ \cup {x}, !.sent[x] = my.held]
  <2>1. /\ my'.waiting = my.waiting /\ my'.draining = my.draining /\ my'.want = my.want
        /\ my'.passing = my.passing \cup {x} /\ my'.sent = [my.sent EXCEPT ![x] = my.held]
    BY <1>7, <1>t DEF Tracker
  <2>2. \A u \in Update \ {x} : Elsewhere(u)
    BY <1>1, <1>2, <1>t, <2>1 DEF Elsewhere
  <2>3. my'.sent[x] # None
    <3>1. my.want.key = my.held.key
      BY <1>7 DEF MayGo, Same
    <3> QED
      BY <1>7, <1>t, <2>1, <3>1, NoneFacts, HoldsFacts
  <2>4. OnePlace(x)' /\ HasNote(x)'
    BY <1>5, <1>5a, <2>1, <2>3 DEF OnePlace, HasNote, AtCombiner, Has, Once
  <2> QED
    BY <1>1, <1>7, <1>t, <2>1, <2>2, <2>4, NotedBy
<1>8. CASE my.want # None /\ my' = [my EXCEPT !.waiting = Append(@, x)]
  <2>1. /\ my'.waiting = Append(my.waiting, x) /\ my'.draining = my.draining /\ my'.want = my.want
        /\ my'.passing = my.passing /\ my'.sent = my.sent
    BY <1>8, <1>t DEF Tracker
  <2>2. my.draining => Head(my'.waiting) = Head(my.waiting) /\ Has(my.waiting, Head(my.waiting))
    BY <1>t, <2>1, HasAppend, HasTail DEF Drains
  <2>3. ASSUME NEW u \in Update \ {x} PROVE Elsewhere(u)
    <3>1. /\ Has(my'.waiting, u) => Has(my.waiting, u)
          /\ Once(my.waiting, u) => Once(my'.waiting, u)
      BY <1>t, <2>1, <2>3, HasAppend
    <3> QED
      BY <1>1, <1>2, <2>1, <2>2, <2>3, <3>1 DEF Elsewhere
  <2>4. Has(my'.waiting, x) /\ Once(my'.waiting, x)
    <3>1. Once(my.waiting, x)
      BY <1>5 DEF Has, Once
    <3> QED
      BY <1>5, <1>t, <2>1, <3>1, HasAppend
  <2>5. OnePlace(x)'
    BY <1>5, <1>5a, <2>1, <2>4 DEF OnePlace, AtCombiner
  <2>6. HasNote(x)'
    BY <1>5, <1>5a, <2>1, <2>2, <2>4 DEF HasNote
  <2> QED
    BY <1>1, <1>8, <1>t, <2>1, <2>3, <2>5, <2>6, NotedBy
<1> QED
  BY <1>6, <1>7, <1>8 DEF Gate

LEMMA NotedConfirmed ==
    ASSUME TypeOK, TypeOK', Drains, Noted, NEW w \in words, UpdateConfirmed(w)
    PROVE  Noted'
<1>t. /\ my \in Tracker /\ queue \in Seq(Message) /\ over \in [Update -> Ended] /\ left \in Left
      /\ my.sent \in [Update -> MaybeHandover] /\ my.waiting \in Seq(Update) /\ left.fresh \subseteq Update
      /\ words \subseteq Words
  BY TypesByName DEF Tracker, Left
<1>1. PICK x \in Update : x = w.upd
  BY <1>t, WordTypes DEF UpdateConfirmed
<1>2. w.kind = "update" /\ words' = words \ {w} /\ UNCHANGED <<queue, comb, zone, left>>
  BY DEF UpdateConfirmed, Hears
<1>3. Answered(x) /\ (Judged(x)' <=> Judged(x)) /\ (Answered(x)' => Answered(x))
  BY <1>1, <1>2 DEF Answered, Judged
<1>4. left'.fresh \subseteq left.fresh \ {x}
  BY <1>2, <1>3 DEF Noted, Nowhere, AtCombiner
<1>5. CASE over' = over /\ my' = [my EXCEPT !.sent[x] = None, !.waiting = Append(@, x)]
  <2>1. /\ my'.waiting = Append(my.waiting, x) /\ my'.draining = my.draining /\ my'.want = my.want
        /\ my'.passing = my.passing /\ my'.sent = [my.sent EXCEPT ![x] = None]
    BY <1>5, <1>t DEF Tracker
  <2>2. my.draining => Head(my'.waiting) = Head(my.waiting) /\ Has(my.waiting, Head(my.waiting))
    BY <1>t, <2>1, HasAppend, HasTail DEF Drains
  <2>3. ASSUME NEW u \in Update \ {x} PROVE Elsewhere(u)
    <3>1. /\ Has(my'.waiting, u) => Has(my.waiting, u)
          /\ Once(my.waiting, u) => Once(my'.waiting, u)
          /\ my'.sent[u] = my.sent[u]
      BY <1>t, <2>1, <2>3, HasAppend
    <3> QED
      BY <1>2, <1>5, <2>1, <2>2, <2>3, <3>1 DEF Elsewhere
  <2>4. ASSUME Underway(x)' PROVE OnePlace(x)' /\ HasNote(x)'
    <3>1. OnePlace(x)
      BY <1>5, <2>4 DEF Noted, Underway
    <3>2. /\ ~Has(my.waiting, x) /\ x \notin my.passing /\ ~Has(queue, Upd(x)) /\ x \notin comb.kept /\ ~Judged(x)
      BY <1>3, <3>1, OnePlaceFacts
    <3>3. ~Answered(x)'
      BY <1>1, <1>2, <3>1 DEF Answered, OnePlace
    <3>4. Has(my'.waiting, x) /\ Once(my'.waiting, x)
      BY <1>t, <2>1, <3>1, <3>2, OnePlaceFacts, HasAppend
    <3>5. ~AtCombiner(x)'
      BY <1>2, <1>3, <3>2, <3>3 DEF AtCombiner
    <3>6. OnePlace(x)'
      BY <1>2, <1>3, <2>1, <3>1, <3>2, <3>3, <3>4, <3>5 DEF OnePlace, AtCombiner
    <3>7. my'.sent[x] = None
      BY <1>t, <2>1
    <3> QED
      BY <2>1, <2>2, <3>2, <3>4, <3>5, <3>6, <3>7 DEF HasNote
  <2>5. my'.sent[x] = None
    BY <1>t, <2>1
  <2> QED
    BY <1>4, <2>1, <2>3, <2>4, <2>5, NotedBy
<1>6. CASE GoesOn(w) /\ my' = [my EXCEPT !.sent[x] = None]
  <2>1. /\ my'.waiting = my.waiting /\ my'.draining = my.draining /\ my'.want = my.want
        /\ my'.passing = my.passing /\ my'.sent = [my.sent EXCEPT ![x] = None]
    BY <1>6, <1>t DEF Tracker
  <2>2. over'[x].end # "open" /\ \A u \in Update \ {x} : over'[u] = over[u]
    BY <1>1, <1>6, <1>t DEF GoesOn, Ended
  <2>3. \A u \in Update \ {x} : Elsewhere(u)
    BY <1>2, <1>t, <2>1, <2>2 DEF Elsewhere
  <2>4. ~Underway(x)' /\ my'.sent[x] = None
    BY <1>t, <2>1, <2>2 DEF Underway
  <2> QED
    BY <1>4, <2>1, <2>3, <2>4, NotedBy
<1> QED
  BY <1>1, <1>5, <1>6 DEF UpdateConfirmed

LEMMA NotedUnanswered ==
    ASSUME TypeOK, Noted, NEW x \in Update, Unanswered(x)
    PROVE  Noted'
<1>t. /\ my \in Tracker /\ over \in [Update -> Ended] /\ my.sent \in [Update -> MaybeHandover]
  BY TypesByName DEF Tracker
<1>1. /\ my.sent[x] # None /\ UNCHANGED <<queue, words, comb, left>>
      /\ my' = [my EXCEPT !.sent[x] = None]
      /\ over' = [over EXCEPT ![x].end = IF over[x].end = "open" THEN "lost" ELSE over[x].end]
  BY <1>t DEF Unanswered
<1>2. /\ my'.waiting = my.waiting /\ my'.draining = my.draining /\ my'.want = my.want
      /\ my'.passing = my.passing /\ my'.sent = [my.sent EXCEPT ![x] = None]
  BY <1>1, <1>t DEF Tracker
<1>3. over'[x].end # "open" /\ \A u \in Update \ {x} : over'[u] = over[u]
  BY <1>1, <1>t DEF Ended
<1>4. \A u \in Update \ {x} : Elsewhere(u)
  BY <1>1, <1>t, <1>2, <1>3 DEF Elsewhere
<1>5. ~Underway(x)' /\ my'.sent[x] = None
  BY <1>t, <1>2, <1>3 DEF Underway
<1>6. left'.fresh \subseteq left.fresh \ {x}
  BY <1>1 DEF Noted, Nowhere
<1> QED
  BY <1>2, <1>4, <1>5, <1>6, NotedBy

LEMMA NotedRestart ==
    ASSUME TypeOK, Noted, AgentRestart
    PROVE  Noted'
<1>t. left.fresh \subseteq Update /\ over \in [Update -> Ended]
  BY TypesByName DEF Left
<1>1. /\ my'.waiting = <<>> /\ my'.passing = {} /\ my'.sent = [u \in Update |-> None] /\ queue' = <<>>
      /\ UNCHANGED <<words, comb>>
  BY DEF AgentRestart, NewTracker
<1>2. left'.fresh = left.fresh
  BY OccursFresh DEF AgentRestart, Events
<1>3. \A u \in left.fresh : over'[u] = over[u]
  BY <1>t DEF AgentRestart
<1>4. ASSUME NEW u \in left.fresh PROVE Nowhere(u)' /\ OnePlace(u)' /\ HasNote(u)'
  <2>1. u \in Update /\ ~Judged(u)' /\ ~Answered(u)' /\ u \notin comb'.kept
    BY <1>1, <1>4, <1>t DEF Noted, Nowhere, AtCombiner, Judged, Answered
  <2>2. \A s \in {my'.waiting, queue'} : \A y : ~Has(s, y) /\ Once(s, y)
    BY <1>1 DEF Has, Once
  <2>3. ~AtCombiner(u)'
    BY <2>1, <2>2 DEF AtCombiner
  <2>4. my'.sent[u] = None
    BY <1>1, <2>1
  <2> QED
    BY <1>1, <2>1, <2>2, <2>3, <2>4 DEF Nowhere, OnePlace, HasNote, Judged, Answered
<1>5. ASSUME NEW u \in Update, Underway(u)' PROVE u \in left.fresh
  BY <1>5, <1>t DEF AgentRestart, Underway, Ended
<1> QED
  BY <1>1, <1>2, <1>3, <1>4, <1>5 DEF Noted

\* What the combiner does with an update: from the queue, to the operator,
\* to the word.
LEMMA NotedCombiner ==
    ASSUME TypeOK, TypeOK', Noted, NEW x \in Update,
           UNCHANGED my, left'.fresh = left.fresh,
           \A u \in Update \ {x} : Elsewhere(u),
           Has(queue, Upd(x)) \/ x \in comb.kept \/ Judged(x),
           Underway(x)' => Underway(x) /\ OnePlace(x)' /\ AtCombiner(x)
    PROVE  Noted'
<1>1. AtCombiner(x)
  BY DEF AtCombiner
<1>2. left'.fresh \subseteq left.fresh \ {x}
  BY <1>1 DEF Noted, Nowhere
<1>3. ASSUME Underway(x)' PROVE OnePlace(x)' /\ HasNote(x)'
  <2>1. OnePlace(x) /\ HasNote(x)
    BY <1>3 DEF Noted
  <2>2. my.sent[x] # None /\ ~Has(my.waiting, x)
    BY <1>1, <2>1 DEF HasNote, OnePlace
  <2> QED
    BY <1>3, <2>2 DEF HasNote
<1> QED
  BY <1>2, <1>3, NotedBy

LEMMA WordIsUpdate ==
    \A u, ok, by : Word(u, ok, by).kind = "update" /\ Word(u, ok, by).upd = u
                   /\ Word(u, ok, by).by = by /\ Word(u, ok, by).acting = Acting
BY DEF Word

LEMMA NotedJudge ==
    ASSUME TypeOK, TypeOK', Noted, Judge
    PROVE  Noted'
<1>t. queue \in Seq(Message) /\ queue # <<>> /\ over \in [Update -> Ended]
  BY TypesByName DEF Judge
<1>1. PICK x \in Update : Head(queue) = Upd(x) /\ x = Head(queue).upd
  BY <1>t, UpdFacts DEF Judge
<1>2. PICK ok \in BOOLEAN : words' = words \cup {Word(x, ok, Acting)}
  BY <1>1 DEF Judge
<1>3. UNCHANGED <<my, comb>> /\ left'.fresh = left.fresh
  BY OccursFresh DEF Judge, Delivered, Events
<1>4. queue' = queue \/ queue' = Tail(queue)
  BY DEF Judge, Delivered
<1>5. /\ \A u \in Update \ {x} : over'[u] = over[u]
      /\ over'[x].end = over[x].end
      /\ over'[x].loose <=> over[x].loose \/ queue' = queue
  BY <1>1, <1>t DEF Judge, Twice, Ended
<1>6. Has(queue, Upd(x))
  BY <1>1, <1>t, HasTail
<1>7. ASSUME NEW u \in Update \ {x} PROVE Elsewhere(u)
  <2>1. \A w \in words' : w.kind = "update" /\ w.upd = u => w \in words
    BY <1>2, <1>7, WordIsUpdate
  <2>2. /\ Has(queue', Upd(u)) => Has(queue, Upd(u))
        /\ Once(queue, Upd(u)) => Once(queue', Upd(u))
    BY <1>4, <1>7, <1>t, QueueStill
  <2> QED
    BY <1>3, <1>5, <2>1, <2>2 DEF Elsewhere
<1>8. ASSUME Underway(x)' PROVE Underway(x) /\ OnePlace(x)' /\ AtCombiner(x)
  <2>1. Underway(x) /\ queue' = Tail(queue)
    BY <1>4, <1>5, <1>8 DEF Underway
  <2>2. OnePlace(x)
    BY <2>1 DEF Noted
  <2>3. ~Has(queue', Upd(x)) /\ Once(queue', Upd(x))
    BY <1>1, <1>t, <2>1, <2>2, HasTail, OnePlaceFacts
  <2>4. ~Answered(x) /\ ~Judged(x) /\ x \notin comb.kept /\ x \notin my.passing /\ ~Has(my.waiting, x)
    BY <1>6, <2>2, OnePlaceFacts
  <2>5. ~Judged(x)'
    BY <1>3, <2>4 DEF Judged
  <2>6. \A v, w \in words' : v.kind = "update" /\ w.kind = "update" /\ v.upd = x /\ w.upd = x => v = w
    BY <1>2, <2>4 DEF Answered
  <2>7. OnePlace(x)'
    BY <1>3, <2>2, <2>3, <2>4, <2>5, <2>6 DEF OnePlace, Judged
  <2> QED
    BY <1>6, <2>1, <2>7 DEF AtCombiner
<1> QED
  BY <1>3, <1>5, <1>6, <1>7, <1>8, NotedCombiner

LEMMA NotedKeep ==
    ASSUME TypeOK, TypeOK', Noted, KeepForApproval
    PROVE  Noted'
<1>t. queue \in Seq(Message) /\ queue # <<>> /\ comb \in Part
  BY TypesByName DEF KeepForApproval
<1>1. PICK x \in Update : Head(queue) = Upd(x) /\ x = Head(queue).upd
  BY <1>t, UpdFacts DEF KeepForApproval
<1>2. UNCHANGED <<my, words, over>> /\ left'.fresh = left.fresh /\ queue' = Tail(queue)
  BY OccursFresh DEF KeepForApproval, Events
<1>3. comb'.kept = comb.kept \cup {x} /\ comb'.judged = comb.judged
  BY <1>1, <1>t DEF KeepForApproval, Part
<1>4. Has(queue, Upd(x))
  BY <1>1, <1>t, HasTail
<1>5. \A u \in Update \ {x} : Elsewhere(u)
  BY <1>2, <1>3, <1>t, QueueStill DEF Elsewhere
<1>6. ASSUME Underway(x)' PROVE Underway(x) /\ OnePlace(x)' /\ AtCombiner(x)
  <2>1. Underway(x) /\ OnePlace(x)
    BY <1>2, <1>6 DEF Underway, Noted
  <2>2. ~Has(queue', Upd(x)) /\ Once(queue', Upd(x))
    BY <1>1, <1>2, <1>t, <2>1, HasTail, OnePlaceFacts
  <2>3. ~Answered(x) /\ ~Judged(x) /\ x \notin my.passing /\ ~Has(my.waiting, x)
    BY <1>4, <2>1, OnePlaceFacts
  <2>4. ~Judged(x)' /\ ~Answered(x)'
    BY <1>2, <1>3, <2>3 DEF Judged, Answered
  <2>5. OnePlace(x)'
    BY <1>2, <1>3, <2>1, <2>2, <2>3, <2>4 DEF OnePlace
  <2> QED
    BY <1>4, <2>1, <2>5 DEF AtCombiner
<1> QED
  BY <1>2, <1>4, <1>5, <1>6, NotedCombiner

LEMMA NotedApprove ==
    ASSUME TypeOK, TypeOK', Noted, NEW x \in comb.kept, Approve(x)
    PROVE  Noted'
<1>t. comb \in Part /\ x \in Update
  BY TypesByName DEF Part
<1>1. UNCHANGED <<my, queue, words, over, left>>
  BY DEF Approve
<1>2. PICK ok \in BOOLEAN :
        /\ comb'.kept = comb.kept \ {x}
        /\ comb'.judged = comb.judged \cup {[upd |-> x, ok |-> ok, by |-> Acting]}
  BY <1>t DEF Approve, Part
<1>3. \A u \in Update \ {x} : Elsewhere(u)
  BY <1>1, <1>2 DEF Elsewhere
<1>4. ASSUME Underway(x)' PROVE Underway(x) /\ OnePlace(x)' /\ AtCombiner(x)
  <2>1. Underway(x) /\ OnePlace(x)
    BY <1>1, <1>4, <1>t DEF Underway, Noted
  <2>2. ~Has(queue, Upd(x)) /\ ~Answered(x) /\ ~Judged(x) /\ x \notin my.passing /\ ~Has(my.waiting, x)
    BY <1>t, <2>1, OnePlaceFacts
  <2>3. \A i, j \in comb'.judged : i.upd = x /\ j.upd = x => i = j
    BY <1>2, <2>2 DEF Judged
  <2>4. ~Answered(x)'
    BY <1>1, <2>2 DEF Answered
  <2>5. OnePlace(x)'
    BY <1>1, <1>2, <2>1, <2>2, <2>3, <2>4 DEF OnePlace
  <2> QED
    BY <2>1, <2>5 DEF AtCombiner
<1> QED
  BY <1>1, <1>3, <1>4, <1>t, NotedCombiner

LEMMA NotedSend ==
    ASSUME TypeOK, TypeOK', Noted, NEW j \in comb.judged, SendApproval(j)
    PROVE  Noted'
<1>t. comb \in Part
  BY TypesByName
<1>1. PICK x \in Update : x = j.upd
  BY <1>t DEF Part
<1>2. UNCHANGED <<my, queue, over, left>> /\ words' = words \cup {Word(x, j.ok, j.by)}
  BY <1>1 DEF SendApproval
<1>3. comb'.kept = comb.kept /\ comb'.judged = comb.judged \ {j}
  BY <1>t DEF SendApproval, Part
<1>4. Judged(x)
  BY <1>1 DEF Judged
<1>5. \A u \in Update \ {x} : Elsewhere(u)
  BY <1>2, <1>3, WordIsUpdate DEF Elsewhere
<1>6. ASSUME Underway(x)' PROVE Underway(x) /\ OnePlace(x)' /\ AtCombiner(x)
  <2>1. Underway(x) /\ OnePlace(x)
    BY <1>2, <1>6 DEF Underway, Noted
  <2>2. /\ ~Has(queue, Upd(x)) /\ ~Answered(x) /\ x \notin comb.kept /\ x \notin my.passing /\ ~Has(my.waiting, x)
    BY <1>4, <2>1, OnePlaceFacts
  <2>3. ~Judged(x)'
    BY <1>1, <1>3, <2>1 DEF Judged, OnePlace
  <2>4. \A v, w \in words' : v.kind = "update" /\ w.kind = "update" /\ v.upd = x /\ w.upd = x => v = w
    BY <1>2, <2>2 DEF Answered
  <2>5. OnePlace(x)'
    BY <1>2, <1>3, <2>1, <2>2, <2>3, <2>4 DEF OnePlace
  <2> QED
    BY <1>4, <2>1, <2>5 DEF AtCombiner
<1> QED
  BY <1>2, <1>4, <1>5, <1>6, NotedCombiner

LEMMA NotedStays ==
    ASSUME TypeOK, TypeOK', Drains, Noted, [Next]_vars
    PROVE  Noted'
BY StillOrMoves, NotedStill, NotedPass, NotedDrains, NotedConfirmed, NotedUnanswered, NotedJudge,
   NotedApprove, NotedSend, NotedGate, NotedRestart, NotedKeep DEF Moves

-----------------------------------------------------------------------------
(* What an update was judged by *)

LEMMA HoldsRise ==
    ASSUME TypeOK, Spent, Keeps, Held, [Next]_vars
    PROVE  comb.holds.key <= comb'.holds.key
<1>t. comb \in Part /\ comb.holds.key \in Int
  BY TypesByName, HoldsFacts DEF Part
<1>1. CASE TakeHandover
  BY <1>1, TakeRaises DEF Held
<1>2. CASE Starts
  <2>1. left.mix["lose"] = 0
    BY DEF Spent, Keeps, Events
  <2> QED
    BY <1>2, <1>t, <2>1 DEF Starts, Occurs, Part
<1>3. CASE \/ \E u \in comb.kept : Approve(u)
           \/ \E j \in comb.judged : SendApproval(j)
           \/ KeepForApproval
  <2>1. ASSUME NEW u \in comb.kept, Approve(u) PROVE comb'.holds = comb.holds
    BY <1>t, <2>1 DEF Approve, Part
  <2>2. ASSUME NEW x \in comb.judged, SendApproval(x) PROVE comb'.holds = comb.holds
    BY <1>t, <2>2 DEF SendApproval, Part
  <2>3. ASSUME KeepForApproval PROVE comb'.holds = comb.holds
    BY <1>t, <2>3 DEF KeepForApproval, Part
  <2> QED
    BY <1>3, <1>t, <2>1, <2>2, <2>3
<1>4. CASE UNCHANGED comb
  BY <1>4, <1>t
<1>5. ASSUME NEW k, NEW hold, Changes([key |-> k, hold |-> hold, made |-> 0, reset |-> FALSE])
      PROVE  UNCHANGED comb
  BY <1>5 DEF Changes, HandOver
<1>6. UNCHANGED comb \/ TakeHandover \/ Starts
        \/ (\E u \in comb.kept : Approve(u)) \/ (\E j \in comb.judged : SendApproval(j)) \/ KeepForApproval
  <2>1. Agent => UNCHANGED comb
    BY DEF Agent, Deliver, Pass, DrainTake, DrainEnqueue, HandoverConfirmed, UpdateConfirmed,
           Learned, CombinerStarted, Refresh, HandOver, Tick, Unanswered
  <2>2. Judge \/ Waits => UNCHANGED comb
    BY DEF Judge, Waits
  <2>3. (\E u \in left.fresh : Gate(u)) \/ Forgot \/ AgentRestart \/ AnswerRead \/ GiveUp \/ (\E w \in words : Lost(w))
          => UNCHANGED comb
    BY DEF Gate, Forgot, AgentRestart, AnswerRead, GiveUp, Lost
  <2>4. UNCHANGED vars => UNCHANGED comb
    BY DEF vars
  <2> QED
    BY <1>5, <2>1, <2>2, <2>3, <2>4 DEF Next, Combiner, Outside
<1> QED
  BY <1>1, <1>2, <1>3, <1>4, <1>6

LEMMA ActingRises ==
    ASSUME NEW h \in MaybeHandover, NEW o \in MaybeHandover, h.key <= o.key
    PROVE  (IF h = None THEN -1 ELSE Serial[h.key]) <= (IF o = None THEN -1 ELSE Serial[o.key])
<1>1. h = None => h.key = -1
  BY NoneFacts
<1>2. \A g \in MaybeHandover : g # None => g.key \in Key /\ Serial[g.key] \in Nat
  BY SerialAssumption DEF MaybeHandover, Handover
<1>3. h # None => o # None /\ Serial[h.key] <= Serial[o.key]
  BY <1>2, NoneFacts, HoldsFacts, SerialAssumption
<1> QED
  BY <1>2, <1>3

\* The note of an update that has been judged stays, as long as it has not
\* ended.
LEMMA NoteStays ==
    ASSUME TypeOK, Drains, Noted, [Next]_vars, NEW u \in Update,
           Underway(u)', AtCombiner(u), Judged(u)' \/ Answered(u)'
    PROVE  Underway(u) /\ my'.sent[u] = my.sent[u]
<1>t. /\ my \in Tracker /\ over \in [Update -> Ended] /\ left \in Left
      /\ my.sent \in [Update -> MaybeHandover] /\ words \subseteq Words
  BY TypesByName DEF Tracker
<1>f. u \notin left.fresh
  BY DEF Noted, Nowhere
<1>1. CASE Still
  BY <1>1 DEF Still, Underway
<1>2. ASSUME NEW x \in my.passing, Pass(x) PROVE Underway(u) /\ my'.sent[u] = my.sent[u]
  <2>1. x \in Update
    BY <1>t DEF Tracker
  <2>2. CASE over' = over /\ my' = [my EXCEPT !.passing = @ \ {x}]
    BY <1>t, <2>2 DEF Underway, Tracker
  <2>3. CASE my' = [my EXCEPT !.passing = @ \ {x}, !.sent[x] = None] /\ over' = [over EXCEPT ![x].end = "failed"]
    <3>1. u # x
      BY <1>t, <2>1, <2>3 DEF Underway, Ended
    <3> QED
      BY <1>t, <2>1, <2>3, <3>1 DEF Underway, Tracker
  <2> QED
    BY <1>2, <2>2, <2>3 DEF Pass
<1>3. CASE DrainTake \/ DrainEnqueue
  <2>1. Underway(u)
    BY <1>3 DEF Underway, DrainTake, DrainEnqueue
  <2>2. ~Has(my.waiting, u)
    BY <2>1 DEF Noted, OnePlace
  <2>3. my.waiting # <<>>
    BY <1>3 DEF Drains, DrainTake, DrainEnqueue
  <2>4. PICK x : x = Head(my.waiting) /\ x # u
    BY <1>t, <2>2, <2>3, HasTail DEF Tracker
  <2>5. \/ my' = [my EXCEPT !.draining = TRUE, !.sent[x] = my.held]
        \/ my' = [my EXCEPT !.draining = FALSE, !.waiting = Tail(@)]
        \/ my' = [my EXCEPT !.draining = FALSE, !.sent[x] = None]
    BY <1>3, <2>4 DEF DrainTake, DrainEnqueue
  <2> QED
    BY <1>t, <2>1, <2>4, <2>5 DEF Tracker
<1>4. ASSUME NEW w \in words, UpdateConfirmed(w) PROVE Underway(u) /\ my'.sent[u] = my.sent[u]
  <2>1. PICK x \in Update : x = w.upd
    BY <1>4, <1>t, WordTypes DEF UpdateConfirmed
  <2>2. CASE over' = over /\ my' = [my EXCEPT !.sent[x] = None, !.waiting = Append(@, x)]
    <3>1. OnePlace(u) /\ Underway(u)
      BY <2>2 DEF Noted, Underway
    <3>2. x # u
      <4>1. ASSUME x = u PROVE FALSE
        <5>1. Answered(u) /\ ~Judged(u)
          BY <1>4, <2>1, <3>1, <4>1 DEF UpdateConfirmed, Answered, OnePlace
        <5>2. ~Answered(u)' /\ ~Judged(u)'
          BY <1>4, <2>1, <3>1, <4>1, <5>1 DEF UpdateConfirmed, Hears, Answered, Judged, OnePlace
        <5> QED
          BY <5>2
      <4> QED
        BY <4>1
    <3> QED
      BY <1>t, <2>2, <3>1, <3>2 DEF Tracker
  <2>3. CASE GoesOn(w) /\ my' = [my EXCEPT !.sent[x] = None]
    <3>1. u # x
      BY <1>t, <2>1, <2>3 DEF Underway, GoesOn, Ended
    <3> QED
      BY <1>t, <2>1, <2>3, <3>1 DEF Underway, GoesOn, Tracker
  <2> QED
    BY <1>4, <2>1, <2>2, <2>3 DEF UpdateConfirmed
<1>5. ASSUME NEW x \in Update, Unanswered(x) PROVE Underway(u) /\ my'.sent[u] = my.sent[u]
  <2>1. u # x
    BY <1>5, <1>t DEF Underway, Unanswered, Ended
  <2> QED
    BY <1>5, <1>t, <2>1 DEF Underway, Unanswered, Tracker
<1>6. CASE Judge
  BY <1>6, <1>t DEF Judge, Twice, Underway, Ended
<1>7. CASE (\E x \in comb.kept : Approve(x)) \/ (\E j \in comb.judged : SendApproval(j)) \/ KeepForApproval
  BY <1>7 DEF Approve, SendApproval, KeepForApproval, Underway
<1>8. ASSUME NEW x \in left.fresh, Gate(x) PROVE Underway(u) /\ my'.sent[u] = my.sent[u]
  <2>1. x \in Update /\ x # u /\ over'[u] = over[u]
    BY <1>8, <1>f, <1>t DEF Gate, Left
  <2> QED
    BY <1>8, <1>t, <2>1 DEF Gate, Underway, Tracker
<1>9. ~AgentRestart
  BY <1>f, <1>t DEF AgentRestart, Underway, Ended
<1> QED
  BY <1>1, <1>2, <1>3, <1>4, <1>5, <1>6, <1>7, <1>8, <1>9, StillOrMoves DEF Moves

LEMMA ActingStays ==
    ASSUME TypeOK, TypeOK', Spent, Keeps, Held, [Next]_vars
    PROVE  /\ comb.holds.key <= comb'.holds.key
           /\ Acting <= Acting' /\ Acting \in Told /\ Acting' \in Told
<1>1. comb.holds \in MaybeHandover /\ comb'.holds \in MaybeHandover
  BY TypesByName, TypesByNamePrimed DEF Part
<1>2. comb.holds.key <= comb'.holds.key
  BY HoldsRise
<1>3. Acting <= Acting'
  BY <1>1, <1>2, ActingRises DEF Acting
<1>4. Acting \in Told /\ Acting' \in Told
  BY <1>1, SerialAssumption DEF Acting, Told, MaybeHandover, Handover
<1> QED
  BY <1>2, <1>3, <1>4

\* The words on updates that a step adds: one judged now, or one the operator
\* judged.
LEMMA NewWords ==
    ASSUME TypeOK, [Next]_vars, NEW w \in words', w.kind = "update", w \notin words
    PROVE  /\ w.acting = Acting /\ w.upd \in Update
           /\ \/ w.by = Acting /\ Has(queue, Upd(w.upd))
              \/ \E j \in comb.judged : j.upd = w.upd /\ j.by = w.by
<1>t. queue \in Seq(Message) /\ comb \in Part
  BY TypesByName
<1>1. CASE Judge
  <2>1. PICK x \in Update : Head(queue) = Upd(x) /\ x = Head(queue).upd
    BY <1>1, <1>t, UpdFacts DEF Judge
  <2>2. PICK ok \in BOOLEAN : w = Word(x, ok, Acting)
    BY <1>1, <2>1 DEF Judge
  <2>3. Has(queue, Upd(x))
    BY <1>1, <1>t, <2>1, HasTail DEF Judge
  <2> QED
    BY <2>1, <2>2, <2>3, WordIsUpdate
<1>2. ASSUME NEW j \in comb.judged, SendApproval(j)
      PROVE  w.acting = Acting /\ w.upd \in Update /\ j.upd = w.upd /\ j.by = w.by
  BY <1>2, <1>t, WordIsUpdate DEF SendApproval, Part
<1>3. CASE Still
  BY <1>3 DEF Still
<1>4. words' \subseteq words \/ Judge \/ (\E j \in comb.judged : SendApproval(j)) \/ Still
  BY StillOrMoves DEF Moves, Pass, DrainTake, DrainEnqueue, UpdateConfirmed, Hears, Unanswered,
     Approve, Gate, AgentRestart, KeepForApproval
<1> QED
  BY <1>1, <1>2, <1>3, <1>4

LEMMA NewJudged ==
    ASSUME TypeOK, [Next]_vars, NEW j \in comb'.judged, j \notin comb.judged
    PROVE  j.upd \in comb.kept /\ j.by = Acting
<1>t. comb \in Part
  BY TypesByName
<1>1. ASSUME NEW u \in comb.kept, Approve(u) PROVE j.upd = u /\ j.by = Acting
  BY <1>1, <1>t DEF Approve, Part
<1>2. ASSUME NEW i \in comb.judged, SendApproval(i) PROVE FALSE
  BY <1>2, <1>t DEF SendApproval, Part
<1>3. ~KeepForApproval
  BY <1>t DEF KeepForApproval, Part
<1>4. comb'.judged = comb.judged \/ (\E u \in comb.kept : Approve(u))
        \/ (\E i \in comb.judged : SendApproval(i)) \/ KeepForApproval
  BY StillOrMoves DEF Still, Moves, Pass, DrainTake, DrainEnqueue, UpdateConfirmed, Unanswered,
     Judge, Gate, AgentRestart
<1> QED
  BY <1>1, <1>2, <1>3, <1>4

\* The note of an update at the combiner names a key no later than it acts by.
LEMMA NoteIsReached ==
    ASSUME TypeOK, Noted, \A u \in Update : my.sent[u].key <= comb.holds.key,
           NEW u \in Update, Underway(u), AtCombiner(u)
    PROVE  Acting # -1 /\ my.sent[u].key \in Key /\ Serial[my.sent[u].key] \in Nat
           /\ Serial[my.sent[u].key] <= Acting
<1>t. my.sent[u] \in MaybeHandover /\ comb.holds \in MaybeHandover
  BY TypesByName DEF Tracker, Part
<1>1. my.sent[u] # None
  BY DEF Noted, HasNote
<1>2. my.sent[u].key \in Key /\ my.sent[u].key <= comb.holds.key
  BY <1>1, <1>t DEF MaybeHandover, Handover
<1>3. comb.holds # None
  BY <1>2, NoneFacts, KeyAssumption DEF Key
<1>4. comb.holds.key \in Key
  BY <1>3, <1>t DEF MaybeHandover, Handover
<1>5. Serial[my.sent[u].key] \in Nat /\ Serial[comb.holds.key] \in Nat
      /\ Serial[my.sent[u].key] <= Serial[comb.holds.key]
  BY <1>2, <1>4, SerialAssumption
<1> QED
  BY <1>2, <1>3, <1>5 DEF Acting

LEMMA NotesFrom ==
    ASSUME TypeOK, [Next]_vars, NEW u \in Update
    PROVE  my'.sent[u] \in {my.sent[u], my.held, None}
<1>t. my \in Tracker /\ my.sent \in [Update -> MaybeHandover]
  BY TypesByName DEF Tracker
<1>1. CASE Still
  BY <1>1 DEF Still
<1>2. ASSUME NEW x, Pass(x) PROVE my'.sent[u] \in {my.sent[u], my.held, None}
  <2>1. my' = [my EXCEPT !.passing = @ \ {x}] \/ my' = [my EXCEPT !.passing = @ \ {x}, !.sent[x] = None]
    BY <1>2 DEF Pass
  <2> QED
    BY <1>t, <2>1 DEF Tracker
<1>3. CASE DrainTake
  BY <1>3, <1>t DEF DrainTake, Tracker
<1>4. CASE DrainEnqueue
  <2>1. \/ my' = [my EXCEPT !.draining = FALSE, !.waiting = Tail(@)]
        \/ my' = [my EXCEPT !.draining = FALSE, !.sent[Head(my.waiting)] = None]
    BY <1>4 DEF DrainEnqueue
  <2> QED
    BY <1>t, <2>1 DEF Tracker
<1>5. ASSUME NEW w \in words, UpdateConfirmed(w) PROVE my'.sent[u] \in {my.sent[u], my.held, None}
  <2>1. \/ my' = [my EXCEPT !.sent[w.upd] = None, !.waiting = Append(@, w.upd)]
        \/ my' = [my EXCEPT !.sent[w.upd] = None]
    BY <1>5 DEF UpdateConfirmed
  <2> QED
    BY <1>t, <2>1 DEF Tracker
<1>6. ASSUME NEW x, Unanswered(x) PROVE my'.sent[u] \in {my.sent[u], my.held, None}
  BY <1>6, <1>t DEF Unanswered, Tracker
<1>7. Judge \/ (\E x \in comb.kept : Approve(x)) \/ (\E j \in comb.judged : SendApproval(j)) \/ KeepForApproval
        => my'.sent[u] = my.sent[u]
  BY DEF Judge, Approve, SendApproval, KeepForApproval
<1>8. ASSUME NEW x, Gate(x) PROVE my'.sent[u] \in {my.sent[u], my.held, None}
  <2>1. \/ my' = [my EXCEPT !.passing = @ \cup {x}]
        \/ my' = [my EXCEPT !.passing = @ \cup {x}, !.sent[x] = my.held]
        \/ my' = [my EXCEPT !.waiting = Append(@, x)]
    BY <1>8 DEF Gate
  <2> QED
    BY <1>t, <2>1 DEF Tracker
<1>9. ASSUME AgentRestart PROVE my'.sent[u] = None
  BY <1>9 DEF AgentRestart, NewTracker
<1> QED
  BY <1>1, <1>2, <1>3, <1>4, <1>5, <1>6, <1>7, <1>8, <1>9, StillOrMoves DEF Moves

LEMMA JudgedBetweenStays ==
    ASSUME TypeOK, TypeOK', Spent, Drains, Keeps, Held, Noted, JudgedBetween, [Next]_vars
    PROVE  JudgedBetween'
<1>t. /\ my \in Tracker /\ my.held \in MaybeHandover /\ my.sent \in [Update -> MaybeHandover]
      /\ my'.sent \in [Update -> MaybeHandover] /\ words \subseteq Words /\ words' \subseteq Words
      /\ comb \in Part /\ comb' \in Part
  BY TypesByName, TypesByNamePrimed DEF Tracker
<1>r. /\ comb.holds.key <= comb'.holds.key /\ Acting <= Acting' /\ Acting \in Told /\ Acting' \in Told
      /\ comb.holds.key \in Int /\ comb'.holds.key \in Int /\ comb.holds.key >= -1
  BY <1>t, ActingStays, HoldsFacts DEF Part
<1>1. ASSUME NEW u \in Update PROVE my'.sent[u].key <= comb'.holds.key
  <2>1. my.sent[u].key <= comb.holds.key /\ my.held.key <= comb.holds.key /\ None.key <= comb.holds.key
    BY <1>r, NoneFacts DEF JudgedBetween, Held
  <2>2. my'.sent[u].key <= comb.holds.key /\ my'.sent[u].key \in Int
    BY <1>t, <2>1, NotesFrom, HoldsFacts
  <2> QED
    BY <1>r, <2>2
<1>2. ASSUME NEW u \in Update, Underway(u), AtCombiner(u)
      PROVE  Acting # -1 /\ Serial[my.sent[u].key] \in Nat /\ Serial[my.sent[u].key] <= Acting
  BY <1>2, NoteIsReached DEF JudgedBetween
<1>3. ASSUME NEW j \in comb.judged, NEW u, u = j.upd, Underway(u), j.by # -1
      PROVE  Serial[my.sent[u].key] <= j.by /\ j.by <= Acting
  BY <1>3 DEF JudgedBetween
<1>4. ASSUME NEW j \in comb'.judged, Underway(j.upd)', j.by # -1
      PROVE  Serial[my'.sent[j.upd].key] <= j.by /\ j.by <= Acting'
  <2>1. PICK u \in Update : u = j.upd
    BY <1>t DEF Part
  <2>2. Underway(u)' /\ Judged(u)' /\ j.by \in Nat
    BY <1>4, <1>t, <2>1 DEF Underway, Judged, Part, Told
  <2>3. CASE j \in comb.judged
    <3>1. AtCombiner(u)
      BY <2>1, <2>3 DEF AtCombiner, Judged
    <3>2. Underway(u) /\ my'.sent[u] = my.sent[u]
      BY <2>2, <3>1, NoteStays
    <3>3. Serial[my.sent[u].key] <= j.by /\ j.by <= Acting
      BY <1>3, <1>4, <2>1, <2>3, <3>2
    <3>4. j.by <= Acting'
      BY <1>r, <2>2, <3>3 DEF Told
    <3> QED
      BY <2>1, <3>2, <3>3, <3>4
  <2>4. CASE j \notin comb.judged
    <3>1. u \in comb.kept /\ j.by = Acting
      BY <2>1, <2>4, NewJudged
    <3>2. AtCombiner(u)
      BY <3>1 DEF AtCombiner
    <3>3. Underway(u) /\ my'.sent[u] = my.sent[u]
      BY <2>2, <3>2, NoteStays
    <3> QED
      BY <1>2, <1>r, <2>1, <3>1, <3>2, <3>3
  <2> QED
    BY <2>3, <2>4
<1>5. ASSUME NEW w \in words', w.kind = "update", Underway(w.upd)', w.by # -1
      PROVE  w.acting # -1 /\ Serial[my'.sent[w.upd].key] <= w.by /\ w.by <= w.acting
  <2>1. PICK u \in Update : u = w.upd
    BY <1>5, <1>t, WordTypes
  <2>2. Underway(u)' /\ Answered(u)' /\ w.by \in Nat
    BY <1>5, <1>t, <2>1, WordTypes DEF Underway, Answered, Told
  <2>3. CASE w \in words
    <3>1. AtCombiner(u)
      BY <1>5, <2>1, <2>3 DEF AtCombiner, Answered
    <3>2. Underway(u) /\ my'.sent[u] = my.sent[u]
      BY <2>2, <3>1, NoteStays
    <3>3. w.acting # -1 /\ Serial[my.sent[u].key] <= w.by /\ w.by <= w.acting
      BY <1>5, <2>1, <2>3, <3>2 DEF JudgedBetween, Underway
    <3> QED
      BY <2>1, <3>2, <3>3
  <2>4. CASE w \notin words
    <3>1. /\ w.acting = Acting
          /\ \/ w.by = Acting /\ Has(queue, Upd(u))
             \/ \E j \in comb.judged : j.upd = u /\ j.by = w.by
      BY <1>5, <2>1, <2>4, NewWords
    <3>2. AtCombiner(u)
      BY <3>1 DEF AtCombiner, Judged
    <3>3. Underway(u) /\ my'.sent[u] = my.sent[u]
      BY <2>2, <3>2, NoteStays
    <3>4. Acting # -1 /\ Serial[my.sent[u].key] <= Acting
      BY <1>2, <3>2, <3>3
    <3>5. ASSUME NEW j \in comb.judged, j.upd = u, j.by = w.by
          PROVE  Serial[my.sent[u].key] <= w.by /\ w.by <= Acting
      BY <1>3, <1>5, <3>3, <3>5
    <3> QED
      BY <1>r, <2>1, <3>1, <3>3, <3>4, <3>5 DEF Told
  <2> QED
    BY <2>3, <2>4
<1> QED
  BY <1>1, <1>4, <1>5 DEF JudgedBetween

LEMMA JudgedAtOnceStays ==
    ASSUME TypeOK, Spent, NoApproval, JudgedAtOnce, [Next]_vars
    PROVE  JudgedAtOnce'
<1>t. comb \in Part /\ words \subseteq Words
  BY TypesByName
<1>1. ~KeepForApproval
  BY DEF Spent, NoApproval, KeepForApproval, Occurs, Events
<1>2. comb'.kept = {} /\ comb'.judged = {}
  <2>1. (\A x \in comb.kept : ~Approve(x)) /\ (\A j \in comb.judged : ~SendApproval(j))
    BY DEF JudgedAtOnce
  <2>2. comb'.kept = comb.kept /\ comb'.judged = comb.judged
    BY <1>1, <2>1, StillOrMoves DEF Still, Moves, Pass, DrainTake, DrainEnqueue, UpdateConfirmed,
       Unanswered, Judge, Gate, AgentRestart
  <2> QED
    BY <2>2 DEF JudgedAtOnce
<1>3. ASSUME NEW w \in words', w.kind = "update" PROVE w.by = w.acting
  <2>1. CASE w \in words
    BY <1>3, <2>1 DEF JudgedAtOnce
  <2>2. CASE w \notin words
    BY <1>3, <2>2, NewWords DEF JudgedAtOnce
  <2> QED
    BY <2>1, <2>2
<1> QED
  BY <1>2, <1>3 DEF JudgedAtOnce

\* How an update ended changes by the word that goes on to the engine alone;
\* all other changes are of its being lost, failed or loose.
LEMMA RefusedStays ==
    ASSUME TypeOK, TypeOK', Noted, Keeps => JudgedBetween, NoApproval => JudgedAtOnce,
           Keeps \/ NoApproval, RefusedByTheWanted, left'.may = left.may, [Next]_vars
    PROVE  RefusedByTheWanted'
<1>t. /\ my \in Tracker /\ over \in [Update -> Ended] /\ left \in Left /\ words \subseteq Words
      /\ my.sent \in [Update -> MaybeHandover] /\ my.want \in MaybeHandover
  BY TypesByName DEF Tracker
<1>h. \A u \in Update : over[u].end = "refused" /\ ~over[u].loose /\ over[u].by # -1 => over[u].by = over[u].want
  BY DEF RefusedByTheWanted, NoApproval
<1> SUFFICES ASSUME NEW u \in Update, over'[u].end = "refused", ~over'[u].loose, over'[u].by # -1
             PROVE  over'[u].by = over'[u].want
  BY DEF RefusedByTheWanted
<1>1. CASE over' = over
  BY <1>1, <1>h
<1>2. ASSUME NEW x \in Update, \E end \in Ends : over' = [over EXCEPT ![x].end = end] /\ end # "refused"
      PROVE  over'[u].by = over'[u].want
  <2>1. u # x
    BY <1>2, <1>t DEF Ended
  <2> QED
    BY <1>2, <1>h, <1>t, <2>1
<1>3. ASSUME NEW x \in my.passing, Pass(x) PROVE over'[u].by = over'[u].want
  <2>1. x \in Update
    BY <1>t DEF Tracker
  <2> QED
    BY <1>1, <1>2, <1>3, <2>1 DEF Pass, Ends
<1>4. ASSUME NEW x \in Update, Unanswered(x) PROVE over'[u].by = over'[u].want
  <2>1. over' = [over EXCEPT ![x].end = IF over[x].end = "open" THEN "lost" ELSE over[x].end]
    BY <1>4, <1>t DEF Unanswered
  <2>2. CASE u = x
    BY <1>h, <1>t, <2>1, <2>2 DEF Ended
  <2>3. CASE u # x
    BY <1>h, <1>t, <2>1, <2>3 DEF Ended
  <2> QED
    BY <2>2, <2>3
<1>5. CASE Judge
  BY <1>5, <1>h, <1>t DEF Judge, Twice, Ended
<1>6. ASSUME NEW x \in left.fresh, Gate(x) PROVE over'[u].by = over'[u].want
  <2>1. x \in Update /\ over[x].end = "open"
    BY <1>6, <1>t DEF Noted, Left
  <2> QED
    BY <1>6, <1>h, <1>t, <2>1 DEF Gate, Ended
<1>7. CASE AgentRestart
  BY <1>7, <1>h, <1>t DEF AgentRestart, Ended
<1>8. ASSUME NEW w \in words, UpdateConfirmed(w) PROVE over'[u].by = over'[u].want
  <2>1. PICK x \in Update : x = w.upd
    BY <1>8, <1>t, WordTypes DEF UpdateConfirmed
  <2>2. w.kind = "update"
    BY <1>8 DEF UpdateConfirmed
  <2>3. CASE u # x \/ over[x].end # "open" \/ UNCHANGED over \/ w.ok
    BY <1>8, <1>h, <1>t, <2>1, <2>3 DEF UpdateConfirmed, GoesOn, Ended
  <2>4. CASE u = x /\ over[x].end = "open" /\ over' # over /\ ~w.ok
    <3>1. /\ my.sent[x] = None \/ ~Stale(w, my.sent[x])
          /\ over'[x] = [over[x] EXCEPT !.end = "refused", !.by = w.by,
                           !.want = IF my.want = None THEN -1 ELSE Serial[my.want.key]]
      BY <1>8, <1>t, <2>1, <2>4 DEF UpdateConfirmed, GoesOn
    <3>2. /\ over'[x].by = w.by /\ over'[x].loose = over[x].loose
          /\ over'[x].want = IF my.want = None THEN -1 ELSE Serial[my.want.key]
      BY <1>t, <3>1 DEF Ended
    <3>3. Underway(x) /\ w.by # -1
      BY <2>4, <3>2 DEF Underway
    <3>4. AtCombiner(x)
      BY <2>1, <2>2 DEF AtCombiner, Answered
    <3>5. my.sent[x] # None /\ my.want # None
      BY <3>3, <3>4 DEF Noted, HasNote
    <3>6. my.want.key = my.sent[x].key /\ (w.acting = -1 \/ w.acting = Serial[my.sent[x].key])
      BY <3>1, <3>5 DEF Stale, Same, Names
    <3>7. w.by \in Nat /\ w.acting \in Told
      BY <1>t, <2>2, <3>3, WordTypes DEF Told
    <3>8. CASE NoApproval
      <4>1. w.by = w.acting
        BY <2>2, <3>8 DEF JudgedAtOnce
      <4> QED
        BY <2>4, <3>2, <3>3, <3>5, <3>6, <4>1
    <3>9. CASE Keeps
      <4>1. w.acting # -1 /\ Serial[my.sent[x].key] <= w.by /\ w.by <= w.acting
        BY <2>1, <2>2, <3>3, <3>9 DEF JudgedBetween, Underway
      <4>2. w.acting \in Nat
        BY <3>7, <4>1 DEF Told
      <4>3. w.by = w.acting
        BY <3>6, <3>7, <4>1, <4>2
      <4> QED
        BY <2>4, <3>2, <3>5, <3>6, <4>1, <4>3
    <3> QED
      BY <3>8, <3>9
  <2> QED
    BY <2>3, <2>4
<1>9. over' = over \/ (\E x \in my.passing : Pass(x)) \/ (\E x \in Update : Unanswered(x)) \/ Judge
        \/ (\E x \in left.fresh : Gate(x)) \/ AgentRestart \/ (\E w \in words : UpdateConfirmed(w))
  BY StillOrMoves DEF Still, Moves, DrainTake, DrainEnqueue, Approve, SendApproval, KeepForApproval
<1> QED
  BY <1>1, <1>3, <1>4, <1>5, <1>6, <1>7, <1>8, <1>9

\* A refusal that goes on to the engine was judged by the serial the agent
\* wants (confirmation): no update is given up for what an older or a newer
\* serial says of it, whatever is lost, repeated or restarted meanwhile.
THEOREM RefusalsAreOfTheWanted == Spec => []RefusedByTheWanted
<1> DEFINE Inv == TypeOK /\ Inductive
<1>1. Init => Inv
  <2> SUFFICES ASSUME Init PROVE Inv
    OBVIOUS
  <2>1. TypeOK /\ Drains /\ Spent /\ (Keeps => Held)
    BY InvInit DEF Knows
  <2>2. /\ my = NewTracker(0) /\ queue = <<>> /\ words = {} /\ comb.holds = None
        /\ comb.kept = {} /\ comb.judged = {} /\ over = [u \in Update |-> Open]
    BY DEF Init
  <2>3. /\ my.waiting = <<>> /\ my.passing = {} /\ my.sent = [u \in Update |-> None]
    BY <2>2 DEF NewTracker
  <2>4. \A u \in Update : over[u].end = "open" /\ over[u].loose = FALSE
    BY <2>2 DEF Open
  <2>5. left.fresh \subseteq Update
    BY <2>1, TypesByName DEF Left
  <2>6. \A s \in {my.waiting, queue} : \A y : ~Has(s, y) /\ Once(s, y)
    BY <2>2, <2>3 DEF Has, Once
  <2>7. ASSUME NEW u \in Update PROVE Nowhere(u) /\ OnePlace(u) /\ HasNote(u)
    BY <2>2, <2>3, <2>6 DEF Nowhere, OnePlace, HasNote, AtCombiner, Judged, Answered
  <2>8. Noted
    BY <2>3, <2>4, <2>5, <2>7 DEF Noted
  <2>9. JudgedBetween /\ JudgedAtOnce
    BY <2>2, <2>3, NoneFacts DEF JudgedBetween, JudgedAtOnce
  <2>10. RefusedByTheWanted
    BY <2>4 DEF RefusedByTheWanted
  <2> QED
    BY <2>1, <2>8, <2>9, <2>10 DEF Inductive
<1>2. Inv /\ [Next]_vars => Inv'
  <2> SUFFICES ASSUME Inv, [Next]_vars PROVE Inv'
    OBVIOUS
  <2>1. /\ TypeOK /\ Drains /\ Spent /\ (Keeps => Held) /\ Noted
        /\ (Keeps => JudgedBetween) /\ (NoApproval => JudgedAtOnce) /\ RefusedByTheWanted
    BY DEF Inductive
  <2>2. TypeOK' /\ Drains' /\ Spent' /\ (Keeps => Held)' /\ left'.may = left.may
    BY <2>1, InvNext, SpentStays DEF Knows
  <2>3. (Keeps' <=> Keeps) /\ (NoApproval' <=> NoApproval)
    BY <2>2 DEF Keeps, Rises, NoApproval
  <2>4. Noted'
    BY <2>1, <2>2, NotedStays
  <2>5. Keeps' => JudgedBetween'
    BY <2>1, <2>2, <2>3, JudgedBetweenStays
  <2>6. NoApproval' => JudgedAtOnce'
    BY <2>1, <2>3, JudgedAtOnceStays
  <2>7. RefusedByTheWanted'
    <3>1. CASE Keeps \/ NoApproval
      BY <2>1, <2>2, <3>1, RefusedStays
    <3>2. CASE ~(Keeps \/ NoApproval)
      BY <2>3, <3>2 DEF RefusedByTheWanted, NoApproval
    <3> QED
      BY <3>1, <3>2
  <2> QED
    BY <2>2, <2>4, <2>5, <2>6, <2>7 DEF Inductive
<1>3. Inv => RefusedByTheWanted
  BY DEF Inductive
<1> QED
  BY <1>1, <1>2, <1>3, PTL DEF Spec

=============================================================================
