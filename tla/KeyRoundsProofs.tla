--------------------------- MODULE KeyRoundsProofs ---------------------------
(***************************************************************************)
(* A key the parent trusts stays with a member, proved for every set of    *)
(* agents and keys, every vote and every mix of events.                    *)
(*                                                                         *)
(* The argument.  What an agent publishes for itself is the one key its    *)
(* zone names, or the first it holds where the zone names none: so an      *)
(* agent that has published once publishes that key for ever, and holds it *)
(* as long as it is published.  Every key served was published so by some  *)
(* agent, and a poll is of a key somebody held: the parent trusts keys     *)
(* that their publisher holds.  A key is dropped only while its agent has  *)
(* published nothing.                                                      *)
(***************************************************************************)
EXTENDS KeyRounds, FiniteSetTheorems, SequenceTheorems, TLAPS

-----------------------------------------------------------------------------
(* The types *)

Maybe == Key \cup {None}
Someone == Agent \cup {None}
Jobs == [at : {"idle", "publish", "make"}, kind : {"-", "offer", "take", "make", "setup"},
         made : Maybe, told : BOOLEAN, round : BOOLEAN]
PollRec == [key : Maybe, hold : Nat, runs : BOOLEAN]
Replies == Words \cup Key \cup {"-", "out"}
Entry ==
    [rows : Seq(Key), apex : SUBSET Key, from : [Agent -> Maybe], trusted : SUBSET Key,
     leader : Someone, hold : Nat, wake : BOOLEAN, check : BOOLEAN, caughtUp : BOOLEAN,
     here : BOOLEAN, out : BOOLEAN, serial : 0..2, alone : BOOLEAN, answers : [Agent -> Replies],
     job : Jobs, running : Int, unpublished : BOOLEAN,
     ended : [key : Maybe, hold : Nat], polls : Seq(PollRec)]
Request == [from : Agent, to : Agent, current : BOOLEAN, is : Words \cup Key \cup {"out"}, at : 0..2]
Zones == [won : Someone, terms : Nat, made : SUBSET Key, trusts : SUBSET Key,
          dsync : {"update", "notify", "unread"}, rolling : BOOLEAN]

Busy(s) == IF s.job.at = "idle" THEN 0 ELSE 1

\* An entry: of its type, with no key held twice, and a round only while there
\* is an entry of the rounds.
Shape(s) ==
    /\ s \in Entry /\ IsFiniteSet(s.apex) /\ IsInjective(s.rows)
    /\ s.out => s.here

\* What the book counts beside the polls and the job: nothing.
Over(s) == s.running - Len(s.polls) - Busy(s)
Sane(s) == Shape(s) /\ Over(s) = 0

AllSane(m) == m \in [Agent -> Entry] /\ \A a \in Agent : Sane(m[a])
Around ==
    /\ phase \in [Agent -> 0..3] /\ voters \in [1..2 -> SUBSET Agent]
    /\ left \in [Event -> Nat]
    /\ zone \in Zones /\ zone.trusts \subseteq zone.made
Letters == reqs \subseteq Request /\ net \in [Agent -> [Agent -> Maybe]]
Types == AllSane(my) /\ Around /\ Letters

-----------------------------------------------------------------------------
(* The key an agent holds *)

\* A set of one element at most.
LEMMA FewAreOne ==
    ASSUME NEW S, IsFiniteSet(S), S # {}, ~(Cardinality(S) > 1)
    PROVE  \E x : S = {x}
<1>1. Cardinality(S) \in Nat /\ Cardinality(S) # 0
  BY FS_CardinalityType, FS_EmptySet
<1>2. Cardinality(S) = 1
  BY <1>1
<1> QED
  BY <1>2, FS_Singleton

LEMMA RowsFacts ==
    ASSUME NEW s \in Entry
    PROVE  /\ s.rows \in Seq(Key) /\ s.apex \subseteq Key
           /\ ToSet(s.rows) \subseteq Key
           /\ s.rows # <<>> => s.rows[1] \in ToSet(s.rows)
<1>1. s.rows \in Seq(Key) /\ s.apex \subseteq Key
  BY DEF Entry
<1>2. DOMAIN s.rows = 1..Len(s.rows) /\ s.rows \in [1..Len(s.rows) -> Key] /\ Len(s.rows) \in Nat
  BY <1>1, LenProperties
<1>3. ToSet(s.rows) \subseteq Key
  BY <1>2 DEF ToSet
<1>4. ASSUME s.rows # <<>>
      PROVE  s.rows[1] \in ToSet(s.rows)
  <2>1. 1 \in 1..Len(s.rows)
    BY <1>1, <1>4, EmptySeq
  <2> QED
    BY <2>1, <1>2 DEF ToSet
<1> QED
  BY <1>1, <1>3, <1>4

\* The key held is the first of the rows where the zone publishes none, and
\* the zone's only one where it publishes it.
HeldIs(s, h) ==
    \/ s.apex = {} /\ s.rows # <<>> /\ h = s.rows[1]
    \/ s.apex = {h}

LEMMA HeldFacts ==
    ASSUME NEW s, Shape(s)
    PROVE  /\ Held(s) \in Maybe
           /\ Held(s) # None => HeldIs(s, Held(s)) /\ Held(s) \in ToSet(s.rows) /\ Held(s) \in Key
<1>1. s \in Entry /\ IsFiniteSet(s.apex)
  BY DEF Shape
<1>2. CASE s.apex = {}
  BY <1>1, <1>2, RowsFacts DEF Held, HeldIs, Maybe
<1>3. CASE s.apex # {} /\ ~Several(s) /\ s.apex \subseteq ToSet(s.rows)
  <2>1. PICK x : s.apex = {x}
    BY <1>1, <1>3, FewAreOne DEF Several
  <2>2. Held(s) = x
    BY <1>3, <2>1 DEF Held
  <2> QED
    BY <1>1, <1>3, <2>1, <2>2, RowsFacts DEF HeldIs, Maybe
<1>4. CASE s.apex # {} /\ ~(~Several(s) /\ s.apex \subseteq ToSet(s.rows))
  BY <1>4 DEF Held, Maybe
<1> QED
  BY <1>2, <1>3, <1>4

\* Nothing held, and not several published: nothing at all, or one elsewhere.
LEMMA NotHeldFacts ==
    ASSUME NEW s, Shape(s), Held(s) = None, ~Several(s)
    PROVE  \/ s.apex = {} /\ s.rows = <<>>
           \/ \E k \in Key : s.apex = {k} /\ k \notin ToSet(s.rows)
<1>1. s \in Entry /\ IsFiniteSet(s.apex)
  BY DEF Shape
<1>2. CASE s.apex = {}
  <2>1. ASSUME s.rows # <<>>
        PROVE  FALSE
    <3>1. s.rows[1] \in Key
      BY <1>1, <2>1, RowsFacts
    <3> QED
      BY <1>2, <2>1, <3>1, ConstantsAssumption DEF Held
  <2> QED
    BY <1>2, <2>1
<1>3. CASE s.apex # {}
  <2>1. PICK x : s.apex = {x}
    BY <1>1, <1>3, FewAreOne DEF Several
  <2>2. x \in Key
    BY <1>1, <2>1, RowsFacts
  <2>3. ASSUME x \in ToSet(s.rows)
        PROVE  FALSE
    <3>1. s.apex \subseteq ToSet(s.rows)
      BY <2>1, <2>3
    <3>2. Held(s) = x
      BY <1>3, <2>1, <3>1 DEF Held
    <3> QED
      BY <2>2, <3>2, ConstantsAssumption
  <2> QED
    BY <2>1, <2>2, <2>3
<1> QED
  BY <1>2, <1>3

-----------------------------------------------------------------------------
(* What a step may do to an entry *)

\* The entry holds key k, was told of it, or polls with it.
Knows(s, k) ==
    \/ k \in ToSet(s.rows)
    \/ \E p \in Agent : s.answers[p] = k
    \/ \E i \in DOMAIN s.polls : s.polls[i].key = k

\* A job that is to make a key, or that made one it can tell from the others.
Making(s) == s.job.told = TRUE \/ s.job.at = "make"

\* What the agent publishes, contributes and is about to make is as it was; a
\* key may be retired beside the one held.
Tame(s, t) ==
    /\ t.apex = s.apex /\ t.from = s.from
    /\ t.rows = s.rows \/ (Held(s) # None /\ t.rows = <<Held(s)>>)
    /\ Making(t) => Making(s)

Learns(s, t) == \E k \in Key : Knows(t, k) /\ ~Knows(s, k)

Like(s, t, d) == Shape(t) /\ Tame(s, t) /\ ~Learns(s, t) /\ Over(t) = Over(s) + d

LEMMA OverType ==
    ASSUME NEW s, Shape(s)
    PROVE  Over(s) \in Int /\ Len(s.polls) \in Nat /\ s.running \in Int /\ Busy(s) \in Int
<1>1. s.running \in Int /\ s.polls \in Seq(PollRec)
  BY DEF Shape, Entry
<1> QED
  BY <1>1, LenProperties DEF Over, Busy

LEMMA TameTwice ==
    ASSUME NEW s, NEW t, NEW u, Shape(s), Tame(s, t), Tame(t, u)
    PROVE  Tame(s, u)
<1>1. CASE t.rows = s.rows
  <2>1. Held(t) = Held(s)
    BY <1>1 DEF Held, Tame, Several
  <2> QED
    BY <1>1, <2>1 DEF Tame
<1>2. CASE Held(s) # None /\ t.rows = <<Held(s)>>
  <2>1. Held(s) \in ToSet(t.rows)
    BY <1>2 DEF ToSet
  <2>2. HeldIs(s, Held(s))
    BY <1>2, HeldFacts
  <2>3. Held(t) = Held(s)
    <3> DEFINE h == Held(s)
    <3>1. t.apex = s.apex /\ t.rows = <<h>> /\ h \in ToSet(t.rows) /\ HeldIs(s, h)
      BY <1>2, <2>1, <2>2 DEF Tame
    <3> HIDE DEF h
    <3>2. CASE s.apex = {}
      <4>1. t.rows # <<>> /\ t.rows[1] = h
        BY <3>1
      <4> QED
        BY <3>1, <3>2, <4>1 DEF Held, h
    <3>3. CASE s.apex = {h}
      <4>1. Cardinality(t.apex) = 1
        BY <3>1, <3>3, FS_Singleton
      <4>2. ~Several(t)
        BY <4>1 DEF Several
      <4>3. t.apex # {} /\ t.apex \subseteq ToSet(t.rows) /\ (CHOOSE k \in t.apex : TRUE) = h
        BY <3>1, <3>3
      <4> QED
        BY <4>2, <4>3 DEF Held, h
    <3> QED
      BY <3>1, <3>2, <3>3 DEF HeldIs
  <2> QED
    BY <1>2, <2>3 DEF Tame
<1> QED
  BY <1>1, <1>2 DEF Tame

LEMMA LikeTwice ==
    ASSUME NEW s, NEW t, NEW u, NEW d \in Int, NEW e \in Int,
           Shape(s), Like(s, t, d), Like(t, u, e)
    PROVE  Like(s, u, d + e)
<1>1. Shape(t) /\ Shape(u) /\ Tame(s, u)
  BY TameTwice DEF Like
<1>2. ~Learns(s, u)
  BY DEF Like, Learns
<1>3. Over(u) = Over(s) + (d + e)
  BY <1>1, OverType DEF Like
<1> QED
  BY <1>1, <1>2, <1>3 DEF Like

LEMMA RetiredLike ==
    ASSUME NEW s, Shape(s), Held(s) # None
    PROVE  Like(s, Retired(s), 0) /\ Retired(s).job = s.job /\ Retired(s).here = s.here
<1> DEFINE t == Retired(s)
           h == Held(s)
<1>1. h \in Key /\ h \in ToSet(s.rows)
  BY HeldFacts
<1>2. s \in Entry
  BY DEF Shape
<1>3. <<h>> \in Seq(Key)
  BY <1>1
<1>4. t = [s EXCEPT !.rows = <<h>>]
  BY DEF Retired
<1> HIDE DEF t, h
<1>5. t \in Entry
  BY <1>2, <1>3, <1>4 DEF Entry
<1>6. t.rows = <<h>> /\ t.apex = s.apex /\ t.from = s.from /\ t.job = s.job /\ t.answers = s.answers
      /\ t.polls = s.polls /\ t.running = s.running /\ t.out = s.out /\ t.here = s.here
  BY <1>2, <1>4 DEF Entry
<1>7. IsInjective(t.rows)
  BY <1>6 DEF IsInjective
<1>8. Shape(t)
  BY <1>5, <1>6, <1>7 DEF Shape
<1>9. Tame(s, t)
  BY <1>1, <1>6, ConstantsAssumption DEF Tame, Making, h
<1>10. ToSet(t.rows) = {h}
  BY <1>6 DEF ToSet
<1>11. ~Learns(s, t)
  BY <1>1, <1>6, <1>10 DEF Learns, Knows
<1>12. Over(t) = Over(s)
  BY <1>6 DEF Over, Busy
<1>13. Over(t) = Over(s) + 0
  BY <1>8, <1>12, OverType
<1> QED
  BY <1>6, <1>8, <1>9, <1>11, <1>13 DEF Like, t

LEMMA LikeItself ==
    ASSUME NEW s, Shape(s)
    PROVE  Like(s, s, 0)
BY OverType DEF Like, Tame, Learns

-----------------------------------------------------------------------------
(* What the steps are made of *)

\* Each key t was told of or polls with is one that s knows.
PollsKnown(s, t) ==
    \A i \in DOMAIN t.polls :
        \/ t.polls[i].key = None \/ t.polls[i].key \in ToSet(s.rows)
        \/ \E j \in DOMAIN s.polls : t.polls[i].key = s.polls[j].key
AnswersKnown(s, t) == \A p \in Agent : t.answers[p] = s.answers[p] \/ t.answers[p] \notin Key
Bare(s, t) == t.rows = s.rows /\ t.apex = s.apex /\ t.from = s.from

LEMMA EasyLike ==
    ASSUME NEW s, NEW t, NEW d, Shape(s), t \in Entry, Bare(s, t), t.out => t.here,
           Making(t) => Making(s), AnswersKnown(s, t), PollsKnown(s, t),
           Over(t) = Over(s) + d
    PROVE  Like(s, t, d)
<1>1. Shape(t)
  BY DEF Shape, Bare
<1>2. Tame(s, t)
  BY DEF Tame, Bare
<1>3. ASSUME NEW k \in Key, Knows(t, k)
      PROVE  Knows(s, k)
  <2>1. CASE k \in ToSet(t.rows)
    BY <2>1 DEF Bare, Knows
  <2>2. CASE \E p \in Agent : t.answers[p] = k
    BY <2>2 DEF AnswersKnown, Knows
  <2>3. CASE \E i \in DOMAIN t.polls : t.polls[i].key = k
    BY <2>3, ConstantsAssumption DEF PollsKnown, Knows
  <2> QED
    BY <1>3, <2>1, <2>2, <2>3 DEF Knows
<1> QED
  BY <1>1, <1>2, <1>3 DEF Like, Learns

\* What an entry is read as having.
LEMMA EntryFields ==
    ASSUME NEW s, Shape(s)
    PROVE  /\ s \in Entry /\ s.job \in Jobs /\ s.job.round \in BOOLEAN /\ s.polls \in Seq(PollRec)
           /\ s.running \in Int /\ s.out \in BOOLEAN /\ s.here \in BOOLEAN
           /\ Over(s) \in Int
BY OverType DEF Shape, Entry, Jobs

LEMMA NoRoundLike ==
    ASSUME NEW s, Shape(s)
    PROVE  /\ Like(s, NoRound(s), 0)
           /\ NoRound(s).out = FALSE /\ NoRound(s).here = s.here /\ NoRound(s).job.at = s.job.at
           /\ Bare(s, NoRound(s))
<1> DEFINE t == NoRound(s)
<1>1. t = [s EXCEPT !.out = FALSE, !.serial = 0, !.alone = FALSE, !.answers = NoAnswers, !.job.round = FALSE]
  BY DEF NoRound
<1> HIDE DEF t
<1>2. NoAnswers \in [Agent -> Replies] /\ \A p \in Agent : NoAnswers[p] \notin Key
  BY ConstantsAssumption DEF NoAnswers, Replies
<1>3. s \in Entry /\ s.job \in Jobs
  BY EntryFields
<1> DEFINE j == [s.job EXCEPT !.round = FALSE]
<1>4. j \in Jobs /\ j.at = s.job.at /\ j.told = s.job.told
  BY <1>3 DEF Jobs
<1>5. t = [s EXCEPT !.out = FALSE, !.serial = 0, !.alone = FALSE, !.answers = NoAnswers, !.job = j]
  BY <1>1
<1> HIDE DEF j
<1>6. t \in Entry
  <2>1. FALSE \in BOOLEAN /\ 0 \in 0..2
    OBVIOUS
  <2> QED
    BY <1>2, <1>3, <1>4, <1>5, <2>1 DEF Entry
<1>7. Bare(s, t) /\ t.out = FALSE /\ t.here = s.here /\ t.job = j /\ t.answers = NoAnswers
      /\ t.polls = s.polls /\ t.running = s.running
  BY <1>3, <1>5 DEF Entry, Bare
<1>8. Over(t) = Over(s) + 0
  BY <1>4, <1>7, EntryFields DEF Over, Busy
<1>9. Making(t) => Making(s)
  BY <1>4, <1>7 DEF Making
<1>10. AnswersKnown(s, t) /\ PollsKnown(s, t)
  BY <1>2, <1>7 DEF AnswersKnown, PollsKnown
<1>11. Like(s, t, 0)
  BY <1>6, <1>7, <1>8, <1>9, <1>10, EasyLike
<1> QED
  BY <1>4, <1>7, <1>11 DEF t

\* A change of the fields that no invariant reads.
Fit(t) == t \in Entry /\ (t.out => t.here)
Plain(s, t) ==
    /\ Bare(s, t) /\ t.answers = s.answers /\ t.polls = s.polls /\ t.running = s.running
    /\ t.job.at = s.job.at /\ t.job.told = s.job.told

LEMMA PlainLike ==
    ASSUME NEW s, NEW t, Shape(s), Fit(t), Plain(s, t)
    PROVE  Like(s, t, 0)
<1>1. Over(t) = Over(s) + 0
  BY EntryFields DEF Over, Busy, Plain
<1>2. AnswersKnown(s, t) /\ PollsKnown(s, t) /\ Bare(s, t)
  BY DEF AnswersKnown, PollsKnown, Plain
<1>3. Making(t) => Making(s)
  BY DEF Making, Plain
<1> QED
  BY <1>1, <1>2, <1>3, EasyLike DEF Fit

LEMMA DroppedLike ==
    ASSUME NEW s, Shape(s)
    PROVE  Like(s, Dropped(s), 0) /\ Dropped(s).job.at = s.job.at /\ Bare(s, Dropped(s))
<1> DEFINE n == NoRound(s)
           t == [n EXCEPT !.here = FALSE]
<1>1. Like(s, n, 0) /\ n.out = FALSE /\ n.job.at = s.job.at /\ Bare(s, n)
  BY NoRoundLike
<1>2. Dropped(s) = t
  BY DEF Dropped
<1> HIDE DEF n
<1>3. Shape(n) /\ n \in Entry
  BY <1>1, EntryFields DEF Like
<1>4. Fit(t) /\ Plain(n, t) /\ t.job = n.job
  BY <1>1, <1>3 DEF Entry, Fit, Plain, Bare
<1> HIDE DEF t
<1>5. Like(n, t, 0)
  BY <1>3, <1>4, PlainLike
<1>6. Like(s, t, 0 + 0)
  BY <1>1, <1>5, LikeTwice
<1>7. Bare(s, t)
  BY <1>1, <1>4 DEF Bare, Plain
<1> QED
  BY <1>1, <1>2, <1>4, <1>6, <1>7

LEMMA RestartedLike ==
    ASSUME NEW s, Shape(s)
    PROVE  Like(s, Restarted(s), 0)
<1> DEFINE n == NoRound(s)
           t == [n EXCEPT !.check = TRUE]
<1>1. Like(s, n, 0) /\ n.out = FALSE
  BY NoRoundLike
<1>2. Restarted(s) = t
  BY DEF Restarted
<1> HIDE DEF n
<1>3. Shape(n) /\ n \in Entry
  BY <1>1, EntryFields DEF Like
<1>4. Fit(t) /\ Plain(n, t)
  BY <1>1, <1>3 DEF Entry, Fit, Plain, Bare
<1> HIDE DEF t
<1>5. Like(n, t, 0)
  BY <1>3, <1>4, PlainLike
<1>6. Like(s, t, 0 + 0)
  BY <1>1, <1>5, LikeTwice
<1> QED
  BY <1>2, <1>6

LEMMA RoundEndedLike ==
    ASSUME NEW s, Shape(s), NEW done
    PROVE  /\ Like(s, RoundEnded(s, done), 0) /\ RoundEnded(s, done).job.at = s.job.at
           /\ Bare(s, RoundEnded(s, done))
BY NoRoundLike, DroppedLike DEF RoundEnded

\* A job ends: it counted for one.
LEMMA JobEndedLike ==
    ASSUME NEW s, Shape(s), NEW done
    PROVE  /\ Like(s, JobEnded(s, done), Busy(s)) /\ JobEnded(s, done).job.at = "idle"
           /\ Bare(s, JobEnded(s, done)) /\ ~Making(JobEnded(s, done))
<1> DEFINE t == [s EXCEPT !.job = NoJob]
<1>1. NoJob \in Jobs /\ NoJob.at = "idle" /\ NoJob.told = FALSE
  BY DEF NoJob, Jobs, Maybe
<1>2. s \in Entry
  BY EntryFields
<1>3. t \in Entry /\ Bare(s, t) /\ t.out = s.out /\ t.here = s.here /\ t.answers = s.answers
      /\ t.polls = s.polls /\ t.running = s.running /\ t.job = NoJob
  BY <1>1, <1>2 DEF Entry, Bare
<1> HIDE DEF t
<1>4. Busy(t) = 0 /\ Busy(s) \in Int
  BY <1>1, <1>3, OverType DEF Busy
<1>5. Over(t) = Over(s) + Busy(s)
  <2>1. /\ s.running - Len(s.polls) - 0 = s.running - Len(s.polls) - Busy(s) + Busy(s)
    BY OverType
  <2> QED
    BY <1>3, <1>4, <2>1 DEF Over
<1>6. ~Making(t)
  BY <1>1, <1>3 DEF Making
<1>7. AnswersKnown(s, t) /\ PollsKnown(s, t) /\ (t.out => t.here)
  BY <1>3 DEF AnswersKnown, PollsKnown, Shape
<1>8. Like(s, t, Busy(s))
  BY <1>3, <1>5, <1>6, <1>7, EasyLike
<1>9. CASE ~s.job.round
  BY <1>1, <1>3, <1>6, <1>8, <1>9 DEF JobEnded, t
<1>10. CASE s.job.round
  <2>1. JobEnded(s, done) = RoundEnded(t, done)
    BY <1>10 DEF JobEnded, t
  <2>2. Like(t, RoundEnded(t, done), 0) /\ RoundEnded(t, done).job.at = "idle"
    BY <1>1, <1>3, <1>8, RoundEndedLike DEF Like
  <2>3. Like(s, RoundEnded(t, done), Busy(s) + 0) /\ Busy(s) + 0 = Busy(s)
    BY <1>4, <1>8, <2>2, LikeTwice
  <2>4. Bare(s, RoundEnded(t, done))
    BY <1>3, <1>8, RoundEndedLike DEF Bare, Like
  <2>5. ~Making(RoundEnded(t, done))
    BY <1>6, <2>2 DEF Like, Tame
  <2> QED
    BY <2>1, <2>2, <2>3, <2>4, <2>5
<1> QED
  BY <1>9, <1>10

LEMMA EndsLike ==
    ASSUME NEW s, Shape(s)
    PROVE  Like(s, Ends(s), -1) /\ Ends(s).job = s.job /\ Ends(s).polls = s.polls
<1> DEFINE t == [s EXCEPT !.running = s.running - 1]
<1>1. Ends(s) = t
  BY DEF Ends
<1>2. s \in Entry /\ s.running \in Int /\ s.running - 1 \in Int
  BY EntryFields
<1>3. t \in Entry /\ Bare(s, t) /\ t.out = s.out /\ t.here = s.here /\ t.answers = s.answers
      /\ t.polls = s.polls /\ t.running = s.running - 1 /\ t.job = s.job
  BY <1>2 DEF Entry, Bare
<1> HIDE DEF t
<1>4. Over(t) = Over(s) + (-1)
  <2>1. s.running - 1 - Len(s.polls) - Busy(s) = s.running - Len(s.polls) - Busy(s) + (-1)
    BY OverType
  <2> QED
    BY <1>3, <2>1 DEF Over, Busy
<1>5. AnswersKnown(s, t) /\ PollsKnown(s, t) /\ (t.out => t.here) /\ (Making(t) => Making(s))
  BY <1>3 DEF AnswersKnown, PollsKnown, Shape, Making
<1>6. Like(s, t, -1)
  BY <1>3, <1>4, <1>5, EasyLike
<1> QED
  BY <1>1, <1>3, <1>6

\* A job begins at an agent that has none; it counts for one, as it is one.
LEMMA BegunLike ==
    ASSUME NEW s, Shape(s), s.job.at = "idle", NEW job \in Jobs, job.at # "idle",
           job.told = FALSE
    PROVE  /\ Shape(Begun(s, job)) /\ Bare(s, Begun(s, job)) /\ Over(Begun(s, job)) = Over(s)
           /\ ~Learns(s, Begun(s, job))
           /\ job.at # "make" => Like(s, Begun(s, job), 0)
<1> DEFINE j == [job EXCEPT !.round = s.out]
           t == [s EXCEPT !.job = j, !.running = s.running + 1]
<1>1. Begun(s, job) = t
  BY DEF Begun
<1>2. s \in Entry /\ s.running \in Int /\ s.running + 1 \in Int /\ s.out \in BOOLEAN
  BY EntryFields
<1>3. j \in Jobs /\ j.at = job.at /\ j.told = FALSE
  BY <1>2 DEF Jobs
<1> HIDE DEF j
<1>4. t \in Entry /\ Bare(s, t) /\ t.out = s.out /\ t.here = s.here /\ t.answers = s.answers
      /\ t.polls = s.polls /\ t.running = s.running + 1 /\ t.job = j
  BY <1>2, <1>3 DEF Entry, Bare
<1> HIDE DEF t
<1>5. Busy(s) = 0 /\ Busy(t) = 1
  BY <1>3, <1>4 DEF Busy
<1>6. Over(t) = Over(s) /\ Over(t) = Over(s) + 0
  <2>1. Over(t) = t.running - Len(t.polls) - Busy(t) /\ Over(s) = s.running - Len(s.polls) - Busy(s)
    BY DEF Over
  <2>2. s.running \in Int /\ Len(s.polls) \in Int /\ t.running = s.running + 1
        /\ Len(t.polls) = Len(s.polls)
    BY <1>4, OverType
  <2>3. \A x, y, z \in Int : z = x + 1 => z - y - 1 = x - y - 0 /\ x - y - 0 = x - y - 0 + 0
    OBVIOUS
  <2>4. t.running \in Int
    BY <1>2, <1>4
  <2> QED
    BY <1>5, <2>1, <2>2, <2>3, <2>4
<1>7. AnswersKnown(s, t) /\ PollsKnown(s, t) /\ (t.out => t.here)
  BY <1>4 DEF AnswersKnown, PollsKnown, Shape
<1>8. Shape(t) /\ ~Learns(s, t)
  BY <1>4, <1>7 DEF Shape, Bare, Learns, Knows
<1>9. ASSUME job.at # "make"
      PROVE  Like(s, t, 0)
  <2>1. ~Making(t)
    BY <1>3, <1>4, <1>9 DEF Making
  <2> QED
    BY <1>4, <1>6, <1>7, <2>1, EasyLike
<1> QED
  BY <1>1, <1>4, <1>6, <1>8, <1>9

\* A poll begins with a key that is held.
LEMMA PollingLike ==
    ASSUME NEW s, Shape(s), NEW key \in ToSet(s.rows)
    PROVE  /\ Like(s, Polling(s, key), -1)
           /\ Polling(s, key).job = s.job /\ Bare(s, Polling(s, key))
<1> DEFINE p == [key |-> key, hold |-> s.hold, runs |-> FALSE]
           t == [s EXCEPT !.polls = Append(s.polls, p)]
<1>1. Polling(s, key) = t
  BY DEF Polling
<1>2. s \in Entry /\ s.polls \in Seq(PollRec) /\ s.hold \in Nat
  BY EntryFields DEF Entry
<1>3. p \in PollRec /\ p.key = key
  BY <1>2, RowsFacts DEF PollRec, Maybe
<1> HIDE DEF p
<1> DEFINE q == Append(s.polls, p)
<1>4. q \in Seq(PollRec) /\ Len(q) = Len(s.polls) + 1 /\ DOMAIN q = 1..(Len(s.polls) + 1)
      /\ (\A i \in 1..Len(s.polls) : q[i] = s.polls[i]) /\ q[Len(s.polls) + 1] = p
      /\ DOMAIN s.polls = 1..Len(s.polls) /\ Len(s.polls) \in Nat
  BY <1>2, <1>3, AppendProperties, LenProperties
<1> HIDE DEF q
<1>5. t \in Entry /\ Bare(s, t) /\ t.out = s.out /\ t.here = s.here /\ t.answers = s.answers
      /\ t.polls = q /\ t.running = s.running /\ t.job = s.job
  BY <1>2, <1>4 DEF Entry, Bare, q
<1> HIDE DEF t
<1>6. Over(t) = Over(s) + (-1)
  <2>1. s.running - (Len(s.polls) + 1) - Busy(s) = s.running - Len(s.polls) - Busy(s) + (-1)
    BY OverType
  <2> QED
    BY <1>4, <1>5, <2>1 DEF Over, Busy
<1>7. PollsKnown(s, t)
  <2> SUFFICES ASSUME NEW i \in DOMAIN q
               PROVE  q[i].key \in ToSet(s.rows) \/ \E j \in DOMAIN s.polls : q[i].key = s.polls[j].key
    BY <1>5 DEF PollsKnown
  <2>1. CASE i \in DOMAIN s.polls
    BY <1>4, <2>1
  <2>2. CASE i = Len(s.polls) + 1
    BY <1>3, <1>4, <2>2
  <2> QED
    BY <1>4, <2>1, <2>2
<1>8. AnswersKnown(s, t) /\ (t.out => t.here) /\ (Making(t) => Making(s))
  BY <1>5 DEF AnswersKnown, Shape, Making
<1> QED
  BY <1>1, <1>5, <1>6, <1>7, <1>8, EasyLike

\* A poll taken out of the book: the others stay.
LEMMA RemoveAtFacts ==
    ASSUME NEW S, NEW q \in Seq(S), NEW i \in DOMAIN q
    PROVE  /\ RemoveAt(q, i) \in Seq(S) /\ Len(RemoveAt(q, i)) = Len(q) - 1
           /\ \A j \in DOMAIN RemoveAt(q, i) : \E n \in DOMAIN q : RemoveAt(q, i)[j] = q[n]
<1> DEFINE u == SubSeq(q, 1, i - 1)
           v == SubSeq(q, i + 1, Len(q))
<1>1. Len(q) \in Nat /\ DOMAIN q = 1..Len(q) /\ i \in 1..Len(q)
      /\ \A n \in 1..Len(q) : q[n] \in S
  BY LenProperties, ElementOfSeq
<1>2. u \in Seq(S) /\ Len(u) = i - 1 /\ \A j \in 1..(i - 1) : u[j] = q[j]
  <2>1. \A n \in 1..(i - 1) : q[n] \in S
    BY <1>1
  <2>2. /\ u \in Seq(S) /\ Len(u) = IF 1 <= i - 1 THEN i - 1 - 1 + 1 ELSE 0
        /\ \A j \in 1..(i - 1 - 1 + 1) : u[j] = q[1 + j - 1]
    BY <1>1, <2>1, SubSeqProperties
  <2> QED
    BY <1>1, <2>2
<1>3. v \in Seq(S) /\ Len(v) = Len(q) - i /\ \A j \in 1..(Len(q) - i) : v[j] = q[i + j]
  <2>1. \A n \in (i + 1)..Len(q) : q[n] \in S
    BY <1>1
  <2>2. /\ v \in Seq(S) /\ Len(v) = IF i + 1 <= Len(q) THEN Len(q) - (i + 1) + 1 ELSE 0
        /\ \A j \in 1..(Len(q) - (i + 1) + 1) : v[j] = q[i + 1 + j - 1]
    BY <1>1, <2>1, SubSeqProperties
  <2>3. (IF i + 1 <= Len(q) THEN Len(q) - (i + 1) + 1 ELSE 0) = Len(q) - i
    BY <1>1
  <2>5. Len(v) = Len(q) - i
    BY <2>2, <2>3
  <2>6. Len(q) - (i + 1) + 1 = Len(q) - i
    BY <1>1
  <2>7. \A j \in 1..(Len(q) - i) : v[j] = q[i + j]
    <3> SUFFICES ASSUME NEW j \in 1..(Len(q) - i)
                 PROVE  v[j] = q[i + j]
      OBVIOUS
    <3>1. v[j] = q[i + 1 + j - 1]
      BY <2>2, <2>6
    <3>2. i + 1 + j - 1 = i + j
      BY <1>1
    <3> QED
      BY <3>1, <3>2
  <2> QED
    BY <2>2, <2>5, <2>7
<1>4. RemoveAt(q, i) = u \o v
  BY DEF RemoveAt
<1> HIDE DEF u, v
<1> DEFINE w == u \o v
<1>5. w \in Seq(S) /\ Len(w) = Len(u) + Len(v)
      /\ \A j \in 1..(Len(u) + Len(v)) : w[j] = IF j <= Len(u) THEN u[j] ELSE v[j - Len(u)]
  BY <1>2, <1>3, ConcatProperties
<1> HIDE DEF w
<1>6. DOMAIN w = 1..Len(w)
  BY <1>5, LenProperties
<1>7. Len(w) = Len(q) - 1
  BY <1>1, <1>2, <1>3, <1>5
<1>8. ASSUME NEW j \in DOMAIN w
      PROVE  \E n \in DOMAIN q : w[j] = q[n]
  <2>1. CASE j <= i - 1
    <3>1. j \in 1..(i - 1) /\ j \in 1..(Len(u) + Len(v)) /\ j <= Len(u) /\ j \in DOMAIN q
      BY <1>1, <1>2, <1>5, <1>6, <1>7, <2>1
    <3>2. w[j] = q[j]
      BY <1>2, <1>5, <3>1
    <3> QED
      BY <3>1, <3>2
  <2>2. CASE ~(j <= i - 1)
    <3>1. /\ j \in 1..(Len(u) + Len(v)) /\ ~(j <= Len(u)) /\ j - Len(u) \in 1..(Len(q) - i)
          /\ i + (j - Len(u)) \in DOMAIN q
      <4>1. Len(u) = i - 1 /\ Len(u) + Len(v) = Len(q) - 1 /\ j \in 1..(Len(q) - 1)
        BY <1>2, <1>5, <1>6, <1>7
      <4>2. Len(q) \in Int /\ i \in Int /\ j \in Int /\ 1 <= i /\ i <= Len(q) /\ 1 <= j /\ j <= Len(q) - 1
        BY <1>1, <4>1
      <4>3. \A n, x, y \in Int : 1 <= x /\ x <= n /\ 1 <= y /\ y <= n - 1 /\ ~(y <= x - 1)
              => y - (x - 1) \in 1..(n - x) /\ x + (y - (x - 1)) \in 1..n
        OBVIOUS
      <4>4. j - (i - 1) \in 1..(Len(q) - i) /\ i + (j - (i - 1)) \in 1..Len(q)
        BY <2>2, <4>2, <4>3
      <4> QED
        BY <1>1, <2>2, <4>1, <4>4
    <3>2. w[j] = q[i + (j - Len(u))]
      BY <1>3, <1>5, <3>1
    <3> QED
      BY <3>1, <3>2
  <2> QED
    BY <2>1, <2>2
<1> QED
  BY <1>4, <1>5, <1>7, <1>8 DEF w

LEMMA PollOverLike ==
    ASSUME NEW s, Shape(s), NEW i \in DOMAIN s.polls, NEW finished
    PROVE  Like(s, PollOver(s, i, finished), 0)
<1> DEFINE q == RemoveAt(s.polls, i)
           r == [s EXCEPT !.polls = q]
           t == Ends(r)
           p == s.polls[i]
           e == [key |-> p.key, hold |-> p.hold]
<1>1. s \in Entry /\ s.polls \in Seq(PollRec) /\ Over(s) \in Int /\ Len(s.polls) \in Int
      /\ s.running \in Int /\ Busy(s) \in Int
  BY EntryFields, OverType
<1>2. /\ q \in Seq(PollRec) /\ Len(q) = Len(s.polls) - 1
      /\ \A j \in DOMAIN q : \E n \in DOMAIN s.polls : q[j] = s.polls[n]
  BY <1>1, RemoveAtFacts
<1>3. e \in [key : Maybe, hold : Nat]
  <2>1. p \in PollRec
    BY <1>1, LenProperties, ElementOfSeq
  <2> QED
    BY <2>1 DEF PollRec
<1> HIDE DEF q, e
<1>4. r \in Entry /\ Bare(s, r) /\ r.out = s.out /\ r.here = s.here /\ r.answers = s.answers
      /\ r.polls = q /\ r.running = s.running /\ r.job = s.job
  BY <1>1, <1>2 DEF Entry, Bare
<1> HIDE DEF r
<1>5. Over(r) = Over(s) + 1
  <2>1. s.running - (Len(s.polls) - 1) - Busy(s) = s.running - Len(s.polls) - Busy(s) + 1
    BY <1>1
  <2> QED
    BY <1>2, <1>4, <2>1 DEF Over, Busy
<1>6. PollsKnown(s, r)
  BY <1>2, <1>4 DEF PollsKnown
<1>7. AnswersKnown(s, r) /\ (r.out => r.here) /\ (Making(r) => Making(s))
  BY <1>4 DEF AnswersKnown, Shape, Making
<1>8. Like(s, r, 1)
  BY <1>4, <1>5, <1>6, <1>7, EasyLike
<1>9. Like(r, t, -1)
  BY <1>8, EndsLike DEF Like
<1> HIDE DEF t
<1>10. Like(s, t, 1 + (-1))
  BY <1>8, <1>9, LikeTwice
<1>11. Like(s, t, 0)
  BY <1>10
<1> DEFINE u == [t EXCEPT !.ended = e]
<1>12. Like(s, u, 0)
  <2>1. Shape(t) /\ t \in Entry
    BY <1>11, EntryFields DEF Like
  <2>2. Fit(u) /\ Plain(t, u)
    BY <1>3, <2>1 DEF Entry, Fit, Plain, Bare, Shape
  <2> HIDE DEF u
  <2>3. Like(t, u, 0)
    BY <2>1, <2>2, PlainLike
  <2>4. Like(s, u, 0 + 0)
    BY <1>11, <2>3, LikeTwice
  <2> QED
    BY <2>4
<1>13. PollOver(s, i, finished) \in {t, u}
  BY DEF PollOver, t, r, q, u, e
<1> QED
  BY <1>11, <1>12, <1>13

\* A job's failure: its count goes, and it goes.
LEMMA FailedLike ==
    ASSUME NEW s, Shape(s), s.job.at # "idle", NEW unpublished \in BOOLEAN
    PROVE  Like(s, Failed(s, unpublished), 0)
<1> DEFINE x == s.unpublished \/ unpublished
           y == s.check \/ s.job.kind = "setup"
           r == [s EXCEPT !.unpublished = x, !.check = y]
           t == Ends(r)
           done == s.job.kind \in {"take", "make"}
<1>1. x \in BOOLEAN /\ y \in BOOLEAN
  OBVIOUS
<1>2. Failed(s, unpublished) = JobEnded(t, done)
  BY DEF Failed
<1> HIDE DEF x, y, done
<1>3. s \in Entry
  BY EntryFields
<1>4. Fit(r) /\ Plain(s, r) /\ r.job = s.job
  BY <1>1, <1>3 DEF Entry, Fit, Plain, Bare, Shape
<1> HIDE DEF r
<1>5. Like(s, r, 0)
  BY <1>4, PlainLike
<1>6. Like(r, t, -1) /\ t.job = s.job
  BY <1>4, <1>5, EndsLike DEF Like
<1> HIDE DEF t
<1>7. Like(s, t, 0 + (-1))
  BY <1>5, <1>6, LikeTwice
<1>8. Like(s, t, -1) /\ Shape(t) /\ Busy(t) = 1
  BY <1>6, <1>7 DEF Like, Busy
<1>9. Like(t, JobEnded(t, done), 1)
  BY <1>8, JobEndedLike
<1>10. Like(s, JobEnded(t, done), (-1) + 1)
  BY <1>8, <1>9, LikeTwice
<1>11. Like(s, JobEnded(t, done), 0)
  BY <1>10
<1> QED
  BY <1>2, <1>11

-----------------------------------------------------------------------------
(* The invariant *)

\* The key an agent contributes itself.
Own(m, a) == m[a].from[a]

\* A key is held, told of or polled with by an agent, or on its way in an answer.
KnownIn(m, rq, k) ==
    \/ \E a \in Agent : Knows(m[a], k)
    \/ \E r \in rq : r.is = k

\* The key an agent contributes is the only one it has before its zone
\* publishes one, and then it is published, and held, unless it is a key of
\* before that nobody has.
Backed(m, rq, z, a) ==
    \/ Own(m, a) = None
    \/ m[a].apex = {} /\ m[a].rows = <<Own(m, a)>>
    \/ /\ Own(m, a) \in m[a].apex
       /\ \/ Own(m, a) \in ToSet(m[a].rows)
          \/ Own(m, a) \in z.made /\ ~KnownIn(m, rq, Own(m, a))

\* What the others have, or will have, of an agent's is what it contributes.
PassedOn(m, nt, b, x) ==
    /\ b # x => m[b].from[x] \in {None, Own(m, x)}
    /\ nt[b][x] \in {None, IF b = x THEN None ELSE Own(m, x)}

Trusted(m, z) == \A k \in z.trusts : \E x \in Agent : Own(m, x) = k /\ k \in ToSet(m[x].rows)
Owned(m) == \A b \in Agent : \A k \in m[b].apex : \E x \in Agent : Own(m, x) = k
Unspoken(m) == \A a \in Agent : Making(m[a]) => Own(m, a) = None

\* Nobody knows a key before it is made.
Made(m, rq, z) == \A k \in Key : KnownIn(m, rq, k) => k \in z.made

KeyInv(m, rq, nt, z) ==
    /\ \A a \in Agent : Backed(m, rq, z, a)
    /\ \A b, x \in Agent : PassedOn(m, nt, b, x)
    /\ Owned(m) /\ Trusted(m, z) /\ Unspoken(m) /\ Made(m, rq, z)

\* A step that publishes nothing, and tells nobody of a key nobody knew.
Soft(m, n, rq, rp, nt, mt, z, y) ==
    /\ \A b \in Agent : Tame(m[b], n[b])
    /\ \A k \in Key : KnownIn(n, rp, k) => KnownIn(m, rq, k)
    /\ \A b, x \in Agent : mt[b][x] \in {None, nt[b][x]}
    /\ y.made = z.made /\ y.trusts = z.trusts

\* A key contributed is never the one retired.
LEMMA OwnIsHeld ==
    ASSUME NEW m, NEW rq, NEW z, NEW a \in Agent, Shape(m[a]), Backed(m, rq, z, a),
           Own(m, a) # None, Held(m[a]) # None
    PROVE  Held(m[a]) = Own(m, a)
<1> DEFINE s == m[a]
           j == Own(m, a)
           h == Held(s)
<1>1. HeldIs(s, h)
  BY HeldFacts
<1>2. (s.apex = {} /\ s.rows = <<j>>) \/ j \in s.apex
  BY DEF Backed
<1> HIDE DEF s, j, h
<1>3. h = j
  BY <1>1, <1>2 DEF HeldIs
<1> QED
  BY <1>3 DEF s, j, h

LEMMA SoftKeeps ==
    ASSUME NEW m, NEW n, NEW rq, NEW rp, NEW nt, NEW mt, NEW z, NEW y,
           AllSane(m), z.made \subseteq Key,
           Soft(m, n, rq, rp, nt, mt, z, y), KeyInv(m, rq, nt, z)
    PROVE  KeyInv(n, rp, mt, y)
<1>1. ASSUME NEW b \in Agent
      PROVE  n[b].apex = m[b].apex /\ n[b].from = m[b].from /\ (Making(n[b]) => Making(m[b]))
  BY <1>1 DEF Soft, Tame
<1>2. \A x \in Agent : Own(n, x) = Own(m, x)
  BY <1>1 DEF Own
<1>3. ASSUME NEW x \in Agent, Own(m, x) # None, Own(m, x) \in ToSet(m[x].rows)
      PROVE  Own(m, x) \in ToSet(n[x].rows)
  <2>1. CASE n[x].rows = m[x].rows
    BY <1>3, <2>1
  <2>2. CASE Held(m[x]) # None /\ n[x].rows = <<Held(m[x])>>
    <3>1. Held(m[x]) = Own(m, x)
      BY <1>3, <2>2, OwnIsHeld DEF AllSane, Sane, KeyInv
    <3> QED
      BY <2>2, <3>1 DEF ToSet
  <2> QED
    BY <2>1, <2>2 DEF Soft, Tame
<1>4. ASSUME NEW a \in Agent
      PROVE  Backed(n, rp, y, a)
  <2> DEFINE j == Own(m, a)
  <2>1. CASE j = None
    BY <1>2, <2>1 DEF Backed
  <2>2. CASE j # None /\ m[a].apex = {} /\ m[a].rows = <<j>>
    <3>1. n[a].rows = <<j>>
      <4>1. CASE n[a].rows = m[a].rows
        BY <2>2, <4>1
      <4>2. CASE Held(m[a]) # None /\ n[a].rows = <<Held(m[a])>>
        BY <2>2, <4>2, OwnIsHeld DEF AllSane, Sane, KeyInv
      <4> QED
        BY <4>1, <4>2 DEF Soft, Tame
    <3> QED
      BY <1>1, <1>2, <2>2, <3>1 DEF Backed
  <2>3. CASE j # None /\ j \in m[a].apex /\ j \in ToSet(m[a].rows)
    BY <1>1, <1>2, <1>3, <2>3 DEF Backed
  <2>4. CASE j # None /\ j \in m[a].apex /\ j \in z.made /\ ~KnownIn(m, rq, j)
    <3>1. j \in y.made /\ ~KnownIn(n, rp, j)
      BY <2>4 DEF Soft
    <3> QED
      BY <1>1, <1>2, <2>4, <3>1 DEF Backed
  <2> QED
    BY <2>1, <2>2, <2>3, <2>4 DEF KeyInv, Backed
<1>5. ASSUME NEW b \in Agent, NEW x \in Agent
      PROVE  PassedOn(n, mt, b, x)
  <2>1. PassedOn(m, nt, b, x) /\ mt[b][x] \in {None, nt[b][x]}
    BY DEF KeyInv, Soft
  <2> QED
    BY <1>1, <1>2, <2>1 DEF PassedOn
<1>6. Owned(n)
  BY <1>1, <1>2 DEF KeyInv, Owned
<1>7. Trusted(n, y)
  <2> SUFFICES ASSUME NEW k \in y.trusts
               PROVE  \E x \in Agent : Own(n, x) = k /\ k \in ToSet(n[x].rows)
    BY DEF Trusted
  <2>1. PICK x \in Agent : Own(m, x) = k /\ k \in ToSet(m[x].rows)
    BY DEF KeyInv, Trusted, Soft
  <2>2. k # None
    <3>1. k \in Key
      BY <2>1, RowsFacts DEF AllSane, Sane, Shape
    <3> QED
      BY <3>1, ConstantsAssumption
  <2> QED
    BY <1>2, <1>3, <2>1, <2>2
<1>8. Unspoken(n)
  BY <1>1, <1>2 DEF KeyInv, Unspoken
<1>9. Made(n, rp, y)
  BY DEF KeyInv, Made, Soft
<1> QED
  BY <1>4, <1>5, <1>6, <1>7, <1>8, <1>9 DEF KeyInv

-----------------------------------------------------------------------------
(* Steps that publish nothing *)

Good == Types /\ KeyInv(my, reqs, net, zone)

\* An answer of rp with a key is one of rq.
NoNews(rq, rp) == \A r \in rp : r.is \in Key => \E q \in rq : q.is = r.is

Still == UNCHANGED <<phase, zone, voters>>
LeftIs == left \in [Event -> Nat]

LEMMA SpendType ==
    ASSUME LeftIs, NEW e \in Event, Spend(e)
    PROVE  LeftIs'
BY DEF LeftIs, Spend

LEMMA Unspent ==
    ASSUME LeftIs, UNCHANGED left
    PROVE  LeftIs'
BY DEF LeftIs

LEMMA OutdatedFacts ==
    ASSUME reqs \subseteq Request, NEW a \in Agent
    PROVE  Outdated(a) \subseteq Request /\ NoNews(reqs, Outdated(a))
<1> SUFFICES ASSUME NEW q \in reqs
             PROVE  /\ (IF q.from = a THEN [q EXCEPT !.current = FALSE] ELSE q) \in Request
                    /\ (IF q.from = a THEN [q EXCEPT !.current = FALSE] ELSE q).is = q.is
  BY DEF Outdated, NoNews
<1>1. q \in Request
  OBVIOUS
<1> QED
  BY <1>1 DEF Request

\* KEYs on their way may be lost.
Fewer ==
    /\ net' \in [Agent -> [Agent -> Maybe]]
    /\ \A b, x \in Agent : net'[b][x] \in {None, net[b][x]}

\* One agent's entry changes, as it may, with what goes on around it.
LEMMA FallKeeps ==
    ASSUME Good, NEW a \in Agent, NEW t, Changes(a, t), Sane(t), Tame(my[a], t),
           \A k \in Key : Knows(t, k) => KnownIn(my, reqs, k),
           reqs' \subseteq Request, NoNews(reqs, reqs'), Fewer,
           Around', zone'.made = zone.made, zone'.trusts = zone.trusts
    PROVE  Good'
<1>1. my' = [my EXCEPT ![a] = t] /\ my \in [Agent -> Entry] /\ t \in Entry
      /\ \A b \in Agent : Sane(my[b])
  BY DEF Changes, Good, Types, AllSane, Sane, Shape
<1>2. my' \in [Agent -> Entry] /\ my'[a] = t /\ \A b \in Agent : b # a => my'[b] = my[b]
  BY <1>1
<1>3. AllSane(my')
  BY <1>1, <1>2 DEF AllSane
<1>4. ASSUME NEW b \in Agent
      PROVE  Tame(my[b], my'[b])
  BY <1>2 DEF Tame
<1>5. ASSUME NEW k \in Key, KnownIn(my', reqs', k)
      PROVE  KnownIn(my, reqs, k)
  <2>1. CASE \E r \in reqs' : r.is = k
    BY <2>1 DEF NoNews, KnownIn
  <2>2. CASE \E b \in Agent : Knows(my'[b], k)
    <3>1. PICK b \in Agent : Knows(my'[b], k)
      BY <2>2
    <3>2. CASE b = a
      BY <1>2, <3>1, <3>2
    <3>3. CASE b # a
      BY <1>2, <3>1, <3>3 DEF KnownIn
    <3> QED
      BY <3>2, <3>3
  <2> QED
    BY <1>5, <2>1, <2>2 DEF KnownIn
<1>6. \A b, x \in Agent : net'[b][x] \in {None, net[b][x]}
  BY DEF Fewer, Good, Types, Letters
<1>7. Soft(my, my', reqs, reqs', net, net', zone, zone')
  BY <1>4, <1>5, <1>6 DEF Soft
<1>8. zone.made \subseteq Key /\ AllSane(my) /\ KeyInv(my, reqs, net, zone)
  BY DEF Good, Types, Around, Zones
<1>9. KeyInv(my', reqs', net', zone')
  BY <1>7, <1>8, SoftKeeps
<1>10. Letters'
  BY DEF Good, Types, Letters, Fewer
<1> QED
  BY <1>3, <1>9, <1>10 DEF Good, Types

LEMMA StepKeeps ==
    ASSUME Good, NEW a \in Agent, NEW t, Changes(a, t), Sane(t), Tame(my[a], t),
           \A k \in Key : Knows(t, k) => KnownIn(my, reqs, k),
           reqs' \subseteq Request, NoNews(reqs, reqs'), UNCHANGED net,
           Around', zone'.made = zone.made, zone'.trusts = zone.trusts
    PROVE  Good'
<1>1. Fewer
  BY DEF Fewer, Good, Types, Letters
<1> QED
  BY <1>1, FallKeeps

\* The same, with nothing learnt.
LEMMA LikeKeeps ==
    ASSUME Good, NEW a \in Agent, NEW t, Changes(a, t), Like(my[a], t, 0),
           reqs' \subseteq Request, NoNews(reqs, reqs'), UNCHANGED net,
           Around', zone'.made = zone.made, zone'.trusts = zone.trusts
    PROVE  Good'
<1>1. Sane(my[a])
  BY DEF Good, Types, AllSane
<1>2. Sane(t) /\ Tame(my[a], t)
  <2>1. Over(t) = 0 + 0
    BY <1>1 DEF Like, Sane
  <2> QED
    BY <2>1 DEF Like, Sane
<1>3. \A k \in Key : Knows(t, k) => KnownIn(my, reqs, k)
  BY DEF Like, Learns, KnownIn
<1> QED
  BY <1>2, <1>3, StepKeeps

\* The same, with the requests as they were, or those of the agent outdated,
\* and the rest standing still.
LEMMA StillKeeps ==
    ASSUME Good, NEW a \in Agent, NEW t, Changes(a, t), Like(my[a], t, 0),
           UNCHANGED reqs \/ reqs' = Outdated(a), UNCHANGED net, Still, LeftIs'
    PROVE  Good'
<1>1. reqs \subseteq Request
  BY DEF Good, Types, Letters
<1>2. reqs' \subseteq Request /\ NoNews(reqs, reqs')
  <2>1. CASE UNCHANGED reqs
    BY <1>1, <2>1 DEF NoNews
  <2>2. CASE reqs' = Outdated(a)
    BY <1>1, <2>2, OutdatedFacts
  <2> QED
    BY <2>1, <2>2
<1>3. Around' /\ zone'.made = zone.made /\ zone'.trusts = zone.trusts
  BY DEF Good, Types, Around, Still, LeftIs
<1> QED
  BY <1>2, <1>3, LikeKeeps

LEMMA GoodFacts ==
    ASSUME Good, NEW a \in Agent
    PROVE  Shape(my[a]) /\ Sane(my[a]) /\ LeftIs /\ my[a] \in Entry /\ my[a].job \in Jobs
BY EntryFields DEF Good, Types, AllSane, Sane, Around, LeftIs

LEMMA LookedLike ==
    ASSUME Good, NEW a \in Agent, NEW s, Looked(a, s)
    PROVE  Like(my[a], s, 0) /\ s.job = my[a].job /\ s.here = my[a].here /\ LeftIs'
<1>1. Shape(my[a]) /\ LeftIs
  BY GoodFacts
<1>2. CASE s = (IF Held(my[a]) # None THEN Retired(my[a]) ELSE my[a]) /\ UNCHANGED left
  <2>1. LeftIs'
    BY <1>1, <1>2, Unspent
  <2> QED
    BY <1>1, <1>2, <2>1, RetiredLike, LikeItself
<1>3. CASE s = my[a] /\ Spend("fail")
  <2>1. LeftIs'
    BY <1>1, <1>3, SpendType DEF Event
  <2> QED
    BY <1>1, <1>3, <2>1, LikeItself
<1> QED
  BY <1>2, <1>3 DEF Looked

LEMMA CheckGood ==
    ASSUME Good, NEW a \in Agent, Check(a)
    PROVE  Good'
<1>1. PICK s : Looked(a, s) /\
         LET t == [s EXCEPT !.check = FALSE] IN
            IF Wants(a, s)
            THEN Changes(a, [t EXCEPT !.here = TRUE]) /\ UNCHANGED reqs
            ELSE Changes(a, Dropped(t)) /\ reqs' = Outdated(a)
  BY DEF Check
<1>2. UNCHANGED net /\ Still
  BY DEF Check, Still
<1>3. Like(my[a], s, 0) /\ LeftIs' /\ Shape(s) /\ s \in Entry /\ Shape(my[a])
  BY <1>1, LookedLike, EntryFields, GoodFacts DEF Like
<1> DEFINE t == [s EXCEPT !.check = FALSE]
           u == [t EXCEPT !.here = TRUE]
<1>4. Fit(t) /\ Plain(s, t) /\ Fit(u) /\ Plain(s, u)
  BY <1>3 DEF Fit, Plain, Entry, Shape, Bare
<1>5. \/ Changes(a, u) /\ UNCHANGED reqs
      \/ Changes(a, Dropped(t)) /\ reqs' = Outdated(a)
  BY <1>1
<1> HIDE DEF t, u
<1>6. Like(s, t, 0) /\ Like(s, u, 0)
  BY <1>3, <1>4, PlainLike
<1>7. Like(t, Dropped(t), 0)
  BY <1>6, DroppedLike DEF Like
<1>8. Like(s, Dropped(t), 0 + 0)
  BY <1>3, <1>6, <1>7, LikeTwice
<1>9. Like(my[a], u, 0 + 0) /\ Like(my[a], Dropped(t), 0 + 0)
  BY <1>3, <1>6, <1>8, LikeTwice
<1>10. Like(my[a], u, 0) /\ Like(my[a], Dropped(t), 0)
  BY <1>9
<1> QED
  BY <1>2, <1>3, <1>5, <1>10, StillKeeps

LEMMA VotersFacts ==
    ASSUME Good, NEW a \in Agent
    PROVE  /\ Active(a) \in {1, 2} /\ TransitionVoters(a) \subseteq Agent
           /\ \A s : KeyRoundPeers(a, s) \subseteq Agent
<1>1. voters[1] \subseteq Agent /\ voters[2] \subseteq Agent
  BY DEF Good, Types, Around
<1>2. Active(a) \in {1, 2}
  BY DEF Active
<1>3. TransitionVoters(a) \subseteq Agent /\ Listed(1) \subseteq Agent /\ Listed(2) \subseteq Agent
  BY <1>1, <1>2 DEF TransitionVoters, Listed
<1>4. Listed(Active(a)) \subseteq Agent
  BY <1>2, <1>3
<1> QED
  BY <1>2, <1>3, <1>4 DEF KeyRoundPeers

LEMMA StartKeyRoundGood ==
    ASSUME Good, NEW a \in Agent, StartKeyRound(a)
    PROVE  Good'
<1>1. PICK s : Looked(a, s) /\
         LET peers == KeyRoundPeers(a, s) IN
            IF Wants(a, s)
            THEN /\ Changes(a, [s EXCEPT !.out = TRUE, !.serial = Active(a),
                         !.alone = \A b \in Agent : my[b].leader = b <=> b = a,
                         !.answers = [p \in Agent |-> IF p \in peers THEN "out" ELSE "-"]])
                 /\ reqs' = Outdated(a) \union
                      {[from |-> a, to |-> p, current |-> TRUE, is |-> "out", at |-> 0] : p \in peers}
            ELSE Changes(a, Dropped(s)) /\ reqs' = Outdated(a)
  BY DEF StartKeyRound
<1>2. UNCHANGED net /\ Still /\ my[a].here
  BY DEF StartKeyRound, Still
<1>3. Like(my[a], s, 0) /\ LeftIs' /\ Shape(s) /\ s \in Entry /\ Shape(my[a]) /\ s.here = my[a].here
  BY <1>1, LookedLike, EntryFields, GoodFacts DEF Like
<1>4. CASE Wants(a, s)
  <2> DEFINE peers == KeyRoundPeers(a, s)
             alone == \A b \in Agent : my[b].leader = b <=> b = a
             answers == [p \in Agent |-> IF p \in peers THEN "out" ELSE "-"]
             serial == Active(a)
             t == [s EXCEPT !.out = TRUE, !.serial = serial, !.alone = alone, !.answers = answers]
             asks == {[from |-> a, to |-> p, current |-> TRUE, is |-> "out", at |-> 0] : p \in peers}
  <2>1. Changes(a, t) /\ reqs' = Outdated(a) \union asks
    BY <1>1, <1>4
  <2>2. peers \subseteq Agent /\ serial \in 0..2 /\ alone \in BOOLEAN
    BY VotersFacts
  <2>3. answers \in [Agent -> Replies] /\ \A p \in Agent : answers[p] \notin Key
    BY ConstantsAssumption DEF Replies
  <2> HIDE DEF peers, alone, answers, serial
  <2>4. t \in Entry /\ Bare(s, t) /\ t.here = s.here /\ t.answers = answers
        /\ t.polls = s.polls /\ t.running = s.running /\ t.job = s.job
    BY <1>3, <2>2, <2>3 DEF Entry, Bare
  <2> HIDE DEF t
  <2>5. Over(t) = Over(s) + 0
    BY <1>3, <2>4, EntryFields DEF Over, Busy
  <2>6. AnswersKnown(s, t) /\ PollsKnown(s, t) /\ (t.out => t.here) /\ (Making(t) => Making(s))
    BY <1>2, <1>3, <2>3, <2>4 DEF AnswersKnown, PollsKnown, Making
  <2>7. Like(s, t, 0)
    BY <1>3, <2>4, <2>5, <2>6, EasyLike
  <2>8. Like(my[a], t, 0 + 0)
    BY <1>3, <2>7, LikeTwice
  <2>9. Like(my[a], t, 0)
    BY <2>8
  <2>10. asks \subseteq Request
    <3> SUFFICES ASSUME NEW p \in peers
                 PROVE  [from |-> a, to |-> p, current |-> TRUE, is |-> "out", at |-> 0] \in Request
      OBVIOUS
    <3>1. p \in Agent /\ 0 \in 0..2
      BY <2>2
    <3> QED
      BY <3>1 DEF Request
  <2>11. \A r \in asks : r.is \notin Key
    BY ConstantsAssumption
  <2> HIDE DEF asks
  <2>12. reqs' \subseteq Request /\ NoNews(reqs, reqs')
    <3>1. Outdated(a) \subseteq Request /\ NoNews(reqs, Outdated(a))
      BY OutdatedFacts DEF Good, Types, Letters
    <3> QED
      BY <2>1, <2>10, <2>11, <3>1 DEF NoNews
  <2>13. Around' /\ zone'.made = zone.made /\ zone'.trusts = zone.trusts
    BY <1>2, <1>3 DEF Good, Types, Around, Still, LeftIs
  <2> QED
    BY <1>2, <2>1, <2>9, <2>12, <2>13, LikeKeeps
<1>5. CASE ~Wants(a, s)
  <2>1. Changes(a, Dropped(s)) /\ reqs' = Outdated(a)
    BY <1>1, <1>5
  <2>2. Like(s, Dropped(s), 0)
    BY <1>3, DroppedLike
  <2>3. Like(my[a], Dropped(s), 0 + 0)
    BY <1>3, <2>2, LikeTwice
  <2>4. Like(my[a], Dropped(s), 0)
    BY <2>3
  <2> QED
    BY <1>2, <1>3, <2>1, <2>4, StillKeeps
<1> QED
  BY <1>4, <1>5

-----------------------------------------------------------------------------
(* The requests *)

LEMMA RequestFacts ==
    ASSUME Good, NEW r \in reqs
    PROVE  r \in Request /\ r.from \in Agent /\ r.to \in Agent /\ r.is \in Words \cup Key \cup {"out"}
BY DEF Good, Types, Letters, Request

\* Only the requests change: whatever key an answer names is known.
LEMMA RequestsKeep ==
    ASSUME Good, reqs' \subseteq Request, UNCHANGED <<my, net>>, Still, LeftIs',
           \A r \in reqs' : r.is \in Key => KnownIn(my, reqs, r.is)
    PROVE  Good'
<1>1. Around' /\ zone'.made = zone.made /\ zone'.trusts = zone.trusts
  BY DEF Good, Types, Around, Still, LeftIs
<1>2. AllSane(my') /\ Letters'
  BY DEF Good, Types, Letters, AllSane
<1>3. \A b \in Agent : Tame(my[b], my'[b])
  BY DEF Tame
<1>4. ASSUME NEW k \in Key, KnownIn(my', reqs', k)
      PROVE  KnownIn(my, reqs, k)
  BY <1>4 DEF KnownIn
<1>5. Soft(my, my', reqs, reqs', net, net', zone, zone')
  BY <1>1, <1>3, <1>4 DEF Soft
<1>6. zone.made \subseteq Key /\ AllSane(my) /\ KeyInv(my, reqs, net, zone)
  BY DEF Good, Types, Around, Zones
<1>7. KeyInv(my', reqs', net', zone')
  BY <1>5, <1>6, SoftKeeps
<1> QED
  BY <1>1, <1>2, <1>7 DEF Good, Types

LEMMA AnswerGood ==
    ASSUME Good, NEW r \in reqs, Answer(r)
    PROVE  Good'
<1> DEFINE h == my[r.to]
           at == Active(r.to)
           word == IF r.from \notin voters[Active(r.to)] THEN "refused"
                   ELSE IF Several(h) THEN "several"
                   ELSE IF Held(h) = None THEN "no key" ELSE Held(h)
           q == [r EXCEPT !.is = word, !.at = at]
<1>1. reqs' = (reqs \ {r}) \union {q} /\ UNCHANGED <<my, net>> /\ Still /\ UNCHANGED left
  BY DEF Answer, Still
<1>2. r \in Request /\ r.to \in Agent
  BY RequestFacts
<1>3. Shape(h) /\ LeftIs /\ at \in 0..2
  BY <1>2, GoodFacts, VotersFacts
<1>4. word \in {"refused", "several", "no key"} \/ (word \in Key /\ word \in ToSet(h.rows))
  BY <1>3, HeldFacts
<1>5. word \in Words \cup Key /\ (word \in Key => Knows(h, word))
  BY <1>4, ConstantsAssumption DEF Words, Knows
<1>6. word \in Key => KnownIn(my, reqs, word)
  BY <1>2, <1>5 DEF KnownIn
<1> HIDE DEF word, at, h
<1>7. q \in Request /\ q.is = word
  BY <1>2, <1>3, <1>5 DEF Request
<1> HIDE DEF q
<1>8. reqs' \subseteq Request
  BY <1>1, <1>7 DEF Good, Types, Letters
<1>9. \A p \in reqs' : p.is \in Key => KnownIn(my, reqs, p.is)
  BY <1>1, <1>6, <1>7 DEF KnownIn
<1>10. LeftIs'
  BY <1>1, <1>3, Unspent
<1> QED
  BY <1>1, <1>8, <1>9, <1>10, RequestsKeep

\* An answer, or the word that there is none, is recorded.
LEMMA RecordKeeps ==
    ASSUME Good, NEW r \in reqs, NEW word \in Words \cup Key, word \in Key => r.is = word,
           reqs' = reqs \ {r}, UNCHANGED net, Still, LeftIs',
           my' = [my EXCEPT ![r.from].answers[r.to] = word]
    PROVE  Good'
<1> DEFINE a == r.from
           s == my[a]
           answers == [s.answers EXCEPT ![r.to] = word]
           t == [s EXCEPT !.answers = answers]
<1>1. a \in Agent /\ r.to \in Agent
  BY RequestFacts
<1>2. Shape(s) /\ Sane(s) /\ s \in Entry
  BY <1>1, GoodFacts
<1>3. Changes(a, t)
  BY DEF Changes
<1>4. s.answers \in [Agent -> Replies]
  BY <1>2 DEF Entry
<1>5. answers \in [Agent -> Replies] /\ \A p \in Agent : answers[p] \in {s.answers[p], word}
  BY <1>1, <1>4 DEF Replies
<1> HIDE DEF answers, s, a
<1>6. t \in Entry /\ Bare(s, t) /\ t.out = s.out /\ t.here = s.here /\ t.answers = answers
      /\ t.polls = s.polls /\ t.running = s.running /\ t.job = s.job
  BY <1>2, <1>5 DEF Entry, Bare
<1> HIDE DEF t
<1>7. Shape(t) /\ Sane(t)
  BY <1>2, <1>6 DEF Shape, Bare, Sane, Over, Busy
<1>8. Tame(s, t)
  BY <1>6 DEF Tame, Bare, Making
<1>9. ASSUME NEW k \in Key, Knows(t, k)
      PROVE  KnownIn(my, reqs, k)
  <2>1. CASE Knows(s, k)
    BY <1>1, <2>1 DEF KnownIn, s
  <2>2. CASE k = word
    BY <2>2 DEF KnownIn
  <2>3. Knows(s, k) \/ k = word
    BY <1>5, <1>6, <1>9 DEF Knows, Bare
  <2> QED
    BY <2>1, <2>2, <2>3
<1>10. reqs' \subseteq Request /\ NoNews(reqs, reqs')
  BY DEF NoNews, Good, Types, Letters
<1>11. Around' /\ zone'.made = zone.made /\ zone'.trusts = zone.trusts
  BY DEF Good, Types, Around, Still, LeftIs
<1> QED
  BY <1>1, <1>3, <1>7, <1>8, <1>9, <1>10, <1>11, StepKeeps DEF s

LEMMA DroppedRequest ==
    ASSUME Good, NEW r \in reqs, reqs' = reqs \ {r}, UNCHANGED <<my, net>>, Still, LeftIs'
    PROVE  Good'
<1>1. reqs' \subseteq Request /\ \A q \in reqs' : q.is \in Key => KnownIn(my, reqs, q.is)
  BY DEF Good, Types, Letters, KnownIn
<1> QED
  BY <1>1, RequestsKeep

LEMMA KeyRecordGood ==
    ASSUME Good, NEW r \in reqs, KeyRecord(r)
    PROVE  Good'
<1> DEFINE word == AtSerial(r, my[r.from].serial)
<1>1. r.is # "out" /\ reqs' = reqs \ {r} /\ UNCHANGED net /\ Still /\ UNCHANGED left
  BY DEF KeyRecord, Still
<1>2. word \in Words \cup Key /\ (word \in Key => r.is = word)
  BY <1>1, RequestFacts, ConstantsAssumption DEF AtSerial, Words
<1>3. LeftIs'
  <2>1. LeftIs
    BY DEF Good, Types, Around, LeftIs
  <2> QED
    BY <1>1, <2>1, Unspent
<1>4. my' = (IF r.current THEN [my EXCEPT ![r.from].answers[r.to] = word] ELSE my)
  BY DEF KeyRecord
<1> HIDE DEF word
<1>5. CASE r.current
  BY <1>1, <1>2, <1>3, <1>4, <1>5, RecordKeeps
<1>6. CASE ~r.current
  BY <1>1, <1>3, <1>4, <1>6, DroppedRequest
<1> QED
  BY <1>5, <1>6

LEMMA SilentGood ==
    ASSUME Good, NEW r \in reqs, Silent(r)
    PROVE  Good'
<1>1. reqs' = reqs \ {r} /\ UNCHANGED net /\ Still
  BY DEF Silent, Still
<1>2. LeftIs'
  <2>1. LeftIs
    BY DEF Good, Types, Around, LeftIs
  <2> QED
    BY <2>1, SpendType DEF Silent, Event
<1>3. my' = (IF r.current THEN [my EXCEPT ![r.from].answers[r.to] = "silent"] ELSE my)
  BY DEF Silent
<1>4. "silent" \in Words \cup Key /\ "silent" \notin Key
  BY ConstantsAssumption DEF Words
<1>5. CASE r.current
  BY <1>1, <1>2, <1>3, <1>4, <1>5, RecordKeeps
<1>6. CASE ~r.current
  BY <1>1, <1>2, <1>3, <1>6, DroppedRequest
<1> QED
  BY <1>5, <1>6

-----------------------------------------------------------------------------
(* The rounds' decisions, the jobs and the polls *)

\* What a lemma about one entry is cited with.
LEMMA OwnEntry ==
    ASSUME Good, NEW a \in Agent
    PROVE  /\ Shape(my[a]) /\ LeftIs /\ my[a] \in Entry
           /\ UNCHANGED left => LeftIs'
BY GoodFacts, Unspent

LEMMA StartOverGood ==
    ASSUME Good, NEW a \in Agent, StartOver(a)
    PROVE  Good'
<1>1. Changes(a, Restarted(my[a])) /\ reqs' = Outdated(a) /\ UNCHANGED net /\ Still /\ LeftIs'
  BY OwnEntry DEF StartOver, Still
<1>2. Like(my[a], Restarted(my[a]), 0)
  BY OwnEntry, RestartedLike
<1> QED
  BY <1>1, <1>2, StillKeeps

\* A poll is booked beside those that run.
LEMMA BookedLike ==
    ASSUME NEW s, Shape(s), NEW key \in ToSet(s.rows)
    PROVE  Like(s, Polling([s EXCEPT !.running = @ + 1], key), 0)
<1> DEFINE t == [s EXCEPT !.running = s.running + 1]
<1>1. s \in Entry /\ s.running \in Int /\ s.running + 1 \in Int /\ Len(s.polls) \in Int /\ Busy(s) \in Int
  BY EntryFields, OverType
<1>2. t \in Entry /\ Bare(s, t) /\ t.out = s.out /\ t.here = s.here /\ t.answers = s.answers
      /\ t.polls = s.polls /\ t.running = s.running + 1 /\ t.job = s.job
  BY <1>1 DEF Entry, Bare
<1> HIDE DEF t
<1>3. Over(t) = Over(s) + 1
  <2>1. \A x, y, z, w \in Int : w = x + 1 => w - y - z = x - y - z + 1
    OBVIOUS
  <2>2. /\ Over(t) = t.running - Len(t.polls) - Busy(t) /\ Over(s) = s.running - Len(s.polls) - Busy(s)
        /\ Busy(t) = Busy(s)
    BY <1>2 DEF Over, Busy
  <2> QED
    BY <1>1, <1>2, <2>1, <2>2
<1>4. AnswersKnown(s, t) /\ PollsKnown(s, t) /\ (t.out => t.here) /\ (Making(t) => Making(s))
  BY <1>2 DEF AnswersKnown, PollsKnown, Shape, Making
<1>5. Like(s, t, 1)
  BY <1>2, <1>3, <1>4, EasyLike
<1>6. Like(t, Polling(t, key), -1)
  BY <1>2, <1>5, PollingLike DEF Like, Bare
<1>7. Like(s, Polling(t, key), 1 + (-1))
  BY <1>5, <1>6, LikeTwice
<1>8. Like(s, Polling(t, key), 0)
  BY <1>7
<1> QED
  BY <1>8 DEF t

LEMMA RoundEndedAfter ==
    ASSUME NEW s, NEW p, NEW done, Shape(s), Like(s, p, 0)
    PROVE  Like(s, RoundEnded(p, done), 0)
<1> DEFINE t == RoundEnded(p, done)
<1>1. Like(p, t, 0)
  BY RoundEndedLike DEF Like
<1> HIDE DEF t
<1>2. Like(s, t, 0 + 0)
  BY <1>1, LikeTwice
<1>3. Like(s, t, 0)
  BY <1>2
<1> QED
  BY <1>3 DEF t

LEMMA DecideHeldGood ==
    ASSUME Good, NEW a \in Agent, DecideHeld(a)
    PROVE  Good'
<1> DEFINE s == my[a]
           job == [NoJob EXCEPT !.at = "publish", !.kind = "offer"]
           p == Polling([s EXCEPT !.running = @ + 1], Held(s))
<1>1. UNCHANGED <<reqs, net>> /\ Still /\ LeftIs' /\ Shape(s)
  BY OwnEntry DEF DecideHeld, Still
<1>2. s.job.at = "idle" /\ (Held(s) # None \/ Several(s))
  BY DEF DecideHeld, Complete, Idle
<1>3. \/ \E done \in BOOLEAN : Changes(a, RoundEnded(s, done))
      \/ Changes(a, Begun(s, job))
      \/ Held(s) # None /\ Changes(a, RoundEnded(p, FALSE))
  BY <1>2 DEF DecideHeld
<1>4. \A done \in BOOLEAN : Like(s, RoundEnded(s, done), 0)
  BY <1>1, RoundEndedLike
<1>5. Like(s, Begun(s, job), 0)
  <2>1. job \in Jobs /\ job.at = "publish" /\ job.told = FALSE
    BY DEF NoJob, Jobs, Maybe
  <2> HIDE DEF job, s
  <2> QED
    BY <1>1, <1>2, <2>1, BegunLike
<1>6. ASSUME Held(s) # None
      PROVE  Like(s, RoundEnded(p, FALSE), 0)
  <2>1. Held(s) \in ToSet(s.rows)
    BY <1>1, <1>6, HeldFacts
  <2>2. Like(s, p, 0)
    BY <1>1, <2>1, BookedLike
  <2> QED
    BY <1>1, <2>2, RoundEndedAfter
<1> HIDE DEF job, p
<1>7. \E t : Changes(a, t) /\ Like(s, t, 0)
  BY <1>3, <1>4, <1>5, <1>6
<1> QED
  BY <1>1, <1>7, StillKeeps

LEMMA PublishHeldGood ==
    ASSUME Good, NEW a \in Agent, PublishHeld(a)
    PROVE  Good'
<1>1. Changes(a, Failed(my[a], TRUE)) /\ UNCHANGED <<reqs, net>> /\ Still /\ my[a].job.at = "publish"
  BY DEF PublishHeld, Still
<1>2. LeftIs'
  BY OwnEntry, SpendType DEF PublishHeld, Event
<1>3. Like(my[a], Failed(my[a], TRUE), 0)
  BY <1>1, OwnEntry, FailedLike
<1> QED
  BY <1>1, <1>2, <1>3, StillKeeps

LEMMA LeaderKeySetupGood ==
    ASSUME Good, NEW a \in Agent, LeaderKeySetup(a)
    PROVE  Good'
<1> DEFINE r == my[a]
           s == [r EXCEPT !.wake = FALSE]
           job == [NoJob EXCEPT !.at = "publish", !.kind = "setup"]
           c == [s EXCEPT !.check = TRUE]
           u == Begun(s, job)
           j == [u.job EXCEPT !.round = FALSE]
           t == [u EXCEPT !.job = j]
<1>1. UNCHANGED <<reqs, net>> /\ Still /\ LeftIs' /\ Shape(r) /\ r \in Entry /\ r.job.at = "idle"
  BY OwnEntry DEF LeaderKeySetup, Still, Idle
<1>2. Changes(a, s) \/ Changes(a, c) \/ Changes(a, t)
  BY DEF LeaderKeySetup
<1> HIDE DEF r
<1>3. Fit(s) /\ Plain(r, s) /\ s.job = r.job /\ Fit(c) /\ Plain(r, c)
  BY <1>1 DEF Fit, Plain, Entry, Shape, Bare
<1>4. Like(r, s, 0) /\ Like(r, c, 0)
  BY <1>1, <1>3, PlainLike
<1>5. job \in Jobs /\ job.at = "publish" /\ job.told = FALSE
  BY DEF NoJob, Jobs, Maybe
<1> HIDE DEF s, job, c
<1>6. Like(s, u, 0)
  BY <1>1, <1>3, <1>4, <1>5, BegunLike DEF Like
<1> HIDE DEF u
<1>7. Shape(u) /\ u \in Entry /\ u.job \in Jobs
  BY <1>6, EntryFields DEF Like
<1>8. j \in Jobs /\ j.at = u.job.at /\ j.told = u.job.told
  BY <1>7 DEF Jobs
<1> HIDE DEF j
<1>9. Fit(t) /\ Plain(u, t)
  BY <1>7, <1>8 DEF Fit, Plain, Entry, Shape, Bare
<1> HIDE DEF t
<1>10. Like(u, t, 0)
  BY <1>7, <1>9, PlainLike
<1>11. Like(s, t, 0 + 0)
  BY <1>4, <1>6, <1>10, LikeTwice DEF Like
<1>12. Like(s, t, 0)
  BY <1>11
<1>13. Like(r, t, 0 + 0)
  BY <1>1, <1>4, <1>12, LikeTwice
<1>14. Like(r, t, 0)
  BY <1>13
<1> QED
  BY <1>1, <1>2, <1>4, <1>14, StillKeeps DEF r

LEMMA PollStartsGood ==
    ASSUME Good, NEW a \in Agent, NEW i \in DOMAIN my[a].polls, PollStarts(a, i)
    PROVE  Good'
<1> DEFINE s == my[a]
           q == [s.polls[i] EXCEPT !.runs = TRUE]
           o == [s.polls EXCEPT ![i] = q]
           t == [s EXCEPT !.polls = o]
<1>1. UNCHANGED <<reqs, net>> /\ Still /\ LeftIs' /\ Shape(s) /\ s \in Entry
  BY OwnEntry DEF PollStarts, Still
<1>2. (\E f \in BOOLEAN : Changes(a, PollOver(s, i, f))) \/ Changes(a, t)
  BY DEF PollStarts
<1>3. \A f \in BOOLEAN : Like(s, PollOver(s, i, f), 0)
  BY <1>1, PollOverLike
<1>4. s.polls \in Seq(PollRec) /\ DOMAIN s.polls = 1..Len(s.polls) /\ Len(s.polls) \in Nat
      /\ s.polls \in [1..Len(s.polls) -> PollRec] /\ i \in 1..Len(s.polls)
  BY <1>1, EntryFields, LenProperties
<1> HIDE DEF s
<1>5. q \in PollRec /\ q.key = s.polls[i].key
  BY <1>4 DEF PollRec
<1> HIDE DEF q
<1>6. /\ o \in Seq(PollRec) /\ Len(o) = Len(s.polls)
      /\ \A n \in 1..Len(s.polls) : o[n] = IF n = i THEN q ELSE s.polls[n]
  BY <1>4, <1>5, ExceptSeq
<1>7. DOMAIN o = 1..Len(s.polls)
  BY <1>6, LenProperties
<1> HIDE DEF o
<1>8. t \in Entry /\ Bare(s, t) /\ t.out = s.out /\ t.here = s.here /\ t.answers = s.answers
      /\ t.polls = o /\ t.running = s.running /\ t.job = s.job
  BY <1>1, <1>6 DEF Entry, Bare
<1> HIDE DEF t
<1>9. Over(t) = Over(s) + 0
  <2>1. Over(t) = Over(s)
    BY <1>6, <1>8 DEF Over, Busy
  <2> QED
    BY <1>1, <2>1, OverType
<1>10. PollsKnown(s, t)
  BY <1>4, <1>5, <1>6, <1>7, <1>8 DEF PollsKnown
<1>11. AnswersKnown(s, t) /\ (t.out => t.here) /\ (Making(t) => Making(s))
  BY <1>1, <1>8 DEF AnswersKnown, Shape, Making
<1>12. Like(s, t, 0)
  BY <1>1, <1>8, <1>9, <1>10, <1>11, EasyLike
<1>13. \E u : Changes(a, u) /\ Like(s, u, 0)
  BY <1>2, <1>3, <1>12
<1> QED
  BY <1>1, <1>13, StillKeeps DEF s

-----------------------------------------------------------------------------
(* The election, the transition, a restart *)

LEMMA RenewGood ==
    ASSUME Good, NEW a \in Agent, Renew(a)
    PROVE  Good'
<1> DEFINE t == [my[a] EXCEPT !.wake = TRUE]
<1>1. Changes(a, t) /\ UNCHANGED <<reqs, net>> /\ Still
  BY DEF Renew, Still
<1>2. LeftIs' /\ Shape(my[a]) /\ my[a] \in Entry
  BY OwnEntry, SpendType DEF Renew, Event
<1>3. Fit(t) /\ Plain(my[a], t)
  BY <1>2 DEF Fit, Plain, Entry, Shape, Bare
<1> HIDE DEF t
<1>4. Like(my[a], t, 0)
  BY <1>2, <1>3, PlainLike
<1> QED
  BY <1>1, <1>2, <1>4, StillKeeps

LEMMA BecomeCaughtUpGood ==
    ASSUME Good, NEW a \in Agent, BecomeCaughtUp(a)
    PROVE  Good'
<1> DEFINE t == [my[a] EXCEPT !.caughtUp = TRUE, !.check = TRUE]
<1>1. Changes(a, t) /\ UNCHANGED <<reqs, net>> /\ Still /\ LeftIs' /\ Shape(my[a]) /\ my[a] \in Entry
  BY OwnEntry DEF BecomeCaughtUp, Still
<1>2. Fit(t) /\ Plain(my[a], t)
  BY <1>1 DEF Fit, Plain, Entry, Shape, Bare
<1> HIDE DEF t
<1>3. Like(my[a], t, 0)
  BY <1>1, <1>2, PlainLike
<1> QED
  BY <1>1, <1>3, StillKeeps

\* A lead lost stops the polls' runs.
LEMMA StoppedLike ==
    ASSUME NEW s, Shape(s), NEW l \in Someone
    PROVE  Like(s, [s EXCEPT !.leader = l, !.hold = 0,
                             !.polls = [i \in DOMAIN @ |-> [@[i] EXCEPT !.runs = FALSE]]], 0)
<1> DEFINE o == [i \in DOMAIN s.polls |-> [s.polls[i] EXCEPT !.runs = FALSE]]
           t == [s EXCEPT !.leader = l, !.hold = 0, !.polls = o]
<1>1. s \in Entry /\ s.polls \in Seq(PollRec) /\ DOMAIN s.polls = 1..Len(s.polls) /\ Len(s.polls) \in Nat
      /\ s.polls \in [1..Len(s.polls) -> PollRec]
  BY EntryFields, LenProperties
<1>2. \A i \in 1..Len(s.polls) : [s.polls[i] EXCEPT !.runs = FALSE] \in PollRec
                                 /\ [s.polls[i] EXCEPT !.runs = FALSE].key = s.polls[i].key
  <2> SUFFICES ASSUME NEW i \in 1..Len(s.polls)
               PROVE  [s.polls[i] EXCEPT !.runs = FALSE] \in PollRec
                      /\ [s.polls[i] EXCEPT !.runs = FALSE].key = s.polls[i].key
    OBVIOUS
  <2>1. s.polls[i] \in PollRec
    BY <1>1
  <2> QED
    BY <2>1 DEF PollRec
<1>3. o \in [1..Len(s.polls) -> PollRec] /\ \A i \in 1..Len(s.polls) : o[i].key = s.polls[i].key
  BY <1>1, <1>2
<1>4. t = [s EXCEPT !.leader = l, !.hold = 0,
                    !.polls = [i \in DOMAIN @ |-> [@[i] EXCEPT !.runs = FALSE]]]
  OBVIOUS
<1> HIDE DEF o
<1>5. o \in Seq(PollRec) /\ Len(o) = Len(s.polls) /\ DOMAIN o = 1..Len(s.polls)
  BY <1>1, <1>3
<1>6. t \in Entry /\ Bare(s, t) /\ t.out = s.out /\ t.here = s.here /\ t.answers = s.answers
      /\ t.polls = o /\ t.running = s.running /\ t.job = s.job
  BY <1>1, <1>5 DEF Entry, Bare
<1> HIDE DEF t
<1>7. Over(t) = Over(s) + 0
  <2>1. Over(t) = Over(s)
    BY <1>5, <1>6 DEF Over, Busy
  <2> QED
    BY <2>1, OverType
<1>8. PollsKnown(s, t)
  BY <1>1, <1>3, <1>5, <1>6 DEF PollsKnown
<1>9. AnswersKnown(s, t) /\ (t.out => t.here) /\ (Making(t) => Making(s))
  BY <1>6 DEF AnswersKnown, Shape, Making
<1> QED
  BY <1>4, <1>6, <1>7, <1>8, <1>9, EasyLike

LEMMA LearnGood ==
    ASSUME Good, NEW b \in Agent, Learn(b)
    PROVE  Good'
<1> DEFINE l == zone.won
           s == my[b]
           t == [s EXCEPT !.leader = l, !.hold = 0,
                          !.polls = [i \in DOMAIN @ |-> [@[i] EXCEPT !.runs = FALSE]]]
<1>1. Changes(b, t) /\ UNCHANGED <<reqs, net>> /\ Still /\ LeftIs' /\ Shape(s)
  BY OwnEntry DEF Learn, Still
<1>2. l \in Someone
  BY DEF Good, Types, Around, Zones
<1>3. Like(s, t, 0)
  <2> HIDE DEF l, s
  <2> QED
    BY <1>1, <1>2, StoppedLike
<1> HIDE DEF t
<1> QED
  BY <1>1, <1>3, StillKeeps

LEMMA PhaseKeeps ==
    ASSUME Good, NEW a \in Agent, NEW t, Changes(a, t), Like(my[a], t, 0),
           UNCHANGED reqs \/ reqs' = Outdated(a), UNCHANGED <<net, voters>>, LeftIs',
           phase' \in [Agent -> 0..3],
           zone' \in Zones, zone'.made = zone.made, zone'.trusts = zone.trusts
    PROVE  Good'
<1>1. reqs \subseteq Request
  BY DEF Good, Types, Letters
<1>2. reqs' \subseteq Request /\ NoNews(reqs, reqs')
  <2>1. CASE UNCHANGED reqs
    BY <1>1, <2>1 DEF NoNews
  <2>2. CASE reqs' = Outdated(a)
    BY <1>1, <2>2, OutdatedFacts
  <2> QED
    BY <2>1, <2>2
<1>3. Around'
  BY DEF Good, Types, Around, LeftIs
<1> QED
  BY <1>2, <1>3, LikeKeeps

LEMMA TransitionGood ==
    ASSUME Good, NEW a \in Agent, Transition(a)
    PROVE  Good'
<1>1. Shape(my[a]) /\ my[a] \in Entry /\ zone \in Zones /\ phase \in [Agent -> 0..3]
  BY OwnEntry DEF Good, Types, Around
<1>2. CASE Arrive(a)
  <2>1. LeftIs'
    BY <1>2, OwnEntry, SpendType DEF Arrive, Event
  <2>2. Like(my[a], Restarted(my[a]), 0)
    BY <1>1, RestartedLike
  <2>3. Changes(a, Restarted(my[a])) /\ reqs' = Outdated(a) /\ UNCHANGED <<net, zone, voters>>
        /\ phase' \in [Agent -> 0..3]
    BY <1>1, <1>2 DEF Arrive
  <2> QED
    BY <1>1, <2>1, <2>2, <2>3, PhaseKeeps
<1>3. CASE Activate(a)
  <2>1. LeftIs' /\ UNCHANGED <<reqs, net, voters>> /\ phase' \in [Agent -> 0..3]
    BY <1>1, <1>3, OwnEntry DEF Activate
  <2>2. CASE a \notin voters[2] /\ Leads(a)
    <3> DEFINE s == my[a]
               t == [s EXCEPT !.leader = None, !.hold = 0,
                              !.polls = [i \in DOMAIN @ |-> [@[i] EXCEPT !.runs = FALSE]]]
    <3>1. Changes(a, t) /\ zone' = [zone EXCEPT !.won = None]
      BY <1>3, <2>2 DEF Activate
    <3>2. zone' \in Zones /\ zone'.made = zone.made /\ zone'.trusts = zone.trusts
      BY <1>1, <3>1 DEF Zones, Someone
    <3>3. Like(s, t, 0)
      <4> HIDE DEF s
      <4>1. None \in Someone
        BY DEF Someone
      <4> QED
        BY <1>1, <4>1, StoppedLike DEF s
    <3> HIDE DEF t
    <3> QED
      BY <2>1, <3>1, <3>2, <3>3, PhaseKeeps
  <2>3. CASE ~(a \notin voters[2] /\ Leads(a))
    <3>1. UNCHANGED <<my, zone>>
      BY <1>3, <2>3 DEF Activate
    <3>2. Changes(a, my[a])
      BY <3>1 DEF Changes, Good, Types, AllSane
    <3> QED
      BY <1>1, <2>1, <3>1, <3>2, LikeItself, PhaseKeeps
  <2> QED
    BY <2>2, <2>3
<1>4. CASE TakeUp(a)
  <2> DEFINE w == [my[a] EXCEPT !.wake = TRUE]
  <2>1. LeftIs' /\ UNCHANGED <<reqs, net, zone, voters>> /\ phase' \in [Agent -> 0..3]
        /\ (Changes(a, w) \/ Changes(a, my[a]))
    BY <1>1, <1>4, OwnEntry DEF TakeUp
  <2>2. Fit(w) /\ Plain(my[a], w)
    BY <1>1 DEF Fit, Plain, Entry, Shape, Bare
  <2> HIDE DEF w
  <2>3. Like(my[a], w, 0) /\ Like(my[a], my[a], 0)
    BY <1>1, <2>2, PlainLike, LikeItself
  <2>4. CASE Changes(a, w)
    BY <1>1, <2>1, <2>3, <2>4, PhaseKeeps
  <2>5. CASE Changes(a, my[a])
    BY <1>1, <2>1, <2>3, <2>5, PhaseKeeps
  <2> QED
    BY <2>1, <2>4, <2>5
<1> QED
  BY <1>2, <1>3, <1>4 DEF Transition

\* The zone's own state changes, but not what is made and trusted.
LEMMA ZoneKeeps ==
    ASSUME Good, UNCHANGED <<my, phase, reqs, net, voters, left>>,
           zone' \in Zones, zone'.made = zone.made, zone'.trusts = zone.trusts
    PROVE  Good'
<1>1. Around' /\ AllSane(my') /\ Letters'
  BY DEF Good, Types, Around, AllSane, Letters
<1>2. Soft(my, my', reqs, reqs', net, net', zone, zone')
  BY DEF Soft, Tame, KnownIn
<1>3. zone.made \subseteq Key /\ AllSane(my) /\ KeyInv(my, reqs, net, zone)
  BY DEF Good, Types, Around, Zones
<1>4. KeyInv(my', reqs', net', zone')
  BY <1>2, <1>3, SoftKeeps
<1> QED
  BY <1>1, <1>4 DEF Good, Types

LEMMA ZoneStepsGood ==
    ASSUME Good, ParentRead \/ \E a \in Agent : RolloverEnds(a)
    PROVE  Good'
<1>1. zone \in Zones
  BY DEF Good, Types, Around
<1>2. UNCHANGED <<my, phase, reqs, net, voters, left>>
  BY DEF ParentRead, RolloverEnds
<1>3. zone' \in Zones /\ zone'.made = zone.made /\ zone'.trusts = zone.trusts
  BY <1>1 DEF ParentRead, RolloverEnds, Zones
<1> QED
  BY <1>2, <1>3, ZoneKeeps

LEMMA ElectGood ==
    ASSUME Good, NEW a \in Agent, Elect(a)
    PROVE  Good'
<1> DEFINE n == zone.terms + 1
<1>1. /\ my' = [b \in Agent |->
                  IF b = a THEN [my[a] EXCEPT !.leader = a, !.hold = zone.terms + 1, !.wake = TRUE]
                  ELSE [my[b] EXCEPT !.alone = FALSE]]
      /\ zone' = [zone EXCEPT !.won = a, !.terms = @ + 1] /\ Spend("elect")
      /\ UNCHANGED <<phase, reqs, net, voters>>
  BY DEF Elect
<1>2. zone \in Zones /\ n \in Nat
  BY DEF Good, Types, Around, Zones
<1>3. zone' \in Zones /\ zone'.made = zone.made /\ zone'.trusts = zone.trusts
  BY <1>1, <1>2 DEF Zones, Someone
<1>4. LeftIs'
  BY <1>1, OwnEntry, SpendType DEF Event
<1>5. ASSUME NEW b \in Agent
      PROVE  Like(my[b], my'[b], 0)
  <2>1. Shape(my[b]) /\ my[b] \in Entry
    BY OwnEntry
  <2>2. CASE b = a
    <3>1. my'[b] = [my[b] EXCEPT !.leader = a, !.hold = n, !.wake = TRUE]
      BY <1>1, <2>2
    <3> HIDE DEF n
    <3> DEFINE s == my[b]
               t == [s EXCEPT !.leader = a, !.hold = n, !.wake = TRUE]
    <3>2. a \in Someone
      BY DEF Someone
    <3>3. my'[b] = t /\ s \in Entry /\ (s.out => s.here)
      BY <2>1, <3>1 DEF Shape
    <3> HIDE DEF s
    <3>4. t \in Entry
      BY <1>2, <3>2, <3>3 DEF Entry
    <3>5. Plain(s, t) /\ t.out = s.out /\ t.here = s.here
      BY <3>3 DEF Plain, Bare, Entry
    <3> HIDE DEF t
    <3>6. Fit(t)
      BY <3>3, <3>4, <3>5 DEF Fit
    <3> QED
      BY <2>1, <3>3, <3>5, <3>6, PlainLike DEF s
  <2>3. CASE b # a
    <3>1. my'[b] = [my[b] EXCEPT !.alone = FALSE]
      BY <1>1, <2>3
    <3>2. Fit(my'[b]) /\ Plain(my[b], my'[b])
      BY <2>1, <3>1 DEF Fit, Plain, Entry, Shape, Bare
    <3> QED
      BY <2>1, <3>2, PlainLike
  <2> QED
    BY <2>2, <2>3
<1>6. AllSane(my')
  <2>1. \A b \in Agent : Shape(my'[b]) /\ Over(my'[b]) = Over(my[b]) + 0 /\ Over(my[b]) = 0
    BY <1>5 DEF Like, Good, Types, AllSane, Sane
  <2>2. \A b \in Agent : Shape(my'[b]) /\ Over(my'[b]) = 0
    BY <2>1
  <2>3. \A b \in Agent : my'[b] \in Entry
    BY <2>2 DEF Shape
  <2>4. my' \in [Agent -> Entry]
    BY <1>1, <2>3
  <2> QED
    BY <2>2, <2>4 DEF AllSane, Sane
<1>7. \A k \in Key : KnownIn(my', reqs', k) => KnownIn(my, reqs, k)
  BY <1>1, <1>5 DEF KnownIn, Like, Learns
<1>8. Soft(my, my', reqs, reqs', net, net', zone, zone')
  BY <1>1, <1>3, <1>5, <1>7 DEF Soft, Like
<1>9. zone.made \subseteq Key /\ AllSane(my) /\ KeyInv(my, reqs, net, zone)
  BY DEF Good, Types, Around, Zones
<1>10. KeyInv(my', reqs', net', zone')
  BY <1>8, <1>9, SoftKeeps
<1>11. Around' /\ Letters'
  BY <1>1, <1>3, <1>4 DEF Good, Types, Around, Letters, LeftIs
<1> QED
  BY <1>6, <1>10, <1>11 DEF Good, Types

\* What an entry keeps over a restart: its stores.
LEMMA CrashGood ==
    ASSUME Good, NEW a \in Agent, Crash(a)
    PROVE  Good'
<1> DEFINE s == my[a]
           t == [Fresh EXCEPT !.rows = my[a].rows, !.apex = my[a].apex, !.from = my[a].from,
                              !.trusted = my[a].trusted, !.caughtUp = FALSE]
<1>1. Changes(a, t) /\ UNCHANGED <<phase, voters>> /\ zone' = [zone EXCEPT !.won = IF @ = a THEN None ELSE @]
  BY DEF Crash
<1>2. reqs' = {IF r.to = a /\ r.is = "out" THEN [r EXCEPT !.is = "silent"] ELSE r : r \in {q \in reqs : q.from # a}}
      /\ net' = [b \in Agent |-> [net[b] EXCEPT ![a] = None]]
  BY DEF Crash
<1>3. LeftIs' /\ Shape(s) /\ s \in Entry
  BY OwnEntry, SpendType DEF Crash, Event
<1>4. /\ s.rows \in Seq(Key) /\ s.apex \subseteq Key /\ s.from \in [Agent -> Maybe] /\ s.trusted \subseteq Key
      /\ IsFiniteSet(s.apex) /\ IsInjective(s.rows)
  BY <1>3 DEF Entry, Shape
<1>5. /\ t.rows = s.rows /\ t.apex = s.apex /\ t.from = s.from /\ t.trusted = s.trusted
      /\ t.out = FALSE /\ t.running = 0 /\ t.polls = <<>> /\ t.job = NoJob /\ t.answers = NoAnswers
  BY DEF Fresh
<1>6. t \in Entry
  <2>1. NoJob \in Jobs /\ NoAnswers \in [Agent -> Replies] /\ [key |-> None, hold |-> 0] \in [key : Maybe, hold : Nat]
        /\ None \in Someone
    BY DEF NoJob, Jobs, Maybe, NoAnswers, Replies, Someone
  <2>2. <<>> \in Seq(PollRec) /\ 0 \in 0..2 /\ 0 \in Int
    OBVIOUS
  <2>3. Fresh \in Entry
    BY <2>1, <2>2, FS_EmptySet DEF Fresh, Entry, Maybe
  <2> HIDE DEF s
  <2>4. t = [Fresh EXCEPT !.rows = s.rows, !.apex = s.apex, !.from = s.from,
                          !.trusted = s.trusted, !.caughtUp = FALSE]
    BY DEF s
  <2> HIDE DEF t
  <2> QED
    BY <1>4, <2>3, <2>4 DEF Entry
<1> HIDE DEF t
<1>7. Over(t) = 0
  <2>1. Len(<<>>) = 0 /\ NoJob.at = "idle" /\ Busy(t) = 0
    BY <1>5 DEF NoJob, Busy
  <2>2. Over(t) = t.running - Len(t.polls) - Busy(t)
    BY DEF Over
  <2>3. Len(t.polls) = 0
    BY <1>5, <2>1
  <2>4. t.running = 0 /\ Busy(t) = 0
    BY <1>5, <2>1
  <2>5. \A x, y, z \in Int : x = 0 /\ y = 0 /\ z = 0 => x - y - z = 0
    OBVIOUS
  <2> QED
    BY <2>2, <2>3, <2>4, <2>5
<1>8. Sane(t) /\ Tame(s, t)
  <2>1. ~Making(t)
    BY <1>5 DEF Making, NoJob
  <2> QED
    BY <1>4, <1>5, <1>6, <1>7, <2>1 DEF Sane, Shape, Tame
<1>9. ASSUME NEW k \in Key, Knows(t, k)
      PROVE  KnownIn(my, reqs, k)
  <2>1. \A p \in Agent : t.answers[p] # k
    BY <1>5, ConstantsAssumption DEF NoAnswers
  <2>2. k \in ToSet(s.rows)
    BY <1>5, <1>9, <2>1 DEF Knows
  <2> QED
    BY <2>2 DEF KnownIn, Knows
<1>10. reqs' \subseteq Request /\ NoNews(reqs, reqs')
  <2> DEFINE Cut(q) == IF q.to = a /\ q.is = "out" THEN [q EXCEPT !.is = "silent"] ELSE q
  <2>1. "silent" \in Words /\ "silent" \notin Key
    BY ConstantsAssumption DEF Words
  <2>2. ASSUME NEW q \in reqs
        PROVE  Cut(q) \in Request /\ Cut(q).is \in {q.is, "silent"}
    <3>1. q \in Request
      BY RequestFacts
    <3> QED
      BY <2>1, <3>1 DEF Request
  <2>3. \A r \in reqs' : \E q \in reqs : r = Cut(q)
    BY <1>2
  <2> HIDE DEF Cut
  <2> QED
    BY <2>1, <2>2, <2>3 DEF NoNews
<1>11. Fewer
  BY <1>2 DEF Fewer, Good, Types, Letters, Maybe
<1>12. Around' /\ zone'.made = zone.made /\ zone'.trusts = zone.trusts
  <2>1. zone \in Zones
    BY DEF Good, Types, Around
  <2>2. zone' \in Zones /\ zone'.made = zone.made /\ zone'.trusts = zone.trusts
    BY <1>1, <2>1 DEF Zones, Someone
  <2> QED
    BY <1>1, <1>3, <2>2 DEF Good, Types, Around, LeftIs
<1> QED
  BY <1>1, <1>8, <1>9, <1>10, <1>11, <1>12, FallKeeps

-----------------------------------------------------------------------------
(* Steps of an agent that contributes nothing *)

\* Whatever keys such an agent takes or drops, no key contributed is touched.
LEMMA UnspokenKeeps ==
    ASSUME Good, NEW a \in Agent, NEW t, Changes(a, t), Sane(t),
           t.apex = my[a].apex, t.from = my[a].from, Own(my, a) = None,
           \A k \in Key : Knows(t, k) => KnownIn(my, reqs, k) \/ (k \notin zone.made /\ k \in zone'.made),
           UNCHANGED <<reqs, net, phase, voters>>, LeftIs',
           zone' \in Zones, zone.made \subseteq zone'.made, zone'.trusts = zone.trusts
    PROVE  Good'
<1>1. my' = [my EXCEPT ![a] = t] /\ my \in [Agent -> Entry] /\ t \in Entry
      /\ \A b \in Agent : Sane(my[b])
  BY DEF Changes, Good, Types, AllSane, Sane, Shape
<1> DEFINE n == my'
           y == zone'
<1>2. n \in [Agent -> Entry] /\ n[a] = t /\ \A b \in Agent : b # a => n[b] = my[b]
  BY <1>1
<1>3. AllSane(n)
  BY <1>1, <1>2 DEF AllSane
<1>4. zone.made \subseteq y.made /\ y.trusts = zone.trusts
  OBVIOUS
<1>5. ASSUME NEW k \in Key, KnownIn(n, reqs, k)
      PROVE  KnownIn(my, reqs, k) \/ (k \notin zone.made /\ k \in y.made)
  <2>1. CASE \E r \in reqs : r.is = k
    BY <2>1 DEF KnownIn
  <2>2. CASE \E b \in Agent : Knows(n[b], k)
    <3>1. PICK b \in Agent : Knows(n[b], k)
      BY <2>2
    <3>2. CASE b = a
      BY <1>2, <3>1, <3>2
    <3>3. CASE b # a
      BY <1>2, <3>1, <3>3 DEF KnownIn
    <3> QED
      BY <3>2, <3>3
  <2> QED
    BY <1>5, <2>1, <2>2 DEF KnownIn
<1>6. reqs' = reqs /\ net' = net
  OBVIOUS
<1>7. Around' /\ Letters'
  BY DEF Good, Types, Around, Letters, LeftIs
<1> HIDE DEF n, y
<1>8. \A b \in Agent : n[b].apex = my[b].apex /\ n[b].from = my[b].from
  BY <1>2
<1>9. \A x \in Agent : Own(n, x) = Own(my, x)
  BY <1>8 DEF Own
<1>10. ASSUME NEW b \in Agent
       PROVE  Backed(n, reqs, y, b)
  <2>1. CASE b = a
    BY <1>9, <2>1 DEF Backed
  <2>2. CASE b # a
    <3> DEFINE j == Own(my, b)
    <3>1. Backed(my, reqs, zone, b) /\ n[b] = my[b] /\ Own(n, b) = j /\ my[b].apex \subseteq Key
      BY <1>1, <1>2, <1>9, <2>2 DEF Good, KeyInv, Entry
    <3> HIDE DEF j
    <3>2. (j \in Key /\ j \in zone.made /\ ~KnownIn(my, reqs, j)) => (j \in y.made /\ ~KnownIn(n, reqs, j))
      BY <1>4, <1>5
    <3> QED
      BY <3>1, <3>2 DEF Backed, j
  <2> QED
    BY <2>1, <2>2
<1>11. ASSUME NEW b \in Agent, NEW x \in Agent
       PROVE  PassedOn(n, net, b, x)
  <2>1. PassedOn(my, net, b, x)
    BY DEF Good, KeyInv
  <2> QED
    BY <1>8, <1>9, <2>1 DEF PassedOn
<1>12. Owned(n)
  BY <1>8, <1>9 DEF Good, KeyInv, Owned
<1>13. Trusted(n, y)
  <2> SUFFICES ASSUME NEW k \in zone.trusts
               PROVE  \E x \in Agent : Own(n, x) = k /\ k \in ToSet(n[x].rows)
    BY <1>4 DEF Trusted
  <2>1. PICK x \in Agent : Own(my, x) = k /\ k \in ToSet(my[x].rows)
    BY DEF Good, KeyInv, Trusted
  <2>2. k \in Key
    BY <1>1, <2>1, RowsFacts
  <2>3. x # a
    BY <2>1, <2>2, ConstantsAssumption
  <2> QED
    BY <1>2, <1>9, <2>1, <2>3
<1>14. Unspoken(n)
  <2> SUFFICES ASSUME NEW b \in Agent, Making(n[b])
               PROVE  Own(n, b) = None
    BY DEF Unspoken
  <2>1. CASE b = a
    BY <1>9, <2>1
  <2>2. CASE b # a
    BY <1>2, <1>9, <2>2 DEF Good, KeyInv, Unspoken
  <2> QED
    BY <2>1, <2>2
<1>15. Made(n, reqs, y)
  <2> SUFFICES ASSUME NEW k \in Key, KnownIn(n, reqs, k)
               PROVE  k \in y.made
    BY DEF Made
  <2> QED
    BY <1>4, <1>5 DEF Good, KeyInv, Made
<1>16. KeyInv(n, reqs, net, y)
  BY <1>10, <1>11, <1>12, <1>13, <1>14, <1>15 DEF KeyInv
<1>17. AllSane(my') /\ KeyInv(my', reqs', net', zone')
  BY <1>3, <1>6, <1>16 DEF n, y
<1> QED
  BY <1>7, <1>17 DEF Good, Types

\* An agent that holds nothing, with nothing published, contributes nothing.
LEMMA NothingOwn ==
    ASSUME Good, NEW a \in Agent, Held(my[a]) = None, ~Several(my[a]), my[a].apex = {}
    PROVE  Own(my, a) = None
<1>1. my[a].rows = <<>>
  BY NotHeldFacts, GoodFacts
<1>2. Backed(my, reqs, zone, a)
  BY DEF Good, KeyInv
<1> QED
  BY <1>1, <1>2 DEF Backed

LEMMA DecideNoneGood ==
    ASSUME Good, NEW a \in Agent, DecideNone(a)
    PROVE  Good'
<1> DEFINE s == my[a]
           job == [NoJob EXCEPT !.at = "make", !.kind = "make"]
           t == Begun(s, job)
<1>1. UNCHANGED <<reqs, net, zone, phase, voters>> /\ Still /\ LeftIs' /\ Shape(s) /\ Over(s) = 0
  BY OwnEntry, GoodFacts DEF DecideNone, Still, Sane
<1>2. s.job.at = "idle" /\ Held(s) = None /\ ~Several(s)
  BY DEF DecideNone, Complete, Idle
<1>3. \/ MayMake(a, s) /\ Changes(a, t)
      \/ \E done \in BOOLEAN : Changes(a, RoundEnded(s, done))
  BY DEF DecideNone
<1>4. CASE \E done \in BOOLEAN : Changes(a, RoundEnded(s, done))
  <2>1. PICK done \in BOOLEAN : Changes(a, RoundEnded(s, done))
    BY <1>4
  <2>2. Like(s, RoundEnded(s, done), 0)
    BY <1>1, RoundEndedLike
  <2> QED
    BY <1>1, <2>1, <2>2, StillKeeps
<1>5. CASE MayMake(a, s) /\ Changes(a, t)
  <2>1. Own(my, a) = None
    BY <1>2, <1>5, NothingOwn DEF MayMake
  <2>2. job \in Jobs /\ job.at = "make" /\ job.told = FALSE
    BY DEF NoJob, Jobs, Maybe
  <2> HIDE DEF job
  <2>3. Shape(t) /\ Bare(s, t) /\ Over(t) = Over(s) /\ ~Learns(s, t)
    BY <1>1, <1>2, <2>2, BegunLike
  <2> HIDE DEF t
  <2>4. Sane(t) /\ t.apex = my[a].apex /\ t.from = my[a].from
    BY <1>1, <2>3 DEF Sane, Bare
  <2>5. \A k \in Key : Knows(t, k) => KnownIn(my, reqs, k)
    BY <2>3 DEF Learns, KnownIn
  <2>6. zone' \in Zones /\ zone.made \subseteq zone'.made /\ zone'.trusts = zone.trusts
    BY <1>1 DEF Good, Types, Around
  <2> QED
    BY <1>1, <1>5, <2>1, <2>4, <2>5, <2>6, UnspokenKeeps
<1> QED
  BY <1>3, <1>4, <1>5

\* A key is appended that was not among the rows.
LEMMA AppendFacts ==
    ASSUME NEW q \in Seq(Key), IsInjective(q), NEW k \in Key, k \notin ToSet(q)
    PROVE  /\ Append(q, k) \in Seq(Key) /\ IsInjective(Append(q, k))
           /\ ToSet(Append(q, k)) = ToSet(q) \cup {k}
<1> DEFINE u == Append(q, k)
<1>1. /\ u \in Seq(Key) /\ Len(u) = Len(q) + 1 /\ u[Len(q) + 1] = k
      /\ \A i \in 1..Len(q) : u[i] = q[i]
  BY AppendProperties
<1>2. Len(q) \in Nat /\ DOMAIN q = 1..Len(q) /\ DOMAIN u = 1..(Len(q) + 1)
  BY <1>1, LenProperties
<1>3. \A i \in 1..Len(q) : q[i] # k
  BY <1>2 DEF ToSet
<1> HIDE DEF u
<1>4. IsInjective(u)
  <2> SUFFICES ASSUME NEW i \in 1..(Len(q) + 1), NEW j \in 1..(Len(q) + 1), u[i] = u[j]
               PROVE  i = j
    BY <1>2 DEF IsInjective
  <2>1. CASE i \in 1..Len(q) /\ j \in 1..Len(q)
    BY <1>1, <1>2, <2>1 DEF IsInjective
  <2>2. CASE ~(i \in 1..Len(q)) \/ ~(j \in 1..Len(q))
    BY <1>1, <1>2, <1>3, <2>2
  <2> QED
    BY <2>1, <2>2
<1>5. ToSet(u) = ToSet(q) \cup {k}
  <2>1. ASSUME NEW i \in 1..(Len(q) + 1)
        PROVE  u[i] \in ToSet(q) \cup {k}
    <3>1. CASE i \in 1..Len(q)
      BY <1>1, <1>2, <3>1 DEF ToSet
    <3>2. CASE i = Len(q) + 1
      BY <1>1, <3>2
    <3> QED
      BY <1>2, <3>1, <3>2
  <2>2. ASSUME NEW i \in 1..Len(q)
        PROVE  q[i] \in ToSet(u)
    BY <1>1, <1>2 DEF ToSet
  <2>3. k \in ToSet(u)
    <3>1. Len(q) + 1 \in DOMAIN u
      BY <1>2
    <3> QED
      BY <1>1, <3>1 DEF ToSet
  <2> QED
    BY <1>2, <2>1, <2>2, <2>3 DEF ToSet
<1> QED
  BY <1>1, <1>4, <1>5 DEF u

\* The rows of an entry are others.
LEMMA RowsChange ==
    ASSUME NEW s, Shape(s), NEW rows \in Seq(Key), IsInjective(rows)
    PROVE  LET t == [s EXCEPT !.rows = rows] IN
           /\ Shape(t) /\ t.rows = rows /\ t.apex = s.apex /\ t.from = s.from /\ t.job = s.job
           /\ Over(t) = Over(s)
           /\ \A k \in Key : Knows(t, k) => k \in ToSet(rows) \/ Knows(s, k)
<1> DEFINE t == [s EXCEPT !.rows = rows]
<1>1. s \in Entry
  BY EntryFields
<1>2. t \in Entry /\ t.rows = rows /\ t.apex = s.apex /\ t.from = s.from /\ t.job = s.job
      /\ t.out = s.out /\ t.here = s.here /\ t.polls = s.polls /\ t.running = s.running
      /\ t.answers = s.answers
  BY <1>1 DEF Entry
<1> HIDE DEF t
<1>3. Shape(t)
  BY <1>2 DEF Shape
<1>4. Over(t) = Over(s)
  BY <1>2 DEF Over, Busy
<1>5. \A k \in Key : Knows(t, k) => k \in ToSet(rows) \/ Knows(s, k)
  BY <1>2 DEF Knows
<1> QED
  BY <1>2, <1>3, <1>4, <1>5 DEF t

\* An agent that takes the key another offers contributed none: what it
\* contributed would be the key its zone publishes, and nobody knew that one.
LEMMA TakenFacts ==
    ASSUME Good, NEW a \in Agent, Held(my[a]) = None, ~Several(my[a]), NEW k \in Taken(my[a])
    PROVE  /\ Own(my, a) = None /\ k \in Key /\ Knows(my[a], k) /\ k \notin ToSet(my[a].rows)
<1> DEFINE s == my[a]
<1>1. Shape(s) /\ Backed(my, reqs, zone, a)
  BY GoodFacts DEF Good, KeyInv
<1>2. k \in Key /\ Knows(s, k) /\ s.apex \subseteq {k}
  BY DEF Taken, Offered, Asked, Knows
<1>3. KnownIn(my, reqs, k)
  BY <1>2 DEF KnownIn
<1>4. CASE s.apex = {} /\ s.rows = <<>>
  BY <1>2, <1>4, NothingOwn DEF ToSet
<1>5. CASE \E j \in Key : s.apex = {j} /\ j \notin ToSet(s.rows)
  <2>1. s.apex = {k} /\ k \notin ToSet(s.rows)
    BY <1>2, <1>5
  <2> QED
    BY <1>1, <1>2, <1>3, <2>1 DEF Backed
<1> QED
  BY <1>1, <1>4, <1>5, NotHeldFacts

LEMMA ImportKeyGood ==
    ASSUME Good, NEW a \in Agent, ImportKey(a)
    PROVE  Good'
<1> DEFINE r == my[a]
           job == [NoJob EXCEPT !.at = "publish", !.kind = "take"]
<1>1. UNCHANGED <<reqs, net, zone, phase, voters>> /\ Shape(r) /\ Over(r) = 0 /\ LeftIs
  BY OwnEntry, GoodFacts DEF ImportKey, Sane
<1>2. r.job.at = "idle" /\ Held(r) = None /\ ~Several(r)
  BY DEF ImportKey, Complete, Idle
<1>3. PICK k \in Taken(r) :
         \E rows \in {<<k>>, Append(r.rows, k)} :
         LET s == [r EXCEPT !.rows = rows] IN
           /\ IF Len(rows) > 1 THEN Spend("fail") ELSE UNCHANGED left
           /\ Changes(a, IF Leads(a) THEN Begun(s, job) ELSE RoundEnded(s, TRUE))
  BY DEF ImportKey
<1>4. PICK rows \in {<<k>>, Append(r.rows, k)} :
         LET s == [r EXCEPT !.rows = rows] IN
           /\ IF Len(rows) > 1 THEN Spend("fail") ELSE UNCHANGED left
           /\ Changes(a, IF Leads(a) THEN Begun(s, job) ELSE RoundEnded(s, TRUE))
  BY <1>3
<1>5. LeftIs'
  BY <1>1, <1>4, SpendType, Unspent DEF Event
<1>6. Own(my, a) = None /\ k \in Key /\ Knows(r, k) /\ k \notin ToSet(r.rows)
  BY <1>2, TakenFacts
<1>7. rows \in Seq(Key) /\ IsInjective(rows) /\ ToSet(rows) \subseteq ToSet(r.rows) \cup {k}
  <2>1. r.rows \in Seq(Key) /\ IsInjective(r.rows)
    BY <1>1, RowsFacts DEF Shape
  <2>2. <<k>> \in Seq(Key) /\ IsInjective(<<k>>) /\ ToSet(<<k>>) = {k}
    BY <1>6 DEF IsInjective, ToSet
  <2> HIDE DEF r
  <2> DEFINE q == r.rows
             w == Append(q, k)
  <2>3. q \in Seq(Key) /\ IsInjective(q) /\ k \notin ToSet(q)
    BY <1>6, <2>1
  <2>4. rows \in {<<k>>, w}
    BY <1>4
  <2> HIDE DEF q
  <2>5. w \in Seq(Key) /\ IsInjective(w) /\ ToSet(w) = ToSet(q) \cup {k}
    BY <1>6, <2>3, AppendFacts
  <2> HIDE DEF w
  <2>6. CASE rows = <<k>>
    BY <2>2, <2>6 DEF q
  <2>7. CASE rows = w
    BY <2>5, <2>7 DEF q
  <2> QED
    BY <2>4, <2>6, <2>7
<1> DEFINE s == [r EXCEPT !.rows = rows]
<1>8. /\ Shape(s) /\ s.apex = r.apex /\ s.from = r.from /\ s.job = r.job /\ Over(s) = Over(r)
      /\ \A x \in Key : Knows(s, x) => x \in ToSet(rows) \/ Knows(r, x)
  BY <1>1, <1>7, RowsChange
<1> HIDE DEF s
<1>9. \A x \in Key : Knows(s, x) => KnownIn(my, reqs, x)
  BY <1>6, <1>7, <1>8 DEF KnownIn, Knows
<1>10. job \in Jobs /\ job.at = "publish" /\ job.told = FALSE
  BY DEF NoJob, Jobs, Maybe
<1>11. PICK t : Changes(a, t) /\ (t = Begun(s, job) \/ \E done \in BOOLEAN : t = RoundEnded(s, done))
  BY <1>4 DEF s
<1> HIDE DEF job
<1>12. Like(s, t, 0) /\ Bare(s, t)
  <2>1. CASE t = Begun(s, job)
    BY <1>2, <1>8, <1>10, <2>1, BegunLike
  <2>2. CASE \E done \in BOOLEAN : t = RoundEnded(s, done)
    BY <1>8, <2>2, RoundEndedLike
  <2> QED
    BY <1>11, <2>1, <2>2
<1>13. Sane(t)
  <2>1. Over(t) = 0 + 0
    BY <1>1, <1>8, <1>12 DEF Like
  <2> QED
    BY <1>12, <2>1 DEF Sane, Like
<1>14. \A x \in Key : Knows(t, x) => KnownIn(my, reqs, x)
  BY <1>9, <1>12 DEF Like, Learns
<1>15. t.apex = my[a].apex /\ t.from = my[a].from
  BY <1>8, <1>12 DEF Bare
<1>16. zone' \in Zones /\ zone.made \subseteq zone'.made /\ zone'.trusts = zone.trusts
  BY <1>1 DEF Good, Types, Around
<1> QED
  BY <1>1, <1>5, <1>6, <1>11, <1>13, <1>14, <1>15, <1>16, UnspokenKeeps

LEMMA MakeGood ==
    ASSUME Good, NEW a \in Agent, Make(a)
    PROVE  Good'
<1> DEFINE r == my[a]
           k == CHOOSE x \in Key : x \notin zone.made
           rows == Append(r.rows, k)
           s == [r EXCEPT !.rows = rows]
<1>1. PICK told \in BOOLEAN :
         LET job == [r.job EXCEPT !.at = "publish", !.made = k, !.told = told] IN
         /\ IF told THEN UNCHANGED left ELSE Spend("fail")
         /\ Changes(a, [r EXCEPT !.rows = rows, !.job = job])
         /\ zone' = [zone EXCEPT !.made = @ \union {k}]
  BY DEF Make
<1> DEFINE job == [r.job EXCEPT !.at = "publish", !.made = k, !.told = told]
           t == [s EXCEPT !.job = job]
<1>2. UNCHANGED <<reqs, net, phase, voters>> /\ Shape(r) /\ Over(r) = 0 /\ LeftIs /\ zone \in Zones
      /\ r.job.at = "make" /\ zone.made # Key /\ r \in Entry
  BY OwnEntry, GoodFacts DEF Make, Sane, Good, Types, Around
<1>3. LeftIs'
  BY <1>1, <1>2, SpendType, Unspent DEF Event
<1>4. k \in Key /\ k \notin zone.made
  BY <1>2 DEF Zones
<1>5. k \notin ToSet(r.rows)
  <2>1. ASSUME k \in ToSet(r.rows)
        PROVE  k \in zone.made
    BY <1>4, <2>1 DEF Good, KeyInv, Made, KnownIn, Knows
  <2> QED
    BY <1>4, <2>1
<1>6. zone' \in Zones /\ zone.made \subseteq zone'.made /\ zone'.trusts = zone.trusts /\ k \in zone'.made
  BY <1>1, <1>2, <1>4 DEF Zones
<1>7. Own(my, a) = None
  BY <1>2 DEF Good, KeyInv, Unspoken, Making
<1>8. Changes(a, t)
  <2>1. [r EXCEPT !.rows = rows, !.job = job] = t
    OBVIOUS
  <2> QED
    BY <1>1, <2>1
<1> HIDE DEF k
<1>9. rows \in Seq(Key) /\ IsInjective(rows) /\ ToSet(rows) = ToSet(r.rows) \cup {k}
  BY <1>2, <1>4, <1>5, AppendFacts, RowsFacts DEF Shape
<1>10. job \in Jobs /\ job.at = "publish"
  BY <1>2, <1>4 DEF Entry, Jobs, Maybe
<1> HIDE DEF rows, job
<1>11. /\ Shape(s) /\ s.apex = r.apex /\ s.from = r.from /\ s.job = r.job /\ Over(s) = Over(r)
       /\ \A x \in Key : Knows(s, x) => x \in ToSet(rows) \/ Knows(r, x)
  BY <1>2, <1>9, RowsChange
<1> HIDE DEF s, r
<1>12. t \in Entry /\ Bare(s, t) /\ t.out = s.out /\ t.here = s.here /\ t.answers = s.answers
       /\ t.polls = s.polls /\ t.running = s.running /\ t.job = job
  <2>1. s \in Entry
    BY <1>11, EntryFields
  <2>2. t \in Entry
    BY <1>10, <2>1 DEF Entry
  <2>3. /\ t.rows = s.rows /\ t.apex = s.apex /\ t.from = s.from /\ t.out = s.out /\ t.here = s.here
        /\ t.answers = s.answers /\ t.polls = s.polls /\ t.running = s.running /\ t.job = job
    BY <2>1 DEF Entry
  <2> HIDE DEF t
  <2> QED
    BY <2>2, <2>3 DEF Bare
<1> HIDE DEF t
<1>13. Sane(t)
  <2>1. Over(t) = Over(s)
    BY <1>2, <1>10, <1>11, <1>12 DEF Over, Busy
  <2> QED
    BY <1>2, <1>11, <1>12, <2>1 DEF Sane, Shape, Bare
<1>14. \A x \in Key : Knows(t, x) => KnownIn(my, reqs, x) \/ (x \notin zone.made /\ x \in zone'.made)
  <2> SUFFICES ASSUME NEW x \in Key, Knows(t, x)
               PROVE  KnownIn(my, reqs, x) \/ x = k
    BY <1>4, <1>6
  <2>1. Knows(s, x)
    BY <1>12 DEF Knows, Bare
  <2>2. x = k \/ x \in ToSet(r.rows) \/ Knows(r, x)
    BY <1>9, <1>11, <2>1
  <2> QED
    BY <2>2 DEF KnownIn, Knows, r
<1>15. t.apex = my[a].apex /\ t.from = my[a].from
  BY <1>11, <1>12 DEF Bare, r
<1> QED
  BY <1>2, <1>3, <1>6, <1>7, <1>8, <1>13, <1>14, <1>15, UnspokenKeeps

LEMMA LeadMovedGood ==
    ASSUME Good, NEW a \in Agent, LeadMoved(a)
    PROVE  Good'
<1> DEFINE s == my[a]
           u == s.job.kind = "take" \/ (s.job.kind = "make" /\ ~s.job.told)
           r == Kept(s)
           t == Failed(r, u)
<1>1. UNCHANGED <<reqs, net, zone, phase, voters>> /\ Still /\ LeftIs' /\ Shape(s) /\ Over(s) = 0 /\ s \in Entry
  BY OwnEntry, GoodFacts DEF LeadMoved, Still, Sane
<1>2. s.job.at # "idle" /\ Changes(a, t) /\ u \in BOOLEAN
  BY DEF LeadMoved
<1>3. s.job.told \in BOOLEAN
  BY <1>1 DEF Entry, Jobs
<1>4. CASE ~(s.job.told /\ s.rows = <<s.job.made>>)
  <2>1. r = s
    BY <1>4 DEF Kept
  <2> HIDE DEF u
  <2>2. Like(s, t, 0)
    BY <1>1, <1>2, <2>1, FailedLike
  <2> QED
    BY <1>1, <1>2, <2>2, StillKeeps
<1>5. CASE s.job.told /\ s.rows = <<s.job.made>>
  <2> DEFINE w == [s EXCEPT !.rows = <<>>]
  <2>1. r = w
    BY <1>5 DEF Kept
  <2>2. Own(my, a) = None
    BY <1>3, <1>5 DEF Good, KeyInv, Unspoken, Making
  <2>3. <<>> \in Seq(Key) /\ IsInjective(<<>>) /\ ToSet(<<>>) = {}
    BY DEF IsInjective, ToSet
  <2>4. /\ Shape(w) /\ w.apex = s.apex /\ w.from = s.from /\ w.job = s.job /\ Over(w) = Over(s)
        /\ w.rows = <<>>
        /\ \A x \in Key : Knows(w, x) => x \in ToSet(<<>>) \/ Knows(s, x)
    BY <1>1, <2>3, RowsChange
  <2> HIDE DEF u
  <2>5. Like(r, t, 0)
    BY <1>2, <2>1, <2>4, FailedLike
  <2> HIDE DEF w
  <2>6. Sane(t)
    <3>1. Over(t) = 0 + 0
      BY <1>1, <2>1, <2>4, <2>5 DEF Like
    <3> QED
      BY <2>5, <3>1 DEF Sane, Like
  <2>7. t.apex = my[a].apex /\ t.from = my[a].from
    BY <2>1, <2>4, <2>5 DEF Like, Tame
  <2>8. \A x \in Key : Knows(t, x) => KnownIn(my, reqs, x)
    BY <2>1, <2>3, <2>4, <2>5 DEF Like, Learns, KnownIn
  <2>9. zone' \in Zones /\ zone.made \subseteq zone'.made /\ zone'.trusts = zone.trusts
    BY <1>1 DEF Good, Types, Around
  <2> HIDE DEF t
  <2> QED
    BY <1>1, <1>2, <2>2, <2>6, <2>7, <2>8, <2>9, UnspokenKeeps
<1> QED
  BY <1>4, <1>5

-----------------------------------------------------------------------------
(* Steps that change what is contributed or published *)

\* What the agents contribute once a's entry is t.
Contributed(m, a, t, x) == IF x = a THEN t.from[a] ELSE Own(m, x)

\* The entry's part of the invariant, where its key is contributed anew.
BackedBy(m, rq, z, a, t) ==
    LET j == t.from[a] IN
    \/ j = None
    \/ t.apex = {} /\ t.rows = <<j>>
    \/ j \in t.apex /\ (j \in ToSet(t.rows) \/ (j \in z.made /\ ~KnownIn(m, rq, j)))

LEMMA PublishKeeps ==
    ASSUME Good, NEW a \in Agent, NEW t, Changes(a, t), Sane(t),
           UNCHANGED <<reqs, zone, phase, voters>>, LeftIs', net' \in [Agent -> [Agent -> Maybe]],
           \A k \in Key : Knows(t, k) => KnownIn(my, reqs, k),
           Own(my, a) \in {None, t.from[a]},
           Own(my, a) \in ToSet(my[a].rows) => Own(my, a) \in ToSet(t.rows),
           BackedBy(my, reqs, zone, a, t),
           \A x \in Agent : x # a => t.from[x] \in {None, Own(my, x)},
           \A b, x \in Agent : net'[b][x] \in {None, IF b = x THEN None ELSE Contributed(my, a, t, x)},
           \A k \in t.apex : \E x \in Agent : Contributed(my, a, t, x) = k,
           Making(t) => t.from[a] = None
    PROVE  Good'
<1>1. my' = [my EXCEPT ![a] = t] /\ my \in [Agent -> Entry] /\ t \in Entry
      /\ \A b \in Agent : Sane(my[b])
  BY DEF Changes, Good, Types, AllSane, Sane, Shape
<1> DEFINE n == my'
           mt == net'
<1>2. n \in [Agent -> Entry] /\ n[a] = t /\ \A b \in Agent : b # a => n[b] = my[b]
  BY <1>1
<1>3. AllSane(n)
  BY <1>1, <1>2 DEF AllSane
<1>4. reqs' = reqs /\ zone' = zone /\ Around' /\ Letters'
  BY DEF Good, Types, Around, Letters, LeftIs
<1>5. \A b, x \in Agent : mt[b][x] \in {None, IF b = x THEN None ELSE Contributed(my, a, t, x)}
  OBVIOUS
<1> HIDE DEF n, mt
<1>6. ASSUME NEW k \in Key, KnownIn(n, reqs, k)
      PROVE  KnownIn(my, reqs, k)
  <2>1. CASE \E r \in reqs : r.is = k
    BY <2>1 DEF KnownIn
  <2>2. CASE \E b \in Agent : Knows(n[b], k)
    <3>1. PICK b \in Agent : Knows(n[b], k)
      BY <2>2
    <3>2. CASE b = a
      BY <1>2, <3>1, <3>2
    <3>3. CASE b # a
      BY <1>2, <3>1, <3>3 DEF KnownIn
    <3> QED
      BY <3>2, <3>3
  <2> QED
    BY <1>6, <2>1, <2>2 DEF KnownIn
<1>7. \A x \in Agent : Own(n, x) = Contributed(my, a, t, x)
  BY <1>2 DEF Own, Contributed
<1>8. \A x \in Agent : Own(my, x) \in {None, Own(n, x)} /\ Own(n, x) \in Maybe
  <2> SUFFICES ASSUME NEW x \in Agent
               PROVE  Own(my, x) \in {None, Own(n, x)} /\ Own(n, x) \in Maybe
    OBVIOUS
  <2>1. n[x] \in Entry
    BY <1>2
  <2>2. n[x].from \in [Agent -> Maybe]
    BY <2>1 DEF Entry
  <2>3. Own(n, x) \in Maybe
    BY <2>2 DEF Own
  <2>4. Own(my, x) \in {None, Own(n, x)}
    BY <1>7 DEF Contributed
  <2> QED
    BY <2>3, <2>4
<1>9. ASSUME NEW b \in Agent
      PROVE  Backed(n, reqs, zone, b)
  <2> DEFINE j == Own(n, b)
  <2>1. (j \in Key /\ ~KnownIn(my, reqs, j)) => ~KnownIn(n, reqs, j)
    BY <1>6
  <2>2. j \in Maybe
    BY <1>8
  <2>3. CASE b = a
    <3>1. j = t.from[a] /\ n[b] = t /\ Own(n, b) = j
      BY <1>2, <2>3 DEF Own
    <3> HIDE DEF j
    <3>2. \/ j = None
          \/ t.apex = {} /\ t.rows = <<j>>
          \/ j \in t.apex /\ (j \in ToSet(t.rows) \/ (j \in zone.made /\ ~KnownIn(my, reqs, j)))
      BY <3>1 DEF BackedBy
    <3> QED
      BY <2>1, <2>2, <3>1, <3>2 DEF Backed, Maybe
  <2>4. CASE b # a
    <3>1. Backed(my, reqs, zone, b) /\ n[b] = my[b] /\ Own(my, b) = j /\ Own(n, b) = j
      BY <1>2, <1>7, <2>4 DEF Good, KeyInv, Contributed
    <3> HIDE DEF j
    <3> QED
      BY <2>1, <2>2, <3>1 DEF Backed, Maybe
  <2> QED
    BY <2>3, <2>4
<1>10. ASSUME NEW b \in Agent, NEW x \in Agent
       PROVE  PassedOn(n, mt, b, x)
  <2>1. b # x => n[b].from[x] \in {None, Own(n, x)}
    <3>1. CASE b = a
      BY <1>2, <1>7, <3>1 DEF Contributed
    <3>2. CASE b # a
      <4>1. PassedOn(my, net, b, x) /\ n[b] = my[b]
        BY <1>2, <3>2 DEF Good, KeyInv
      <4> QED
        BY <1>8, <4>1 DEF PassedOn
    <3> QED
      BY <3>1, <3>2
  <2> QED
    BY <1>5, <1>7, <2>1 DEF PassedOn
<1>11. Owned(n)
  <2> SUFFICES ASSUME NEW b \in Agent, NEW k \in n[b].apex
               PROVE  \E x \in Agent : Own(n, x) = k
    BY DEF Owned
  <2>1. CASE b = a
    BY <1>2, <1>7, <2>1
  <2>2. CASE b # a
    <3>1. k \in my[b].apex /\ k \in Key
      BY <1>1, <1>2, <2>2 DEF Entry
    <3>2. PICK x \in Agent : Own(my, x) = k
      BY <3>1 DEF Good, KeyInv, Owned
    <3> QED
      BY <1>8, <3>1, <3>2, ConstantsAssumption
  <2> QED
    BY <2>1, <2>2
<1>12. Trusted(n, zone)
  <2> SUFFICES ASSUME NEW k \in zone.trusts
               PROVE  \E x \in Agent : Own(n, x) = k /\ k \in ToSet(n[x].rows)
    BY DEF Trusted
  <2>1. PICK x \in Agent : Own(my, x) = k /\ k \in ToSet(my[x].rows)
    BY DEF Good, KeyInv, Trusted
  <2>2. k \in Key
    BY <1>1, <2>1, RowsFacts
  <2>3. Own(n, x) = k
    BY <1>8, <2>1, <2>2, ConstantsAssumption
  <2>4. k \in ToSet(n[x].rows)
    BY <1>2, <2>1
  <2> QED
    BY <2>3, <2>4
<1>13. Unspoken(n)
  <2> SUFFICES ASSUME NEW b \in Agent, Making(n[b])
               PROVE  Own(n, b) = None
    BY DEF Unspoken
  <2>1. CASE b = a
    BY <1>2, <2>1 DEF Own
  <2>2. CASE b # a
    BY <1>2, <1>7, <2>2 DEF Good, KeyInv, Unspoken, Contributed
  <2> QED
    BY <2>1, <2>2
<1>14. Made(n, reqs, zone)
  BY <1>6 DEF Good, KeyInv, Made
<1>15. KeyInv(n, reqs, mt, zone)
  BY <1>9, <1>10, <1>11, <1>12, <1>13, <1>14 DEF KeyInv
<1>16. AllSane(my') /\ KeyInv(my', reqs', net', zone')
  BY <1>3, <1>4, <1>15 DEF n, mt
<1> QED
  BY <1>4, <1>16 DEF Good, Types

LEMMA ServedFacts ==
    ASSUME NEW s, Shape(s)
    PROVE  Served(s) \subseteq Key /\ IsFiniteSet(Served(s)) /\ None \notin Served(s)
<1> DEFINE T == {s.from[p] : p \in Agent}
<1>1. s.from \in [Agent -> Maybe]
  BY DEF Shape, Entry
<1>2. s.from \in Surjection(Agent, T)
  BY <1>1 DEF Surjection
<1>3. IsFiniteSet(T)
  <2> HIDE DEF T
  <2> QED
    BY <1>2, ConstantsAssumption, FS_Surjection
<1>4. IsFiniteSet(T \ {None})
  <2> HIDE DEF T
  <2> QED
    BY <1>3, FS_Subset
<1> QED
  BY <1>1, <1>4 DEF Served, Maybe

LEMMA RefreshGood ==
    ASSUME Good, NEW a \in Agent, Refresh(a)
    PROVE  Good'
<1> DEFINE s == my[a]
           v == Served(s)
           t == [s EXCEPT !.apex = v, !.check = TRUE]
           j == Own(my, a)
<1>1. UNCHANGED <<reqs, net, zone, phase, voters>> /\ Shape(s) /\ Over(s) = 0 /\ LeftIs' /\ Changes(a, t)
      /\ s \in Entry
  BY OwnEntry, GoodFacts DEF Refresh, Sane
<1>2. v \subseteq Key /\ IsFiniteSet(v) /\ None \notin v
  BY <1>1, ServedFacts
<1>3. \A p \in Agent : s.from[p] # None => s.from[p] \in v
  BY DEF Served
<1>4. \A k \in v : \E x \in Agent : s.from[x] = k
  BY DEF Served
<1>5. Backed(my, reqs, zone, a) /\ \A x \in Agent : a # x => s.from[x] \in {None, Own(my, x)}
  BY DEF Good, KeyInv, PassedOn
<1>6. \A b, x \in Agent : net'[b][x] \in {None, IF b = x THEN None ELSE Own(my, x)}
  BY <1>1 DEF Good, KeyInv, PassedOn
<1>7. net' \in [Agent -> [Agent -> Maybe]]
  BY <1>1 DEF Good, Types, Letters
<1>8. Making(s) => j = None
  BY DEF Good, KeyInv, Unspoken
<1>9. j = s.from[a]
  BY DEF Own
<1> HIDE DEF s, v, j
<1>10. t \in Entry /\ t.apex = v /\ t.rows = s.rows /\ t.from = s.from /\ t.out = s.out /\ t.here = s.here
       /\ t.answers = s.answers /\ t.polls = s.polls /\ t.running = s.running /\ t.job = s.job
  BY <1>1, <1>2 DEF Entry
<1> HIDE DEF t
<1>11. Sane(t)
  <2>1. Over(t) = Over(s)
    BY <1>10 DEF Over, Busy
  <2> QED
    BY <1>1, <1>2, <1>10, <2>1 DEF Sane, Shape
<1>12. \A k \in Key : Knows(t, k) => KnownIn(my, reqs, k)
  BY <1>10 DEF Knows, KnownIn, s
<1>13. \A x \in Agent : Contributed(my, a, t, x) = Own(my, x)
  BY <1>9, <1>10 DEF Contributed, j
<1>14. BackedBy(my, reqs, zone, a, t)
  <2>1. CASE j = None
    BY <1>9, <1>10, <2>1 DEF BackedBy
  <2>2. CASE j # None
    <3>1. j \in v
      BY <1>3, <1>9, <2>2
    <3>2. CASE s.apex = {} /\ s.rows = <<j>>
      BY <1>9, <1>10, <3>1, <3>2 DEF BackedBy, ToSet
    <3>3. CASE j \in ToSet(s.rows) \/ (j \in zone.made /\ ~KnownIn(my, reqs, j))
      BY <1>9, <1>10, <3>1, <3>3 DEF BackedBy
    <3> QED
      BY <1>5, <2>2, <3>2, <3>3 DEF Backed, s, j
  <2> QED
    BY <2>1, <2>2
<1>15. \A k \in t.apex : \E x \in Agent : Contributed(my, a, t, x) = k
  <2> SUFFICES ASSUME NEW k \in v
               PROVE  \E x \in Agent : Own(my, x) = k
    BY <1>10, <1>13
  <2>1. PICK x \in Agent : s.from[x] = k
    BY <1>4
  <2>2. k # None
    BY <1>2
  <2>3. Own(my, x) = k
    BY <1>5, <1>9, <2>1, <2>2 DEF j
  <2> QED
    BY <2>3
<1>16. Making(t) => t.from[a] = None
  BY <1>8, <1>9, <1>10 DEF Making
<1>17. Own(my, a) \in {None, t.from[a]} /\ (Own(my, a) \in ToSet(my[a].rows) => Own(my, a) \in ToSet(t.rows))
  BY <1>9, <1>10 DEF j, s
<1>18. \A x \in Agent : x # a => t.from[x] \in {None, Own(my, x)}
  BY <1>5, <1>10
<1>19. \A b, x \in Agent : net'[b][x] \in {None, IF b = x THEN None ELSE Contributed(my, a, t, x)}
  BY <1>6, <1>13
<1> QED
  BY <1>1, <1>7, <1>11, <1>12, <1>14, <1>15, <1>16, <1>17, <1>18, <1>19, PublishKeeps

LEMMA TakeKeyGood ==
    ASSUME Good, NEW a \in Agent, NEW b \in Agent, TakeKey(b, a)
    PROVE  Good'
<1> DEFINE s == my[b]
           k == net[b][a]
           y == s.check \/ k # s.from[a]
           f == [s.from EXCEPT ![a] = k]
           t == [s EXCEPT !.from = f, !.check = y]
<1>1. UNCHANGED <<reqs, zone, phase, voters>> /\ Shape(s) /\ Over(s) = 0 /\ LeftIs' /\ s \in Entry
      /\ net' = [net EXCEPT ![b][a] = None] /\ k # None
  BY OwnEntry, GoodFacts DEF TakeKey, Sane
<1>2. IF s.leader = a THEN Changes(b, t) ELSE Changes(b, s)
  BY DEF TakeKey
<1>3. net \in [Agent -> [Agent -> Maybe]] /\ None \in Maybe
  BY DEF Good, Types, Letters, Maybe
<1>4. net' \in [Agent -> [Agent -> Maybe]] /\ \A c, x \in Agent : net'[c][x] \in {None, net[c][x]}
  BY <1>1, <1>3
<1>5. CASE s.leader # a
  <2>1. Changes(b, s) /\ Sane(s) /\ Tame(s, s) /\ Fewer
    BY <1>2, <1>4, <1>5, GoodFacts DEF Tame, Fewer
  <2>2. \A x \in Key : Knows(s, x) => KnownIn(my, reqs, x)
    BY DEF KnownIn
  <2>3. reqs' \subseteq Request /\ NoNews(reqs, reqs')
    BY <1>1 DEF NoNews, Good, Types, Letters
  <2>4. Around' /\ zone'.made = zone.made /\ zone'.trusts = zone.trusts
    BY <1>1 DEF Good, Types, Around, LeftIs
  <2> QED
    BY <2>1, <2>2, <2>3, <2>4, FallKeeps
<1>6. CASE s.leader = a
  <2>1. Changes(b, t)
    BY <1>2, <1>6
  <2>2. \A x \in Agent : PassedOn(my, net, b, x)
    BY DEF Good, KeyInv
  <2>3. b # a /\ k = Own(my, a) /\ k \in Key
    BY <1>1, <1>3, <2>2 DEF PassedOn, Maybe
  <2>4. y \in BOOLEAN
    OBVIOUS
  <2>5. \A x \in Agent : x # b => s.from[x] \in {None, Own(my, x)}
    BY <2>2 DEF PassedOn
  <2>6. \A c, x \in Agent : net'[c][x] \in {None, IF c = x THEN None ELSE Own(my, x)}
    BY <1>4 DEF Good, KeyInv, PassedOn
  <2>7. Making(s) => Own(my, b) = None
    BY DEF Good, KeyInv, Unspoken
  <2>8. s.from \in [Agent -> Maybe] /\ Own(my, b) = s.from[b] /\ \A x \in s.apex : \E c \in Agent : Own(my, c) = x
    BY <1>1 DEF Entry, Own, Good, KeyInv, Owned
  <2>9. Backed(my, reqs, zone, b)
    BY DEF Good, KeyInv
  <2> HIDE DEF s, k, y
  <2>10. f \in [Agent -> Maybe] /\ f[a] = k /\ \A x \in Agent : x # a => f[x] = s.from[x]
    BY <2>3, <2>8 DEF Maybe
  <2> HIDE DEF f
  <2>11. t \in Entry /\ t.from = f /\ t.rows = s.rows /\ t.apex = s.apex /\ t.out = s.out /\ t.here = s.here
         /\ t.answers = s.answers /\ t.polls = s.polls /\ t.running = s.running /\ t.job = s.job
    BY <1>1, <2>4, <2>10 DEF Entry
  <2> HIDE DEF t
  <2>12. Sane(t)
    <3>1. Over(t) = Over(s)
      BY <2>11 DEF Over, Busy
    <3> QED
      BY <1>1, <2>11, <3>1 DEF Sane, Shape
  <2>13. \A x \in Key : Knows(t, x) => KnownIn(my, reqs, x)
    BY <2>11 DEF Knows, KnownIn, s
  <2>14. t.from[b] = Own(my, b) /\ \A x \in Agent : Contributed(my, b, t, x) = Own(my, x)
    BY <2>3, <2>8, <2>10, <2>11 DEF Contributed
  <2>15. BackedBy(my, reqs, zone, b, t)
    BY <2>9, <2>11, <2>14 DEF Backed, BackedBy, s
  <2>16. \A x \in t.apex : \E c \in Agent : Contributed(my, b, t, c) = x
    BY <2>8, <2>11, <2>14
  <2>17. Making(t) => t.from[b] = None
    BY <2>7, <2>11, <2>14 DEF Making
  <2>18. Own(my, b) \in {None, t.from[b]} /\ (Own(my, b) \in ToSet(my[b].rows) => Own(my, b) \in ToSet(t.rows))
    BY <2>11, <2>14 DEF s
  <2>19. \A x \in Agent : x # b => t.from[x] \in {None, Own(my, x)}
    BY <2>3, <2>5, <2>10, <2>11
  <2>20. \A c, x \in Agent : net'[c][x] \in {None, IF c = x THEN None ELSE Contributed(my, b, t, x)}
    BY <2>6, <2>14
  <2> QED
    BY <1>1, <1>4, <2>1, <2>12, <2>13, <2>15, <2>16, <2>17, <2>18, <2>19, <2>20, PublishKeeps
<1> QED
  BY <1>5, <1>6

LEMMA PublishZoneKeyGood ==
    ASSUME Good, NEW a \in Agent, PublishZoneKey(a)
    PROVE  Good'
<1> DEFINE s == my[a]
           k == Held(s)
           r == Retired(s)
           p == Polling(r, k)
           f == [p.from EXCEPT ![a] = k]
           y == p.check \/ s.job.kind = "setup"
           u == [p EXCEPT !.from = f, !.unpublished = FALSE, !.check = y]
           done == s.job.kind \in {"take", "make"}
           t == JobEnded(u, done)
<1>1. UNCHANGED <<reqs, zone, phase, voters>> /\ Shape(s) /\ Over(s) = 0 /\ LeftIs' /\ s \in Entry
  BY OwnEntry, GoodFacts DEF PublishZoneKey, Sane
<1>2. /\ s.job.at = "publish" /\ k # None /\ Changes(a, t)
      /\ net' = [b \in Agent |-> IF b = a THEN net[b] ELSE [net[b] EXCEPT ![a] = k]]
  BY DEF PublishZoneKey
<1>3. k \in Key /\ k \in ToSet(s.rows) /\ HeldIs(s, k)
  BY <1>1, <1>2, HeldFacts
<1>4. net \in [Agent -> [Agent -> Maybe]] /\ Backed(my, reqs, zone, a)
      /\ \A b, x \in Agent : PassedOn(my, net, b, x)
  BY DEF Good, Types, Letters, KeyInv
<1>5. Own(my, a) \in {None, k}
  BY <1>1, <1>2, <1>4, OwnIsHeld
<1>6. Like(s, r, 0) /\ r.job = s.job /\ r.rows = <<k>>
  BY <1>1, <1>2, RetiredLike DEF Retired, Entry
<1> HIDE DEF s, k, r
<1>7. k \in ToSet(r.rows)
  BY <1>6 DEF ToSet
<1>8. Like(r, p, -1) /\ p.job = r.job /\ Bare(r, p)
  BY <1>6, <1>7, PollingLike DEF Like
<1> HIDE DEF p
<1>9. Shape(p) /\ p \in Entry /\ p.from = s.from /\ p.apex = s.apex /\ p.rows = <<k>> /\ p.job = s.job
  BY <1>6, <1>8, EntryFields DEF Like, Bare, Tame
<1>10. \A x \in Key : Knows(p, x) => Knows(s, x)
  BY <1>6, <1>8 DEF Like, Learns
<1>11. Over(p) = 0 + 0 + (-1)
  BY <1>1, <1>6, <1>8 DEF Like
<1>12. f \in [Agent -> Maybe] /\ f[a] = k /\ \A x \in Agent : x # a => f[x] = s.from[x]
  BY <1>1, <1>3, <1>9 DEF Entry, Maybe
<1>13. y \in BOOLEAN
  OBVIOUS
<1> HIDE DEF f, y, done
<1>14. u \in Entry /\ u.from = f /\ u.rows = p.rows /\ u.apex = p.apex /\ u.out = p.out /\ u.here = p.here
       /\ u.answers = p.answers /\ u.polls = p.polls /\ u.running = p.running /\ u.job = p.job
  BY <1>9, <1>12, <1>13 DEF Entry
<1> HIDE DEF u
<1>15. Shape(u) /\ Over(u) = Over(p) /\ Busy(u) = 1
  BY <1>2, <1>9, <1>14 DEF Shape, Over, Busy, s
<1>16. \A x \in Key : Knows(u, x) => Knows(p, x)
  BY <1>14 DEF Knows
<1>17. Like(u, t, 1) /\ Bare(u, t) /\ ~Making(t)
  BY <1>15, JobEndedLike
<1> HIDE DEF t
<1>18. Sane(t)
  <2>1. Over(t) = 0 + 0 + (-1) + 1
    BY <1>11, <1>15, <1>17 DEF Like
  <2> QED
    BY <1>17, <2>1 DEF Sane, Like
<1>19. t.rows = <<k>> /\ t.apex = s.apex /\ t.from = f
  BY <1>9, <1>14, <1>17 DEF Bare
<1>20. \A x \in Key : Knows(t, x) => KnownIn(my, reqs, x)
  BY <1>10, <1>16, <1>17 DEF Like, Learns, KnownIn, s
<1>21. k \in ToSet(t.rows) /\ t.from[a] = k
  BY <1>12, <1>19 DEF ToSet
<1>22. Own(my, a) \in {None, t.from[a]} /\ (Own(my, a) \in ToSet(my[a].rows) => Own(my, a) \in ToSet(t.rows))
  <2>1. None \notin ToSet(s.rows)
    BY <1>1, RowsFacts, ConstantsAssumption
  <2> QED
    BY <1>5, <1>21, <2>1 DEF s
<1>23. BackedBy(my, reqs, zone, a, t)
  BY <1>3, <1>19, <1>21 DEF HeldIs, BackedBy
<1>24. \A x \in Agent : x # a => t.from[x] \in {None, Own(my, x)}
  BY <1>4, <1>12, <1>19 DEF PassedOn, s
<1>25. Contributed(my, a, t, a) = k /\ \A x \in Agent : x # a => Contributed(my, a, t, x) = Own(my, x)
  BY <1>21 DEF Contributed
<1>26. \A x \in t.apex : \E b \in Agent : Contributed(my, a, t, b) = x
  BY <1>3, <1>19, <1>25 DEF HeldIs
<1>27. net' \in [Agent -> [Agent -> Maybe]]
  BY <1>2, <1>3, <1>4 DEF Maybe
<1>28. ASSUME NEW b \in Agent, NEW x \in Agent
       PROVE  net'[b][x] \in {None, IF b = x THEN None ELSE Contributed(my, a, t, x)}
  <2>1. net[b][x] \in {None, IF b = x THEN None ELSE Own(my, x)}
    BY <1>4 DEF PassedOn
  <2>2. CASE x = a /\ b # a
    BY <1>2, <1>4, <1>25, <2>2
  <2>3. CASE x = a /\ b = a
    BY <1>2, <2>1, <2>3
  <2>4. CASE x # a
    BY <1>2, <1>4, <1>25, <2>1, <2>4
  <2> QED
    BY <2>2, <2>3, <2>4
<1> QED
  BY <1>1, <1>2, <1>17, <1>18, <1>20, <1>22, <1>23, <1>24, <1>26, <1>27, <1>28, PublishKeeps

-----------------------------------------------------------------------------
(* The end of a poll *)

\* A key that is polled with and served is held by the one who contributes it.
LEMMA PolledIsHeld ==
    ASSUME Good, NEW a \in Agent, NEW k \in my[a].apex, Knows(my[a], k)
    PROVE  k \in zone.made /\ \E x \in Agent : Own(my, x) = k /\ k \in ToSet(my[x].rows)
<1>1. k \in Key
  BY OwnEntry, RowsFacts
<1>2. KnownIn(my, reqs, k)
  BY DEF KnownIn
<1>3. PICK x \in Agent : Own(my, x) = k
  BY DEF Good, KeyInv, Owned
<1>4. Backed(my, reqs, zone, x) /\ Own(my, x) # None
  BY <1>1, <1>3, ConstantsAssumption DEF Good, KeyInv
<1>5. k \in ToSet(my[x].rows)
  <2>1. CASE my[x].rows = <<k>>
    BY <2>1 DEF ToSet
  <2> QED
    BY <1>2, <1>3, <1>4, <2>1 DEF Backed
<1>6. k \in zone.made
  BY <1>1, <1>2 DEF Good, KeyInv, Made
<1> QED
  BY <1>3, <1>5, <1>6

LEMMA PollEndsGood ==
    ASSUME Good, NEW a \in Agent, NEW i \in DOMAIN my[a].polls, PollEnds(a, i)
    PROVE  Good'
<1> DEFINE s == my[a]
           k == s.polls[i].key
           p == PollOver(s, i, TRUE)
           t == [p EXCEPT !.trusted = p.trusted \cup {k}]
<1>1. UNCHANGED <<phase, reqs, net, voters>> /\ Shape(s) /\ Over(s) = 0 /\ LeftIs
  BY OwnEntry, GoodFacts DEF PollEnds, Sane
<1>2. \A f \in BOOLEAN : Like(s, PollOver(s, i, f), 0)
  BY <1>1, PollOverLike
<1>3. Like(s, p, 0)
  BY <1>2
<1>4. CASE Changes(a, p) /\ UNCHANGED zone /\ left' \in {left, [left EXCEPT !["refuse"] = left["refuse"] - 1]}
           /\ (left' = left \/ left["refuse"] > 0)
  <2>1. LeftIs'
    BY <1>1, <1>4 DEF LeftIs, Event
  <2> QED
    BY <1>1, <1>3, <1>4, <2>1, StillKeeps DEF Still
<1>5. CASE k \in s.apex /\ Changes(a, t) /\ zone' = [zone EXCEPT !.trusts = zone.trusts \cup {k}] /\ UNCHANGED left
  <2>1. k \in Key
    BY <1>1, <1>5, EntryFields, RowsFacts
  <2>2. Knows(s, k)
    BY DEF Knows
  <2>3. k \in zone.made /\ \E x \in Agent : Own(my, x) = k /\ k \in ToSet(my[x].rows)
    BY <1>5, <2>2, PolledIsHeld
  <2>4. zone \in Zones /\ zone.trusts \subseteq zone.made /\ zone.made \subseteq Key
    BY DEF Good, Types, Around, Zones
  <2>5. zone' \in Zones /\ zone'.made = zone.made /\ zone'.trusts = zone.trusts \cup {k}
    BY <1>5, <2>1, <2>4 DEF Zones
  <2>6. Around' /\ Letters'
    BY <1>1, <1>5, <2>3, <2>4, <2>5 DEF Good, Types, Around, Letters
  <2> HIDE DEF p, k
  <2>7. Fit(t) /\ Plain(p, t)
    <3>1. p \in Entry /\ Shape(p)
      BY <1>3, EntryFields DEF Like
    <3> QED
      BY <2>1, <3>1 DEF Entry, Fit, Plain, Bare, Shape
  <2>8. Changes(a, t)
    BY <1>5
  <2> HIDE DEF t
  <2>9. Like(s, t, 0 + 0)
    BY <1>1, <1>3, <2>7, PlainLike, LikeTwice DEF Like
  <2>10. Sane(t) /\ Tame(s, t) /\ ~Learns(s, t)
    <3>1. Over(t) = 0 + (0 + 0)
      BY <1>1, <2>9 DEF Like
    <3> QED
      BY <2>9, <3>1 DEF Like, Sane
  <2>11. my' = [my EXCEPT ![a] = t] /\ my \in [Agent -> Entry] /\ t \in Entry
         /\ \A b \in Agent : Sane(my[b])
    BY <2>8, <2>10 DEF Changes, Good, Types, AllSane, Sane, Shape
  <2> DEFINE n == my'
             y == zone'
  <2>12. n \in [Agent -> Entry] /\ n[a] = t /\ \A b \in Agent : b # a => n[b] = my[b]
    BY <2>11
  <2>13. AllSane(n)
    BY <2>10, <2>11, <2>12 DEF AllSane
  <2>14. reqs' = reqs /\ net' = net /\ y.made = zone.made /\ y.trusts = zone.trusts \cup {k}
    BY <1>1, <2>5
  <2> HIDE DEF n, y
  <2>15. \A b \in Agent : Tame(my[b], n[b])
    BY <2>10, <2>12 DEF Tame, s
  <2>16. ASSUME NEW x \in Key, KnownIn(n, reqs, x)
         PROVE  KnownIn(my, reqs, x)
    <3>1. CASE \E r \in reqs : r.is = x
      BY <3>1 DEF KnownIn
    <3>2. CASE \E b \in Agent : Knows(n[b], x)
      <4>1. PICK b \in Agent : Knows(n[b], x)
        BY <3>2
      <4>2. Knows(my[b], x)
        BY <2>10, <2>12, <4>1 DEF Learns, s
      <4> QED
        BY <4>2 DEF KnownIn
    <3> QED
      BY <2>16, <3>1, <3>2 DEF KnownIn
  <2>17. Soft(my, n, reqs, reqs, net, net, y, y)
    BY <2>15, <2>16 DEF Soft
  <2>18. KeyInv(my, reqs, net, y)
    <3>1. \A b \in Agent : Backed(my, reqs, y, b)
      BY <2>14 DEF Good, KeyInv, Backed
    <3>2. Trusted(my, y)
      BY <2>3, <2>14 DEF Good, KeyInv, Trusted
    <3>3. Made(my, reqs, y)
      BY <2>14 DEF Good, KeyInv, Made
    <3> QED
      BY <3>1, <3>2, <3>3 DEF Good, KeyInv
  <2>19. KeyInv(n, reqs, net, y)
    BY <2>4, <2>14, <2>17, <2>18, SoftKeeps DEF Good, Types
  <2>20. AllSane(my') /\ KeyInv(my', reqs', net', zone')
    BY <2>13, <2>14, <2>19 DEF n, y
  <2> QED
    BY <2>6, <2>20 DEF Good, Types
<1> QED
  BY <1>4, <1>5 DEF PollEnds

-----------------------------------------------------------------------------
(* The theorems *)

LEMMA FreshIsEntry ==
    /\ Fresh \in Entry /\ Fresh.answers = NoAnswers /\ Fresh.polls = <<>> /\ Fresh.job = NoJob
    /\ ~Fresh.out /\ Fresh.running = 0 /\ Fresh.from = [p \in Agent |-> None]
<1>1. NoJob \in Jobs /\ NoAnswers \in [Agent -> Replies] /\ [key |-> None, hold |-> 0] \in [key : Maybe, hold : Nat]
      /\ None \in Someone
  BY DEF NoJob, Jobs, Maybe, NoAnswers, Replies, Someone
<1>2. <<>> \in Seq(PollRec) /\ 0 \in 0..2 /\ 0 \in Int
  OBVIOUS
<1> QED
  BY <1>1, <1>2, FS_EmptySet DEF Fresh, Entry, Maybe

\* What an agent begins with.
Begins(t, r, p, h, v, l) ==
    \E n \in Nat, w, c \in BOOLEAN :
       t = [Fresh EXCEPT !.rows = r, !.apex = p, !.from[h] = v, !.leader = l,
                         !.hold = n, !.wake = w, !.caughtUp = c]

FirstFacts(t, r, p, h, v) ==
    /\ t \in Entry /\ t.rows = r /\ t.apex = p
    /\ \A x \in Agent : t.from[x] = IF x = h THEN v ELSE None
    /\ t.answers = NoAnswers /\ t.polls = <<>> /\ t.job = NoJob /\ ~t.out /\ t.running = 0

LEMMA FirstEntry ==
    ASSUME NEW r \in Seq(Key), NEW p \in SUBSET Key, NEW h \in Agent, NEW v \in Maybe, NEW l \in Someone,
           NEW t, Begins(t, r, p, h, v, l)
    PROVE  FirstFacts(t, r, p, h, v)
<1> DEFINE f == [Fresh.from EXCEPT ![h] = v]
<1>1. f \in [Agent -> Maybe] /\ \A x \in Agent : f[x] = IF x = h THEN v ELSE None
  BY FreshIsEntry DEF Maybe
<1>2. PICK n \in Nat, w \in BOOLEAN, c \in BOOLEAN :
         t = [Fresh EXCEPT !.rows = r, !.apex = p, !.from[h] = v, !.leader = l,
                           !.hold = n, !.wake = w, !.caughtUp = c]
  BY Zenon DEF Begins
<1>3. t = [Fresh EXCEPT !.rows = r, !.apex = p, !.from = f, !.leader = l,
                        !.hold = n, !.wake = w, !.caughtUp = c]
  BY <1>2 DEF Fresh
<1> HIDE DEF f
<1>4. Fresh \in Entry
  BY FreshIsEntry
<1>5. t \in Entry
  <2> DEFINE x == [Fresh EXCEPT !.rows = r, !.apex = p, !.from = f, !.leader = l, !.hold = n]
  <2>1. x \in Entry
    BY <1>4, <1>1 DEF Entry
  <2>2. t = [x EXCEPT !.wake = w, !.caughtUp = c]
    BY <1>3
  <2> HIDE DEF x
  <2> QED
    BY <2>1, <2>2 DEF Entry
<1>6. t.rows = r /\ t.apex = p /\ t.from = f /\ t.answers = Fresh.answers /\ t.polls = Fresh.polls
      /\ t.job = Fresh.job /\ t.out = Fresh.out /\ t.running = Fresh.running
  BY <1>4, <1>3 DEF Entry
<1> QED
  BY <1>1, <1>5, <1>6, FreshIsEntry DEF FirstFacts

LEMMA InitGood ==
    ASSUME Init
    PROVE  Good
<1>1. PICK sc \in Scenarios :
        LET a == CHOOSE v \in Agent : v \in sc.voters[1]
            k == CHOOSE x \in Key : sc.published \subseteq {x}
        IN
        /\ voters = sc.voters /\ left = sc.mix
        /\ my = [b \in Agent |->
             [Fresh EXCEPT
               !.rows = IF b = sc.holder THEN <<k>> ELSE <<>>,
               !.apex = sc.published,
               !.from[IF sc.holder = None THEN b ELSE sc.holder] = IF sc.published = {} THEN None ELSE k,
               !.leader = a, !.hold = IF a = b THEN 1 ELSE 0, !.wake = a = b, !.caughtUp = sc.mix["behind"] = 0]]
        /\ phase = [b \in Agent |-> 0]
        /\ reqs = {} /\ net = [b \in Agent |-> [c \in Agent |-> None]]
        /\ zone = [won |-> a, terms |-> 1,
                   made |-> sc.published \union (IF sc.holder = None THEN {} ELSE {k}),
                   trusts |-> {}, dsync |-> IF sc.mix["unread"] > 0 THEN "unread" ELSE "update",
                   rolling |-> sc.mix["roll"] > 0]
  BY DEF Init
<1> DEFINE a == CHOOSE v \in Agent : v \in sc.voters[1]
           k == CHOOSE x \in Key : sc.published \subseteq {x}
           v == IF sc.published = {} THEN None ELSE k
           G(b) == IF sc.holder = None THEN b ELSE sc.holder
           R(b) == IF b = sc.holder THEN <<k>> ELSE <<>>
           K == sc.published \union (IF sc.holder = None THEN {} ELSE {k})
           hold(b) == IF a = b THEN 1 ELSE 0
           wake(b) == a = b
           caught == sc.mix["behind"] = 0
           E(b) == [Fresh EXCEPT !.rows = R(b), !.apex = sc.published, !.from[G(b)] = v,
                      !.leader = a, !.hold = hold(b), !.wake = wake(b), !.caughtUp = caught]
<1>2. /\ sc.voters \in [1..2 -> SUBSET Agent] /\ sc.holder \in Someone /\ sc.published \subseteq Key
      /\ sc.mix \in [Event -> Nat] /\ sc.voters[1] # {} /\ \E x \in Key : sc.published \subseteq {x}
  BY ConstantsAssumption DEF Someone
<1>3. a \in Agent /\ k \in Key /\ sc.published \subseteq {k}
  BY <1>2
<1>4. caught \in BOOLEAN /\ \A b \in Agent : hold(b) \in Nat /\ wake(b) \in BOOLEAN
  OBVIOUS
<1>5. my = [b \in Agent |-> E(b)]
  BY <1>1
<1>6. /\ phase = [b \in Agent |-> 0] /\ reqs = {} /\ net = [b \in Agent |-> [c \in Agent |-> None]]
      /\ zone.made = K /\ zone.trusts = {} /\ voters = sc.voters /\ left = sc.mix
  BY <1>1
<1>7. zone \in Zones
  <2>1. K \subseteq Key
    BY <1>2, <1>3
  <2>2. (sc.mix["roll"] > 0) \in BOOLEAN
    OBVIOUS
  <2> HIDE DEF a, k, K
  <2>3. zone = [won |-> a, terms |-> 1, made |-> K, trusts |-> {},
                dsync |-> IF sc.mix["unread"] > 0 THEN "unread" ELSE "update", rolling |-> sc.mix["roll"] > 0]
    BY <1>1 DEF a, k, K
  <2> QED
    BY <1>3, <2>1, <2>2, <2>3 DEF Zones, Someone
<1>8. v \in Maybe /\ (v # None => sc.published = {k} /\ v = k) /\ (v = None => sc.published = {})
  BY <1>3, ConstantsAssumption DEF Maybe
<1>9. IsFiniteSet(sc.published)
  BY <1>3, FS_Singleton, FS_Subset
<1> HIDE DEF a, k, v, hold, wake, caught
<1>10. ASSUME NEW b \in Agent
       PROVE  /\ R(b) \in Seq(Key) /\ IsInjective(R(b)) /\ ToSet(R(b)) = IF b = sc.holder THEN {k} ELSE {}
  BY <1>3 DEF IsInjective, ToSet
<1>11. \A b \in Agent : G(b) \in Agent /\ G(G(b)) = G(b)
  BY <1>2 DEF Someone
<1>12. \A b \in Agent : sc.holder # None => G(b) = sc.holder
  OBVIOUS
<1>13. \A b \in Agent : sc.holder = None => b # sc.holder
  BY ConstantsAssumption
<1> HIDE DEF R, G, E
<1>14. my = [b \in Agent |-> my[b]] /\ \A b \in Agent : my[b] = E(b)
  BY <1>5
<1>15. ASSUME NEW b \in Agent
       PROVE  /\ my[b] \in Entry /\ my[b].rows = R(b) /\ my[b].apex = sc.published
              /\ \A x \in Agent : my[b].from[x] = IF x = G(b) THEN v ELSE None
              /\ my[b].answers = NoAnswers /\ my[b].polls = <<>> /\ my[b].job = NoJob /\ ~my[b].out
              /\ my[b].running = 0
  <2>1. /\ R(b) \in Seq(Key) /\ sc.published \in SUBSET Key /\ G(b) \in Agent /\ a \in Someone
        /\ hold(b) \in Nat /\ wake(b) \in BOOLEAN
    BY <1>2, <1>3, <1>4, <1>10, <1>11 DEF Someone
  <2>2. Begins(my[b], R(b), sc.published, G(b), v, a)
    BY <1>4, <1>14, <2>1, Zenon DEF E, Begins
  <2>3. v \in Maybe
    BY <1>8
  <2>4. FirstFacts(my[b], R(b), sc.published, G(b), v)
    BY <2>1, <2>2, <2>3, FirstEntry
  <2> QED
    BY <2>4 DEF FirstFacts
<1>16. ASSUME NEW b \in Agent
       PROVE  Sane(my[b])
  <2>1. Len(my[b].polls) = 0 /\ my[b].running = 0 /\ Busy(my[b]) = 0
    <3>1. Len(<<>>) = 0 /\ NoJob.at = "idle"
      BY DEF NoJob
    <3> QED
      BY <1>15, <3>1 DEF Busy
  <2>2. \A x, y, z \in Int : x = 0 /\ y = 0 /\ z = 0 => x - y - z = 0
    OBVIOUS
  <2>3. Over(my[b]) = 0
    BY <2>1, <2>2 DEF Over
  <2> QED
    BY <1>9, <1>10, <1>15, <2>3 DEF Sane, Shape
<1>17. AllSane(my)
  <2>1. \A b \in Agent : my[b] \in Entry
    BY <1>15
  <2>2. my \in [Agent -> Entry]
    BY <1>14, <2>1
  <2> QED
    BY <1>16, <2>2 DEF AllSane
<1>18. Around /\ Letters
  BY <1>2, <1>6, <1>7 DEF Around, Letters, Maybe
<1>19. \A b, x \in Agent : my[b].from[x] = IF x = G(b) THEN v ELSE None
  BY <1>15
<1>20. ASSUME NEW x \in Key, KnownIn(my, reqs, x)
       PROVE  x = k /\ sc.holder # None
  <2>1. PICK b \in Agent : Knows(my[b], x)
    BY <1>6, <1>20 DEF KnownIn
  <2>2. \A p \in Agent : my[b].answers[p] # x
    BY <1>15, ConstantsAssumption DEF NoAnswers
  <2>3. x \in ToSet(my[b].rows)
    BY <1>15, <2>1, <2>2 DEF Knows
  <2> QED
    <3>1. x \in (IF b = sc.holder THEN {k} ELSE {})
      BY <1>10, <1>15, <2>3
    <3> QED
      BY <1>13, <3>1
<1>21. ASSUME NEW b \in Agent
       PROVE  Backed(my, reqs, zone, b)
  <2>1. Own(my, b) = IF b = G(b) THEN v ELSE None
    BY <1>19 DEF Own
  <2>2. CASE b = G(b) /\ v # None
    <3>1. Own(my, b) = k /\ my[b].apex = {k}
      BY <1>8, <1>15, <2>1, <2>2
    <3>2. CASE sc.holder = None
      BY <1>3, <1>6, <1>8, <1>20, <2>2, <3>1, <3>2 DEF Backed
    <3>3. CASE sc.holder # None
      <4>1. k \in ToSet(my[b].rows)
        BY <1>10, <1>12, <1>15, <2>2, <3>3
      <4> QED
        BY <3>1, <4>1 DEF Backed
    <3> QED
      BY <3>2, <3>3
  <2> QED
    BY <2>1, <2>2 DEF Backed
<1>22. ASSUME NEW b \in Agent, NEW x \in Agent
       PROVE  PassedOn(my, net, b, x)
  <2>1. net[b][x] = None
    BY <1>6
  <2>2. b # x => my[b].from[x] \in {None, my[x].from[x]}
    BY <1>11, <1>19
  <2> QED
    BY <2>1, <2>2 DEF PassedOn, Own
<1>23. Owned(my)
  <2> SUFFICES ASSUME NEW b \in Agent, NEW x \in my[b].apex
               PROVE  \E c \in Agent : Own(my, c) = x
    BY DEF Owned
  <2>1. x = k /\ v = k
    BY <1>8, <1>15
  <2>2. G(b) \in Agent /\ G(G(b)) = G(b)
    BY <1>11
  <2>3. Own(my, G(b)) = v
    BY <1>19, <2>2 DEF Own
  <2> QED
    BY <2>1, <2>2, <2>3
<1>24. Trusted(my, zone) /\ Unspoken(my)
  <2>1. \A b \in Agent : ~Making(my[b])
    <3>1. NoJob.told = FALSE /\ NoJob.at = "idle"
      BY DEF NoJob
    <3> QED
      BY <1>15, <3>1 DEF Making
  <2> QED
    BY <1>6, <2>1 DEF Trusted, Unspoken
<1>25. Made(my, reqs, zone)
  BY <1>6, <1>20 DEF Made
<1>26. KeyInv(my, reqs, net, zone)
  BY <1>21, <1>22, <1>23, <1>24, <1>25 DEF KeyInv
<1> QED
  BY <1>17, <1>18, <1>26 DEF Good, Types

LEMMA StutterGood ==
    ASSUME Good, UNCHANGED vars
    PROVE  Good'
<1>1. zone \in Zones
  BY DEF Good, Types, Around
<1> QED
  BY <1>1, ZoneKeeps DEF vars

LEMMA NextGood ==
    ASSUME Good, [Next]_vars
    PROVE  Good'
<1>1. ASSUME NEW a \in Agent, Check(a) \/ StartKeyRound(a) \/ Decide(a)
      PROVE  Good'
  BY <1>1, CheckGood, StartKeyRoundGood, StartOverGood, DecideHeldGood, ImportKeyGood, DecideNoneGood DEF Decide
<1>2. ASSUME NEW a \in Agent, Job(a) \/ LeaderKeySetup(a) \/ Poll(a)
      PROVE  Good'
  BY <1>2, MakeGood, LeadMovedGood, PublishHeldGood, PublishZoneKeyGood, LeaderKeySetupGood,
     PollStartsGood, PollEndsGood DEF Job, Poll
<1>3. ASSUME NEW a \in Agent,
             Refresh(a) \/ Elect(a) \/ Learn(a) \/ Renew(a) \/ Transition(a) \/ RolloverEnds(a)
               \/ BecomeCaughtUp(a) \/ Crash(a)
      PROVE  Good'
  BY <1>3, RefreshGood, ElectGood, LearnGood, RenewGood, TransitionGood, ZoneStepsGood,
     BecomeCaughtUpGood, CrashGood
<1>4. CASE Messages
  BY <1>4, AnswerGood, KeyRecordGood, TakeKeyGood DEF Messages
<1>5. CASE (\E r \in reqs : Silent(r)) \/ ParentRead
  BY <1>5, SilentGood, ZoneStepsGood
<1>6. CASE UNCHANGED vars
  BY <1>6, StutterGood
<1> QED
  BY <1>1, <1>2, <1>3, <1>4, <1>5, <1>6 DEF Next

LEMMA AlwaysGood == Spec => []Good
<1>1. Init => Good
  BY InitGood
<1>2. Good /\ [Next]_vars => Good'
  BY NextGood
<1> QED
  BY <1>1, <1>2, PTL DEF Spec

\* The types hold throughout, and the book of the polls counts what runs: a
\* sync is held while a poll or a set-up that may start one goes on, and not
\* after (keyPollBook, key_hold.go).
THEOREM TypeCorrect == Spec => []TypeOK
<1>1. Good => TypeOK
  <2> SUFFICES ASSUME Good
               PROVE  TypeOK
    OBVIOUS
  <2>1. ASSUME NEW a \in Agent
        PROVE  LET s == my[a] IN
                 /\ s.rows \in Seq(Key) /\ IsInjective(s.rows) /\ s.apex \subseteq Key /\ s.trusted \subseteq Key
                 /\ s.leader \in Agent \union {None} /\ s.from \in [Agent -> Key \union {None}]
                 /\ s.answers \in [Agent -> Words \union Key \union {"-", "out"}]
                 /\ s.out => s.here
    BY GoodFacts DEF Shape, Entry, Someone, Maybe, Replies
  <2>2. ASSUME NEW a \in Agent
        PROVE  my[a].running = Len(my[a].polls) + (IF my[a].job.at = "idle" THEN 0 ELSE 1)
    <3>1. Over(my[a]) = 0 /\ my[a].running \in Int /\ Len(my[a].polls) \in Int /\ Busy(my[a]) \in Int
      BY GoodFacts, EntryFields, OverType DEF Sane
    <3>2. \A x, y, z \in Int : x - y - z = 0 => x = y + z
      OBVIOUS
    <3>3. my[a].running = Len(my[a].polls) + Busy(my[a])
      BY <3>1, <3>2 DEF Over
    <3> QED
      BY <3>3 DEF Busy
  <2>3. phase \in [Agent -> 0..3] /\ zone.trusts \subseteq zone.made /\ zone.made \subseteq Key
    BY DEF Good, Types, Around, Zones
  <2> QED
    BY <2>1, <2>2, <2>3 DEF TypeOK
<1> QED
  BY <1>1, AlwaysGood, PTL

\* A key the parent trusts stays with a member, whatever is retired
\* (retireOtherActiveKeys, zone_key.go), deleted for a lead lost
\* (dropKeyMadeForALostLead, parentsync_leader.go), refused, lost on its way
\* or cut off by a restart.
THEOREM TrustedStays == Spec => []TrustedKeyIsHeld
<1>1. Good => TrustedKeyIsHeld
  BY DEF Good, KeyInv, Trusted, TrustedKeyIsHeld
<1> QED
  BY <1>1, AlwaysGood, PTL

=============================================================================
