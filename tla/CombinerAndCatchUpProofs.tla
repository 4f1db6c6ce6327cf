---------------------- MODULE CombinerAndCatchUpProofs ----------------------
(***************************************************************************)
(* Proofs about Combiner, for any agents, types, records, sets handed and  *)
(* events.  What the zone serves is the merge because a combine that began *)
(* too early is followed by another, or the merge is known to be behind;   *)
(* and because a type whose last contribution went is due for a clean-up   *)
(* until some combine that saw it go has made it.                          *)
(*                                                                         *)
(* Proofs about CatchUp follow, for any providers, records, scenarios and  *)
(* bounds.  An agent and its combiner hold the same of every set that is   *)
(* not on its way between them because a set the engine changed, or the    *)
(* combiner confirmed, since an own read went out is not taken from its    *)
(* answer; and the answer holds what the combiner does of every other.     *)
(***************************************************************************)
EXTENDS Combiner, CatchUp, FiniteSetTheorems, SequenceTheorems, WellFoundedInduction, TLAPS

-----------------------------------------------------------------------------
(* The types *)

Contributions == [Sender -> RRsets]
Copy == [merged : RRsets, upstream : RRsets, applies : SUBSET Type]
Staged(p) == at[p] = "stage"
\* combineMu: one combine at a time is between its copy and its end.
Alone == \A p, q \in Proc : Staged(p) /\ Staged(q) => p = q

IsWord(w) == w[1] \in Sender /\ w[2] \in Type /\ w[3] \in SUBSET Record

DataTypes ==
    /\ contrib \in Contributions /\ disk \in Contributions
    /\ merged \in RRsets /\ loaded \in BOOLEAN
ZoneTypes ==
    /\ served \in RRsets /\ upstream \in Upstreams
    /\ cleanups \in SUBSET Type /\ missed \in SUBSET Type /\ behind \in BOOLEAN
WorkTypes ==
    /\ at \in [Proc -> {"idle", "combine", "stage"}]
    /\ copy \in [Proc -> Copy]
    /\ \A p \in Proc : at[p] # "stage" => copy[p] = NoCopy
    /\ Alone
OrderTypes ==
    /\ handed \in Serial /\ owed \in {"no", "now", "again"} /\ manual \in BOOLEAN
    /\ edits \in [{"pending", "approved"} -> SUBSET Edit]
    /\ events \in 0..MaxEvents
WordTypes ==
    /\ \A w \in said : IsWord(w)
    /\ \A w \in past : IsWord(w)
    /\ unsaved \in SUBSET (Sender \X Type)

Typed == DataTypes /\ ZoneTypes /\ WorkTypes /\ OrderTypes /\ WordTypes

-----------------------------------------------------------------------------
(* The sets and the operators *)

LEMMA AgentsSend == Agent \subseteq Sender /\ Self \in Sender /\ "local" \in Sender /\ Mine \in Agent
BY AgentAssumption DEF Sender

LEMMA ZeroIsSerial == 0 \in Serial
BY StandingAssumption DEF Serial

LEMMA InUnion == \A S : \A x \in S : x \subseteq UNION S
OBVIOUS

LEMMA UpstreamIsSets == \A u \in Upstreams : u \in RRsets
<1> DEFINE theirs == {u[t] : u \in Upstreams, t \in Type}
<1>0. UNION theirs \subseteq Record
  BY DEF Record
<1>1. \A w \in theirs : w \subseteq Record
  <2> HIDE DEF theirs
  <2> QED BY <1>0, InUnion
<1>2. \A v \in Upstreams, x \in Type : v[x] \subseteq Record
  BY <1>1
<1>3. \A v \in Upstreams : v = [t \in Type |-> v[t]]
  BY UpstreamAssumption
<1> QED BY <1>2, <1>3 DEF RRsets

LEMMA RecordsAreRecords == \A t \in Type : RecordOf[t] \subseteq Record
BY DEF Record

LEMMA EmptyIsSets == Empty \in RRsets
BY DEF Empty, RRsets

LEMMA NothingCopied == NoCopy \in Copy
BY EmptyIsSets DEF NoCopy, Copy

\* Some CSYNC is served where there is one (csyncToServe).
LEMMA CsyncIsHeld ==
    ASSUME NEW c \in Contributions, CsyncsHeld(c) # {}
    PROVE  CsyncToServe(c) \in CsyncsHeld(c)
BY DEF CsyncToServe

LEMMA MergeIsSets ==
    ASSUME NEW c \in Contributions, NEW h
    PROVE  RebuildCombinerData(c, h) \in RRsets
<1> DEFINE M == RebuildCombinerData(c, h)
<1> SUFFICES ASSUME NEW t \in Type PROVE M[t] \subseteq Record
  BY DEF RebuildCombinerData, RRsets
<1>1. \A s \in Sender : c[s][t] \subseteq Record
  BY DEF Contributions, RRsets
<1>2. CASE t = "CSYNC"
  <2>1. CASE CsyncsHeld(c) = {}
    BY <1>2, <2>1 DEF RebuildCombinerData
  <2>2. CASE CsyncsHeld(c) # {}
    <3>1. CsyncToServe(c) \in CsyncsHeld(c)
      BY <2>2, CsyncIsHeld
    <3>2. PICK s \in Sender : \E n \in c[s]["CSYNC"] : CsyncToServe(c) = [sender |-> s, serial |-> n]
      BY <3>1 DEF CsyncsHeld
    <3>3. CsyncToServe(c).serial \in c[s]["CSYNC"]
      BY <3>2
    <3> QED BY <1>1, <1>2, <2>2, <3>3 DEF RebuildCombinerData
  <2> QED BY <2>1, <2>2
<1>3. CASE t # "CSYNC"
  <2>1. M[t] = UNION {c[s][t] : s \in {x \in Sender : HandedOrigin(h, x, t)}}
    BY <1>3 DEF RebuildCombinerData
  <2> HIDE DEF M
  <2> QED BY <1>1, <2>1
<1> QED BY <1>2, <1>3

\* The merge of a type is by what is contributed of the type.
LEMMA MergeIsByType ==
    ASSUME NEW c, NEW d, NEW h, NEW t \in Type, \A s \in Sender : c[s][t] = d[s][t]
    PROVE  RebuildCombinerData(c, h)[t] = RebuildCombinerData(d, h)[t]
<1>1. CASE t = "CSYNC"
  <2>1. CsyncsHeld(c) = CsyncsHeld(d)
    BY <1>1 DEF CsyncsHeld
  <2>2. CsyncToServe(c) = CsyncToServe(d)
    BY <2>1 DEF CsyncToServe
  <2> QED BY <1>1, <2>1, <2>2 DEF RebuildCombinerData
<1>2. CASE t # "CSYNC"
  <2>1. {c[s][t] : s \in {x \in Sender : HandedOrigin(h, x, t)}}
      = {d[s][t] : s \in {x \in Sender : HandedOrigin(h, x, t)}}
    OBVIOUS
  <2> QED BY <1>2, <2>1 DEF RebuildCombinerData
<1> QED BY <1>1, <1>2

LEMMA DraftIsSets ==
    ASSUME NEW u \in Upstreams, NEW m \in RRsets, NEW h
    PROVE  OnDraft(u, m, h) \in RRsets
<1>1. u \in RRsets
  BY UpstreamIsSets
<1> QED BY <1>1 DEF OnDraft, RRsets

LEMMA CombinedIsSets ==
    ASSUME NEW in \in Copy, NEW due, served \in RRsets
    PROVE  Combined(in, due) \in RRsets
<1>1. in.merged \in RRsets /\ in.upstream \in RRsets
  BY DEF Copy
<1> QED BY <1>1 DEF Combined, AsUpstream, RRsets

LEMMA SavedIsContributions ==
    ASSUME NEW c \in Contributions, NEW ok, disk \in Contributions
    PROVE  SavedBy(c, ok) \in Contributions
BY DEF SavedBy, Contributions

LEMMA LeftOutAreTypes == \A c, h : LeftOut(c, h) \in SUBSET Type
BY DEF LeftOut

LEMMA WithIsContributions ==
    ASSUME contrib \in Contributions, NEW s \in Sender, NEW t \in Type, NEW R \in SUBSET Record
    PROVE  With(s, t, R) \in Contributions
BY DEF With, Contributions, RRsets
-----------------------------------------------------------------------------
(* What a change of the contributions is *)

\* The contributions as they were, perhaps with more to clean up.
Kept ==
    /\ UNCHANGED <<contrib, merged, disk, missed, behind, at>>
    /\ cleanups' \in SUBSET Type /\ cleanups \subseteq cleanups'

\* Others in memory, saved by those who can, and combined by p or left.
Altered(p) ==
    \E c \in Contributions, ok \in SUBSET Sender, noted \in SUBSET Type, combines \in BOOLEAN :
      Change(c, ok) /\ NoteCleanups(c, noted) /\ ThenCombine(p, combines)

\* The words there are then: those there were, and new ones of the same type.
WordsGo ==
    /\ \A w \in said' : w \in said \/ IsWord(w)
    /\ \A w \in past' : w \in past \/ w \in said
    /\ unsaved' \in SUBSET (Sender \X Type)

LEMMA ChangeAlters ==
    ASSUME NEW p, NEW c \in Contributions, NEW ok \in SUBSET Sender, NEW noted \in SUBSET Type, NEW combines \in BOOLEAN,
           Change(c, ok), NoteCleanups(c, noted), ThenCombine(p, combines)
    PROVE  Altered(p)
BY DEF Altered

LEMMA ChangedAreTypes == \A c : Changed(c) \in SUBSET Type
BY DEF Changed

LEMMA AnswerGoes ==
    ASSUME NEW s \in Sender, NEW t \in Type, NEW words, NEW dropped,
           \A w \in words : IsWord(w), Answer(s, t, words, dropped)
    PROVE  /\ \A w \in said' : w \in said \/ IsWord(w)
           /\ \A w \in past' : w \in past \/ w \in said
BY DEF Answer

LEMMA WordIsWord ==
    ASSUME NEW s \in Sender, NEW t \in Type, NEW R \in SUBSET Record
    PROVE  IsWord(<<s, t, R>>)
BY DEF IsWord

LEMMA ToldGoes ==
    ASSUME NEW s \in Sender, NEW t \in Type, NEW R \in SUBSET Record, Told(s, t, R) \/ NotTold(s, t)
    PROVE  /\ \A w \in said' : w \in said \/ IsWord(w)
           /\ \A w \in past' : w \in past \/ w \in said
<1>1. CASE Told(s, t, R)
  <2>1. \A w \in {<<s, t, R>>} : IsWord(w)
    BY WordIsWord
  <2> QED BY <1>1, <2>1, AnswerGoes DEF Told
<1>2. CASE NotTold(s, t)
  BY <1>2, AnswerGoes DEF NotTold
<1> QED BY <1>1, <1>2

LEMMA NothingIsKept ==
    ASSUME NothingChanges, cleanups \in SUBSET Type
    PROVE  Kept
BY DEF NothingChanges, Kept

LEMMA AddAlters ==
    ASSUME NEW p \in Proc, NEW s \in Sender, NEW t \in Type, NEW R \in SUBSET Record, NEW ok \in SUBSET Sender,
           DataTypes, Add(p, s, t, R, ok)
    PROVE  /\ Altered(p)
           /\ \A w \in said' : w \in said \/ IsWord(w)
           /\ \A w \in past' : w \in past \/ w \in said
<1> DEFINE c == With(s, t, contrib[s][t] \cup R)
           combines == c # contrib /\ s \in ok /\ (p = "api" \/ t \in Applies)
<1>1. contrib[s][t] \cup R \in SUBSET Record
  BY DEF DataTypes, Contributions, RRsets
<1>2. c \in Contributions
  BY <1>1, WithIsContributions DEF DataTypes
<1>3. Change(c, ok) /\ NoteCleanups(c, {}) /\ ThenCombine(p, combines)
  BY DEF Add
<1>4. Told(s, t, c[s][t]) \/ NotTold(s, t)
  BY DEF Add
<1>5. c[s][t] \in SUBSET Record
  BY <1>2 DEF Contributions, RRsets
<1>6. combines \in BOOLEAN
  OBVIOUS
<1> HIDE DEF c, combines
<1>7. Altered(p)
  BY <1>2, <1>3, <1>6, ChangeAlters
<1> QED BY <1>4, <1>5, <1>7, ToldGoes

LEMMA DeleteAlters ==
    ASSUME NEW s \in Sender, NEW t \in Type, NEW R \in SUBSET Record, NEW ok \in SUBSET Sender,
           DataTypes, Delete(s, t, R, ok)
    PROVE  /\ Altered("loop")
           /\ \A w \in said' : w \in said \/ IsWord(w)
           /\ \A w \in past' : w \in past \/ w \in said
<1> DEFINE c == With(s, t, contrib[s][t] \ R)
           combines == c # contrib /\ s \in ok /\ t \in Applies
           noted == IF s \in ok THEN Changed(c) ELSE {}
<1>1. contrib[s][t] \ R \in SUBSET Record
  BY DEF DataTypes, Contributions, RRsets
<1>2. c \in Contributions
  BY <1>1, WithIsContributions DEF DataTypes
<1>3. Change(c, ok) /\ NoteCleanups(c, noted) /\ ThenCombine("loop", combines)
  BY DEF Delete
<1>4. Told(s, t, c[s][t]) \/ NotTold(s, t)
  BY DEF Delete
<1>5. c[s][t] \in SUBSET Record
  BY <1>2 DEF Contributions, RRsets
<1>6. combines \in BOOLEAN /\ noted \in SUBSET Type
  BY ChangedAreTypes
<1> HIDE DEF c, combines, noted
<1>7. Altered("loop")
  BY <1>2, <1>3, <1>6, ChangeAlters
<1> QED BY <1>4, <1>5, <1>7, ToldGoes

LEMMA DuplicateAltersOrKeeps ==
    ASSUME NEW s \in Sender, NEW t \in Type, NEW R \in SUBSET Record, NEW ok \in SUBSET Sender,
           DataTypes, cleanups \in SUBSET Type, Duplicate(s, t, R, ok)
    PROVE  /\ Kept \/ Altered("loop")
           /\ \A w \in said' : w \in said \/ IsWord(w)
           /\ \A w \in past' : w \in past \/ w \in said
<1> DEFINE c == With(s, t, {})
           combines == Changed(c) # {} /\ t \in Applies
<1>1. c \in Contributions
  BY WithIsContributions DEF DataTypes
<1>2. NotTold(s, t)
  BY DEF Duplicate
<1>3. \/ Change(c, ok) /\ NoteCleanups(c, Changed(c)) /\ ThenCombine("loop", combines)
      \/ /\ cleanups' = cleanups \cup {t} \cup LeftOut(contrib, handed)
         /\ UNCHANGED <<contrib, merged, disk, missed, behind, at>>
  BY DEF Duplicate
<1>4. combines \in BOOLEAN /\ Changed(c) \in SUBSET Type
  BY ChangedAreTypes
<1> HIDE DEF c, combines
<1>5. Kept \/ Altered("loop")
  BY <1>1, <1>3, <1>4, LeftOutAreTypes, ChangeAlters DEF Kept
<1>6. {} \in SUBSET Record
  OBVIOUS
<1> QED BY <1>2, <1>5, <1>6, ToldGoes

LEMMA DroppedAreSenders ==
    ASSUME NEW s, NEW t, NEW o \in Existing(s, t), NEW R, NEW saved
    PROVE  Dropped(s, o, t, R, saved) \subseteq Sender
<1>1. o \in Sender \/ o = Nobody
  BY DEF Existing
<1>2. \A x \in CsyncsHeld(contrib) : x.sender \in Sender
  BY DEF CsyncsHeld
<1> QED BY <1>1, <1>2 DEF Dropped, SameAs

\* What the contributions are after a REPLACE.
Replaced(s, t, R, drop) ==
    [x \in Sender |-> IF x = s THEN [contrib[s] EXCEPT ![t] = R]
                      ELSE IF x \in drop THEN [contrib[x] EXCEPT ![t] = {}]
                      ELSE contrib[x]]

LEMMA ReplacedIsContributions ==
    ASSUME NEW s \in Sender, NEW t \in Type, NEW R \in SUBSET Record, NEW drop, DataTypes
    PROVE  Replaced(s, t, R, drop) \in Contributions
<1>1. ASSUME NEW x \in Sender PROVE Replaced(s, t, R, drop)[x] \in RRsets
  <2>1. contrib[s] \in RRsets /\ contrib[x] \in RRsets
    BY DEF DataTypes, Contributions
  <2>2. [contrib[s] EXCEPT ![t] = R] \in RRsets /\ [contrib[x] EXCEPT ![t] = {}] \in RRsets
    BY <2>1 DEF RRsets
  <2> QED BY <2>1, <2>2 DEF Replaced
<1> QED BY <1>1 DEF Replaced, Contributions

LEMMA ReplaceAlters ==
    ASSUME NEW s \in Sender, NEW t \in Type, NEW o \in Existing(s, t), NEW R \in SUBSET Record, NEW ok \in SUBSET Sender,
           DataTypes, Replace(s, o, t, R, ok)
    PROVE  /\ Altered("loop")
           /\ \A w \in said' : w \in said \/ IsWord(w)
           /\ \A w \in past' : w \in past \/ w \in said
<1> DEFINE saved == s \in ok \/ contrib[s][t] = R
           drop == Dropped(s, o, t, R, saved)
           c == Replaced(s, t, R, drop)
           combines == saved /\ t \in Applies /\ DropsOrTakes(s, t, R, drop, ok)
           words == IF saved THEN {<<s, t, R>>} ELSE {}
<1>1. c \in Contributions
  BY ReplacedIsContributions
<1>2. Change(c, ok) /\ NoteCleanups(c, Changed(c)) /\ ThenCombine("loop", combines)
  BY DEF Replace, Replaced
<1>3. Answer(s, t, words, drop)
  BY DEF Replace
<1>4. combines \in BOOLEAN /\ Changed(c) \in SUBSET Type
  BY ChangedAreTypes
<1>5. \A w \in words : IsWord(w)
  BY WordIsWord
<1> HIDE DEF c, combines, words, drop
<1>6. Altered("loop")
  BY <1>1, <1>2, <1>4, ChangeAlters
<1> QED BY <1>3, <1>5, <1>6, AnswerGoes

LEMMA TakeReplaceAltersOrKeeps ==
    ASSUME NEW s \in Sender, NEW t \in Type, NEW R \in SUBSET Record, NEW ok \in SUBSET Sender,
           DataTypes, cleanups \in SUBSET Type, TakeReplace(s, t, R, ok)
    PROVE  /\ Kept \/ Altered("loop")
           /\ \A w \in said' : w \in said \/ IsWord(w)
           /\ \A w \in past' : w \in past \/ w \in said
<1>1. PICK o \in Existing(s, t) :
        Duplicate(s, t, R, ok) \/ (NotTold(s, t) /\ NothingChanges) \/ Replace(s, o, t, R, ok)
  BY DEF TakeReplace
<1>2. CASE Duplicate(s, t, R, ok)
  BY <1>2, DuplicateAltersOrKeeps
<1>3. CASE NotTold(s, t) /\ NothingChanges
  BY <1>3, NothingIsKept, ToldGoes
<1>4. CASE Replace(s, o, t, R, ok)
  BY <1>4, ReplaceAlters
<1> QED BY <1>1, <1>2, <1>3, <1>4

LEMMA ExcusedArePairs ==
    ASSUME NEW ok, Excused(ok)
    PROVE  unsaved' \in SUBSET (Sender \X Type)
BY DEF Excused

LEMMA SavesAreSenders == Saves \subseteq SUBSET Sender
BY AgentsSend DEF Saves

LEMMA UpdateAltersOrKeeps ==
    ASSUME NEW s \in Sender, NEW t \in Type, NEW op, NEW R \in SUBSET Record, NEW ok \in SUBSET Sender,
           DataTypes, cleanups \in SUBSET Type, CombinerProcessUpdate(s, t, op, R, ok)
    PROVE  (Kept \/ Altered("loop")) /\ WordsGo
<1>1. \/ NotTold(s, t) /\ NothingChanges
      \/ TakeReplace(s, t, R, ok) \/ Add("loop", s, t, R, ok) \/ Delete(s, t, R, ok)
  BY DEF CombinerProcessUpdate
<1>2. unsaved' \in SUBSET (Sender \X Type)
  BY ExcusedArePairs DEF CombinerProcessUpdate
<1>3. CASE NotTold(s, t) /\ NothingChanges
  BY <1>2, <1>3, NothingIsKept, ToldGoes DEF WordsGo
<1>4. CASE TakeReplace(s, t, R, ok)
  BY <1>2, <1>4, TakeReplaceAltersOrKeeps DEF WordsGo
<1>5. CASE Add("loop", s, t, R, ok)
  <2>1. "loop" \in Proc
    BY DEF Proc
  <2> QED BY <1>2, <1>5, <2>1, AddAlters DEF WordsGo
<1>6. CASE Delete(s, t, R, ok)
  BY <1>2, <1>6, DeleteAlters DEF WordsGo
<1> QED BY <1>1, <1>3, <1>4, <1>5, <1>6

EditsTypes == edits \in [{"pending", "approved"} -> SUBSET Edit]

LEMMA NoWordGoes ==
    ASSUME UNCHANGED <<said, past, unsaved>>, WordTypes
    PROVE  WordsGo
BY DEF WordsGo, WordTypes

\* Whatever an update is taken as, it is one of these.
LEMMA TakeUpdateForms ==
    ASSUME NEW s \in Agent, NEW t \in Type, NEW op, NEW R \in SUBSET Record, Typed, TakeUpdate(s, t, op, R)
    PROVE  (Kept \/ Altered("loop")) /\ WordsGo /\ EditsTypes'
<1>0. s \in Sender /\ DataTypes /\ cleanups \in SUBSET Type /\ EditsTypes /\ WordTypes
  BY AgentsSend DEF Typed, ZoneTypes, OrderTypes, EditsTypes
<1>1. CASE ~manual
  <2>1. PICK ok \in Saves : CombinerProcessUpdate(s, t, op, R, ok)
    BY <1>1 DEF TakeUpdate
  <2>2. ok \in SUBSET Sender
    BY SavesAreSenders
  <2>3. EditsTypes'
    BY <1>0, <2>1 DEF CombinerProcessUpdate, EditsTypes
  <2> QED BY <1>0, <2>1, <2>2, <2>3, UpdateAltersOrKeeps
<1>2. CASE manual
  <2>1. AwaitsApproval(s, t, op, R)
    BY <1>2 DEF TakeUpdate
  <2>2. Kept
    BY <1>0, <2>1, NothingIsKept DEF AwaitsApproval
  <2>3. CASE UNCHANGED <<said, past, edits>>
    BY <1>0, <2>1, <2>2, <2>3, NoWordGoes DEF AwaitsApproval, EditsTypes
  <2>4. CASE /\ edits' = [edits EXCEPT !["pending"] = @ \cup {[sender |-> s, type |-> t, records |-> R]}]
             /\ NotTold(s, t)
    <3>1. [sender |-> s, type |-> t, records |-> R] \in Edit
      BY DEF Edit
    <3>2. EditsTypes'
      BY <1>0, <2>4, <3>1 DEF EditsTypes
    <3>3. /\ \A w \in said' : w \in said \/ IsWord(w)
          /\ \A w \in past' : w \in past \/ w \in said
      BY <1>0, <2>4, ToldGoes
    <3>4. unsaved' = unsaved
      BY <2>1 DEF AwaitsApproval
    <3> QED BY <1>0, <2>2, <3>2, <3>3, <3>4 DEF WordsGo, WordTypes
  <2> QED BY <2>1, <2>3, <2>4 DEF AwaitsApproval
<1> QED BY <1>1, <1>2

-----------------------------------------------------------------------------
(* Every step keeps the types *)

LEMMA WordsStayWords ==
    ASSUME WordTypes, WordsGo
    PROVE  WordTypes'
BY DEF WordTypes, WordsGo, IsWord

LEMMA EventsCount ==
    ASSUME NEW e, events \in 0..MaxEvents, Happens(e)
    PROVE  events' \in 0..MaxEvents
BY BoundAssumption DEF Happens

LEMMA IdleIsNotStaged ==
    ASSUME NEW p \in Proc, WorkTypes, NEW w \in {"idle", "combine"}, at' = [at EXCEPT ![p] = w],
           copy' = copy, at[p] # "stage"
    PROVE  WorkTypes'
<1>1. \A q \in Proc : at'[q] = (IF q = p THEN w ELSE at[q])
  BY DEF WorkTypes
<1>2. \A q \in Proc : at'[q] = "stage" => at[q] = "stage"
  BY <1>1
<1>3. \A q \in Proc : at'[q] # "stage" => at[q] # "stage"
  BY <1>1
<1>4. at' \in [Proc -> {"idle", "combine", "stage"}]
  BY DEF WorkTypes
<1>5. Alone'
  BY <1>2 DEF WorkTypes, Alone, Staged
<1> QED BY <1>3, <1>4, <1>5 DEF WorkTypes

\* A change by p of what is contributed keeps the types.
LEMMA ChangeKeepsTypes ==
    ASSUME Typed, NEW p \in Proc, at[p] = "idle", Kept \/ Altered(p), WordsGo, EditsTypes',
           UNCHANGED <<loaded, upstream, served, copy, handed, owed, manual>>,
           events' \in 0..MaxEvents
    PROVE  Typed'
<1>1. WordTypes'
  BY WordsStayWords DEF Typed
<1>2. OrderTypes'
  BY DEF Typed, OrderTypes, EditsTypes
<1>3. CASE Kept
  BY <1>1, <1>2, <1>3 DEF Typed, Kept, DataTypes, ZoneTypes, WorkTypes, Alone, Staged
<1>4. CASE Altered(p)
  <2>1. PICK c \in Contributions, ok \in SUBSET Sender, noted \in SUBSET Type, combines \in BOOLEAN :
          Change(c, ok) /\ NoteCleanups(c, noted) /\ ThenCombine(p, combines)
    BY <1>4 DEF Altered
  <2>2. DataTypes'
    BY <2>1, MergeIsSets, SavedIsContributions DEF Change, Typed, DataTypes
  <2>3. cleanups' \in SUBSET Type
    BY <2>1, LeftOutAreTypes DEF NoteCleanups, Typed, ZoneTypes
  <2>4. missed' \in SUBSET Type
    BY <2>1, ChangedAreTypes DEF NoteCleanups, Typed, ZoneTypes
  <2>5. behind' \in BOOLEAN
    BY <2>1 DEF ThenCombine
  <2>6. ZoneTypes'
    BY <2>3, <2>4, <2>5 DEF Typed, ZoneTypes
  <2>7. WorkTypes'
    <3>1. at' = [at EXCEPT ![p] = "combine"] \/ at' = [at EXCEPT ![p] = "idle"]
      BY <2>1 DEF ThenCombine
    <3> QED BY <3>1, IdleIsNotStaged DEF Typed
  <2> QED BY <1>1, <1>2, <2>2, <2>6, <2>7 DEF Typed
<1> QED BY <1>3, <1>4

LEMMA UpdateTypes ==
    ASSUME Typed, NEW s \in Agent, NEW t \in Type, NEW op, NEW R \in SUBSET Record, TakeUpdate(s, t, op, R)
    PROVE  Typed'
<1>1. (Kept \/ Altered("loop")) /\ WordsGo /\ EditsTypes'
  BY TakeUpdateForms
<1>2. events' \in 0..MaxEvents
  BY EventsCount DEF TakeUpdate, Typed, OrderTypes
<1>3. "loop" \in Proc /\ at["loop"] = "idle"
  BY DEF Proc, TakeUpdate
<1>4. UNCHANGED <<loaded, upstream, served, copy, handed, owed, manual>>
  BY DEF TakeUpdate
<1> QED BY <1>1, <1>2, <1>3, <1>4, ChangeKeepsTypes

LEMMA ApiAddForms ==
    ASSUME Typed, NEW t \in Type, NEW R \in SUBSET Record, ApiAdd(t, R)
    PROVE  Altered("api") /\ WordsGo /\ EditsTypes'
<1>1. PICK ok \in Saves : Add("api", "local", t, R, ok) /\ Excused(ok)
  BY DEF ApiAdd
<1>2. "api" \in Proc /\ "local" \in Sender /\ ok \in SUBSET Sender
  BY AgentsSend, SavesAreSenders DEF Proc
<1>3. EditsTypes'
  BY DEF Typed, OrderTypes, EditsTypes, ApiAdd
<1>4. DataTypes
  BY DEF Typed
<1> QED BY <1>1, <1>2, <1>3, <1>4, AddAlters, ExcusedArePairs DEF WordsGo

LEMMA ApiAddTypes ==
    ASSUME Typed, NEW t \in Type, NEW R \in SUBSET Record, ApiAdd(t, R)
    PROVE  Typed'
<1>1. Altered("api") /\ WordsGo /\ EditsTypes'
  BY ApiAddForms
<1>2. events' \in 0..MaxEvents
  BY EventsCount DEF ApiAdd, Typed, OrderTypes
<1>3. "api" \in Proc /\ at["api"] = "idle"
  BY DEF Proc, ApiAdd
<1>4. UNCHANGED <<loaded, upstream, served, copy, handed, owed, manual>>
  BY DEF ApiAdd
<1> QED BY <1>1, <1>2, <1>3, <1>4, ChangeKeepsTypes

Purged(s) == [contrib EXCEPT ![s] = Empty]

LEMMA PurgedIsContributions ==
    ASSUME DataTypes, NEW s \in Sender
    PROVE  Purged(s) \in Contributions
BY EmptyIsSets DEF Purged, DataTypes, Contributions

LEMMA PurgeForms ==
    ASSUME Typed, NEW s \in Sender, Purge(s)
    PROVE  Altered("api") /\ WordsGo /\ EditsTypes'
<1> DEFINE c == Purged(s)
<1>1. PICK ok \in Saves :
        /\ Change(c, ok)
        /\ NoteCleanups(c, IF s \in ok THEN Changed(c) ELSE {})
        /\ ThenCombine("api", s \in ok)
        /\ said' = {w \in said : w[1] # s} /\ past' = {}
        /\ Excused(ok)
  BY DEF Purge, Purged
<1>2. ok \in SUBSET Sender /\ c \in Contributions
  BY SavesAreSenders, PurgedIsContributions DEF Typed
<1>3. EditsTypes'
  BY DEF Typed, OrderTypes, EditsTypes, Purge
<1> DEFINE noted == IF s \in ok THEN Changed(c) ELSE {}
           combines == s \in ok
<1>4. noted \in SUBSET Type /\ combines \in BOOLEAN
  BY ChangedAreTypes
<1>5. Change(c, ok) /\ NoteCleanups(c, noted) /\ ThenCombine("api", combines)
  BY <1>1
<1> HIDE DEF noted, combines, c
<1>6. Altered("api")
  BY <1>2, <1>4, <1>5, ChangeAlters
<1> QED BY <1>1, <1>3, <1>6, ExcusedArePairs DEF WordsGo

LEMMA PurgeTypes ==
    ASSUME Typed, NEW s \in Sender, Purge(s)
    PROVE  Typed'
<1>1. Altered("api") /\ WordsGo /\ EditsTypes'
  BY PurgeForms
<1>2. events' \in 0..MaxEvents
  BY EventsCount DEF Purge, Typed, OrderTypes
<1>3. "api" \in Proc /\ at["api"] = "idle"
  BY DEF Proc, Purge
<1>4. UNCHANGED <<loaded, upstream, served, copy, handed, owed, manual>>
  BY DEF Purge
<1> QED BY <1>1, <1>2, <1>3, <1>4, ChangeKeepsTypes

LEMMA HandoverTypes ==
    ASSUME Typed, NEW h \in Serial, TakeHandover(h)
    PROVE  Typed'
<1>1. merged' \in RRsets
  BY MergeIsSets DEF TakeHandover, Typed, DataTypes
<1>2. cleanups' \in SUBSET Type
  BY LeftOutAreTypes DEF TakeHandover, Typed, ZoneTypes
<1>3. missed' \in SUBSET Type
  BY DEF TakeHandover, Typed, ZoneTypes
<1>4. DataTypes'
  BY <1>1 DEF TakeHandover, Typed, DataTypes
<1>5. behind' \in BOOLEAN
  BY DEF TakeHandover
<1>6. ZoneTypes'
  BY <1>2, <1>3, <1>5 DEF TakeHandover, Typed, ZoneTypes
<1>7. WorkTypes'
  <2>1. at' = [at EXCEPT !["loop"] = "combine"] \/ at' = [at EXCEPT !["loop"] = "idle"]
    BY DEF TakeHandover
  <2>2. at["loop"] = "idle" /\ copy' = copy /\ "loop" \in Proc
    BY DEF TakeHandover, Proc
  <2> QED BY <2>1, <2>2, IdleIsNotStaged DEF Typed
<1>8. events' \in 0..MaxEvents
  BY EventsCount DEF TakeHandover, Typed, OrderTypes
<1>9. OrderTypes'
  BY <1>8 DEF TakeHandover, Typed, OrderTypes
<1>10. WordTypes'
  BY DEF TakeHandover, Typed, WordTypes, IsWord
<1> QED BY <1>4, <1>6, <1>7, <1>9, <1>10 DEF Typed

LEMMA AppliesAreTypes == Standing[handed] \in {"signer", "unsigned", "bystander"} => Applies \in SUBSET Type
BY DEF Applies, AppliesBy

LEMMA CopyTypes ==
    ASSUME Typed, NEW p \in Proc, CopyState(p)
    PROVE  Typed'
<1>1. DataTypes'
  BY DEF CopyState, memory, Typed, DataTypes
<1>2. ZoneTypes'
  BY DEF CopyState, Typed, ZoneTypes
<1>3. OrderTypes'
  BY DEF CopyState, Typed, OrderTypes
<1>4. WordTypes'
  BY DEF CopyState, Typed, WordTypes, IsWord
<1>5. WorkTypes'
  <2>1. CASE at' = [at EXCEPT ![p] = "idle"] /\ copy' = copy
    BY <2>1, IdleIsNotStaged DEF CopyState, Typed
  <2>2. CASE /\ \A q \in Proc : at[q] # "stage"
             /\ copy' = [copy EXCEPT ![p] = [merged |-> merged, upstream |-> upstream, applies |-> Applies]]
             /\ at' = [at EXCEPT ![p] = "stage"]
    <3>1. Standing[handed] \in {"signer", "unsigned", "bystander"}
      BY StandingAssumption DEF Typed, OrderTypes, Serial
    <3>2. Applies \in SUBSET Type
      BY <3>1, AppliesAreTypes
    <3>3. merged \in RRsets /\ upstream \in RRsets
      BY UpstreamIsSets DEF Typed, DataTypes, ZoneTypes
    <3>4. [merged |-> merged, upstream |-> upstream, applies |-> Applies] \in Copy
      BY <3>2, <3>3 DEF Copy
    <3> DEFINE new == [merged |-> merged, upstream |-> upstream, applies |-> Applies]
    <3> HIDE DEF new
    <3>5. new \in Copy /\ copy' = [copy EXCEPT ![p] = new]
      BY <2>2, <3>4 DEF new
    <3>6. \A q \in Proc : /\ at'[q] = (IF q = p THEN "stage" ELSE at[q])
                          /\ copy'[q] = (IF q = p THEN new ELSE copy[q])
      BY <2>2, <3>5 DEF Typed, WorkTypes
    <3>7. at' \in [Proc -> {"idle", "combine", "stage"}] /\ copy' \in [Proc -> Copy]
      BY <2>2, <3>5 DEF Typed, WorkTypes
    <3>8. \A q \in Proc : at'[q] # "stage" => copy'[q] = NoCopy
      BY <3>6 DEF Typed, WorkTypes
    <3>9. Alone'
      BY <2>2, <3>6 DEF Alone, Staged
    <3> QED BY <3>7, <3>8, <3>9 DEF WorkTypes
  <2> QED BY <2>1, <2>2 DEF CopyState
<1> QED BY <1>1, <1>2, <1>3, <1>4, <1>5 DEF Typed

\* A combine that ends copies nothing any more.
LEMMA EndedWork ==
    ASSUME WorkTypes, NEW p \in Proc, at' = [at EXCEPT ![p] = "idle"], copy' = [copy EXCEPT ![p] = NoCopy]
    PROVE  WorkTypes'
<1>1. \A q \in Proc : /\ at'[q] = (IF q = p THEN "idle" ELSE at[q])
                      /\ copy'[q] = (IF q = p THEN NoCopy ELSE copy[q])
  BY DEF WorkTypes
<1>2. at' \in [Proc -> {"idle", "combine", "stage"}] /\ copy' \in [Proc -> Copy]
  BY NothingCopied DEF WorkTypes
<1>3. Alone'
  BY <1>1 DEF WorkTypes, Alone, Staged
<1>4. \A q \in Proc : at'[q] # "stage" => copy'[q] = NoCopy
  BY <1>1 DEF WorkTypes
<1> QED BY <1>2, <1>3, <1>4 DEF WorkTypes

LEMMA StageTypes ==
    ASSUME Typed, NEW p \in Proc, Stage(p)
    PROVE  Typed'
<1>1. DataTypes'
  BY DEF Stage, memory, Typed, DataTypes
<1>2. WorkTypes'
  BY EndedWork DEF Stage, Typed
<1>3. WordTypes'
  BY DEF Stage, Typed, WordTypes, IsWord
<1>4. events' \in 0..MaxEvents
  BY EventsCount DEF Stage, Typed, OrderTypes
<1>5. OrderTypes'
  BY <1>4 DEF Stage, Typed, OrderTypes
<1>6. copy[p] \in Copy
  BY DEF Typed, WorkTypes
<1>7. Combined(copy[p], cleanups) \in RRsets
  BY <1>6, CombinedIsSets DEF Typed, ZoneTypes
<1>8. Overlooked(copy[p]) \in SUBSET Type
  BY DEF Overlooked, Typed, ZoneTypes
<1>9. served' \in RRsets
  BY <1>7 DEF Stage, Typed, ZoneTypes
<1>10. cleanups' \in SUBSET Type /\ missed' \in SUBSET Type
  BY <1>8 DEF Stage, Typed, ZoneTypes
<1>11. behind' \in BOOLEAN
  BY DEF Stage, Typed, ZoneTypes
<1>12. ZoneTypes'
  BY <1>9, <1>10, <1>11 DEF Stage, Typed, ZoneTypes
<1> QED BY <1>1, <1>2, <1>3, <1>5, <1>12 DEF Typed

LEMMA ClearTypes ==
    ASSUME Typed, ClearContributions
    PROVE  Typed'
<1> DEFINE none == [s \in Sender |-> Empty]
<1>1. none \in Contributions
  BY EmptyIsSets DEF Contributions
<1>2. contrib' = none /\ disk' = none /\ merged' = RebuildCombinerData(none, handed)
  BY DEF ClearContributions
<1> HIDE DEF none
<1>3. DataTypes'
  BY <1>1, <1>2, MergeIsSets DEF ClearContributions, Typed, DataTypes
<1>4. ZoneTypes'
  BY DEF ClearContributions, Typed, ZoneTypes
<1>5. WorkTypes'
  BY DEF ClearContributions, Typed, WorkTypes, Alone, Staged
<1>6. edits' \in [{"pending", "approved"} -> SUBSET Edit]
  BY DEF ClearContributions
<1>7. events' \in 0..MaxEvents
  BY EventsCount DEF ClearContributions, Typed, OrderTypes
<1>8. OrderTypes'
  BY <1>6, <1>7 DEF ClearContributions, Typed, OrderTypes
<1>9. WordTypes'
  BY DEF ClearContributions, WordTypes
<1> QED BY <1>3, <1>4, <1>5, <1>8, <1>9 DEF Typed

LEMMA ReapplyTypes ==
    ASSUME Typed, Reapply
    PROVE  Typed'
<1>1. merged' \in RRsets
  BY MergeIsSets DEF Reapply, Typed, DataTypes
<1>2. DataTypes'
  BY <1>1 DEF Reapply, Typed, DataTypes
<1>3. cleanups' \in SUBSET Type
  BY LeftOutAreTypes DEF Reapply, Typed, ZoneTypes
<1>4. missed' \in SUBSET Type
  BY DEF Reapply, Typed, ZoneTypes
<1>5. ZoneTypes'
  BY <1>3, <1>4 DEF Reapply, Typed, ZoneTypes
<1>6. WorkTypes'
  <2>1. at' = [at EXCEPT !["api"] = "combine"] /\ at["api"] = "idle" /\ copy' = copy /\ "api" \in Proc
    BY DEF Reapply, Proc
  <2> QED BY <2>1, IdleIsNotStaged DEF Typed
<1>7. events' \in 0..MaxEvents
  BY EventsCount DEF Reapply, Typed, OrderTypes
<1>8. OrderTypes'
  BY <1>7 DEF Reapply, Typed, OrderTypes
<1>9. WordTypes'
  BY DEF Reapply, Typed, WordTypes, IsWord
<1> QED BY <1>2, <1>5, <1>6, <1>8, <1>9 DEF Typed

LEMMA ApprovalTypes ==
    ASSUME Typed, NEW e \in edits["pending"], Approve(e) \/ Reject(e)
    PROVE  Typed'
<1>1. e \in Edit
  BY DEF Typed, OrderTypes
<1>2. e.sender \in Sender /\ e.type \in Type
  BY <1>1, AgentsSend DEF Edit
<1>3. DataTypes'
  BY DEF Approve, Reject, memory, Typed, DataTypes
<1>4. ZoneTypes'
  BY DEF Approve, Reject, Typed, ZoneTypes
<1>5. WorkTypes'
  BY DEF Approve, Reject, Typed, WorkTypes, Alone, Staged
<1>6. edits' \in [{"pending", "approved"} -> SUBSET Edit]
  BY <1>1 DEF Approve, Reject, ApprovePendingEdit, RejectPendingEdit, Typed, OrderTypes
<1>7. OrderTypes'
  BY <1>6 DEF Approve, Reject, Typed, OrderTypes
<1>8. NotTold(e.sender, e.type) /\ unsaved' = unsaved
  BY DEF Approve, Reject
<1>9. WordsGo
  BY <1>2, <1>8, ToldGoes DEF WordsGo, Typed, WordTypes
<1>10. WordTypes'
  BY <1>9, WordsStayWords DEF Typed
<1> QED BY <1>3, <1>4, <1>5, <1>7, <1>10 DEF Typed

LEMMA RefreshTypes ==
    ASSUME Typed, NEW u \in Upstreams, Refresh(u)
    PROVE  Typed'
<1>1. served' \in RRsets
  BY DraftIsSets DEF Refresh, Typed, DataTypes
<1>2. ZoneTypes'
  BY <1>1 DEF Refresh, Typed, ZoneTypes
<1>3. DataTypes'
  BY DEF Refresh, memory, Typed, DataTypes
<1>4. WorkTypes'
  BY DEF Refresh, Typed, WorkTypes, Alone, Staged
<1>5. events' \in 0..MaxEvents
  BY EventsCount DEF Refresh, Typed, OrderTypes
<1>6. OrderTypes'
  BY <1>5 DEF Refresh, Typed, OrderTypes
<1>7. WordTypes'
  BY DEF Refresh, Typed, WordTypes, IsWord
<1> QED BY <1>2, <1>3, <1>4, <1>6, <1>7 DEF Typed

AllIdle == [p \in Proc |-> "idle"]
NoCopies == [p \in Proc |-> NoCopy]

LEMMA IdleWork ==
    ASSUME at' = AllIdle, copy' = NoCopies
    PROVE  WorkTypes'
BY NothingCopied DEF AllIdle, NoCopies, WorkTypes, Alone, Staged

LEMMA RestartTypes ==
    ASSUME Typed, NEW reads \in BOOLEAN, Restart(reads)
    PROVE  Typed'
<1> DEFINE c == IF reads THEN disk ELSE [s \in Sender |-> Empty]
<1>1. c \in Contributions
  BY EmptyIsSets DEF Typed, DataTypes, Contributions
<1>2. contrib' = c /\ merged' = RebuildCombinerData(c, handed) /\ disk' = disk /\ loaded' = reads
  BY DEF Restart
<1> HIDE DEF c
<1>3. DataTypes'
  BY <1>1, <1>2, MergeIsSets DEF Typed, DataTypes
<1>4. served' \in RRsets
  BY <1>3, DraftIsSets DEF Restart, DataTypes, Typed, ZoneTypes
<1>5. ZoneTypes'
  BY <1>4 DEF Restart, Typed, ZoneTypes
<1>6. WorkTypes'
  BY IdleWork DEF Restart, AllIdle, NoCopies
<1>7. events' \in 0..MaxEvents
  BY EventsCount DEF Restart, Typed, OrderTypes
<1>8. OrderTypes'
  BY <1>7 DEF Restart, Typed, OrderTypes
<1>9. WordTypes'
  BY DEF Restart, Typed, WordTypes, IsWord
<1> QED BY <1>3, <1>5, <1>6, <1>8, <1>9 DEF Typed

\* What a combiner starts with of its own: an old build's CSYNC, or nothing.
Legacy(l) == [s \in Sender |-> IF s = Self THEN [Empty EXCEPT !["CSYNC"] = l] ELSE Empty]

LEMMA LegacyIsContributions ==
    ASSUME NEW l \in SUBSET RecordOf["CSYNC"]
    PROVE  Legacy(l) \in Contributions
<1>1. [Empty EXCEPT !["CSYNC"] = l] \in RRsets
  <2>1. CASE "CSYNC" \in Type
    <3>1. l \in SUBSET Record
      BY <2>1, RecordsAreRecords
    <3> QED BY <3>1, EmptyIsSets DEF RRsets
  <2>2. CASE "CSYNC" \notin Type
    BY <2>2, EmptyIsSets DEF RRsets
  <2> QED BY <2>1, <2>2
<1> QED BY <1>1, EmptyIsSets DEF Legacy, Contributions

LEMMA TypedInit == Init => Typed
<1> SUFFICES ASSUME Init PROVE Typed
  OBVIOUS
<1>1. PICK u \in Upstreams, l \in SUBSET RecordOf["CSYNC"] :
        contrib = Legacy(l) /\ served = OnDraft(u, merged, 0) /\ upstream = u
  BY DEF Init, Legacy
<1>2. contrib \in Contributions
  BY <1>1, LegacyIsContributions
<1>3. DataTypes
  BY <1>2, MergeIsSets DEF Init, DataTypes
<1>4. ZoneTypes
  BY <1>1, <1>3, DraftIsSets DEF Init, ZoneTypes, DataTypes
<1>5. WorkTypes
  BY NothingCopied DEF Init, WorkTypes, Alone, Staged
<1>6. manual \in BOOLEAN /\ events = 0 /\ handed = 0 /\ owed = "no"
  BY ManualAssumption DEF Init
<1>7. edits \in [{"pending", "approved"} -> SUBSET Edit]
  BY DEF Init
<1>8. OrderTypes
  BY <1>6, <1>7, ZeroIsSerial, BoundAssumption DEF OrderTypes
<1>9. WordTypes
  BY DEF Init, WordTypes
<1> QED BY <1>3, <1>4, <1>5, <1>8, <1>9 DEF Typed

LEMMA UpdatesAreRecords == \A t \in Type : Updates(t) \subseteq SUBSET Record
BY RecordsAreRecords DEF Updates

LEMMA TypedNext == Typed /\ [Next]_vars => Typed'
<1> SUFFICES ASSUME Typed, [Next]_vars PROVE Typed'
  OBVIOUS
<1>1. ASSUME NEW s \in Agent, NEW t \in Type, NEW op, NEW R \in Updates(t), TakeUpdate(s, t, op, R)
      PROVE  Typed'
  BY <1>1, UpdateTypes, UpdatesAreRecords
<1>2. ASSUME NEW h \in Serial, TakeHandover(h) PROVE Typed'
  BY <1>2, HandoverTypes
<1>3. ASSUME NEW p \in Proc, CopyState(p) \/ Stage(p) PROVE Typed'
  BY <1>3, CopyTypes, StageTypes
<1>4. ASSUME NEW t \in Type, NEW R \in Updates(t), ApiAdd(t, R) PROVE Typed'
  BY <1>4, ApiAddTypes, UpdatesAreRecords
<1>5. ASSUME NEW s \in Sender, Purge(s) PROVE Typed'
  BY <1>5, PurgeTypes
<1>6. ASSUME ClearContributions \/ Reapply PROVE Typed'
  BY <1>6, ClearTypes, ReapplyTypes
<1>7. ASSUME NEW e \in edits["pending"], Approve(e) \/ Reject(e) PROVE Typed'
  BY <1>7, ApprovalTypes
<1>8. ASSUME NEW u \in Upstreams, Refresh(u) PROVE Typed'
  BY <1>8, RefreshTypes
<1>9. ASSUME NEW reads \in BOOLEAN, Restart(reads) PROVE Typed'
  BY <1>9, RestartTypes
<1>10. ASSUME UNCHANGED vars PROVE Typed'
  BY <1>10 DEF vars, memory, history, Typed, DataTypes, ZoneTypes, WorkTypes, OrderTypes, WordTypes,
               Alone, Staged, IsWord
<1> QED BY <1>1, <1>2, <1>3, <1>4, <1>5, <1>6, <1>7, <1>8, <1>9, <1>10 DEF Next

LEMMA OneStages == ASSUME WorkTypes PROVE Cardinality({p \in Proc : at[p] = "stage"}) <= 1
<1> DEFINE S == {p \in Proc : at[p] = "stage"}
<1>1. CASE S = {}
  <2>1. Cardinality(S) = 0
    BY <1>1, FS_EmptySet
  <2> HIDE DEF S
  <2>2. Cardinality(S) <= 1
    BY <2>1
  <2> QED BY <2>2 DEF S
<1>2. CASE S # {}
  <2>1. PICK p \in Proc : S = {p}
    BY <1>2 DEF WorkTypes, Alone, Staged
  <2> HIDE DEF S
  <2>2. Cardinality(S) = 1
    BY <2>1, FS_Singleton
  <2>3. Cardinality(S) <= 1
    BY <2>2
  <2> QED BY <2>3 DEF S
<1> QED BY <1>1, <1>2

LEMMA TypedIsTypeOK == Typed => TypeOK
<1> SUFFICES ASSUME Typed PROVE TypeOK
  OBVIOUS
<1>1. upstream \in RRsets
  BY UpstreamIsSets DEF Typed, ZoneTypes
<1>2. Cardinality({p \in Proc : at[p] = "stage"}) <= 1
  BY OneStages DEF Typed
<1>3. DOMAIN edits = {"pending", "approved"} /\ edits["pending"] \cup edits["approved"] \subseteq Edit
  BY DEF Typed, OrderTypes
<1>4. \A w \in said \cup past : w[1] \in Sender /\ w[2] \in Type /\ w[3] \subseteq Record
  BY DEF Typed, WordTypes, IsWord
<1> QED BY <1>1, <1>2, <1>3, <1>4 DEF TypeOK, Typed, DataTypes, ZoneTypes, WorkTypes, OrderTypes, WordTypes,
                                      Contributions

\* The combiner's stores, zone, work and words keep their types, and no two
\* combines are between their copy and their end at once (combineMu,
\* combineAndPublish).
THEOREM TypeCorrect == Spec => []TypeOK
<1>1. Typed /\ [Next]_vars => Typed'
  BY TypedNext
<1> QED BY <1>1, TypedInit, TypedIsTypeOK, PTL DEF Spec

-----------------------------------------------------------------------------
(* What is served *)

\* A combine is to begin.
Pending == \E p \in Proc : at[p] = "combine"

\* The merge is the one of the contributions, by the sets handed.
MergeIsMade == merged = RebuildCombinerData(contrib, handed)

\* What a combine under way has copied is as it is now, unless another combine
\* is to follow it or the merge is known to be behind.
CopyIsRecent ==
    \A p \in Proc : Staged(p) =>
      /\ copy[p].upstream = upstream
      /\ Edits(Standing[handed]) /\ ~Pending =>
           copy[p].applies = Applies /\ (behind \/ copy[p].merged = merged)

\* A type whose last contribution went while a combine was under way is due.
GoneIsDue ==
    \A p \in Proc : Staged(p) =>
      \A t \in Type : merged[t] = {} /\ copy[p].merged[t] # {} => t \in cleanups \cup missed

\* A type without contributions is due for a clean-up, or as the upstream's.
GoneOrDue ==
    \A t \in Type : merged[t] = {} => t \in cleanups \cup missed \/ served[t] = upstream[t]

Serves == MergeIsMade /\ CopyIsRecent /\ GoneIsDue /\ GoneOrDue /\ ServedIsCombined

\* The combines there are go on with what they have copied.
CombinesGoOn == \A p \in Proc : at'[p] = "stage" => at[p] = "stage" /\ copy'[p] = copy[p]
\* A type that loses its last contribution comes to be due, and stays so.
GoneComesDue ==
    /\ cleanups \cup missed \subseteq cleanups' \cup missed'
    /\ \A t \in Type : merged[t] # {} /\ merged'[t] = {} => t \in cleanups' \cup missed'
\* What changes what is to be served has a combine follow, or notes it.
ChangeIsFollowed ==
    \/ Pending'
    \/ ~Edits(Standing[handed'])
    \/ /\ ~Pending /\ handed' = handed
       /\ behind' \/ (~behind /\ merged' = merged /\ \A p \in Proc : at[p] = "stage" => at'[p] = "stage")

LEMMA ServesOn ==
    ASSUME Typed, CopyIsRecent, GoneIsDue, GoneOrDue, ServedIsCombined, WorkTypes',
           CombinesGoOn, GoneComesDue, ChangeIsFollowed, UNCHANGED <<served, upstream>>,
           missed \subseteq missed', behind \in BOOLEAN, behind' \in BOOLEAN
    PROVE  CopyIsRecent' /\ GoneIsDue' /\ GoneOrDue' /\ ServedIsCombined'
<1>1. GoneOrDue'
  BY DEF GoneOrDue, GoneComesDue
<1>2. GoneIsDue'
  <2> SUFFICES ASSUME NEW p \in Proc, at'[p] = "stage", NEW t \in Type, merged'[t] = {}, copy'[p].merged[t] # {}
               PROVE  t \in cleanups' \cup missed'
    BY DEF GoneIsDue, Staged
  <2>1. at[p] = "stage" /\ copy[p].merged[t] # {}
    BY DEF CombinesGoOn
  <2>2. CASE merged[t] = {}
    BY <2>1, <2>2 DEF GoneIsDue, Staged, GoneComesDue
  <2>3. CASE merged[t] # {}
    BY <2>3 DEF GoneComesDue
  <2> QED BY <2>2, <2>3
<1>3. CopyIsRecent'
  <2> SUFFICES ASSUME NEW p \in Proc, at'[p] = "stage"
               PROVE  /\ copy'[p].upstream = upstream'
                      /\ Edits(Standing[handed']) /\ ~Pending' =>
                           copy'[p].applies = Applies' /\ (behind' \/ copy'[p].merged = merged')
    BY DEF CopyIsRecent, Staged
  <2>1. Staged(p) /\ copy'[p] = copy[p]
    BY DEF CombinesGoOn, Staged
  <2>2. copy'[p].upstream = upstream'
    BY <2>1 DEF CopyIsRecent
  <2>3. ASSUME Edits(Standing[handed']), ~Pending'
        PROVE  copy'[p].applies = Applies' /\ (behind' \/ copy'[p].merged = merged')
    <3>1. ~Pending /\ handed' = handed /\ (behind' \/ (~behind /\ merged' = merged))
      BY <2>3 DEF ChangeIsFollowed
    <3>2. copy[p].applies = Applies /\ (behind \/ copy[p].merged = merged)
      BY <2>1, <2>3, <3>1 DEF CopyIsRecent
    <3> QED BY <2>1, <3>1, <3>2 DEF Applies
  <2> QED BY <2>2, <2>3
<1>4. ServedIsCombined'
  <2> SUFFICES ASSUME Quiet', ~behind', Edits(Standing[handed']), NEW t \in Type \ missed'
               PROVE  served'[t] = Wanted(t)'
    BY DEF ServedIsCombined
  <2>1. ~Pending'
    BY DEF Quiet, Pending
  <2>2. ~Pending /\ handed' = handed /\ ~behind /\ merged' = merged /\ \A p \in Proc : at[p] = "stage" => at'[p] = "stage"
    BY <2>1 DEF ChangeIsFollowed
  <2>3. Quiet
    BY <2>2 DEF Quiet, Pending, Typed, WorkTypes
  <2>4. served[t] = Wanted(t)
    BY <2>2, <2>3 DEF ServedIsCombined
  <2> QED BY <2>2, <2>4 DEF Wanted, Applies
<1> QED BY <1>1, <1>2, <1>3, <1>4

-----------------------------------------------------------------------------
(* Each step serves on *)

LEMMA ServesTypes == Typed => WorkTypes /\ behind \in BOOLEAN /\ cleanups \in SUBSET Type /\ DataTypes
BY DEF Typed, ZoneTypes

\* A change of the contributions touches the merge of the types it changes.
LEMMA ChangeGoesByType ==
    ASSUME MergeIsMade, NEW c, NEW ok, Change(c, ok), NEW t \in Type, merged'[t] # merged[t]
    PROVE  t \in Changed(c)
<1>1. SUFFICES ASSUME t \notin Changed(c) PROVE FALSE
  OBVIOUS
<1>2. \A s \in Sender : c[s][t] = contrib[s][t]
  BY <1>1 DEF Changed
<1>3. RebuildCombinerData(c, handed)[t] = RebuildCombinerData(contrib, handed)[t]
  BY <1>2, MergeIsByType
<1> QED BY <1>3 DEF Change, MergeIsMade

LEMMA KeptServes ==
    ASSUME Typed, Typed', Serves, Kept, UNCHANGED <<served, upstream, copy, handed>>
    PROVE  Serves'
<1>1. MergeIsMade'
  BY DEF Serves, MergeIsMade, Kept
<1>2. CombinesGoOn /\ GoneComesDue
  BY DEF Kept, CombinesGoOn, GoneComesDue
<1>3. ChangeIsFollowed
  BY DEF Kept, ChangeIsFollowed, Pending
<1>4. missed \subseteq missed'
  BY DEF Kept
<1> QED BY <1>1, <1>2, <1>3, <1>4, ServesOn, ServesTypes DEF Serves, Typed, ZoneTypes

LEMMA AlteredServes ==
    ASSUME Typed, Typed', Serves, NEW p \in Proc, at[p] = "idle", Altered(p),
           UNCHANGED <<served, upstream, copy, handed>>
    PROVE  Serves'
<1>1. PICK c \in Contributions, ok \in SUBSET Sender, noted \in SUBSET Type, combines \in BOOLEAN :
        Change(c, ok) /\ NoteCleanups(c, noted) /\ ThenCombine(p, combines)
  BY DEF Altered
<1>2. MergeIsMade'
  BY <1>1 DEF Change, MergeIsMade
<1>3. \A q \in Proc : at'[q] = (IF q = p THEN (IF combines THEN "combine" ELSE "idle") ELSE at[q])
  BY <1>1 DEF ThenCombine, Typed, WorkTypes
<1>4. CombinesGoOn
  BY <1>3 DEF CombinesGoOn
<1>5. ASSUME NEW t \in Type, merged[t] # {}, merged'[t] = {}
      PROVE  t \in cleanups' \cup missed'
  <2>1. t \in Changed(c)
    BY <1>1, <1>5, ChangeGoesByType DEF Serves
  <2> QED BY <1>1, <1>5, <2>1 DEF NoteCleanups
<1>6. GoneComesDue /\ missed \subseteq missed'
  BY <1>1, <1>5 DEF GoneComesDue, NoteCleanups
<1>7. ChangeIsFollowed
  <2>1. CASE combines
    BY <1>3, <2>1 DEF ChangeIsFollowed, Pending
  <2>2. CASE Pending
    <3>1. PICK q \in Proc : at[q] = "combine"
      BY <2>2 DEF Pending
    <3>2. at'[q] = "combine"
      BY <1>3, <3>1
    <3> QED BY <3>2 DEF ChangeIsFollowed, Pending
  <2>3. CASE ~combines /\ ~Pending
    <3>1. behind' = (behind \/ merged' # merged)
      BY <1>1, <2>3 DEF ThenCombine
    <3>2. \A q \in Proc : at[q] = "stage" => at'[q] = "stage"
      BY <1>3
    <3> QED BY <2>3, <3>1, <3>2 DEF ChangeIsFollowed
  <2> QED BY <2>1, <2>2, <2>3
<1> QED BY <1>2, <1>4, <1>6, <1>7, ServesOn, ServesTypes DEF Serves, Typed, ZoneTypes

LEMMA UpdateServes ==
    ASSUME Typed, Typed', Serves, NEW s \in Agent, NEW t \in Type, NEW op, NEW R \in SUBSET Record,
           TakeUpdate(s, t, op, R)
    PROVE  Serves'
<1>1. Kept \/ Altered("loop")
  BY TakeUpdateForms
<1>2. "loop" \in Proc /\ at["loop"] = "idle" /\ UNCHANGED <<served, upstream, copy, handed>>
  BY DEF TakeUpdate, Proc
<1> QED BY <1>1, <1>2, KeptServes, AlteredServes

LEMMA ApiServes ==
    ASSUME Typed, Typed', Serves,
           \/ \E t \in Type, R \in SUBSET Record : ApiAdd(t, R)
           \/ \E s \in Sender : Purge(s)
    PROVE  Serves'
<1>1. Altered("api")
  BY ApiAddForms, PurgeForms
<1>2. "api" \in Proc /\ at["api"] = "idle" /\ UNCHANGED <<served, upstream, copy, handed>>
  BY DEF ApiAdd, Purge, Proc
<1> QED BY <1>1, <1>2, AlteredServes

LEMMA HandoverServes ==
    ASSUME Typed, Typed', Serves, NEW h \in Serial, TakeHandover(h)
    PROVE  Serves'
<1>1. MergeIsMade'
  BY DEF TakeHandover, MergeIsMade
<1>2. "loop" \in Proc /\ at["loop"] = "idle"
  BY DEF TakeHandover, Proc
<1>3. \A q \in Proc : at'[q] = (IF q = "loop" THEN (IF Edits(Standing[h]) THEN "combine" ELSE "idle") ELSE at[q])
  BY DEF TakeHandover, Typed, WorkTypes
<1>4. CombinesGoOn
  BY <1>3 DEF CombinesGoOn, TakeHandover
<1>5. GoneComesDue /\ missed \subseteq missed'
  BY DEF TakeHandover, GoneComesDue
<1>6. ChangeIsFollowed
  BY <1>2, <1>3 DEF TakeHandover, ChangeIsFollowed, Pending
<1>7. UNCHANGED <<served, upstream>>
  BY DEF TakeHandover
<1> QED BY <1>1, <1>4, <1>5, <1>6, <1>7, ServesOn, ServesTypes DEF Serves, Typed, ZoneTypes

LEMMA ClearServes ==
    ASSUME Typed, Typed', Serves, ClearContributions
    PROVE  Serves'
<1>1. MergeIsMade'
  BY DEF ClearContributions, MergeIsMade
<1>2. CombinesGoOn
  BY DEF CombinesGoOn, ClearContributions
<1>3. GoneComesDue /\ missed \subseteq missed' /\ UNCHANGED <<served, upstream>>
  BY DEF ClearContributions, GoneComesDue
<1>4. ChangeIsFollowed
  BY DEF ClearContributions, ChangeIsFollowed, Pending
<1> QED BY <1>1, <1>2, <1>3, <1>4, ServesOn, ServesTypes DEF Serves, Typed, ZoneTypes

LEMMA ReapplyServes ==
    ASSUME Typed, Typed', Serves, Reapply
    PROVE  Serves'
<1>1. MergeIsMade'
  BY DEF Reapply, MergeIsMade
<1>2. "api" \in Proc /\ UNCHANGED <<served, upstream, copy>>
  BY DEF Proc, Reapply
<1>3. \A q \in Proc : at'[q] = (IF q = "api" THEN "combine" ELSE at[q])
  BY DEF Reapply, Typed, WorkTypes
<1>4. CombinesGoOn /\ ChangeIsFollowed
  BY <1>2, <1>3 DEF CombinesGoOn, ChangeIsFollowed, Pending
<1>5. GoneComesDue /\ missed \subseteq missed'
  BY DEF Reapply, GoneComesDue
<1> QED BY <1>1, <1>2, <1>4, <1>5, ServesOn, ServesTypes DEF Serves, Typed, ZoneTypes

LEMMA ApprovalServes ==
    ASSUME Typed, Typed', Serves, NEW e, Approve(e) \/ Reject(e)
    PROVE  Serves'
<1>1. Kept
  BY DEF Approve, Reject, memory, Kept, Typed, ZoneTypes
<1>2. UNCHANGED <<served, upstream, copy, handed>>
  BY DEF Approve, Reject
<1> QED BY <1>1, <1>2, KeptServes

LEMMA CopyServes ==
    ASSUME Typed, Typed', Serves, NEW p \in Proc, CopyState(p)
    PROVE  Serves'
<1>1. MergeIsMade' /\ UNCHANGED <<merged, served, upstream, handed>>
  BY DEF CopyState, memory, Serves, MergeIsMade
<1>2. CASE /\ ~Edits(Standing[handed])
           /\ cleanups' = {} /\ missed' = missed \cup cleanups
           /\ behind' = TRUE
           /\ at' = [at EXCEPT ![p] = "idle"]
           /\ copy' = copy
  <2>1. \A q \in Proc : at'[q] = (IF q = p THEN "idle" ELSE at[q])
    BY <1>2 DEF Typed, WorkTypes
  <2>2. CombinesGoOn /\ GoneComesDue /\ missed \subseteq missed'
    BY <1>1, <1>2, <2>1 DEF CombinesGoOn, GoneComesDue
  <2>3. ChangeIsFollowed
    BY <1>1, <1>2 DEF ChangeIsFollowed
  <2> QED BY <1>1, <2>2, <2>3, ServesOn, ServesTypes DEF Serves, Typed, ZoneTypes
<1>3. CASE /\ \A q \in Proc : at[q] # "stage"
           /\ copy' = [copy EXCEPT ![p] = [merged |-> merged, upstream |-> upstream, applies |-> Applies]]
           /\ at' = [at EXCEPT ![p] = "stage"]
           /\ UNCHANGED <<cleanups, missed, behind>>
  <2>1. \A q \in Proc : at'[q] = "stage" <=> q = p
    BY <1>3 DEF Typed, WorkTypes
  <2>2. copy'[p] = [merged |-> merged, upstream |-> upstream, applies |-> Applies]
    BY <1>3 DEF Typed, WorkTypes
  <2>3. copy'[p].merged = merged /\ copy'[p].upstream = upstream /\ copy'[p].applies = Applies
    BY <2>2
  <2>4. CopyIsRecent' /\ GoneIsDue'
    BY <1>1, <2>1, <2>3 DEF CopyIsRecent, GoneIsDue, Staged, Applies
  <2>5. GoneOrDue'
    BY <1>1, <1>3 DEF Serves, GoneOrDue
  <2>6. ~Quiet'
    BY <2>1 DEF Quiet
  <2> QED BY <1>1, <2>4, <2>5, <2>6 DEF Serves, ServedIsCombined
<1> QED BY <1>2, <1>3 DEF CopyState

LEMMA UpstreamHasNs == \A u \in Upstreams : "NS" \in Type => u["NS"] # {}
BY UpstreamAssumption

\* A combine that has copied what is to be served serves it.
LEMMA StagedServes ==
    ASSUME Typed, Typed', Serves, NEW p \in Proc, Staged(p), at' = [at EXCEPT ![p] = "idle"],
           copy' = [copy EXCEPT ![p] = NoCopy],
           served' = Combined(copy[p], cleanups), cleanups' = {},
           missed' = (missed \ Settled(copy[p])) \cup Overlooked(copy[p]),
           behind' = (behind /\ copy[p].merged # merged),
           UNCHANGED <<merged, contrib, upstream, handed>>
    PROVE  Serves'
<1> DEFINE in == copy[p]
<1>1. MergeIsMade'
  BY DEF Serves, MergeIsMade
<1>2. \A q \in Proc : at'[q] = (IF q = p THEN "idle" ELSE at[q])
  BY DEF Typed, WorkTypes
<1>3. \A q \in Proc : at'[q] # "stage"
  BY <1>2 DEF Typed, WorkTypes, Alone, Staged
<1>4. CopyIsRecent' /\ GoneIsDue'
  BY <1>3 DEF CopyIsRecent, GoneIsDue, Staged
<1>5. in.upstream = upstream
  BY DEF Serves, CopyIsRecent
<1>6. \A t \in Type : AsUpstream(in, t) = upstream[t]
  BY <1>5, UpstreamHasNs DEF AsUpstream, Typed, ZoneTypes
<1>7. \A t \in Type : served'[t] =
        IF in.merged[t] # {} /\ t \in in.applies
        THEN in.merged[t] \cup (IF t = "NS" THEN upstream[t] ELSE {})
        ELSE IF in.merged[t] # {} \/ t \in cleanups THEN upstream[t]
        ELSE served[t]
  BY <1>5, <1>6 DEF Combined
<1>8. ASSUME NEW t \in Type, merged[t] = {}, t \notin missed'
      PROVE  served'[t] = upstream[t]
  <2>1. CASE t \in cleanups
    <3>1. in.merged[t] = {}
      BY <1>8, <2>1 DEF Overlooked
    <3> QED BY <1>7, <2>1, <3>1
  <2>2. CASE t \notin cleanups
    <3>1. t \notin missed
      BY <1>8, <2>2 DEF Settled
    <3>2. in.merged[t] = {}
      BY <1>8, <2>2, <3>1 DEF Serves, GoneIsDue
    <3>3. served[t] = upstream[t]
      BY <1>8, <2>2, <3>1 DEF Serves, GoneOrDue
    <3> QED BY <1>7, <2>2, <3>2, <3>3
  <2> QED BY <2>1, <2>2
<1>9. GoneOrDue'
  BY <1>8 DEF GoneOrDue
<1>10. ASSUME Quiet', ~behind', Edits(Standing[handed]), NEW t \in Type \ missed'
       PROVE  served'[t] = Wanted(t)'
  <2>1. ~Pending
    BY <1>2, <1>10 DEF Quiet, Pending, Staged
  <2>2. in.applies = Applies /\ (behind \/ in.merged = merged)
    BY <1>10, <2>1 DEF Serves, CopyIsRecent
  <2>3. in.merged = merged
    BY <1>10, <2>2
  <2>4. CASE merged[t] = {}
    BY <1>8, <1>10, <2>4 DEF Wanted
  <2>5. CASE merged[t] # {}
    <3>1. served'[t] = IF t \in Applies THEN merged[t] \cup (IF t = "NS" THEN upstream[t] ELSE {})
                       ELSE upstream[t]
      BY <1>7, <2>2, <2>3, <2>5
    <3> QED BY <2>5, <3>1 DEF Wanted, Applies
  <2> QED BY <2>4, <2>5
<1>11. ServedIsCombined'
  BY <1>10 DEF ServedIsCombined
<1> QED BY <1>1, <1>4, <1>9, <1>11 DEF Serves

LEMMA StageServes ==
    ASSUME Typed, Typed', Serves, NEW p \in Proc, Stage(p)
    PROVE  Serves'
<1>1. /\ Staged(p) /\ at' = [at EXCEPT ![p] = "idle"] /\ copy' = [copy EXCEPT ![p] = NoCopy]
      /\ UNCHANGED <<merged, contrib, upstream, handed>>
  BY DEF Stage, Staged, memory
<1>2. CASE /\ served' = Combined(copy[p], cleanups) /\ cleanups' = {}
           /\ missed' = (missed \ Settled(copy[p])) \cup Overlooked(copy[p])
           /\ behind' = (behind /\ copy[p].merged # merged)
  BY <1>1, <1>2, StagedServes
<1>3. CASE behind' = TRUE /\ UNCHANGED <<served, cleanups, missed>>
  <2>1. MergeIsMade'
    BY <1>1 DEF Serves, MergeIsMade
  <2>2. \A q \in Proc : /\ at'[q] = (IF q = p THEN "idle" ELSE at[q])
                        /\ copy'[q] = (IF q = p THEN NoCopy ELSE copy[q])
    BY <1>1 DEF Typed, WorkTypes
  <2>3. CombinesGoOn
    BY <2>2 DEF CombinesGoOn
  <2>4. GoneComesDue /\ missed \subseteq missed'
    BY <1>1, <1>3 DEF GoneComesDue
  <2>5. ChangeIsFollowed
    BY <1>1, <1>3, <2>2 DEF ChangeIsFollowed, Pending, Staged
  <2> QED BY <1>1, <1>3, <2>1, <2>3, <2>4, <2>5, ServesOn, ServesTypes DEF Serves, Typed, ZoneTypes
<1> QED BY <1>2, <1>3 DEF Stage

\* The zone as drafted is the zone to be served.
LEMMA DraftIsWanted ==
    \A u, m, h : \A t \in Type :
      Edits(Standing[h]) =>
        OnDraft(u, m, h)[t] = IF m[t] # {} /\ t \in AppliesBy(Standing[h])
                              THEN m[t] \cup (IF t = "NS" THEN u[t] ELSE {})
                              ELSE u[t]
BY DEF OnDraft

LEMMA DraftOfNone ==
    ASSUME NEW u, NEW m, NEW h, NEW t \in Type, m[t] = {}
    PROVE  OnDraft(u, m, h)[t] = u[t]
BY DEF OnDraft

LEMMA RefreshServes ==
    ASSUME Typed, Typed', Serves, NEW u \in Upstreams, Refresh(u)
    PROVE  Serves'
<1>1. /\ upstream' = u /\ served' = OnDraft(u, merged, handed)
      /\ UNCHANGED <<contrib, merged, at, copy, handed>> /\ \A q \in Proc : at[q] # "stage"
  BY DEF Refresh, memory
<1>2. MergeIsMade'
  BY <1>1 DEF Serves, MergeIsMade
<1>3. CopyIsRecent' /\ GoneIsDue'
  BY <1>1 DEF CopyIsRecent, GoneIsDue, Staged
<1>4. GoneOrDue'
  <2>1. ASSUME NEW t \in Type, merged[t] = {} PROVE OnDraft(u, merged, handed)[t] = u[t]
    BY <2>1, DraftOfNone
  <2> QED BY <1>1, <2>1 DEF GoneOrDue
<1>5. ServedIsCombined'
  <2>1. ASSUME Edits(Standing[handed]), NEW t \in Type
        PROVE  OnDraft(u, merged, handed)[t] = IF merged[t] # {} /\ t \in AppliesBy(Standing[handed])
                    THEN merged[t] \cup (IF t = "NS" THEN u[t] ELSE {}) ELSE u[t]
    BY <2>1, DraftIsWanted
  <2> QED BY <1>1, <2>1 DEF ServedIsCombined, Wanted, Applies
<1> QED BY <1>2, <1>3, <1>4, <1>5 DEF Serves

LEMMA RestartServes ==
    ASSUME Typed, Typed', NEW reads, Restart(reads)
    PROVE  Serves'
<1>1. /\ served' = OnDraft(upstream, merged', handed) /\ UNCHANGED <<upstream, handed>>
      /\ at' = [p \in Proc |-> "idle"]
  BY DEF Restart
<1>2. MergeIsMade'
  BY DEF Restart, MergeIsMade
<1>3. CopyIsRecent' /\ GoneIsDue'
  BY <1>1 DEF CopyIsRecent, GoneIsDue, Staged
<1>4. GoneOrDue'
  <2>1. ASSUME NEW t \in Type, merged'[t] = {} PROVE OnDraft(upstream, merged', handed)[t] = upstream[t]
    BY <2>1, DraftOfNone
  <2> QED BY <1>1, <2>1 DEF GoneOrDue
<1>5. ServedIsCombined'
  <2>1. ASSUME Edits(Standing[handed]), NEW t \in Type
        PROVE  OnDraft(upstream, merged', handed)[t] = IF merged'[t] # {} /\ t \in AppliesBy(Standing[handed])
                    THEN merged'[t] \cup (IF t = "NS" THEN upstream[t] ELSE {}) ELSE upstream[t]
    BY <2>1, DraftIsWanted
  <2> QED BY <1>1, <2>1 DEF ServedIsCombined, Wanted, Applies
<1> QED BY <1>2, <1>3, <1>4, <1>5 DEF Serves

LEMMA ServesInit == Init => Serves
<1> SUFFICES ASSUME Init PROVE Serves
  OBVIOUS
<1>1. /\ served = OnDraft(upstream, merged, 0) /\ handed = 0 /\ at = [p \in Proc |-> "idle"]
      /\ merged = RebuildCombinerData(contrib, 0)
  BY DEF Init
<1>2. CopyIsRecent /\ GoneIsDue
  BY <1>1 DEF CopyIsRecent, GoneIsDue, Staged
<1>3. GoneOrDue
  <2>1. ASSUME NEW t \in Type, merged[t] = {} PROVE OnDraft(upstream, merged, 0)[t] = upstream[t]
    BY <2>1, DraftOfNone
  <2> QED BY <1>1, <2>1 DEF GoneOrDue
<1>4. ServedIsCombined
  <2>1. ASSUME Edits(Standing[0]), NEW t \in Type
        PROVE  OnDraft(upstream, merged, 0)[t] = IF merged[t] # {} /\ t \in AppliesBy(Standing[0])
                    THEN merged[t] \cup (IF t = "NS" THEN upstream[t] ELSE {}) ELSE upstream[t]
    BY <2>1, DraftIsWanted
  <2> QED BY <1>1, <2>1 DEF ServedIsCombined, Wanted, Applies
<1> QED BY <1>1, <1>2, <1>3, <1>4 DEF Serves, MergeIsMade

LEMMA ServesNext == Typed /\ Serves /\ [Next]_vars => Serves'
<1> SUFFICES ASSUME Typed, Serves, [Next]_vars PROVE Serves'
  OBVIOUS
<1>0. Typed'
  BY TypedNext
<1>1. ASSUME NEW s \in Agent, NEW t \in Type, NEW op, NEW R \in Updates(t), TakeUpdate(s, t, op, R)
      PROVE  Serves'
  BY <1>0, <1>1, UpdateServes, UpdatesAreRecords
<1>2. ASSUME NEW h \in Serial, TakeHandover(h) PROVE Serves'
  BY <1>0, <1>2, HandoverServes
<1>3. ASSUME NEW p \in Proc, CopyState(p) \/ Stage(p) PROVE Serves'
  BY <1>0, <1>3, CopyServes, StageServes
<1>4. ASSUME NEW t \in Type, NEW R \in Updates(t), ApiAdd(t, R) PROVE Serves'
  BY <1>0, <1>4, ApiServes, UpdatesAreRecords
<1>5. ASSUME NEW s \in Sender, Purge(s) PROVE Serves'
  BY <1>0, <1>5, ApiServes
<1>6. ASSUME ClearContributions \/ Reapply PROVE Serves'
  BY <1>0, <1>6, ClearServes, ReapplyServes
<1>7. ASSUME NEW e \in edits["pending"], Approve(e) \/ Reject(e) PROVE Serves'
  BY <1>0, <1>7, ApprovalServes
<1>8. ASSUME NEW u \in Upstreams, Refresh(u) PROVE Serves'
  BY <1>0, <1>8, RefreshServes
<1>9. ASSUME NEW reads \in BOOLEAN, Restart(reads) PROVE Serves'
  BY <1>0, <1>9, RestartServes
<1>10. ASSUME UNCHANGED vars PROVE Serves'
  <2>1. Kept /\ UNCHANGED <<served, upstream, copy, handed>>
    BY <1>10 DEF vars, memory, history, Kept, Typed, ZoneTypes
  <2> QED BY <1>0, <2>1, KeptServes
<1> QED BY <1>1, <1>2, <1>3, <1>4, <1>5, <1>6, <1>7, <1>8, <1>9, <1>10 DEF Next

\* When no combine is under way the zone serves the merge where the policy
\* lets the combiner apply it, and the upstream's records elsewhere
\* (combineAndPublish, CombineWithLocalChanges).
THEOREM ZoneIsCombined == Spec => []ServedIsCombined
<1>1. Init => Typed /\ Serves
  BY TypedInit, ServesInit
<1>2. Typed /\ Serves /\ [Next]_vars => (Typed /\ Serves)'
  BY TypedNext, ServesNext
<1>3. Serves => ServedIsCombined
  BY DEF Serves
<1> QED BY <1>1, <1>2, <1>3, PTL DEF Spec

-----------------------------------------------------------------------------
(* What is stored *)

\* What is in memory is on disk, but for what a failed save left off it.
MemoryIsOnDisk ==
    loaded => \A s \in Sender, t \in Type : <<s, t>> \notin unsaved => contrib[s][t] = disk[s][t]

Stored == MemoryIsOnDisk /\ ConfirmedIsStored

\* A word that stands, of what does not change, or a new one of what there is
\* then, where its sender's contributions can be saved.
WordsRight(ok) ==
    \A w \in said' : w[1] \in ok =>
      \/ w \in said /\ contrib'[w[1]][w[2]] = contrib[w[1]][w[2]]
      \/ w[3] = contrib'[w[1]][w[2]]

\* The contributions, saved by those in ok, with the words that go with them.
StoresBy(ok) == disk' = SavedBy(contrib', ok) /\ Excused(ok) /\ WordsRight(ok)

LEMMA StoredByThose ==
    ASSUME DataTypes, WordTypes', Stored, loaded' = loaded, NEW ok, StoresBy(ok)
    PROVE  Stored'
<1>1. ASSUME NEW s \in Sender, NEW t \in Type
      PROVE  <<s, t>> \in unsaved' <=> OffDisk(s, t) /\ (<<s, t>> \in unsaved \/ s \notin ok \/ ~loaded)
  BY DEF StoresBy, Excused
<1>2. ASSUME NEW s \in Sender, NEW t \in Type, <<s, t>> \notin unsaved, s \in ok, loaded
      PROVE  disk'[s][t] = contrib'[s][t]
  <2>1. contrib[s][t] = disk[s][t]
    BY <1>2 DEF Stored, MemoryIsOnDisk
  <2>2. disk'[s] = IF s \in Touched(contrib') THEN contrib'[s] ELSE disk[s]
    BY <1>2 DEF StoresBy, SavedBy
  <2>3. s \notin Touched(contrib') => contrib'[s] = contrib[s]
    BY DEF Touched
  <2> QED BY <2>1, <2>2, <2>3
<1>3. MemoryIsOnDisk'
  <2> SUFFICES ASSUME loaded, NEW s \in Sender, NEW t \in Type, <<s, t>> \notin unsaved'
               PROVE  contrib'[s][t] = disk'[s][t]
    BY DEF MemoryIsOnDisk
  <2>1. CASE ~OffDisk(s, t)
    BY <2>1 DEF OffDisk
  <2>2. CASE OffDisk(s, t)
    BY <1>1, <1>2, <2>2
  <2> QED BY <2>1, <2>2
<1>4. ConfirmedIsStored'
  <2> SUFFICES ASSUME NEW w \in said', <<w[1], w[2]>> \notin unsaved'
               PROVE  disk'[w[1]][w[2]] = w[3]
    BY DEF ConfirmedIsStored
  <2>1. w[1] \in Sender /\ w[2] \in Type
    BY DEF WordTypes, IsWord
  <2>2. CASE ~OffDisk(w[1], w[2])
    BY <2>2 DEF OffDisk
  <2>3. CASE OffDisk(w[1], w[2])
    <3>1. <<w[1], w[2]>> \notin unsaved /\ w[1] \in ok /\ loaded
      BY <1>1, <2>1, <2>3
    <3>2. disk'[w[1]][w[2]] = contrib'[w[1]][w[2]]
      BY <1>2, <2>1, <3>1
    <3>3. CASE w \in said /\ contrib'[w[1]][w[2]] = contrib[w[1]][w[2]]
      <4>1. disk[w[1]][w[2]] = w[3]
        BY <3>1, <3>3 DEF Stored, ConfirmedIsStored
      <4>2. contrib[w[1]][w[2]] = disk[w[1]][w[2]]
        BY <2>1, <3>1 DEF Stored, MemoryIsOnDisk
      <4> QED BY <3>2, <3>3, <4>1, <4>2
    <3>4. CASE w[3] = contrib'[w[1]][w[2]]
      BY <3>2, <3>4
    <3> QED BY <3>1, <3>3, <3>4 DEF StoresBy, WordsRight
  <2> QED BY <2>2, <2>3
<1> QED BY <1>3, <1>4 DEF Stored

\* Nothing is stored or told anew.
LEMMA StoredStays ==
    ASSUME Stored, \A w \in said' : w \in said, UNCHANGED <<contrib, disk, loaded, unsaved>>
    PROVE  Stored'
BY DEF Stored, MemoryIsOnDisk, ConfirmedIsStored

\* An answer to s, that says R is applied or nothing; what others are told of
\* the type stands, but for those that are dropped.
LEMMA AnswerIsRight ==
    ASSUME NEW s \in Sender, NEW t \in Type, NEW words, NEW dropped, NEW ok, Answer(s, t, words, dropped),
           WordTypes,
           \A w \in words : w[1] \in ok => w[3] = contrib'[w[1]][w[2]],
           \A x \in Sender, y \in Type : ((x = s \/ x \in dropped) /\ y = t) \/ contrib'[x][y] = contrib[x][y]
    PROVE  WordsRight(ok)
<1> SUFFICES ASSUME NEW w \in said', w[1] \in ok
             PROVE  \/ w \in said /\ contrib'[w[1]][w[2]] = contrib[w[1]][w[2]]
                    \/ w[3] = contrib'[w[1]][w[2]]
  BY DEF WordsRight
<1>1. CASE w \in words
  BY <1>1
<1>2. CASE w \notin words
  <2>1. w \in said /\ ~(w[2] = t /\ w[1] \in dropped \cup {s})
    BY <1>2 DEF Answer
  <2>2. w[1] \in Sender /\ w[2] \in Type
    BY <2>1 DEF WordTypes, IsWord
  <2> QED BY <2>1, <2>2
<1> QED BY <1>1, <1>2

LEMMA ToldIsRight ==
    ASSUME NEW s \in Sender, NEW t \in Type, NEW R, NEW ok, WordTypes,
           NotTold(s, t) \/ (Told(s, t, R) /\ (s \in ok => R = contrib'[s][t])),
           \A x \in Sender, y \in Type : (x = s /\ y = t) \/ contrib'[x][y] = contrib[x][y]
    PROVE  WordsRight(ok)
<1>1. CASE NotTold(s, t)
  <2>1. Answer(s, t, {}, {})
    BY <1>1 DEF NotTold
  <2> QED BY <2>1, AnswerIsRight
<1>2. CASE Told(s, t, R) /\ (s \in ok => R = contrib'[s][t])
  <2>1. Answer(s, t, {<<s, t, R>>}, {})
    BY <1>2 DEF Told
  <2>2. \A w \in {<<s, t, R>>} : w[1] \in ok => w[3] = contrib'[w[1]][w[2]]
    BY <1>2
  <2> QED BY <2>1, <2>2, AnswerIsRight
<1> QED BY <1>1, <1>2

LEMMA WithIsElsewhere ==
    ASSUME DataTypes, NEW s \in Sender, NEW t \in Type, NEW R
    PROVE  /\ With(s, t, R)[s][t] = R
           /\ \A x \in Sender, y \in Type : (x = s /\ y = t) \/ With(s, t, R)[x][y] = contrib[x][y]
<1>1. contrib \in [Sender -> RRsets] /\ contrib[s] \in RRsets
  BY DEF DataTypes, Contributions
<1>2. \A x \in Sender : With(s, t, R)[x] = IF x = s THEN [contrib[s] EXCEPT ![t] = R] ELSE contrib[x]
  BY <1>1 DEF With
<1>3. \A y \in Type : [contrib[s] EXCEPT ![t] = R][y] = IF y = t THEN R ELSE contrib[s][y]
  BY <1>1 DEF RRsets
<1> QED BY <1>2, <1>3

\* Nothing changes: it is as if it were saved.
LEMMA NothingSaved ==
    ASSUME DataTypes, contrib' = contrib, disk' = disk, NEW ok
    PROVE  disk' = SavedBy(contrib', ok)
BY DEF SavedBy, Touched, DataTypes, Contributions

-----------------------------------------------------------------------------
(* Each operation stores what it confirms *)

\* What of a step's storing is left to Excused.
SavesRight(ok) == disk' = SavedBy(contrib', ok) /\ WordsRight(ok)

LEMMA NothingSavesRight ==
    ASSUME DataTypes, WordTypes, NEW s \in Sender, NEW t \in Type, NEW ok,
           NotTold(s, t), contrib' = contrib, disk' = disk
    PROVE  SavesRight(ok)
BY NothingSaved, ToldIsRight DEF SavesRight

LEMMA ChangeSavesRight ==
    ASSUME NEW c, NEW ok, Change(c, ok), WordsRight(ok)
    PROVE  SavesRight(ok)
BY DEF Change, SavesRight

LEMMA AddSavesRight ==
    ASSUME DataTypes, WordTypes, NEW p, NEW s \in Sender, NEW t \in Type, NEW R, NEW ok, Add(p, s, t, R, ok)
    PROVE  SavesRight(ok)
<1> DEFINE c == With(s, t, contrib[s][t] \cup R)
<1>1. Change(c, ok) /\ contrib' = c
  BY DEF Add, Change
<1>2. NotTold(s, t) \/ Told(s, t, c[s][t])
  BY DEF Add
<1>3. \A x \in Sender, y \in Type : (x = s /\ y = t) \/ c[x][y] = contrib[x][y]
  BY WithIsElsewhere
<1> HIDE DEF c
<1>4. WordsRight(ok)
  BY <1>1, <1>2, <1>3, ToldIsRight
<1> QED BY <1>1, <1>4, ChangeSavesRight

LEMMA DeleteSavesRight ==
    ASSUME DataTypes, WordTypes, NEW s \in Sender, NEW t \in Type, NEW R, NEW ok, Delete(s, t, R, ok)
    PROVE  SavesRight(ok)
<1> DEFINE c == With(s, t, contrib[s][t] \ R)
<1>1. Change(c, ok) /\ contrib' = c
  BY DEF Delete, Change
<1>2. NotTold(s, t) \/ Told(s, t, c[s][t])
  BY DEF Delete
<1>3. \A x \in Sender, y \in Type : (x = s /\ y = t) \/ c[x][y] = contrib[x][y]
  BY WithIsElsewhere
<1> HIDE DEF c
<1>4. WordsRight(ok)
  BY <1>1, <1>2, <1>3, ToldIsRight
<1> QED BY <1>1, <1>4, ChangeSavesRight

LEMMA DuplicateSavesRight ==
    ASSUME DataTypes, WordTypes, NEW s \in Sender, NEW t \in Type, NEW R, NEW ok, Duplicate(s, t, R, ok)
    PROVE  SavesRight(ok)
<1> DEFINE c == With(s, t, {})
<1>1. NotTold(s, t)
  BY DEF Duplicate
<1>2. CASE Change(c, ok)
  <2>1. \A x \in Sender, y \in Type : (x = s /\ y = t) \/ c[x][y] = contrib[x][y]
    BY WithIsElsewhere
  <2>2. contrib' = c
    BY <1>2 DEF Change
  <2> HIDE DEF c
  <2>3. WordsRight(ok)
    BY <1>1, <2>1, <2>2, ToldIsRight
  <2> QED BY <1>2, <2>3, ChangeSavesRight
<1>3. CASE UNCHANGED <<contrib, disk>>
  BY <1>1, <1>3, NothingSavesRight
<1> QED BY <1>2, <1>3 DEF Duplicate

LEMMA ReplaceSavesRight ==
    ASSUME DataTypes, WordTypes, NEW s \in Sender, NEW t \in Type, NEW o, NEW R, NEW ok, Replace(s, o, t, R, ok)
    PROVE  SavesRight(ok)
<1> DEFINE saved == s \in ok \/ contrib[s][t] = R
           drop == Dropped(s, o, t, R, saved)
           c == Replaced(s, t, R, drop)
           words == IF saved THEN {<<s, t, R>>} ELSE {}
<1>1. Change(c, ok)
  BY DEF Replace, Replaced
<1>2. Answer(s, t, words, drop)
  BY DEF Replace
<1>3. contrib' = c
  BY <1>1 DEF Change
<1>4. \A x \in Sender : contrib[x] \in RRsets
  BY DEF DataTypes, Contributions
<1> HIDE DEF drop
<1>5. \A x \in Sender, y \in Type : ((x = s \/ x \in drop) /\ y = t) \/ c[x][y] = contrib[x][y]
  BY <1>4 DEF Replaced, RRsets
<1>6. c[s][t] = R
  BY <1>4 DEF Replaced, RRsets
<1>7. \A w \in words : w[1] \in ok => w[3] = c[w[1]][w[2]]
  BY <1>6
<1> HIDE DEF c, words
<1>8. WordsRight(ok)
  BY <1>2, <1>3, <1>5, <1>7, AnswerIsRight
<1> QED BY <1>1, <1>8, ChangeSavesRight

LEMMA ProcessSavesRight ==
    ASSUME DataTypes, WordTypes, NEW s \in Sender, NEW t \in Type, NEW op, NEW R, NEW ok,
           CombinerProcessUpdate(s, t, op, R, ok)
    PROVE  SavesRight(ok)
<1>1. \/ NotTold(s, t) /\ NothingChanges
      \/ Duplicate(s, t, R, ok) \/ (\E o \in Existing(s, t) : Replace(s, o, t, R, ok))
      \/ Add("loop", s, t, R, ok) \/ Delete(s, t, R, ok)
  BY DEF CombinerProcessUpdate, TakeReplace
<1>2. CASE NotTold(s, t) /\ NothingChanges
  BY <1>2, NothingSavesRight DEF NothingChanges
<1> QED BY <1>1, <1>2, DuplicateSavesRight, ReplaceSavesRight, AddSavesRight, DeleteSavesRight

LEMMA UpdateStores ==
    ASSUME Typed, Typed', Stored, NEW s \in Agent, NEW t \in Type, NEW op, NEW R, TakeUpdate(s, t, op, R)
    PROVE  Stored'
<1>0. s \in Sender /\ loaded' = loaded /\ DataTypes /\ WordTypes /\ WordTypes'
  BY AgentsSend DEF Typed, TakeUpdate
<1>1. CASE manual
  <2>1. UNCHANGED <<contrib, disk, unsaved>>
    BY <1>1 DEF TakeUpdate, AwaitsApproval, NothingChanges
  <2>2. \A w \in said' : w \in said
    BY <1>1 DEF TakeUpdate, AwaitsApproval, NotTold, Answer
  <2> QED BY <1>0, <2>1, <2>2, StoredStays
<1>2. CASE ~manual
  <2>1. PICK ok \in Saves : CombinerProcessUpdate(s, t, op, R, ok)
    BY <1>2 DEF TakeUpdate
  <2>2. StoresBy(ok)
    BY <1>0, <2>1, ProcessSavesRight DEF SavesRight, StoresBy, CombinerProcessUpdate
  <2> QED BY <1>0, <2>2, StoredByThose
<1> QED BY <1>1, <1>2

LEMMA ApiAddStores ==
    ASSUME Typed, Typed', Stored, NEW t \in Type, NEW R, ApiAdd(t, R)
    PROVE  Stored'
<1>0. "local" \in Sender /\ loaded' = loaded /\ DataTypes /\ WordTypes /\ WordTypes'
  BY AgentsSend DEF Typed, ApiAdd
<1>1. PICK ok \in Saves : Add("api", "local", t, R, ok) /\ Excused(ok)
  BY DEF ApiAdd
<1>2. StoresBy(ok)
  BY <1>0, <1>1, AddSavesRight DEF SavesRight, StoresBy
<1> QED BY <1>0, <1>2, StoredByThose

LEMMA PurgeStores ==
    ASSUME Typed, Typed', Stored, NEW s \in Sender, Purge(s)
    PROVE  Stored'
<1>0. loaded' = loaded /\ DataTypes /\ WordTypes /\ WordTypes'
  BY DEF Typed, Purge
<1>1. PICK ok \in Saves : Change(Purged(s), ok) /\ said' = {w \in said : w[1] # s} /\ Excused(ok)
  BY DEF Purge, Purged
<1>2. contrib' = Purged(s)
  BY <1>1 DEF Change
<1>3. \A x \in Sender : x = s \/ contrib'[x] = contrib[x]
  BY <1>0, <1>2 DEF Purged, DataTypes, Contributions
<1>4. WordsRight(ok)
  BY <1>0, <1>1, <1>3 DEF WordsRight, WordTypes, IsWord
<1>5. StoresBy(ok)
  BY <1>1, <1>4, ChangeSavesRight DEF SavesRight, StoresBy
<1> QED BY <1>0, <1>5, StoredByThose

LEMMA QuietStores ==
    ASSUME Stored,
           \/ \E h \in Serial : TakeHandover(h)
           \/ \E p \in Proc : CopyState(p) \/ Stage(p)
           \/ \E e \in edits["pending"] : Approve(e) \/ Reject(e)
           \/ \E u \in Upstreams : Refresh(u)
           \/ UNCHANGED vars
    PROVE  Stored'
<1>1. UNCHANGED <<contrib, disk, loaded, unsaved>>
  BY DEF TakeHandover, CopyState, Stage, Approve, Reject, Refresh, vars, memory, history
<1>2. \A w \in said' : w \in said
  BY DEF TakeHandover, CopyState, Stage, Approve, Reject, Refresh, vars, history, NotTold, Answer
<1> QED BY <1>1, <1>2, StoredStays

LEMMA AnewStores ==
    ASSUME Typed, Stored, ClearContributions \/ Reapply \/ (\E reads \in BOOLEAN : Restart(reads))
    PROVE  Stored'
<1>1. CASE ClearContributions
  BY <1>1 DEF ClearContributions, Stored, MemoryIsOnDisk, ConfirmedIsStored
<1>2. CASE Reapply
  BY <1>2 DEF Reapply, Stored, MemoryIsOnDisk, ConfirmedIsStored
<1>3. ASSUME NEW reads \in BOOLEAN, Restart(reads) PROVE Stored'
  BY <1>3 DEF Restart, Stored, MemoryIsOnDisk, ConfirmedIsStored
<1> QED BY <1>1, <1>2, <1>3

LEMMA StoredInit == Init => Stored
BY DEF Init, Stored, MemoryIsOnDisk, ConfirmedIsStored

LEMMA StoredNext == Typed /\ Stored /\ [Next]_vars => Stored'
<1> SUFFICES ASSUME Typed, Stored, [Next]_vars PROVE Stored'
  OBVIOUS
<1>0. Typed'
  BY TypedNext
<1>1. ASSUME NEW s \in Agent, NEW t \in Type, NEW op, NEW R, TakeUpdate(s, t, op, R) PROVE Stored'
  BY <1>0, <1>1, UpdateStores
<1>2. ASSUME NEW t \in Type, NEW R, ApiAdd(t, R) PROVE Stored'
  BY <1>0, <1>2, ApiAddStores
<1>3. ASSUME NEW s \in Sender, Purge(s) PROVE Stored'
  BY <1>0, <1>3, PurgeStores
<1> QED BY <1>1, <1>2, <1>3, QuietStores, AnewStores DEF Next

\* What a sender was told is applied is on disk, whatever its contribution
\* became: a save of one type writes the sender's others as they are
\* (SaveContributions, persistContributionsOf).
THEOREM ConfirmedIsOnDisk == Spec => []ConfirmedIsStored
<1>1. Init => Typed /\ Stored
  BY TypedInit, StoredInit
<1>2. Typed /\ Stored /\ [Next]_vars => (Typed /\ Stored)'
  BY TypedNext, StoredNext
<1>3. Stored => ConfirmedIsStored
  BY DEF Stored
<1> QED BY <1>1, <1>2, <1>3, PTL DEF Spec

-----------------------------------------------------------------------------
(* CatchUp: the state *)

KeptMessage == [from : Provider, made : Serials \cup {0}, m : Msg]
NotYet == [to : Provider, dist : Nat, told : Serials]
Call == [set : SUBSET Rec, gone : SUBSET Rec]
Request == [from : Provider, name : Nat, reason : {"start", "peer-start", "outage", "manual"}]
\* A request that is out has its reason.
Asking == {e \in Ask : e.reason = "none" => e.st \in {"none", "idle"}}

\* What the combiner holds of each set, what the answer on its way holds,
\* and what was changed or confirmed since the answer was asked for.
Backed(A) ==
    \A b \in Provider :
      /\ A.note[b] = "confirmed" => A.stored[b] = A.data[b]
      /\ A.note[b] = "none" /\ A.read => A.stored[b] = A.data[b]
      /\ A.reading = "answer" /\ b \notin A.fresh => A.answer[b] = A.stored[b]
      /\ b \in A.fresh => A.note[b] # "none"

SetTypes(A) ==
    /\ A.loaded \in BOOLEAN /\ A.read \in BOOLEAN /\ A.reading \in {"no", "out", "answer"}
    /\ A.data \in [Provider -> SUBSET Rec] /\ A.stored \in [Provider -> SUBSET Rec]
    /\ A.answer \in [Provider -> SUBSET Rec]
    /\ A.note \in [Provider -> {"none", "sent", "confirmed"}]
    /\ A.fresh \in SUBSET Provider /\ A.told \in SUBSET Provider /\ A.undone \in SUBSET Provider
CarriedTypes(A) ==
    /\ A.origin \in [Provider -> Nat]
    /\ A.active \in Serials \cup {0} /\ A.phase \in {"steady", "agreeing", "reconciling"}
    /\ A.kept \in Seq(KeptMessage) /\ Len(A.kept) <= MaxKept
    /\ A.owed \in Seq(SUBSET Rec) /\ A.calls \in Seq(Call)
    /\ A.notYet \in Seq(NotYet) /\ Len(A.notYet) <= NotYetsKept
    /\ A.queue \in SUBSET Msg /\ IsFiniteSet(A.queue)
    /\ A.todo \in SUBSET Request /\ IsFiniteSet(A.todo)
    /\ A.ask \in [Provider -> Asking]
    /\ A.link \in [Provider -> {"never", "ok", "short", "long"}]

GoodState == {A \in AgentState : SetTypes(A) /\ CarriedTypes(A) /\ Backed(A)}

LEMMA AskingAsks == \A f \in [Provider -> Asking] : f \in [Provider -> Ask]
BY DEF Asking

LEMMA WithAsk ==
    ASSUME NEW A \in GoodState, NEW f \in [Provider -> Asking]
    PROVE  [A EXCEPT !.ask = f] \in GoodState
<1> DEFINE B == [A EXCEPT !.ask = f]
<1>1. B \in AgentState BY AskingAsks DEF GoodState, SetTypes, CarriedTypes, AgentState, NotYet, Call, Request, KeptMessage
<1>2. SetTypes(B) BY DEF GoodState, AgentState, SetTypes
<1>3. CarriedTypes(B) BY DEF GoodState, AgentState, CarriedTypes
<1>4. Backed(B) BY DEF GoodState, AgentState, SetTypes, Backed
<1> QED BY <1>1, <1>2, <1>3, <1>4 DEF GoodState

LEMMA WithQueue ==
    ASSUME NEW A \in GoodState, NEW Q \in SUBSET Msg, IsFiniteSet(Q)
    PROVE  [A EXCEPT !.queue = Q] \in GoodState
<1> DEFINE B == [A EXCEPT !.queue = Q]
<1>1. B \in AgentState BY AskingAsks DEF GoodState, SetTypes, CarriedTypes, AgentState, NotYet, Call, Request, KeptMessage
<1>2. SetTypes(B) BY DEF GoodState, AgentState, SetTypes
<1>3. CarriedTypes(B) BY DEF GoodState, AgentState, CarriedTypes
<1>4. Backed(B) BY DEF GoodState, AgentState, SetTypes, Backed
<1> QED BY <1>1, <1>2, <1>3, <1>4 DEF GoodState

LEMMA WithKept ==
    ASSUME NEW A \in GoodState, NEW s \in Seq(KeptMessage), Len(s) <= MaxKept
    PROVE  [A EXCEPT !.kept = s] \in GoodState
<1> DEFINE B == [A EXCEPT !.kept = s]
<1>1. B \in AgentState BY AskingAsks DEF GoodState, SetTypes, CarriedTypes, AgentState, NotYet, Call, Request, KeptMessage
<1>2. SetTypes(B) BY DEF GoodState, AgentState, SetTypes
<1>3. CarriedTypes(B) BY DEF GoodState, AgentState, CarriedTypes
<1>4. Backed(B) BY DEF GoodState, AgentState, SetTypes, Backed
<1> QED BY <1>1, <1>2, <1>3, <1>4 DEF GoodState

LEMMA WithOwed ==
    ASSUME NEW A \in GoodState, NEW s \in Seq(SUBSET Rec)
    PROVE  [A EXCEPT !.owed = s] \in GoodState
<1> DEFINE B == [A EXCEPT !.owed = s]
<1>1. B \in AgentState BY AskingAsks DEF GoodState, SetTypes, CarriedTypes, AgentState, NotYet, Call, Request, KeptMessage
<1>2. SetTypes(B) BY DEF GoodState, AgentState, SetTypes
<1>3. CarriedTypes(B) BY DEF GoodState, AgentState, CarriedTypes
<1>4. Backed(B) BY DEF GoodState, AgentState, SetTypes, Backed
<1> QED BY <1>1, <1>2, <1>3, <1>4 DEF GoodState

LEMMA WithNotYet ==
    ASSUME NEW A \in GoodState, NEW s \in Seq(NotYet), Len(s) <= NotYetsKept
    PROVE  [A EXCEPT !.notYet = s] \in GoodState
<1> DEFINE B == [A EXCEPT !.notYet = s]
<1>1. B \in AgentState BY AskingAsks DEF GoodState, SetTypes, CarriedTypes, AgentState, NotYet, Call, Request, KeptMessage
<1>2. SetTypes(B) BY DEF GoodState, AgentState, SetTypes
<1>3. CarriedTypes(B) BY DEF GoodState, AgentState, CarriedTypes
<1>4. Backed(B) BY DEF GoodState, AgentState, SetTypes, Backed
<1> QED BY <1>1, <1>2, <1>3, <1>4 DEF GoodState

LEMMA WithCalls ==
    ASSUME NEW A \in GoodState, NEW s \in Seq(Call)
    PROVE  [A EXCEPT !.calls = s] \in GoodState
<1> DEFINE B == [A EXCEPT !.calls = s]
<1>1. B \in AgentState BY AskingAsks DEF GoodState, SetTypes, CarriedTypes, AgentState, NotYet, Call, Request, KeptMessage
<1>2. SetTypes(B) BY DEF GoodState, AgentState, SetTypes
<1>3. CarriedTypes(B) BY DEF GoodState, AgentState, CarriedTypes
<1>4. Backed(B) BY DEF GoodState, AgentState, SetTypes, Backed
<1> QED BY <1>1, <1>2, <1>3, <1>4 DEF GoodState

LEMMA WithTodo ==
    ASSUME NEW A \in GoodState, NEW Q \in SUBSET Request, IsFiniteSet(Q)
    PROVE  [A EXCEPT !.todo = Q] \in GoodState
<1> DEFINE B == [A EXCEPT !.todo = Q]
<1>1. B \in AgentState BY AskingAsks DEF GoodState, SetTypes, CarriedTypes, AgentState, NotYet, Call, Request, KeptMessage
<1>2. SetTypes(B) BY DEF GoodState, AgentState, SetTypes
<1>3. CarriedTypes(B) BY DEF GoodState, AgentState, CarriedTypes
<1>4. Backed(B) BY DEF GoodState, AgentState, SetTypes, Backed
<1> QED BY <1>1, <1>2, <1>3, <1>4 DEF GoodState

LEMMA WithLink ==
    ASSUME NEW A \in GoodState, NEW f \in [Provider -> {"never", "ok", "short", "long"}]
    PROVE  [A EXCEPT !.link = f] \in GoodState
<1> DEFINE B == [A EXCEPT !.link = f]
<1>1. B \in AgentState BY AskingAsks DEF GoodState, SetTypes, CarriedTypes, AgentState, NotYet, Call, Request, KeptMessage
<1>2. SetTypes(B) BY DEF GoodState, AgentState, SetTypes
<1>3. CarriedTypes(B) BY DEF GoodState, AgentState, CarriedTypes
<1>4. Backed(B) BY DEF GoodState, AgentState, SetTypes, Backed
<1> QED BY <1>1, <1>2, <1>3, <1>4 DEF GoodState

LEMMA WithOrigin ==
    ASSUME NEW A \in GoodState, NEW f \in [Provider -> Nat]
    PROVE  [A EXCEPT !.origin = f] \in GoodState
<1> DEFINE B == [A EXCEPT !.origin = f]
<1>1. B \in AgentState BY AskingAsks DEF GoodState, SetTypes, CarriedTypes, AgentState, NotYet, Call, Request, KeptMessage
<1>2. SetTypes(B) BY DEF GoodState, AgentState, SetTypes
<1>3. CarriedTypes(B) BY DEF GoodState, AgentState, CarriedTypes
<1>4. Backed(B) BY DEF GoodState, AgentState, SetTypes, Backed
<1> QED BY <1>1, <1>2, <1>3, <1>4 DEF GoodState

LEMMA WithActive ==
    ASSUME NEW A \in GoodState, NEW v \in Serials \cup {0}
    PROVE  [A EXCEPT !.active = v] \in GoodState
<1> DEFINE B == [A EXCEPT !.active = v]
<1>1. B \in AgentState BY AskingAsks DEF GoodState, SetTypes, CarriedTypes, AgentState, NotYet, Call, Request, KeptMessage
<1>2. SetTypes(B) BY DEF GoodState, AgentState, SetTypes
<1>3. CarriedTypes(B) BY DEF GoodState, AgentState, CarriedTypes
<1>4. Backed(B) BY DEF GoodState, AgentState, SetTypes, Backed
<1> QED BY <1>1, <1>2, <1>3, <1>4 DEF GoodState

LEMMA WithPhase ==
    ASSUME NEW A \in GoodState, NEW x \in {"steady", "agreeing", "reconciling"}
    PROVE  [A EXCEPT !.phase = x] \in GoodState
<1> DEFINE B == [A EXCEPT !.phase = x]
<1>1. B \in AgentState BY AskingAsks DEF GoodState, SetTypes, CarriedTypes, AgentState, NotYet, Call, Request, KeptMessage
<1>2. SetTypes(B) BY DEF GoodState, AgentState, SetTypes
<1>3. CarriedTypes(B) BY DEF GoodState, AgentState, CarriedTypes
<1>4. Backed(B) BY DEF GoodState, AgentState, SetTypes, Backed
<1> QED BY <1>1, <1>2, <1>3, <1>4 DEF GoodState

LEMMA WithLoaded ==
    ASSUME NEW A \in GoodState
    PROVE  [A EXCEPT !.loaded = TRUE] \in GoodState
<1> DEFINE B == [A EXCEPT !.loaded = TRUE]
<1>1. B \in AgentState BY AskingAsks DEF GoodState, SetTypes, CarriedTypes, AgentState, NotYet, Call, Request, KeptMessage
<1>2. SetTypes(B) BY DEF GoodState, AgentState, SetTypes
<1>3. CarriedTypes(B) BY DEF GoodState, AgentState, CarriedTypes
<1>4. Backed(B) BY DEF GoodState, AgentState, SetTypes, Backed
<1> QED BY <1>1, <1>2, <1>3, <1>4 DEF GoodState

LEMMA WithoutRead ==
    ASSUME NEW A \in GoodState
    PROVE  [A EXCEPT !.read = FALSE] \in GoodState
<1> DEFINE B == [A EXCEPT !.read = FALSE]
<1>1. B \in AgentState BY AskingAsks DEF GoodState, SetTypes, CarriedTypes, AgentState, NotYet, Call, Request, KeptMessage
<1>2. SetTypes(B) BY DEF GoodState, AgentState, SetTypes
<1>3. CarriedTypes(B) BY DEF GoodState, AgentState, CarriedTypes
<1>4. Backed(B) BY DEF GoodState, AgentState, SetTypes, Backed
<1> QED BY <1>1, <1>2, <1>3, <1>4 DEF GoodState

LEMMA WithHistory ==
    ASSUME NEW A \in GoodState, NEW X \in SUBSET Provider, NEW Y \in SUBSET Provider
    PROVE  [A EXCEPT !.told = X, !.undone = Y] \in GoodState
<1> DEFINE B == [A EXCEPT !.told = X, !.undone = Y]
<1>1. B \in AgentState BY AskingAsks DEF GoodState, SetTypes, CarriedTypes, AgentState, NotYet, Call, Request, KeptMessage
<1>2. SetTypes(B) BY DEF GoodState, AgentState, SetTypes
<1>3. CarriedTypes(B) BY DEF GoodState, AgentState, CarriedTypes
<1>4. Backed(B) BY DEF GoodState, AgentState, SetTypes, Backed
<1> QED BY <1>1, <1>2, <1>3, <1>4 DEF GoodState

LEMMA LocalSet ==
    ASSUME NEW A \in GoodState, NEW a \in Provider, NEW set \in SUBSET Rec
    PROVE  [A EXCEPT !.data[a] = set, !.note[a] = "sent", !.fresh = @ \cup {a}] \in GoodState
<1> DEFINE B == [A EXCEPT !.data[a] = set, !.note[a] = "sent", !.fresh = @ \cup {a}]
<1>1. B \in AgentState BY AskingAsks DEF GoodState, SetTypes, CarriedTypes, AgentState, NotYet, Call, Request, KeptMessage
<1>2. SetTypes(B) BY DEF GoodState, AgentState, SetTypes
<1>3. CarriedTypes(B) BY DEF GoodState, AgentState, CarriedTypes
<1>4. Backed(B) BY DEF GoodState, AgentState, SetTypes, Backed
<1> QED BY <1>1, <1>2, <1>3, <1>4 DEF GoodState

LEMMA HandedOver ==
    ASSUME NEW A \in GoodState, NEW b \in Provider, A.note[b] = "sent"
    PROVE  [A EXCEPT !.stored[b] = A.data[b], !.note[b] = "confirmed", !.fresh = @ \cup {b}] \in GoodState
<1> DEFINE B == [A EXCEPT !.stored[b] = A.data[b], !.note[b] = "confirmed", !.fresh = @ \cup {b}]
<1>1. B \in AgentState BY AskingAsks DEF GoodState, SetTypes, CarriedTypes, AgentState, NotYet, Call, Request, KeptMessage
<1>2. SetTypes(B) BY DEF GoodState, AgentState, SetTypes
<1>3. CarriedTypes(B) BY DEF GoodState, AgentState, CarriedTypes
<1>4. Backed(B) BY DEF GoodState, AgentState, SetTypes, Backed
<1> QED BY <1>1, <1>2, <1>3, <1>4 DEF GoodState

LEMMA ReadAsked ==
    ASSUME NEW A \in GoodState, A.reading = "no"
    PROVE  [A EXCEPT !.reading = "out", !.fresh = {}] \in GoodState
<1> DEFINE B == [A EXCEPT !.reading = "out", !.fresh = {}]
<1>1. B \in AgentState BY AskingAsks DEF GoodState, SetTypes, CarriedTypes, AgentState, NotYet, Call, Request, KeptMessage
<1>2. SetTypes(B) BY DEF GoodState, AgentState, SetTypes
<1>3. CarriedTypes(B) BY DEF GoodState, AgentState, CarriedTypes
<1>4. Backed(B) BY DEF GoodState, AgentState, SetTypes, Backed
<1> QED BY <1>1, <1>2, <1>3, <1>4 DEF GoodState

LEMMA ReadAnswered ==
    ASSUME NEW A \in GoodState, A.reading = "out"
    PROVE  [A EXCEPT !.reading = "answer", !.answer = A.stored] \in GoodState
<1> DEFINE B == [A EXCEPT !.reading = "answer", !.answer = A.stored]
<1>1. B \in AgentState BY AskingAsks DEF GoodState, SetTypes, CarriedTypes, AgentState, NotYet, Call, Request, KeptMessage
<1>2. SetTypes(B) BY DEF GoodState, AgentState, SetTypes
<1>3. CarriedTypes(B) BY DEF GoodState, AgentState, CarriedTypes
<1>4. Backed(B) BY DEF GoodState, AgentState, SetTypes, Backed
<1> QED BY <1>1, <1>2, <1>3, <1>4 DEF GoodState

LEMMA ReadDone ==
    ASSUME NEW A \in GoodState, A.reading = "answer", NEW Y \in SUBSET Provider
    PROVE  [NoReading(A) EXCEPT !.read = TRUE,
              !.data = [b \in Provider |-> IF MayApplyOwnRead(A, b) THEN A.answer[b] ELSE A.data[b]],
              !.undone = Y] \in GoodState
<1> DEFINE d == [b \in Provider |-> IF MayApplyOwnRead(A, b) THEN A.answer[b] ELSE A.data[b]]
           e == [b \in Provider |-> {}]
           B == [A EXCEPT !.reading = "no", !.answer = e, !.fresh = {}, !.read = TRUE, !.data = d, !.undone = Y]
<1>0. d \in [Provider -> SUBSET Rec] /\ e \in [Provider -> SUBSET Rec] BY DEF GoodState, SetTypes
<1>1. \A b \in Provider :
        /\ A.note[b] = "none" => d[b] = A.answer[b]
        /\ A.note[b] = "confirmed" => d[b] = IF b \in A.fresh THEN A.data[b] ELSE A.answer[b]
  BY DEF MayApplyOwnRead
<1> HIDE DEF d, e
<1>2. B \in AgentState BY <1>0 DEF GoodState, AgentState
<1>3. SetTypes(B) BY <1>0 DEF GoodState, AgentState, SetTypes
<1>4. CarriedTypes(B) BY DEF GoodState, AgentState, CarriedTypes
<1>5. Backed(B)
  <2>1. /\ B.note = A.note /\ B.stored = A.stored /\ B.data = d /\ B.read /\ B.reading = "no" /\ B.fresh = {}
    BY DEF GoodState, AgentState
  <2>2. \A b \in Provider : A.note[b] \in {"none", "sent", "confirmed"} BY DEF GoodState, SetTypes
  <2>3. Backed(A) BY DEF GoodState
  <2> HIDE DEF B
  <2> QED BY <1>1, <2>1, <2>2, <2>3 DEF Backed
<1>6. B \in GoodState BY <1>2, <1>3, <1>4, <1>5 DEF GoodState
<1>7. B = [NoReading(A) EXCEPT !.read = TRUE, !.data = d, !.undone = Y] BY DEF NoReading, e
<1> QED BY <1>6, <1>7 DEF d

LEMMA StartedAgain ==
    ASSUME NEW A \in GoodState, NEW a \in Provider, NEW hydrated \in BOOLEAN
    PROVE  Started(A, a, hydrated) \in GoodState
<1> DEFINE d == [b \in Provider |-> IF hydrated THEN A.stored[b] ELSE {}]
           e == [b \in Provider |-> {}]
           n == [b \in Provider |-> "none"]
           q == [b \in Provider |-> NoAsk]
           l == [b \in Provider |-> IF b = a THEN "ok" ELSE "never"]
           B == [A EXCEPT !.reading = "no", !.answer = e, !.fresh = {},
                   !.loaded = FALSE, !.read = hydrated, !.data = d, !.note = n,
                   !.notYet = <<>>, !.calls = <<>>, !.queue = {}, !.todo = {}, !.ask = q, !.link = l,
                   !.told = {}, !.undone = {}]
<1>1. /\ d \in [Provider -> SUBSET Rec] /\ e \in [Provider -> SUBSET Rec]
      /\ n \in [Provider -> {"none", "sent", "confirmed"}]
      /\ l \in [Provider -> {"never", "ok", "short", "long"}]
  BY DEF GoodState, SetTypes
<1>2. q \in [Provider -> Asking] BY DEF NoAsk, Ask, Asking
<1>3. q \in [Provider -> Ask] BY <1>2, AskingAsks
<1>4. \A b \in Provider : n[b] = "none" /\ (hydrated => d[b] = A.stored[b]) OBVIOUS
<1>5. /\ IsFiniteSet({}) /\ <<>> \in Seq(NotYet) /\ <<>> \in Seq(Call) /\ Len(<<>>) = 0 /\ 0 <= NotYetsKept
  BY FS_EmptySet, ConstantsAssumption
<1>6. B = Started(A, a, hydrated) BY DEF Started, NoReading
<1> HIDE DEF d, e, n, q, l
<1>7. B \in AgentState
  <2> DEFINE C == [A EXCEPT !.reading = "no", !.answer = e, !.fresh = {},
                     !.loaded = FALSE, !.read = hydrated, !.data = d, !.note = n]
             D == [C EXCEPT !.notYet = <<>>, !.calls = <<>>, !.queue = {}, !.todo = {}]
  <2>1. C \in AgentState BY <1>1 DEF GoodState, AgentState
  <2> HIDE DEF C
  <2>2. D \in AgentState BY <1>5, <2>1 DEF AgentState, NotYet, Call
  <2>3. B = [D EXCEPT !.ask = q, !.link = l, !.told = {}, !.undone = {}] BY DEF C
  <2> HIDE DEF B, D
  <2> QED BY <1>1, <1>3, <2>2, <2>3 DEF AgentState
<1>8. SetTypes(B) BY <1>1 DEF GoodState, AgentState, SetTypes
<1>9. CarriedTypes(B)
  <2>1. /\ B.notYet = <<>> /\ B.calls = <<>> /\ B.queue = {} /\ B.todo = {} /\ B.ask = q /\ B.link = l
        /\ B.origin = A.origin /\ B.active = A.active /\ B.phase = A.phase /\ B.kept = A.kept /\ B.owed = A.owed
    BY DEF GoodState, AgentState
  <2> HIDE DEF B
  <2> QED BY <1>1, <1>2, <1>5, <2>1 DEF GoodState, CarriedTypes
<1>10. Backed(B)
  <2>1. /\ B.note = n /\ B.stored = A.stored /\ B.data = d /\ B.read = hydrated /\ B.reading = "no" /\ B.fresh = {}
    BY DEF GoodState, AgentState
  <2> HIDE DEF B
  <2> QED BY <1>4, <2>1 DEF Backed
<1> QED BY <1>6, <1>7, <1>8, <1>9, <1>10 DEF GoodState

-----------------------------------------------------------------------------
(* Sets, sequences and what is done many times over *)

LEMMA EverySet ==
  ASSUME NEW S, IsFiniteSet(S), NEW T, {} \in T,
         \A U \in SUBSET S, x \in S : U \in T => U \cup {x} \in T
  PROVE  S \in T
<1> DEFINE C == {U \in SUBSET S : S \ U \in T}
<1>1. S \in C BY DEF C
<1>2. C \subseteq FiniteSubsetsOf(S) BY FS_Subset DEF FiniteSubsetsOf
<1>3. IsWellFoundedOn(StrictSubsetOrdering(S), FiniteSubsetsOf(S)) BY FS_StrictSubsetOrderingWellFounded
<1> HIDE DEF C
<1>4. PICK U \in C : \A V \in C : ~ (<<V, U>> \in StrictSubsetOrdering(S)) BY <1>1, <1>2, <1>3, WFMin
<1>5. U \subseteq S /\ S \ U \in T BY DEF C
<1>6. CASE U = {} BY <1>5, <1>6
<1>7. CASE U # {}
  <2>1. PICK x \in U : TRUE BY <1>7
  <2>2. (S \ U) \cup {x} = S \ (U \ {x}) BY <1>5
  <2>3. (U \ {x}) \in C BY <2>2, <1>5 DEF C
  <2>4. <<U \ {x}, U>> \in StrictSubsetOrdering(S) BY <1>5 DEF StrictSubsetOrdering
  <2> QED BY <2>3, <2>4, <1>4
<1> QED BY <1>6, <1>7

LEMMA MaxOf ==
  ASSUME NEW S \in SUBSET Nat, IsFiniteSet(S), S # {}
  PROVE  Max(S) \in S /\ \A i \in S : Max(S) >= i
<1> DEFINE T == {U \in SUBSET S : U = {} \/ \E n \in U : \A i \in U : n >= i}
<1>1. ASSUME NEW U \in SUBSET S, NEW x \in S, U \in T PROVE U \cup {x} \in T
  <2>1. CASE U = {} BY <2>1
  <2>2. CASE U # {}
    <3>1. PICK n \in U : \A i \in U : n >= i BY <1>1, <2>2
    <3>2. n \in Nat /\ x \in Nat OBVIOUS
    <3>3. CASE x >= n
      <4>1. \A i \in U \cup {x} : x >= i BY <3>1, <3>2, <3>3
      <4> QED BY <4>1
    <3>4. CASE ~(x >= n)
      <4>1. \A i \in U \cup {x} : n >= i BY <3>1, <3>2, <3>4
      <4> QED BY <4>1
    <3> QED BY <3>3, <3>4
  <2> QED BY <2>1, <2>2
<1>2. {} \in T OBVIOUS
<1> HIDE DEF T
<1>3. S \in T BY <1>1, <1>2, EverySet
<1>4. \E n \in S : \A i \in S : n >= i BY <1>3 DEF T
<1> QED BY <1>4 DEF Max

LEMMA MinOf ==
  ASSUME NEW S \in SUBSET Nat, IsFiniteSet(S), S # {}
  PROVE  Min(S) \in S /\ \A i \in S : Min(S) <= i
<1> DEFINE T == {U \in SUBSET S : U = {} \/ \E n \in U : \A i \in U : n <= i}
<1>1. ASSUME NEW U \in SUBSET S, NEW x \in S, U \in T PROVE U \cup {x} \in T
  <2>1. CASE U = {} BY <2>1
  <2>2. CASE U # {}
    <3>1. PICK n \in U : \A i \in U : n <= i BY <1>1, <2>2
    <3>2. n \in Nat /\ x \in Nat OBVIOUS
    <3>3. CASE x <= n
      <4>1. \A i \in U \cup {x} : x <= i BY <3>1, <3>2, <3>3
      <4> QED BY <4>1
    <3>4. CASE ~(x <= n)
      <4>1. \A i \in U \cup {x} : n <= i BY <3>1, <3>2, <3>4
      <4> QED BY <4>1
    <3> QED BY <3>3, <3>4
  <2> QED BY <2>1, <2>2
<1>2. {} \in T OBVIOUS
<1> HIDE DEF T
<1>3. S \in T BY <1>1, <1>2, EverySet
<1>4. \E n \in S : \A i \in S : n <= i BY <1>3 DEF T
<1> QED BY <1>4 DEF Min

LEMMA EveryUpTo ==
  ASSUME NEW N \in Nat, NEW T, 0 \in T, \A n \in 0..(N - 1) : n \in T => n + 1 \in T
  PROVE  \A n \in 0..N : n \in T
<1> DEFINE U == {n \in 0..N : n \notin T}
<1>1. CASE U # {}
  <2>1. U \in SUBSET Nat /\ IsFiniteSet(U)
    <3>1. IsFiniteSet(0..N) BY FS_Interval
    <3>2. U \subseteq 0..N /\ 0..N \subseteq Nat OBVIOUS
    <3> HIDE DEF U
    <3>3. IsFiniteSet(U) BY <3>1, <3>2, FS_Subset
    <3> QED BY <3>2, <3>3
  <2> DEFINE n == Min(U)
  <2>2. n \in U /\ \A i \in U : n <= i
    <3> HIDE DEF U
    <3> QED BY <1>1, <2>1, MinOf
  <2> HIDE DEF n
  <2>3. n \in 0..N /\ n \notin T /\ n # 0 BY <2>2
  <2>4. n - 1 \in 0..(N - 1) /\ ~(n <= n - 1) BY <2>3
  <2>5. n - 1 \in T BY <2>2, <2>4
  <2>6. n \in T BY <2>3, <2>4, <2>5
  <2> QED BY <2>3, <2>6
<1> QED BY <1>1

LEMMA ImageIsFinite ==
    ASSUME NEW S, IsFiniteSet(S), NEW f, DOMAIN f = S
    PROVE  IsFiniteSet({f[x] : x \in S})
<1> DEFINE g == [x \in S |-> f[x]]
           T == {f[x] : x \in S}
<1>1. g \in Surjection(S, T) BY DEF Surjection
<1> HIDE DEF g, T
<1>2. IsFiniteSet(T) BY <1>1, FS_Surjection
<1> QED BY <1>2 DEF T

LEMMA CoveredIsFinite ==
    ASSUME NEW S, IsFiniteSet(S), NEW f, DOMAIN f = S, NEW T, \A t \in T : \E x \in S : t = f[x]
    PROVE  IsFiniteSet(T)
<1> DEFINE U == {f[x] : x \in S}
<1>1. T \in SUBSET U OBVIOUS
<1>2. IsFiniteSet(U) BY ImageIsFinite
<1> HIDE DEF U
<1> QED BY <1>1, <1>2, FS_Subset

LEMMA RangeIsFinite ==
    ASSUME NEW E, NEW s \in Seq(E)
    PROVE  IsFiniteSet(ToSet(s)) /\ ToSet(s) \subseteq E
<1>1. DOMAIN s = 1..Len(s) /\ Len(s) \in Nat /\ \A i \in 1..Len(s) : s[i] \in E OBVIOUS
<1>2. IsFiniteSet(1..Len(s)) BY <1>1, FS_Interval
<1>3. ToSet(s) = {s[i] : i \in 1..Len(s)} BY <1>1 DEF ToSet
<1>4. IsFiniteSet({s[i] : i \in 1..Len(s)}) BY <1>1, <1>2, ImageIsFinite
<1> QED BY <1>1, <1>3, <1>4

\* A name that is not in use.
LEMMA NameIsFree ==
    ASSUME NEW S, IsFiniteSet(S)
    PROVE  (CHOOSE i \in 1..(Cardinality(S) + 1) : i \notin S) \in Nat
<1> DEFINE c == Cardinality(S)
<1>1. c \in Nat BY FS_CardinalityType
<1>2. \E i \in 1..(c + 1) : i \notin S
  <2> SUFFICES ASSUME 1..(c + 1) \subseteq S PROVE FALSE
    OBVIOUS
  <2>1. Cardinality(1..(c + 1)) <= c BY FS_Subset
  <2> HIDE DEF c
  <2>2. 1 \in Int /\ c + 1 \in Int /\ ~(1 > c + 1) BY <1>1
  <2>3. Cardinality(1..(c + 1)) = c + 1
    <3>1. Cardinality(1..(c + 1)) = IF 1 > c + 1 THEN 0 ELSE (c + 1) - 1 + 1 BY <2>2, FS_Interval
    <3> QED BY <1>1, <2>2, <3>1
  <2> QED BY <1>1, <2>1, <2>3
<1> HIDE DEF c
<1>3. (CHOOSE i \in 1..(c + 1) : i \notin S) \in 1..(c + 1) BY <1>2
<1> QED BY <1>1, <1>3 DEF c

\* What is done n times over, on values of S.
Iteration(f, S, x, N, step) == f \in [0..N -> S] /\ f[0] = x /\ \A n \in 1..N : f[n] = step[n][f[n - 1]]

LEMMA Iterates ==
    ASSUME NEW S, NEW x \in S, NEW N \in Nat, NEW step \in [1..N -> [S -> S]]
    PROVE  \E f : Iteration(f, S, x, N, step)
<1> DEFINE Up(g, n) == g \in [0..n -> S] /\ g[0] = x /\ \A i \in 1..n : g[i] = step[i][g[i - 1]]
           T == {n \in 0..N : \E g : Up(g, n)}
<1>1. 0 \in T
  <2>1. Up([i \in 0..0 |-> x], 0) OBVIOUS
  <2>2. 0 \in 0..N OBVIOUS
  <2> HIDE DEF Up
  <2> QED BY <2>1, <2>2
<1>2. ASSUME NEW n \in 0..(N - 1), n \in T PROVE n + 1 \in T
  <2>1. PICK g : Up(g, n) BY <1>2
  <2> DEFINE h == [i \in 0..(n + 1) |-> IF i = n + 1 THEN step[n + 1][g[n]] ELSE g[i]]
  <2>2. n \in Nat /\ n + 1 \in 1..N /\ n \in 0..n OBVIOUS
  <2>3. g[n] \in S BY <2>1, <2>2
  <2>4. step[n + 1][g[n]] \in S BY <2>2, <2>3
  <2>5. h \in [0..(n + 1) -> S]
    <3>1. \A i \in 0..(n + 1) : i # n + 1 => i \in 0..n BY <2>2
    <3>2. \A i \in 0..(n + 1) : i # n + 1 => g[i] \in S BY <2>1, <3>1
    <3> QED BY <2>4, <3>2
  <2>6. \A i \in 0..n : h[i] = g[i] BY <2>2
  <2>7. h[n + 1] = step[n + 1][g[n]] BY <2>2
  <2> HIDE DEF h
  <2>8. h[0] = x BY <2>1, <2>2, <2>6
  <2>9. \A i \in 1..(n + 1) : h[i] = step[i][h[i - 1]]
    <3> TAKE i \in 1..(n + 1)
    <3>1. CASE i = n + 1
      <4>1. i - 1 = n BY <2>2, <3>1
      <4> QED BY <2>2, <2>6, <2>7, <3>1, <4>1
    <3>2. CASE i # n + 1
      <4>1. i \in 1..n /\ i \in 0..n /\ i - 1 \in 0..n BY <2>2, <3>2
      <4> QED BY <2>1, <2>6, <4>1
    <3> QED BY <3>1, <3>2
  <2>10. Up(h, n + 1) BY <2>5, <2>8, <2>9
  <2>11. n + 1 \in 0..N BY <2>2
  <2> HIDE DEF Up
  <2> QED BY <2>10, <2>11
<1> HIDE DEF T
<1>3. \A n \in 0..N : n \in T BY <1>1, <1>2, EveryUpTo
<1>4. N \in T BY <1>3
<1> QED BY <1>4 DEF T, Iteration

LEMMA SubsequenceIs ==
    ASSUME NEW E, NEW s \in Seq(E), NEW I
    PROVE  Subsequence(s, I) \in Seq(E) /\ Len(Subsequence(s, I)) <= Len(s)
<1> DEFINE N == Len(s)
           Is(f) == f = [n \in 0..N |-> IF n = 0 THEN <<>> ELSE IF n \in I THEN Append(f[n - 1], s[n]) ELSE f[n - 1]]
           f == CHOOSE g : Is(g)
           step == [n \in 1..N |-> [r \in Seq(E) |-> IF n \in I THEN Append(r, s[n]) ELSE r]]
<1>1. Subsequence(s, I) = f[N] BY DEF Subsequence
<1>2. N \in Nat /\ \A n \in 1..N : s[n] \in E OBVIOUS
<1>3. step \in [1..N -> [Seq(E) -> Seq(E)]] BY <1>2
<1>4. \A n \in 1..N, r \in Seq(E) : step[n][r] = IF n \in I THEN Append(r, s[n]) ELSE r OBVIOUS
<1>5. <<>> \in Seq(E) OBVIOUS
<1>6. PICK g \in [0..N -> Seq(E)] : g[0] = <<>> /\ \A n \in 1..N : g[n] = step[n][g[n - 1]]
  <2> DEFINE S == Seq(E)
             x == <<>>
  <2>1. step \in [1..N -> [S -> S]] /\ x \in S /\ N \in Nat BY <1>2, <1>3, <1>5
  <2>2. \E g : Iteration(g, S, x, N, step)
    <3> HIDE DEF step, N, S, x
    <3> QED BY <2>1, Iterates
  <2> QED BY <2>2 DEF Iteration
<1> HIDE DEF step
<1>7. \A n \in 0..N : n # 0 => n \in 1..N /\ n - 1 \in 0..N BY <1>2
<1>8. \A n \in 0..N : g[n] = IF n = 0 THEN <<>> ELSE IF n \in I THEN Append(g[n - 1], s[n]) ELSE g[n - 1]
  <2> HIDE DEF N
  <2> QED BY <1>4, <1>6, <1>7
<1>9. Is(g)
  <2>1. g = [n \in 0..N |-> g[n]] BY <1>6
  <2> QED BY <1>8, <2>1
<1>10. Is(f)
  <2> HIDE DEF Is
  <2> QED BY <1>9
<1> HIDE DEF f
<1>11. \A n \in 0..N : f[n] = IF n = 0 THEN <<>> ELSE IF n \in I THEN Append(f[n - 1], s[n]) ELSE f[n - 1]
  BY <1>10
<1> DEFINE T == {n \in 0..N : f[n] \in Seq(E) /\ Len(f[n]) <= n}
<1>12. 0 \in T
  <2>1. 0 \in 0..N BY <1>2
  <2>2. f[0] = <<>> BY <1>11, <2>1
  <2>3. <<>> \in Seq(E) /\ Len(<<>>) <= 0 OBVIOUS
  <2>4. f[0] \in Seq(E) /\ Len(f[0]) <= 0 BY <2>2, <2>3
  <2> HIDE DEF N
  <2> QED BY <2>1, <2>4
<1>13. ASSUME NEW n \in 0..(N - 1), n \in T PROVE n + 1 \in T
  <2>1. n + 1 \in 0..N /\ n + 1 \in 1..N /\ n + 1 # 0 /\ (n + 1) - 1 = n /\ n \in Nat BY <1>2
  <2>2. f[n + 1] = IF n + 1 \in I THEN Append(f[n], s[n + 1]) ELSE f[n] BY <1>11, <2>1
  <2>3. f[n] \in Seq(E) /\ Len(f[n]) <= n /\ s[n + 1] \in E BY <1>2, <1>13, <2>1
  <2>4. f[n + 1] \in Seq(E) /\ Len(f[n + 1]) <= n + 1
    <3> HIDE DEF N
    <3>1. Len(f[n]) \in Nat BY <2>3
    <3>2. CASE n + 1 \in I
      <4>1. /\ Append(f[n], s[n + 1]) \in Seq(E) /\ Len(Append(f[n], s[n + 1])) = Len(f[n]) + 1
        BY <2>3, AppendProperties
      <4> QED BY <2>1, <2>2, <2>3, <3>1, <3>2, <4>1
    <3>3. CASE n + 1 \notin I BY <2>1, <2>2, <2>3, <3>1, <3>3
    <3> QED BY <3>2, <3>3
  <2> QED BY <2>1, <2>4
<1> HIDE DEF T, N
<1>14. \A n \in 0..N : n \in T BY <1>2, <1>12, <1>13, EveryUpTo
<1>15. N \in T BY <1>2, <1>14
<1> QED BY <1>1, <1>15 DEF T, N

-----------------------------------------------------------------------------
(* Names, times and messages *)

States == [Provider -> GoodState]
VotersTyped == votersAt \in Seq(SUBSET Provider) /\ votersAt # <<>>
CatchUpPart == [name : Nat, complete : BOOLEAN]

LEMMA GoodIs == \A A \in GoodState : A \in AgentState /\ SetTypes(A) /\ CarriedTypes(A) /\ Backed(A)
BY DEF GoodState

LEMMA ReadingIs ==
    ASSUME VotersTyped, NEW A \in GoodState
    PROVE  /\ Reading(A) \in Serials /\ votersAt[Reading(A)] \in SUBSET Provider
           /\ \A a : Peers(A, a) \in SUBSET Provider
<1>1. A.active \in Serials \cup {0} BY GoodIs DEF CarriedTypes
<1>2. Serials = 1..Len(votersAt) /\ Len(votersAt) \in Nat \ {0} BY EmptySeq DEF Serials, VotersTyped
<1>3. Reading(A) \in 1..Len(votersAt) BY <1>1, <1>2 DEF Reading
<1>4. votersAt[Reading(A)] \in SUBSET Provider BY <1>3 DEF VotersTyped
<1> QED BY <1>2, <1>3, <1>4 DEF Peers

LEMMA NewNameIs ==
    ASSUME ag \in States, NEW a \in Provider, NEW p \in Provider
    PROVE  NewName(a, p) \in Nat
<1> DEFINE own == {ag[a].ask[p].name, ag[p].ask[a].back}
           Q == {q \in ag[p].todo : q.from = a}
           M == {m \in ag[p].queue : m.to = a}
           K == {k \in ToSet(ag[a].kept) : k.from = p}
           inUse == own \cup {q.name : q \in Q} \cup {m.cu.name : m \in M} \cup {k.m.cu.name : k \in K}
<1>1. CarriedTypes(ag[a]) /\ CarriedTypes(ag[p]) BY GoodIs DEF States
<1>2. IsFiniteSet(Q) /\ IsFiniteSet(M) /\ IsFiniteSet(K)
  <2>1. IsFiniteSet(ag[p].todo) /\ IsFiniteSet(ag[p].queue) BY <1>1 DEF CarriedTypes
  <2>2. IsFiniteSet(ToSet(ag[a].kept)) BY <1>1, RangeIsFinite DEF CarriedTypes
  <2>3. Q \subseteq ag[p].todo /\ M \subseteq ag[p].queue /\ K \subseteq ToSet(ag[a].kept) OBVIOUS
  <2> HIDE DEF Q, M, K
  <2> QED BY <2>1, <2>2, <2>3, FS_Subset
<1> HIDE DEF Q, M, K
<1>3. IsFiniteSet({q.name : q \in Q})
  <2> DEFINE f == [q \in Q |-> q.name]
  <2> DEFINE T == {q.name : q \in Q}
  <2>1. DOMAIN f = Q /\ \A t \in T : \E q \in Q : t = f[q] OBVIOUS
  <2>3. IsFiniteSet(T)
    <3> HIDE DEF f, T
    <3> QED BY <1>2, <2>1, CoveredIsFinite
  <2> QED BY <2>3
<1>4. IsFiniteSet({m.cu.name : m \in M})
  <2> DEFINE f == [m \in M |-> m.cu.name]
  <2> DEFINE T == {m.cu.name : m \in M}
  <2>1. DOMAIN f = M /\ \A t \in T : \E m \in M : t = f[m] OBVIOUS
  <2>3. IsFiniteSet(T)
    <3> HIDE DEF f, T
    <3> QED BY <1>2, <2>1, CoveredIsFinite
  <2> QED BY <2>3
<1>5. IsFiniteSet({k.m.cu.name : k \in K})
  <2> DEFINE f == [k \in K |-> k.m.cu.name]
  <2> DEFINE T == {k.m.cu.name : k \in K}
  <2>1. DOMAIN f = K /\ \A t \in T : \E k \in K : t = f[k] OBVIOUS
  <2>3. IsFiniteSet(T)
    <3> HIDE DEF f, T
    <3> QED BY <1>2, <2>1, CoveredIsFinite
  <2> QED BY <2>3
<1>6. IsFiniteSet(own)
  <2>1. own = {ag[a].ask[p].name} \cup {ag[p].ask[a].back} OBVIOUS
  <2>2. IsFiniteSet({ag[a].ask[p].name}) /\ IsFiniteSet({ag[p].ask[a].back}) BY FS_Singleton
  <2> HIDE DEF own
  <2> QED BY <2>1, <2>2, FS_Union
<1>7. NewName(a, p) = CHOOSE i \in 1..(Cardinality(inUse) + 1) : i \notin inUse
  BY DEF NewName, Q, M, K
<1>8. IsFiniteSet(inUse)
  <2> HIDE DEF own
  <2>1. IsFiniteSet(own \cup {q.name : q \in Q}) BY <1>3, <1>6, FS_Union
  <2>2. IsFiniteSet(own \cup {q.name : q \in Q} \cup {m.cu.name : m \in M}) BY <1>4, <2>1, FS_Union
  <2> QED BY <1>5, <2>2, FS_Union
<1> HIDE DEF inUse
<1> QED BY <1>7, <1>8, NameIsFree

LEMMA KeptFromIs ==
    ASSUME NEW G \in States, NEW a
    PROVE  IsFiniteSet(KeptFrom(G, a)) /\ KeptFrom(G, a) \subseteq KeptMessage
<1> DEFINE f == [r \in Provider |-> ToSet(G[r].kept)]
           all == {f[r] : r \in Provider}
<1>1. \A r \in Provider : IsFiniteSet(f[r]) /\ f[r] \subseteq KeptMessage
  <2> TAKE r \in Provider
  <2>1. G[r].kept \in Seq(KeptMessage) BY GoodIs DEF States, CarriedTypes
  <2>2. f[r] = ToSet(G[r].kept) OBVIOUS
  <2> HIDE DEF f
  <2> QED BY <2>1, <2>2, RangeIsFinite
<1>2. DOMAIN f = Provider OBVIOUS
<1>3. KeptFrom(G, a) \subseteq UNION all BY DEF KeptFrom
<1> HIDE DEF f
<1>4. IsFiniteSet(all) BY <1>2, ConstantsAssumption, ImageIsFinite
<1>5. \A T \in all : IsFiniteSet(T) /\ T \subseteq KeptMessage BY <1>1
<1> HIDE DEF all
<1>6. IsFiniteSet(UNION all) BY <1>4, <1>5, FS_UNION
<1>7. UNION all \subseteq KeptMessage BY <1>5
<1> QED BY <1>3, <1>6, <1>7, FS_Subset

LEMMA TimesAre ==
    ASSUME NEW G \in States, NEW a \in Provider
    PROVE  Times(G, a) \in SUBSET Nat /\ IsFiniteSet(Times(G, a)) /\ Times(G, a) # {}
<1> DEFINE O == {G[r].origin[a] : r \in Provider}
           Q == G[a].queue
           K == KeptFrom(G, a)
<1>1. \A r \in Provider : CarriedTypes(G[r]) BY GoodIs DEF States
<1>2. O \in SUBSET Nat /\ O # {} BY <1>1 DEF CarriedTypes
<1>3. Q \in SUBSET Msg /\ IsFiniteSet(Q) BY <1>1 DEF CarriedTypes
<1>4. K \subseteq KeptMessage /\ IsFiniteSet(K) BY KeptFromIs
<1>5. IsFiniteSet(O)
  <2> DEFINE f == [r \in Provider |-> G[r].origin[a]]
  <2>1. DOMAIN f = Provider /\ \A t \in O : \E r \in Provider : t = f[r] OBVIOUS
  <2> HIDE DEF f, O
  <2> QED BY <2>1, ConstantsAssumption, CoveredIsFinite
<1> HIDE DEF O, Q, K
<1>6. IsFiniteSet({m.n : m \in Q}) /\ {m.n : m \in Q} \in SUBSET Nat
  <2> DEFINE f == [m \in Q |-> m.n]
  <2> DEFINE T == {m.n : m \in Q}
  <2>1. DOMAIN f = Q /\ \A t \in T : \E m \in Q : t = f[m] OBVIOUS
  <2>2. \A m \in Q : m.n \in Nat BY <1>3 DEF Msg
  <2>3. IsFiniteSet(T)
    <3> HIDE DEF f, T
    <3> QED BY <1>3, <2>1, CoveredIsFinite
  <2> QED BY <2>3, <2>2
<1>7. IsFiniteSet({k.m.n : k \in K}) /\ {k.m.n : k \in K} \in SUBSET Nat
  <2> DEFINE f == [k \in K |-> k.m.n]
  <2> DEFINE T == {k.m.n : k \in K}
  <2>1. DOMAIN f = K /\ \A t \in T : \E k \in K : t = f[k] OBVIOUS
  <2>2. \A k \in K : k.m.n \in Nat BY <1>4 DEF KeptMessage, Msg
  <2>3. IsFiniteSet(T)
    <3> HIDE DEF f, T
    <3> QED BY <1>4, <2>1, CoveredIsFinite
  <2> QED BY <2>3, <2>2
<1>8. Times(G, a) = O \cup {m.n : m \in Q} \cup {k.m.n : k \in K} BY DEF Times, O, Q, K
<1>9. IsFiniteSet(O \cup {m.n : m \in Q}) BY <1>5, <1>6, FS_Union
<1>10. IsFiniteSet(O \cup {m.n : m \in Q} \cup {k.m.n : k \in K}) BY <1>7, <1>9, FS_Union
<1> QED BY <1>2, <1>6, <1>7, <1>8, <1>10

LEMMA NowIs ==
    ASSUME ag \in States, NEW A \in GoodState, NEW a \in Provider
    PROVE  Now(A, a) \in Nat
<1> DEFINE G == [ag EXCEPT ![a] = A]
<1>1. G \in States BY DEF States
<1>2. Now(A, a) = 1 + Max(Times(G, a)) BY DEF Now
<1> HIDE DEF G
<1>3. Max(Times(G, a)) \in Nat BY <1>1, TimesAre, MaxOf
<1> QED BY <1>2, <1>3

LEMMA NewDistIs ==
    ASSUME ag \in States, NEW A \in GoodState, NEW a \in Provider
    PROVE  NewDist(A, a) \in Nat
<1> DEFINE Q == A.queue
           X == ToSet(A.notYet)
           K == KeptFrom(ag, a)
           inUse == {m.dist : m \in Q} \cup {x.dist : x \in X} \cup {k.m.dist : k \in K}
<1>1. IsFiniteSet(Q) BY GoodIs DEF CarriedTypes
<1>2. IsFiniteSet(X) BY GoodIs, RangeIsFinite DEF CarriedTypes
<1>3. IsFiniteSet(K) BY KeptFromIs
<1>4. NewDist(A, a) = CHOOSE i \in 1..(Cardinality(inUse) + 1) : i \notin inUse BY DEF NewDist
<1> HIDE DEF Q, X, K
<1>5. IsFiniteSet({m.dist : m \in Q})
  <2> DEFINE f == [m \in Q |-> m.dist]
  <2> DEFINE T == {m.dist : m \in Q}
  <2>1. DOMAIN f = Q /\ \A t \in T : \E m \in Q : t = f[m] OBVIOUS
  <2>3. IsFiniteSet(T)
    <3> HIDE DEF f, T
    <3> QED BY <1>1, <2>1, CoveredIsFinite
  <2> QED BY <2>3
<1>6. IsFiniteSet({x.dist : x \in X})
  <2> DEFINE f == [x \in X |-> x.dist]
  <2> DEFINE T == {x.dist : x \in X}
  <2>1. DOMAIN f = X /\ \A t \in T : \E x \in X : t = f[x] OBVIOUS
  <2>3. IsFiniteSet(T)
    <3> HIDE DEF f, T
    <3> QED BY <1>2, <2>1, CoveredIsFinite
  <2> QED BY <2>3
<1>7. IsFiniteSet({k.m.dist : k \in K})
  <2> DEFINE f == [k \in K |-> k.m.dist]
  <2> DEFINE T == {k.m.dist : k \in K}
  <2>1. DOMAIN f = K /\ \A t \in T : \E k \in K : t = f[k] OBVIOUS
  <2>3. IsFiniteSet(T)
    <3> HIDE DEF f, T
    <3> QED BY <1>3, <2>1, CoveredIsFinite
  <2> QED BY <2>3
<1>8. IsFiniteSet(inUse)
  <2>1. IsFiniteSet({m.dist : m \in Q} \cup {x.dist : x \in X}) BY <1>5, <1>6, FS_Union
  <2> QED BY <1>7, <2>1, FS_Union
<1> HIDE DEF inUse
<1> QED BY <1>4, <1>8, NameIsFree

LEMMA WholeIs ==
    ASSUME ag \in States, NEW A \in GoodState, NEW a \in Provider, NEW to \in Provider, NEW dist \in Nat,
           NEW cu \in CatchUpPart
    PROVE  Whole(A, a, to, dist, cu) \in Msg
<1>1. Now(A, a) \in Nat BY NowIs
<1>2. A.data[a] \in SUBSET Rec BY GoodIs DEF SetTypes
<1> QED BY <1>1, <1>2 DEF Whole, Msg, CatchUpPart

-----------------------------------------------------------------------------
(* The times counted from 0 again *)

LEMMA RankedIs ==
    ASSUME NEW G \in States, NEW senders \in SUBSET Provider
    PROVE  Ranked(G, senders) \in States
<1> DEFINE times == [s \in senders |-> Times(G, s) \ {0}]
           rank(s, x) == IF s \in senders THEN Cardinality({y \in times[s] : y <= x}) ELSE x
           with(s, m) == [m EXCEPT !.n = rank(s, @)]
           counted(k) == [k EXCEPT !.m = with(k.from, @)]
           o(r) == [s \in Provider |-> rank(s, G[r].origin[s])]
           q(r) == {with(r, m) : m \in G[r].queue}
           k(r) == [i \in DOMAIN G[r].kept |-> counted(G[r].kept[i])]
           H == [r \in Provider |-> [G[r] EXCEPT !.origin = o(r), !.queue = q(r), !.kept = k(r)]]
<1>1. Ranked(G, senders) \in {G, H} BY DEF Ranked
<1>2. \A s, x : x \in Nat => rank(s, x) \in Nat
  <2> SUFFICES ASSUME NEW s, NEW x \in Nat, s \in senders PROVE Cardinality({y \in times[s] : y <= x}) \in Nat
    OBVIOUS
  <2>1. Times(G, s) \in SUBSET Nat /\ IsFiniteSet(Times(G, s)) BY TimesAre
  <2> DEFINE S == {y \in times[s] : y <= x}
  <2>2. S \in SUBSET Times(G, s) OBVIOUS
  <2> HIDE DEF S
  <2>3. IsFiniteSet(S) BY <2>1, <2>2, FS_Subset
  <2>4. Cardinality(S) \in Nat BY <2>3, FS_CardinalityType
  <2> QED BY <2>4 DEF S
<1> HIDE DEF rank
<1>3. \A s, m : m \in Msg => with(s, m) \in Msg BY <1>2 DEF Msg
<1> HIDE DEF with
<1>4. \A x \in KeptMessage : counted(x) \in KeptMessage BY <1>3 DEF KeptMessage
<1> HIDE DEF counted
<1>5. ASSUME NEW r \in Provider PROVE H[r] \in GoodState
  <2> DEFINE A == G[r]
             C == [A EXCEPT !.origin = o(r)]
             D == [C EXCEPT !.queue = q(r)]
             E == [D EXCEPT !.kept = k(r)]
  <2>1. A \in GoodState /\ CarriedTypes(A) /\ A \in AgentState BY GoodIs DEF States
  <2>2. o(r) \in [Provider -> Nat] BY <1>2, <2>1 DEF CarriedTypes
  <2>3. q(r) \in SUBSET Msg BY <1>3, <2>1 DEF CarriedTypes
  <2>4. IsFiniteSet(q(r))
    <3> DEFINE Q == A.queue
               f == [m \in Q |-> with(r, m)]
               T == q(r)
    <3>1. DOMAIN f = Q /\ \A t \in T : \E m \in Q : t = f[m] OBVIOUS
    <3>2. IsFiniteSet(Q) BY <2>1 DEF CarriedTypes
    <3>3. IsFiniteSet(T)
      <4> HIDE DEF f, T, Q
      <4> QED BY <3>1, <3>2, CoveredIsFinite
    <3> QED BY <3>3
  <2>5. k(r) \in Seq(KeptMessage) /\ Len(k(r)) <= MaxKept
    <3> DEFINE l == A.kept
    <3>1. l \in Seq(KeptMessage) /\ Len(l) <= MaxKept BY <2>1 DEF CarriedTypes
    <3>2. DOMAIN l = 1..Len(l) /\ Len(l) \in Nat /\ \A i \in 1..Len(l) : counted(l[i]) \in KeptMessage BY <1>4, <3>1
    <3>3. k(r) = [i \in 1..Len(l) |-> counted(l[i])] BY <3>2
    <3> HIDE DEF l, k
    <3>4. k(r) \in Seq(KeptMessage) /\ Len(k(r)) = Len(l) BY <3>2, <3>3
    <3> QED BY <3>1, <3>4
  <2> HIDE DEF o, q, k, A
  <2>6. C \in GoodState BY <2>1, <2>2, WithOrigin
  <2> HIDE DEF C
  <2>7. D \in GoodState BY <2>3, <2>4, <2>6, WithQueue
  <2> HIDE DEF D
  <2>8. E \in GoodState BY <2>5, <2>7, WithKept
  <2>9. H[r] = [A EXCEPT !.origin = o(r), !.queue = q(r), !.kept = k(r)] BY DEF A
  <2> HIDE DEF H, E
  <2> QED BY <2>1, <2>8, <2>9 DEF C, D, E
<1> HIDE DEF o, q, k
<1>6. H \in States BY <1>5 DEF States
<1> HIDE DEF H
<1> QED BY <1>1, <1>6

-----------------------------------------------------------------------------
(* The tracker *)

LEMMA AskIs ==
    ASSUME NEW A \in GoodState, NEW p \in Provider, NEW e \in Asking
    PROVE  [A EXCEPT !.ask[p] = e] \in GoodState
<1> DEFINE f == [A.ask EXCEPT ![p] = e]
<1>1. f \in [Provider -> Asking] BY GoodIs DEF CarriedTypes
<1>2. [A EXCEPT !.ask[p] = e] = [A EXCEPT !.ask = f] OBVIOUS
<1> HIDE DEF f
<1> QED BY <1>1, <1>2, WithAsk

LEMMA AskOf == \A A \in GoodState, p \in Provider : A.ask[p] \in Asking
BY GoodIs DEF CarriedTypes

LEMMA NoAskIs == NoAsk \in Asking /\ [NoAsk EXCEPT !.st = "idle"] \in Asking
BY DEF NoAsk, Asking, Ask

Reasons == {"start", "peer-start", "outage", "manual"}

LEMMA AskedIs ==
    ASSUME ag \in States, NEW A \in GoodState, NEW a \in Provider, NEW p \in Provider,
           NEW reason \in Reasons, NEW back \in Nat
    PROVE  Asked(A, a, p, reason, back) \in GoodState
<1> DEFINE e == [NoAsk EXCEPT !.st = IF A.link[p] = "ok" THEN "due" ELSE "noted",
                              !.name = NewName(a, p), !.reason = reason, !.back = back]
<1>1. NewName(a, p) \in Nat BY NewNameIs
<1>2. e \in Asking BY <1>1 DEF NoAsk, Asking, Ask, Reasons
<1>3. Asked(A, a, p, reason, back) \in {A, [A EXCEPT !.ask[p] = e]} BY DEF Asked
<1> HIDE DEF e
<1> QED BY <1>2, <1>3, AskIs

LEMMA FailedIs == \A e \in Asking : e.reason # "none" => Failed(e) \in Asking
BY DEF Failed, Asking, Ask

LEMMA OutHasReason == \A e \in Asking : e.st \notin {"none", "idle"} => e.reason \in Reasons
BY DEF Asking, Ask, Reasons

LEMMA AnsweredIs ==
    ASSUME NEW A \in GoodState, NEW p \in Provider, NEW cu
    PROVE  Answered(A, p, cu) \in GoodState
<1> DEFINE e == A.ask[p]
<1>1. e \in Asking BY AskOf
<1>2. CASE cu = NoCatchUp \/ e.st # "sent" \/ e.name # cu.name BY <1>2 DEF Answered
<1>3. CASE ~(cu = NoCatchUp \/ e.st # "sent" \/ e.name # cu.name)
  <2> DEFINE g == IF cu.complete THEN [NoAsk EXCEPT !.st = "idle"] ELSE Failed(e)
  <2>1. g \in Asking BY <1>1, <1>3, NoAskIs, FailedIs, OutHasReason DEF Reasons
  <2>2. Answered(A, p, cu) = [A EXCEPT !.ask[p] = g] BY <1>3 DEF Answered
  <2> HIDE DEF g
  <2> QED BY <2>1, <2>2, AskIs
<1> QED BY <1>2, <1>3

LEMMA ArrivedIs ==
    ASSUME NEW A \in GoodState, NEW p \in Provider, NEW cu
    PROVE  Arrived(A, p, cu) \in GoodState
<1> DEFINE e == [A.ask[p] EXCEPT !.arrived = TRUE]
<1>1. e \in Asking BY AskOf DEF Asking, Ask
<1>2. Arrived(A, p, cu) \in {A, [A EXCEPT !.ask[p] = e]} BY DEF Arrived
<1> HIDE DEF e
<1> QED BY <1>1, <1>2, AskIs

LEMMA ActiveChangedIs == \A A \in GoodState : ActiveChanged(A) \in GoodState
<1> TAKE A \in GoodState
<1> DEFINE f == [p \in Provider |-> [A.ask[p] EXCEPT !.arrived = FALSE]]
<1>1. f \in [Provider -> Asking] BY AskOf DEF Asking, Ask
<1>2. ActiveChanged(A) = [A EXCEPT !.ask = f] BY DEF ActiveChanged
<1> HIDE DEF f
<1> QED BY <1>1, <1>2, WithAsk

LEMMA PrunedIs == \A A \in GoodState : \A a : Pruned(A, a) \in GoodState
<1> TAKE A \in GoodState
<1> TAKE a
<1> DEFINE f == [p \in Provider |-> IF BothVote(A, a, p) THEN A.ask[p] ELSE NoAsk]
<1>1. f \in [Provider -> Asking] BY AskOf, NoAskIs
<1>2. Pruned(A, a) = [A EXCEPT !.ask = f] BY DEF Pruned
<1> HIDE DEF f
<1> QED BY <1>1, <1>2, WithAsk

LEMMA AskZoneIs ==
    ASSUME ag \in States, NEW A \in GoodState, NEW a \in Provider, NEW reason \in Reasons
    PROVE  AskZone(A, a, reason) \in GoodState
<1> DEFINE f == [p \in Provider |-> IF p \in Peers(A, a) THEN Asked(A, a, p, reason, 0).ask[p] ELSE A.ask[p]]
<1>1. f \in [Provider -> Asking]
  <2>1. \A p \in Provider : Asked(A, a, p, reason, 0) \in GoodState BY AskedIs
  <2> QED BY <2>1, AskOf
<1>2. AskZone(A, a, reason) \in {A, [A EXCEPT !.ask = f]} BY DEF AskZone
<1> HIDE DEF f
<1> QED BY <1>1, <1>2, WithAsk

-----------------------------------------------------------------------------
(* The data engine *)

LEMMA NoCatchUpIs == NoCatchUp \in CatchUpPart
BY DEF NoCatchUp, CatchUpPart

\* Messages to some of the peers go to the queue.
LEMMA QueueIs ==
    ASSUME NEW A \in GoodState, NEW P, IsFiniteSet(P), NEW f, DOMAIN f = P, \A p \in P : f[p] \in Msg
    PROVE  [A EXCEPT !.queue = @ \cup {f[p] : p \in P}] \in GoodState
<1> DEFINE T == {f[p] : p \in P}
           Q == A.queue \cup T
<1>1. A.queue \in SUBSET Msg /\ IsFiniteSet(A.queue) BY GoodIs DEF CarriedTypes
<1>2. IsFiniteSet(T) BY ImageIsFinite
<1>3. T \in SUBSET Msg OBVIOUS
<1> HIDE DEF T
<1>4. Q \in SUBSET Msg /\ IsFiniteSet(Q) BY <1>1, <1>2, <1>3, FS_Union
<1>5. [A EXCEPT !.queue = Q] \in GoodState
  <2> HIDE DEF Q
  <2> QED BY <1>4, WithQueue
<1> QED BY <1>5 DEF T

LEMMA UnqueueIs == \A A \in GoodState : \A X : [A EXCEPT !.queue = @ \ X] \in GoodState
<1> TAKE A \in GoodState
<1> TAKE X
<1> DEFINE Q == A.queue \ X
<1>1. A.queue \in SUBSET Msg /\ IsFiniteSet(A.queue) BY GoodIs DEF CarriedTypes
<1>2. Q \in SUBSET A.queue OBVIOUS
<1> HIDE DEF Q
<1>3. [A EXCEPT !.queue = Q] \in GoodState BY <1>1, <1>2, FS_Subset, WithQueue
<1> QED BY <1>3 DEF Q

LEMMA LocalChangeIs ==
    ASSUME ag \in States, VotersTyped, NEW A \in GoodState, NEW a \in Provider, NEW set \in SUBSET Rec
    PROVE  LocalChange(A, a, set) \in GoodState
<1> DEFINE B == [A EXCEPT !.data[a] = set, !.note[a] = "sent", !.fresh = @ \cup {a}]
           P == Peers(B, a)
           d == NewDist(A, a)
           f == [p \in P |-> Whole(B, a, p, d, NoCatchUp)]
           C == [B EXCEPT !.queue = @ \cup {Whole(B, a, p, d, NoCatchUp) : p \in P}]
<1>1. LocalChange(A, a, set) \in {A, C} BY DEF LocalChange
<1>2. B \in GoodState BY LocalSet
<1>3. d \in Nat BY NewDistIs
<1> HIDE DEF B, d
<1>4. P \in SUBSET Provider /\ IsFiniteSet(P)
  <2>1. P \in SUBSET Provider BY <1>2, ReadingIs
  <2> HIDE DEF P
  <2> QED BY <2>1, ConstantsAssumption, FS_Subset
<1> HIDE DEF P
<1>5. \A p \in P : Whole(B, a, p, d, NoCatchUp) \in Msg BY <1>2, <1>3, <1>4, NoCatchUpIs, WholeIs
<1>6. DOMAIN f = P /\ \A p \in P : f[p] \in Msg BY <1>5
<1>7. C = [B EXCEPT !.queue = @ \cup {f[p] : p \in P}] OBVIOUS
<1> HIDE DEF f, C
<1>8. C \in GoodState BY <1>2, <1>4, <1>6, <1>7, QueueIs
<1> QED BY <1>1, <1>8

LEMMA LocallyChangedIs ==
    ASSUME ag \in States, VotersTyped, NEW A \in GoodState, NEW a \in Provider, NEW sets \in Seq(SUBSET Rec)
    PROVE  LocallyChanged(A, a, sets) \in GoodState
<1> DEFINE N == Len(sets)
           Is(f) == f = [n \in 0..N |-> IF n = 0 THEN A ELSE LocalChange(f[n - 1], a, sets[n])]
           f == CHOOSE g : Is(g)
           step == [n \in 1..N |-> [C \in GoodState |-> LocalChange(C, a, sets[n])]]
<1>1. LocallyChanged(A, a, sets) = f[N] BY DEF LocallyChanged
<1>2. N \in Nat /\ \A n \in 1..N : sets[n] \in SUBSET Rec OBVIOUS
<1>3. \A n \in 1..N, C \in GoodState : LocalChange(C, a, sets[n]) \in GoodState BY <1>2, LocalChangeIs
<1>4. step \in [1..N -> [GoodState -> GoodState]] BY <1>3
<1>5. \A n \in 1..N, C \in GoodState : step[n][C] = LocalChange(C, a, sets[n]) OBVIOUS
<1> HIDE DEF step, N
<1>6. PICK g \in [0..N -> GoodState] : g[0] = A /\ \A n \in 1..N : g[n] = step[n][g[n - 1]]
  <2> DEFINE S == GoodState
  <2>1. step \in [1..N -> [S -> S]] /\ A \in S /\ N \in Nat BY <1>2, <1>4
  <2>2. \E g : Iteration(g, S, A, N, step)
    <3> HIDE DEF S
    <3> QED BY <2>1, Iterates
  <2> QED BY <2>2 DEF Iteration
<1>7. \A n \in 0..N : n # 0 => n \in 1..N /\ n - 1 \in 0..N BY <1>2
<1>8. \A n \in 0..N : g[n] = IF n = 0 THEN A ELSE LocalChange(g[n - 1], a, sets[n]) BY <1>5, <1>6, <1>7
<1>9. Is(g)
  <2>1. g = [n \in 0..N |-> g[n]] BY <1>6
  <2> QED BY <1>8, <2>1
<1>10. Is(f)
  <2> HIDE DEF Is
  <2> QED BY <1>9
<1> HIDE DEF f
<1>11. \A n \in 0..N : f[n] = IF n = 0 THEN A ELSE LocalChange(f[n - 1], a, sets[n]) BY <1>10
<1> DEFINE T == {n \in 0..N : f[n] \in GoodState}
<1>12. 0 \in T
  <2>1. 0 \in 0..N BY <1>2
  <2> QED BY <1>11, <2>1
<1>13. ASSUME NEW n \in 0..(N - 1), n \in T PROVE n + 1 \in T
  <2>1. n + 1 \in 0..N /\ n + 1 \in 1..N /\ n + 1 # 0 /\ (n + 1) - 1 = n BY <1>2
  <2>2. f[n + 1] = LocalChange(f[n], a, sets[n + 1]) BY <1>11, <2>1
  <2> QED BY <1>3, <1>13, <2>1, <2>2
<1> HIDE DEF T
<1>14. \A n \in 0..N : n \in T BY <1>2, <1>12, <1>13, EveryUpTo
<1>15. N \in T BY <1>2, <1>14
<1> QED BY <1>1, <1>15 DEF T

LEMMA OwedReleasedIs ==
    ASSUME ag \in States, VotersTyped, NEW A \in GoodState, NEW a \in Provider
    PROVE  OwedReleased(A, a) \in GoodState
<1> DEFINE B == [A EXCEPT !.owed = <<>>]
<1>1. A.owed \in Seq(SUBSET Rec) BY GoodIs DEF CarriedTypes
<1>2. B \in GoodState BY WithOwed, EmptySeq
<1>3. OwedReleased(A, a) \in {A, LocallyChanged(B, a, A.owed), [B EXCEPT !.read = FALSE]} BY DEF OwedReleased
<1> HIDE DEF B
<1>4. LocallyChanged(B, a, A.owed) \in GoodState BY <1>1, <1>2, LocallyChangedIs
<1>5. [B EXCEPT !.read = FALSE] \in GoodState BY <1>2, WithoutRead
<1> QED BY <1>3, <1>4, <1>5

LEMMA RemoteReplaceIs ==
    ASSUME NEW A \in GoodState, NEW s \in Provider, NEW m \in Msg
    PROVE  RemoteReplace(A, s, m) \in GoodState
<1> DEFINE goes == A.data[s] # m.set \/ A.note[s] = "sent"
           o == [A.origin EXCEPT ![s] = m.n]
           B == IF goes THEN [A EXCEPT !.data[s] = m.set, !.note[s] = "sent", !.fresh = @ \cup {s}] ELSE A
           C == [B EXCEPT !.origin = o]
           X == A.told \cup {s}
           Y == A.undone \ {s}
           D == [C EXCEPT !.told = X, !.undone = Y]
<1>1. m.set \in SUBSET Rec /\ m.n \in Nat BY DEF Msg
<1>2. B \in GoodState BY <1>1, LocalSet
<1>3. o \in [Provider -> Nat] BY <1>1, GoodIs DEF CarriedTypes
<1>4. X \in SUBSET Provider /\ Y \in SUBSET Provider BY GoodIs DEF SetTypes
<1>5. D \in GoodState
  <2> HIDE DEF B, o, X, Y
  <2>1. C \in GoodState BY <1>2, <1>3, WithOrigin
  <2> HIDE DEF C
  <2> QED BY <1>4, <2>1, WithHistory
<1>6. RemoteReplace(A, s, m) \in {A, D}
  <2> DEFINE R == [A EXCEPT !.origin[s] = m.n, !.data[s] = m.set,
                     !.note[s] = IF goes THEN "sent" ELSE @,
                     !.fresh = IF goes THEN @ \cup {s} ELSE @,
                     !.told = @ \cup {s}, !.undone = @ \ {s}]
  <2>1. RemoteReplace(A, s, m) \in {A, R} BY DEF RemoteReplace
  <2>2. A \in AgentState BY GoodIs
  <2>3. R = D
    <3>1. CASE goes BY <2>2, <3>1 DEF AgentState
    <3>2. CASE ~goes
      <4>1. A.data = [A.data EXCEPT ![s] = m.set] /\ A.note = [A.note EXCEPT ![s] = @]
        BY <2>2, <3>2 DEF AgentState
      <4> QED BY <2>2, <3>2, <4>1 DEF AgentState
    <3> QED BY <3>1, <3>2
  <2> HIDE DEF R, D
  <2> QED BY <2>1, <2>3
<1> QED BY <1>5, <1>6

LEMMA TakenIs ==
    ASSUME NEW A \in GoodState, NEW s \in Provider, NEW m \in Msg
    PROVE  Taken(A, s, m) \in GoodState
BY RemoteReplaceIs, AnsweredIs DEF Taken

LEMMA BookedIs ==
    ASSUME NEW book \in Seq(NotYet), Len(book) <= NotYetsKept, NEW x \in NotYet
    PROVE  Booked(book, x) \in Seq(NotYet) /\ Len(Booked(book, x)) <= NotYetsKept
<1> DEFINE more == Append(book, x)
<1>1. more \in Seq(NotYet) /\ more # <<>> /\ Len(more) = Len(book) + 1 BY AppendProperties
<1>2. Len(book) \in Nat /\ NotYetsKept \in Nat BY ConstantsAssumption
<1>3. Booked(book, x) = IF Len(more) > NotYetsKept THEN Tail(more) ELSE more BY DEF Booked
<1> HIDE DEF more
<1>4. Tail(more) \in Seq(NotYet) /\ Len(Tail(more)) = Len(more) - 1 BY <1>1, HeadTailProperties
<1>5. CASE Len(more) > NotYetsKept BY <1>1, <1>2, <1>3, <1>4, <1>5
<1>6. CASE ~(Len(more) > NotYetsKept) BY <1>1, <1>2, <1>3, <1>6
<1> QED BY <1>5, <1>6

LEMMA RefusedIs ==
    ASSUME NEW A \in GoodState, NEW r \in Provider, NEW m \in Msg, NEW told \in Serials
    PROVE  Refused(A, r, m, told) \in GoodState
<1> DEFINE l == A.notYet
           I == {i \in DOMAIN l : l[i].to # r \/ l[i].dist # m.dist}
           x == [to |-> r, dist |-> m.dist, told |-> told]
           B == [A EXCEPT !.queue = @ \ {m}]
           b == Booked(Subsequence(l, I), x)
<1>1. l \in Seq(NotYet) /\ Len(l) <= NotYetsKept /\ Len(l) \in Nat /\ NotYetsKept \in Nat
  BY GoodIs, ConstantsAssumption DEF CarriedTypes
<1>2. x \in NotYet BY DEF NotYet, Msg
<1>3. B \in GoodState BY UnqueueIs
<1>4. A \in AgentState BY GoodIs
<1>5. Refused(A, r, m, told) = [B EXCEPT !.notYet = b] BY <1>4 DEF Refused, AgentState
<1> HIDE DEF B, l, I, x
<1>6. Subsequence(l, I) \in Seq(NotYet) /\ Len(Subsequence(l, I)) <= Len(l) BY <1>1, SubsequenceIs
<1>7. Len(Subsequence(l, I)) <= NotYetsKept
  <2>1. Len(Subsequence(l, I)) \in Nat BY <1>6
  <2> QED BY <1>1, <1>6, <2>1
<1>8. b \in Seq(NotYet) /\ Len(b) <= NotYetsKept BY <1>2, <1>6, <1>7, BookedIs
<1> HIDE DEF b
<1> QED BY <1>3, <1>5, <1>8, WithNotYet

LEMMA IntendedIs ==
    ASSUME NEW A \in GoodState, NEW a \in Provider
    PROVE  Intended(A, a) \in SUBSET Rec
<1>1. A.owed \in Seq(SUBSET Rec) /\ A.data[a] \in SUBSET Rec BY GoodIs DEF CarriedTypes, SetTypes
<1>2. A.owed # <<>> => Len(A.owed) \in 1..Len(A.owed) BY <1>1
<1> QED BY <1>1, <1>2 DEF Intended, Last

LEMMA LocallyAppliedIs ==
    ASSUME ag \in States, VotersTyped, NEW A \in GoodState, NEW a \in Provider, NEW call \in Call
    PROVE  LocallyApplied(A, a, call) \in GoodState
<1> DEFINE B == OwedReleased(A, a)
           s == Append(B.owed, call.set)
<1>1. B \in GoodState BY OwedReleasedIs
<1>2. LocallyApplied(A, a, call) \in {B, [B EXCEPT !.owed = s], LocalChange(B, a, call.set)} BY DEF LocallyApplied
<1> HIDE DEF B
<1>3. call.set \in SUBSET Rec BY DEF Call
<1>4. s \in Seq(SUBSET Rec) BY <1>1, <1>3, GoodIs DEF CarriedTypes
<1> HIDE DEF s
<1>5. [B EXCEPT !.owed = s] \in GoodState BY <1>1, <1>4, WithOwed
<1>6. LocalChange(B, a, call.set) \in GoodState BY <1>1, <1>3, LocalChangeIs
<1> QED BY <1>1, <1>2, <1>5, <1>6

-----------------------------------------------------------------------------
(* What is kept and what was refused *)

LEMMA PutIs ==
    ASSUME NEW G \in States, NEW a \in Provider, NEW B \in GoodState
    PROVE  [G EXCEPT ![a] = B] \in States
BY DEF States

LEMMA StateOf == \A G \in States, a \in Provider : G[a] \in GoodState
BY DEF States

LEMMA ConfirmedIs ==
    ASSUME NEW G \in States, NEW s \in Provider, NEW m
    PROVE  Confirmed(G, s, m) \in States
<1> DEFINE B == [G[s] EXCEPT !.queue = @ \ {m}]
<1>1. B \in GoodState BY StateOf, UnqueueIs
<1>2. Confirmed(G, s, m) = [G EXCEPT ![s] = B] BY DEF Confirmed
<1> HIDE DEF B
<1> QED BY <1>1, <1>2, PutIs

LEMMA NotYetPartIs ==
    ASSUME NEW A \in GoodState, NEW I
    PROVE  [A EXCEPT !.notYet = Subsequence(A.notYet, I)] \in GoodState
<1> DEFINE l == A.notYet
           s == Subsequence(l, I)
<1>1. l \in Seq(NotYet) /\ Len(l) <= NotYetsKept /\ Len(l) \in Nat /\ NotYetsKept \in Nat
  BY GoodIs, ConstantsAssumption DEF CarriedTypes
<1> HIDE DEF l
<1>2. s \in Seq(NotYet) /\ Len(s) <= Len(l) BY <1>1, SubsequenceIs
<1> HIDE DEF s
<1>3. Len(s) \in Nat BY <1>2
<1>4. Len(s) <= NotYetsKept BY <1>1, <1>2, <1>3
<1>5. [A EXCEPT !.notYet = s] \in GoodState BY <1>2, <1>4, WithNotYet
<1> QED BY <1>5 DEF l, s

LEMMA KeptPartIs ==
    ASSUME NEW A \in GoodState, NEW I
    PROVE  [A EXCEPT !.kept = Subsequence(A.kept, I)] \in GoodState
<1> DEFINE l == A.kept
           s == Subsequence(l, I)
<1>1. l \in Seq(KeptMessage) /\ Len(l) <= MaxKept /\ Len(l) \in Nat /\ MaxKept \in Nat
  BY GoodIs, ConstantsAssumption DEF CarriedTypes
<1> HIDE DEF l
<1>2. s \in Seq(KeptMessage) /\ Len(s) <= Len(l) BY <1>1, SubsequenceIs
<1> HIDE DEF s
<1>3. Len(s) \in Nat BY <1>2
<1>4. Len(s) <= MaxKept BY <1>1, <1>2, <1>3
<1>5. [A EXCEPT !.kept = s] \in GoodState BY <1>2, <1>4, WithKept
<1> QED BY <1>5 DEF l, s

LEMMA StaleIsKnown ==
    ASSUME NEW A \in GoodState, NEW made, Receipt(A.active, made) = "stale"
    PROVE  A.active \in Serials
<1>1. A.active \in Serials \cup {0} BY GoodIs DEF CarriedTypes
<1>2. A.active # 0 BY DEF Receipt
<1> QED BY <1>1, <1>2

LEMMA ReleasedIs ==
    ASSUME NEW G \in States, NEW a \in Provider, NEW k \in KeptMessage
    PROVE  Released(G, a, k) \in States
<1> DEFINE I == {i \in DOMAIN G[a].kept : G[a].kept[i] # k}
           B == [G[a] EXCEPT !.kept = Subsequence(G[a].kept, I)]
           H == [G EXCEPT ![a] = B]
           s == k.from
           X == IF Votes(H[a], s) THEN Taken(H[a], s, k.m) ELSE H[a]
           L == [H EXCEPT ![a] = X]
           R == Refused(H[s], a, k.m, G[a].active)
<1>1. s \in Provider /\ k.m \in Msg BY DEF KeptMessage
<1>2. H \in States
  <2> HIDE DEF I
  <2>1. B \in GoodState BY KeptPartIs, StateOf
  <2> HIDE DEF B
  <2> QED BY <2>1, PutIs
<1>3. \/ Released(G, a, k) \in {G, Confirmed(L, s, k.m)}
      \/ Receipt(G[a].active, k.made) = "stale" /\ Released(G, a, k) = [H EXCEPT ![s] = R]
  <2>1. [G EXCEPT ![a].kept = Subsequence(@, {i \in DOMAIN @ : @[i] # k})] = H BY DEF States
  <2>2. CASE Receipt(G[a].active, k.made) = "keep" BY <2>2 DEF Released
  <2>3. CASE Receipt(G[a].active, k.made) = "stale" BY <2>1, <2>3 DEF Released
  <2>4. CASE Receipt(G[a].active, k.made) \notin {"keep", "stale"}
    <3> HIDE DEF H
    <3> QED BY <2>1, <2>4 DEF Released, H
  <2> QED BY <2>2, <2>3, <2>4
<1> HIDE DEF H
<1>4. X \in GoodState BY <1>1, <1>2, StateOf, TakenIs
<1> HIDE DEF X
<1>5. L \in States BY <1>2, <1>4, PutIs
<1> HIDE DEF L
<1>6. Confirmed(L, s, k.m) \in States BY <1>1, <1>5, ConfirmedIs
<1>7. CASE Receipt(G[a].active, k.made) = "stale"
  <2>1. G[a].active \in Serials BY <1>7, StateOf, StaleIsKnown
  <2>2. R \in GoodState BY <1>1, <1>2, <2>1, StateOf, RefusedIs
  <2> HIDE DEF R
  <2> QED BY <1>1, <1>2, <1>3, <1>6, <2>2, PutIs
<1>8. CASE Receipt(G[a].active, k.made) # "stale" BY <1>3, <1>6, <1>8
<1> QED BY <1>7, <1>8

LEMMA AllReleasedIs ==
    ASSUME ag \in States, NEW a \in Provider
    PROVE  AllReleased(a) \in States
<1> DEFINE l == ag[a].kept
           N == Len(l)
           Is(f) == f = [n \in 0..N |-> IF n = 0 THEN ag ELSE Released(f[n - 1], a, l[n])]
           f == CHOOSE g : Is(g)
           step == [n \in 1..N |-> [G \in States |-> Released(G, a, l[n])]]
<1>1. AllReleased(a) = f[N] BY DEF AllReleased
<1>2. N \in Nat /\ \A n \in 1..N : l[n] \in KeptMessage
  <2>1. l \in Seq(KeptMessage) BY StateOf, GoodIs DEF CarriedTypes
  <2> HIDE DEF l
  <2> QED BY <2>1
<1> HIDE DEF l
<1>3. \A n \in 1..N, G \in States : Released(G, a, l[n]) \in States BY <1>2, ReleasedIs
<1>4. step \in [1..N -> [States -> States]] BY <1>3
<1>5. \A n \in 1..N, G \in States : step[n][G] = Released(G, a, l[n]) OBVIOUS
<1> HIDE DEF step, N
<1>6. PICK g \in [0..N -> States] : g[0] = ag /\ \A n \in 1..N : g[n] = step[n][g[n - 1]]
  <2> DEFINE S == States
             x == ag
  <2>1. step \in [1..N -> [S -> S]] /\ x \in S /\ N \in Nat BY <1>2, <1>4
  <2>2. \E g : Iteration(g, S, x, N, step)
    <3> HIDE DEF S, x
    <3> QED BY <2>1, Iterates
  <2> QED BY <2>2 DEF Iteration
<1>7. \A n \in 0..N : n # 0 => n \in 1..N /\ n - 1 \in 0..N BY <1>2
<1>8. \A n \in 0..N : g[n] = IF n = 0 THEN ag ELSE Released(g[n - 1], a, l[n]) BY <1>5, <1>6, <1>7
<1>9. Is(g)
  <2>1. g = [n \in 0..N |-> g[n]] BY <1>6
  <2> QED BY <1>8, <2>1
<1>10. Is(f)
  <2> HIDE DEF Is
  <2> QED BY <1>9
<1> HIDE DEF f
<1>11. \A n \in 0..N : f[n] = IF n = 0 THEN ag ELSE Released(f[n - 1], a, l[n]) BY <1>10
<1> DEFINE T == {n \in 0..N : f[n] \in States}
<1>12. 0 \in T
  <2>1. 0 \in 0..N BY <1>2
  <2> QED BY <1>11, <2>1
<1>13. ASSUME NEW n \in 0..(N - 1), n \in T PROVE n + 1 \in T
  <2>1. n + 1 \in 0..N /\ n + 1 \in 1..N /\ n + 1 # 0 /\ (n + 1) - 1 = n BY <1>2
  <2>2. f[n + 1] = Released(f[n], a, l[n + 1]) BY <1>11, <2>1
  <2> QED BY <1>3, <1>13, <2>1, <2>2
<1> HIDE DEF T
<1>14. \A n \in 0..N : n \in T BY <1>2, <1>12, <1>13, EveryUpTo
<1>15. N \in T BY <1>2, <1>14
<1> QED BY <1>1, <1>15 DEF T

LEMMA ResentIs ==
    ASSUME ag \in States, NEW A \in GoodState, NEW a \in Provider
    PROVE  Resent(A, a) \in GoodState
<1> DEFINE P == InStep(A)
           f == [x \in P |-> Whole(A, a, x.to, x.dist, NoCatchUp)]
           B == [A EXCEPT !.notYet = StillOut(A)]
           C == [B EXCEPT !.queue = @ \cup {Whole(A, a, x.to, x.dist, NoCatchUp) : x \in P}]
<1>1. Resent(A, a) \in {A, B, C} BY GoodIs DEF Resent, AgentState
<1>2. B \in GoodState BY NotYetPartIs DEF StillOut
<1>3. P \subseteq NotYet /\ IsFiniteSet(P)
  <2>1. A.notYet \in Seq(NotYet) BY GoodIs DEF CarriedTypes
  <2>2. ToSet(A.notYet) \subseteq NotYet /\ IsFiniteSet(ToSet(A.notYet)) BY <2>1, RangeIsFinite
  <2>3. P \subseteq ToSet(A.notYet) BY DEF InStep
  <2> HIDE DEF P
  <2> QED BY <2>2, <2>3, FS_Subset
<1> HIDE DEF P, B
<1>4. \A x \in P : Whole(A, a, x.to, x.dist, NoCatchUp) \in Msg BY <1>3, NoCatchUpIs, WholeIs DEF NotYet
<1>5. DOMAIN f = P /\ \A x \in P : f[x] \in Msg BY <1>4
<1>6. C = [B EXCEPT !.queue = @ \cup {f[x] : x \in P}] OBVIOUS
<1> HIDE DEF f, C
<1>7. C \in GoodState BY <1>2, <1>3, <1>5, <1>6, QueueIs
<1> QED BY <1>1, <1>2, <1>7

-----------------------------------------------------------------------------
(* The steps *)

Typing == VotersTyped /\ left \in [CatchEvent -> Nat] /\ ag \in States
RestTyped == UNCHANGED votersAt /\ left' \in [CatchEvent -> Nat]

LEMMA SameStates == UNCHANGED votersAt => States' = States
<1> SUFFICES ASSUME UNCHANGED votersAt PROVE States' = States
  OBVIOUS
<1>1. Serials' = Serials BY DEF Serials
<1>2. KeptMessage' = KeptMessage BY <1>1 DEF KeptMessage
<1>3. NotYet' = NotYet BY <1>1 DEF NotYet
<1>4. AgentState' = AgentState BY <1>1 DEF AgentState
<1>5. GoodState' = GoodState
  <2>1. \A A : CarriedTypes(A)' <=> CarriedTypes(A) BY <1>1, <1>2, <1>3 DEF CarriedTypes
  <2>2. \A A : A \in GoodState' <=> A \in GoodState BY <1>4, <2>1 DEF GoodState
  <2> QED BY <2>2
<1> QED BY <1>5 DEF States

LEMMA SpendIs == ASSUME Typing, NEW e \in CatchEvent, Spend(e) PROVE RestTyped
<1>1. left \in [CatchEvent -> Nat] /\ left[e] \in Nat /\ left[e] > 0 BY DEF Typing, Spend
<1>2. left' = [left EXCEPT ![e] = left[e] - 1] /\ left[e] - 1 \in Nat BY <1>1 DEF Spend
<1> QED BY <1>1, <1>2 DEF RestTyped, Spend

LEMMA FreeIs == ASSUME Typing, Free PROVE RestTyped
BY DEF Typing, Free, RestTyped

LEMMA EditCallStep ==
    ASSUME Typing, NEW a \in Provider, NEW r \in Rec, EditCall(a, r)
    PROVE  ag' \in States /\ RestTyped
<1> DEFINE cur == Intended(ag[a], a)
<1>1. ag[a] \in GoodState /\ cur \in SUBSET Rec BY StateOf, IntendedIs DEF Typing
<1>2. ag[a].calls \in Seq(Call) BY <1>1, GoodIs DEF CarriedTypes
<1>3. "edit" \in CatchEvent /\ Spend("edit") BY DEF EditCall, CatchEvent
<1> DEFINE put == [set |-> cur \cup {r}, gone |-> {}]
           take == [set |-> cur \ {r}, gone |-> {r}]
<1>4. put \in Call /\ take \in Call BY <1>1 DEF Call
<1>5. PICK call \in {put, take} : ag' = [ag EXCEPT ![a].calls = Append(@, call)]
  <2> HIDE DEF put, take
  <2> QED BY DEF EditCall, put, take
<1> HIDE DEF put, take, cur
<1> DEFINE s == Append(ag[a].calls, call)
           B == [ag[a] EXCEPT !.calls = s]
<1>6. s \in Seq(Call) BY <1>2, <1>4, <1>5
<1>7. ag' = [ag EXCEPT ![a] = B] BY <1>5
<1> HIDE DEF s
<1>8. B \in GoodState BY <1>1, <1>6, WithCalls
<1> HIDE DEF B
<1> QED BY <1>3, <1>7, <1>8, PutIs, SpendIs DEF Typing

LEMMA ApplyLocalStep ==
    ASSUME Typing, NEW a \in Provider, ApplyLocal(a)
    PROVE  ag' \in States /\ RestTyped
<1> DEFINE A == ag[a]
           B == LocallyApplied(A, a, Head(A.calls))
           s == Tail(A.calls)
           C == [B EXCEPT !.calls = s]
<1>1. A \in GoodState BY StateOf DEF Typing
<1>2. A.calls \in Seq(Call) /\ A.calls # <<>> BY <1>1, GoodIs DEF CarriedTypes, ApplyLocal
<1>3. Head(A.calls) \in Call /\ s \in Seq(Call) BY <1>2, HeadTailProperties
<1>4. ag' = [ag EXCEPT ![a] = C] BY DEF ApplyLocal
<1> HIDE DEF A, s
<1>5. B \in GoodState BY <1>1, <1>3, LocallyAppliedIs DEF Typing
<1> HIDE DEF B
<1>6. C \in GoodState BY <1>3, <1>5, WithCalls
<1> HIDE DEF C
<1>7. Free /\ ag \in States BY DEF Typing, ApplyLocal
<1> QED BY <1>4, <1>6, <1>7, PutIs, FreeIs

LEMMA InstrDoneStep ==
    ASSUME Typing, NEW a \in Provider, InstrDone(a)
    PROVE  ag' \in States /\ RestTyped
<1>1. OwedReleased(ag[a], a) \in GoodState BY StateOf, OwedReleasedIs DEF Typing
<1>2. ag' = [ag EXCEPT ![a] = OwedReleased(ag[a], a)] BY DEF InstrDone
<1> QED BY <1>1, <1>2, PutIs, FreeIs DEF Typing, InstrDone

LEMMA HandOverStep ==
    ASSUME Typing, NEW a \in Provider, NEW b \in Provider, HandOver(a, b)
    PROVE  ag' \in States /\ RestTyped
<1> DEFINE A == ag[a]
           B == [A EXCEPT !.stored[b] = A.data[b], !.note[b] = "confirmed", !.fresh = @ \cup {b}]
<1>1. A \in GoodState /\ A.note[b] = "sent" BY StateOf DEF Typing, HandOver
<1>2. ag' = [ag EXCEPT ![a] = B] BY <1>1, GoodIs DEF HandOver, AgentState
<1> HIDE DEF A
<1>3. B \in GoodState BY <1>1, HandedOver
<1> HIDE DEF B
<1>4. Free /\ ag \in States BY DEF Typing, HandOver
<1> QED BY <1>2, <1>3, <1>4, PutIs, FreeIs

LEMMA DeliverStep ==
    ASSUME Typing, NEW s \in Provider, NEW m \in ag[s].queue, Deliver(s, m)
    PROVE  ag' \in States /\ RestTyped
<1> DEFINE r == m.to
           made == ag[s].active
<1>1. m \in Msg BY StateOf, GoodIs DEF Typing, CarriedTypes
<1>2. r \in Provider BY <1>1 DEF Msg
<1>3. ag \in States /\ ag[s] \in GoodState /\ ag[r] \in GoodState BY <1>2, StateOf DEF Typing
<1>4. made \in Serials \cup {0} BY <1>3, GoodIs DEF CarriedTypes
<1> DEFINE k == [from |-> s, made |-> made, m |-> m]
           q == Append(ag[r].kept, k)
           K == Arrived([ag[r] EXCEPT !.kept = q], s, m.cu)
           R == Refused(ag[s], r, m, ag[r].active)
           T == [ag EXCEPT ![r] = Taken(ag[r], s, m)]
<1>5. CASE /\ Receipt(ag[r].active, made) = "keep" /\ Free
           /\ ag' = [ag EXCEPT ![r] = K]
  <2>1. k \in KeptMessage BY <1>1, <1>4 DEF KeptMessage
  <2>2. ag[r].kept \in Seq(KeptMessage) /\ Len(ag[r].kept) \in Nat /\ MaxKept \in Nat
    BY <1>3, GoodIs, ConstantsAssumption DEF CarriedTypes
  <2>3. Len(ag[r].kept) < MaxKept BY <1>5 DEF Deliver, MayArrive
  <2>4. q \in Seq(KeptMessage) /\ Len(q) = Len(ag[r].kept) + 1
    <3> HIDE DEF k
    <3> QED BY <2>1, <2>2, AppendProperties
  <2>5. Len(q) <= MaxKept BY <2>2, <2>3, <2>4
  <2> HIDE DEF q
  <2>6. K \in GoodState BY <1>3, <2>4, <2>5, WithKept, ArrivedIs
  <2> HIDE DEF K
  <2> QED BY <1>2, <1>3, <1>5, <2>6, PutIs, FreeIs
<1>6. CASE /\ Receipt(ag[r].active, made) = "stale" /\ Free
           /\ ag' = [ag EXCEPT ![s] = R]
  <2>1. ag[r].active \in Serials BY <1>3, <1>6, StaleIsKnown
  <2>2. R \in GoodState BY <1>1, <1>2, <1>3, <2>1, RefusedIs
  <2> HIDE DEF R
  <2> QED BY <1>3, <1>6, <2>2, PutIs, FreeIs
<1>7. T \in States
  <2>1. Taken(ag[r], s, m) \in GoodState BY <1>1, <1>3, TakenIs
  <2> QED BY <1>2, <1>3, <2>1, PutIs
<1> HIDE DEF T
<1>8. {s} \in SUBSET Provider OBVIOUS
<1>9. Ranked(T, {s}) \in States /\ Ranked(Confirmed(T, s, m), {s}) \in States BY <1>7, <1>8, ConfirmedIs, RankedIs
<1>10. CASE Free /\ ag' = Ranked(Confirmed(T, s, m), {s}) BY <1>9, <1>10, FreeIs
<1>11. CASE Spend("unconfirmed") /\ ag' = Ranked(T, {s}) BY <1>9, <1>11, SpendIs DEF CatchEvent
<1>12. \/ /\ Receipt(ag[r].active, made) = "keep" /\ Free
          /\ ag' = [ag EXCEPT ![r] = K]
       \/ /\ Receipt(ag[r].active, made) = "stale" /\ Free
          /\ ag' = [ag EXCEPT ![s] = R]
       \/ Free /\ ag' = Ranked(Confirmed(T, s, m), {s})
       \/ Spend("unconfirmed") /\ ag' = Ranked(T, {s})
  BY <1>2, <1>3, GoodIs DEF Deliver, T, AgentState
<1> QED BY <1>5, <1>6, <1>10, <1>11, <1>12

LEMMA InstrActivatedStep ==
    ASSUME Typing, NEW a \in Provider, InstrActivated(a)
    PROVE  ag' \in States /\ RestTyped
<1> DEFINE G == AllReleased(a)
           B == Resent(G[a], a)
           H == [G EXCEPT ![a] = B]
<1>1. G \in States BY AllReleasedIs DEF Typing
<1>2. ag' = Ranked(H, Provider) BY DEF InstrActivated
<1> HIDE DEF G
<1>3. B \in GoodState BY <1>1, StateOf, ResentIs DEF Typing
<1> HIDE DEF B
<1>4. H \in States BY <1>1, <1>3, PutIs
<1> HIDE DEF H
<1> QED BY <1>2, <1>4, RankedIs, FreeIs DEF InstrActivated

LEMMA OwnReadStep ==
    ASSUME Typing, NEW a \in Provider, OwnRead(a)
    PROVE  ag' \in States /\ RestTyped
<1> DEFINE A == ag[a]
<1>1. A \in GoodState /\ ag \in States BY StateOf DEF Typing
<1>2. CASE OwnReadAsk(a)
  <2> DEFINE B == [A EXCEPT !.reading = "out", !.fresh = {}]
  <2>1. ag' = [ag EXCEPT ![a] = B] /\ A.reading = "no" BY <1>2 DEF OwnReadAsk
  <2> HIDE DEF A
  <2>2. B \in GoodState BY <1>1, <2>1, ReadAsked
  <2> HIDE DEF B
  <2>3. Free BY <1>2 DEF OwnReadAsk
  <2> QED BY <1>1, <2>1, <2>2, <2>3, PutIs, FreeIs
<1>3. CASE OwnReadAnswer(a)
  <2> DEFINE B == [A EXCEPT !.reading = "answer", !.answer = A.stored]
  <2>1. ag' = [ag EXCEPT ![a] = B] /\ A.reading = "out" BY <1>3 DEF OwnReadAnswer
  <2> HIDE DEF A
  <2>2. B \in GoodState BY <1>1, <2>1, ReadAnswered
  <2> HIDE DEF B
  <2>3. Free BY <1>3 DEF OwnReadAnswer
  <2> QED BY <1>1, <2>1, <2>2, <2>3, PutIs, FreeIs
<1>4. CASE OwnReadDone(a)
  <2> DEFINE apply == {b \in Provider : MayApplyOwnRead(A, b)}
             Y == A.undone \cup {b \in apply \cap A.told : A.note[b] = "none" /\ A.answer[b] # A.data[b]}
             d == [b \in Provider |-> IF b \in apply THEN A.answer[b] ELSE A.data[b]]
             e == [b \in Provider |-> IF MayApplyOwnRead(A, b) THEN A.answer[b] ELSE A.data[b]]
             B == [NoReading(A) EXCEPT !.read = TRUE, !.data = e, !.undone = Y]
  <2>1. A.undone \in SUBSET Provider BY <1>1, GoodIs DEF SetTypes
  <2>2. Y \in SUBSET Provider BY <2>1
  <2>3. d = e OBVIOUS
  <2>4. ag' = [ag EXCEPT ![a] = [NoReading(A) EXCEPT !.read = TRUE, !.data = d, !.undone = Y]] /\ A.reading = "answer"
    <3>1. NoReading(A).undone = A.undone BY <1>1, GoodIs DEF NoReading, AgentState
    <3> QED BY <1>4, <3>1 DEF OwnReadDone
  <2>5. B \in GoodState
    <3> HIDE DEF A, Y
    <3> QED BY <1>1, <2>2, <2>4, ReadDone
  <2> HIDE DEF d, e
  <2>6. ag' = [ag EXCEPT ![a] = B] BY <2>3, <2>4
  <2> HIDE DEF B
  <2>7. Free BY <1>4 DEF OwnReadDone
  <2> QED BY <1>1, <2>5, <2>6, <2>7, PutIs, FreeIs
<1> QED BY <1>2, <1>3, <1>4 DEF OwnRead

LEMMA AskPutIs ==
    ASSUME NEW G \in States, NEW a \in Provider, NEW p \in Provider, NEW e \in Asking
    PROVE  [G EXCEPT ![a].ask[p] = e] \in States
<1> DEFINE B == [G[a] EXCEPT !.ask[p] = e]
<1>1. B \in GoodState BY StateOf, AskIs
<1>2. [G EXCEPT ![a].ask[p] = e] = [G EXCEPT ![a] = B] OBVIOUS
<1> HIDE DEF B
<1> QED BY <1>1, <1>2, PutIs

LEMMA SendStep ==
    ASSUME Typing, NEW a \in Provider, NEW p \in Provider, Send(a, p)
    PROVE  ag' \in States /\ RestTyped
<1> DEFINE e == ag[a].ask[p]
           x == [e EXCEPT !.st = "noted"]
           y == [e EXCEPT !.st = "sent"]
           q == [from |-> a, name |-> e.name, reason |-> e.reason]
           B == [ag[p] EXCEPT !.todo = @ \cup {q}]
           taken == [ag EXCEPT ![p].todo = @ \cup {q}]
<1>1. ag \in States /\ e \in Asking /\ e.st = "due" BY StateOf, AskOf DEF Typing, Send
<1>2. x \in Asking /\ y \in Asking /\ Failed(e) \in Asking /\ q \in Request
  BY <1>1, OutHasReason, FailedIs DEF Asking, Ask, Request, Reasons
<1>3. taken = [ag EXCEPT ![p] = B] /\ taken[a].ask[p] = e
  BY <1>1, GoodIs, StateOf DEF States, AgentState
<1>4. \/ ag' = [ag EXCEPT ![a].ask[p] = x]
      \/ ag' = [taken EXCEPT ![a].ask[p] = y]
      \/ ag' = [taken EXCEPT ![a].ask[p] = Failed(e)]
      \/ ag' = [ag EXCEPT ![a].ask[p] = Failed(e)]
  <2> HIDE DEF taken
  <2> QED BY <1>1, <1>3, Zenon DEF Send, taken
<1>5. RestTyped
  <2>1. \/ Free \/ Spend("unacked") \/ Spend("lost") BY DEF Send
  <2> QED BY <2>1, FreeIs, SpendIs DEF CatchEvent
<1> HIDE DEF e, x, y, q
<1>6. B \in GoodState
  <2> DEFINE Q == ag[p].todo \cup {q}
  <2>1. ag[p] \in GoodState BY <1>1, StateOf
  <2>2. ag[p].todo \in SUBSET Request /\ IsFiniteSet(ag[p].todo) BY <2>1, GoodIs DEF CarriedTypes
  <2>3. Q \in SUBSET Request /\ IsFiniteSet(Q) BY <1>2, <2>2, FS_AddElement
  <2> HIDE DEF Q
  <2>4. [ag[p] EXCEPT !.todo = Q] \in GoodState BY <2>1, <2>3, WithTodo
  <2> QED BY <2>4 DEF Q
<1> HIDE DEF B
<1>7. taken \in States BY <1>1, <1>3, <1>6, PutIs
<1> HIDE DEF taken
<1> QED BY <1>1, <1>2, <1>4, <1>5, <1>7, AskPutIs

LEMMA TimeoutStep ==
    ASSUME Typing, NEW a \in Provider, NEW p \in Provider, Timeout(a, p)
    PROVE  ag' \in States /\ RestTyped
<1> DEFINE e == ag[a].ask[p]
<1>1. ag \in States /\ e \in Asking /\ e.st = "sent" BY StateOf, AskOf DEF Typing, Timeout
<1>2. Failed(e) \in Asking BY <1>1, OutHasReason, FailedIs DEF Reasons
<1>3. ag' = [ag EXCEPT ![a].ask[p] = Failed(e)] BY DEF Timeout
<1>4. Free \/ Spend("slow") BY DEF Timeout
<1> HIDE DEF e
<1> QED BY <1>1, <1>2, <1>3, <1>4, AskPutIs, FreeIs, SpendIs DEF CatchEvent

LEMMA RetryStep ==
    ASSUME Typing, NEW a \in Provider, NEW p \in Provider, Retry(a, p)
    PROVE  ag' \in States /\ RestTyped
<1> DEFINE A == ag[a]
           e == A.ask[p]
           x == [e EXCEPT !.st = "paused"]
           y == [e EXCEPT !.st = "due", !.name = NewName(a, p)]
           g == CASE ~BothVote(A, a, p) -> NoAsk
                  [] BothVote(A, a, p) /\ A.link[p] # "ok" -> x
                  [] OTHER -> y
<1>1. ag \in States /\ e \in Asking /\ e.st = "retry" BY StateOf, AskOf DEF Typing, Retry
<1>2. NewName(a, p) \in Nat BY <1>1, NewNameIs
<1>3. x \in Asking /\ y \in Asking /\ NoAsk \in Asking BY <1>1, <1>2, NoAskIs DEF Asking, Ask
<1>4. ag' = [ag EXCEPT ![a].ask[p] = g] BY DEF Retry
<1> HIDE DEF x, y
<1>5. g \in Asking BY <1>3
<1>6. Free BY DEF Retry
<1> HIDE DEF g
<1> QED BY <1>1, <1>4, <1>5, <1>6, AskPutIs, FreeIs

LEMMA AnswerRequestStep ==
    ASSUME Typing, NEW p \in Provider, NEW q \in ag[p].todo, AnswerRequest(p, q)
    PROVE  ag' \in States /\ RestTyped
<1> DEFINE A == [ag[p] EXCEPT !.todo = @ \ {q}]
           full == CanAnswer(A)
           cu == [name |-> q.name, complete |-> full]
           answer == Whole(A, p, q.from, NewDist(A, p), cu)
           sent == IF full THEN answer ELSE [answer EXCEPT !.whole = FALSE, !.set = {}, !.n = 0]
           B == [A EXCEPT !.queue = (@ \ OlderAnswers(A, q.from)) \cup {sent}]
           C == Asked(B, p, q.from, "peer-start", q.name)
<1>1. ag \in States /\ ag[p] \in GoodState BY StateOf DEF Typing
<1>2. q \in Request BY <1>1, GoodIs DEF CarriedTypes
<1>3. q.from \in Provider /\ q.name \in Nat BY <1>2 DEF Request
<1>4. A \in GoodState
  <2> DEFINE Q == ag[p].todo \ {q}
  <2>1. ag[p].todo \in SUBSET Request /\ IsFiniteSet(ag[p].todo) BY <1>1, GoodIs DEF CarriedTypes
  <2>2. Q \in SUBSET Request /\ IsFiniteSet(Q) BY <2>1, FS_RemoveElement
  <2> HIDE DEF Q
  <2>3. [ag[p] EXCEPT !.todo = Q] \in GoodState BY <1>1, <2>2, WithTodo
  <2> QED BY <2>3 DEF Q
<1>5. \/ ag' = Ranked([ag EXCEPT ![p] = A], {p})
      \/ ag' = Ranked([ag EXCEPT ![p] = C], {p})
      \/ ag' = Ranked([ag EXCEPT ![p] = B], {p})
  <2> HIDE DEF A, B
  <2> QED BY DEF AnswerRequest, A, B
<1> HIDE DEF A
<1>6. full \in BOOLEAN BY <1>4, GoodIs DEF CanAnswer, SetTypes
<1> HIDE DEF full
<1>7. sent \in Msg
  <2>1. cu \in CatchUpPart BY <1>3, <1>6 DEF CatchUpPart
  <2>2. NewDist(A, p) \in Nat BY <1>1, <1>4, NewDistIs
  <2> HIDE DEF cu
  <2>3. answer \in Msg BY <1>1, <1>3, <1>4, <2>1, <2>2, WholeIs
  <2> HIDE DEF answer
  <2> QED BY <1>6, <2>3 DEF Msg
<1> HIDE DEF sent
<1>8. B \in GoodState
  <2> DEFINE Q == A.queue \ OlderAnswers(A, q.from)
             R == Q \cup {sent}
  <2>1. A.queue \in SUBSET Msg /\ IsFiniteSet(A.queue) BY <1>4, GoodIs DEF CarriedTypes
  <2>2. Q \in SUBSET A.queue OBVIOUS
  <2> HIDE DEF Q
  <2>3. IsFiniteSet(Q) BY <2>1, <2>2, FS_Subset
  <2>4. R \in SUBSET Msg /\ IsFiniteSet(R) BY <1>7, <2>1, <2>2, <2>3, FS_AddElement
  <2> HIDE DEF R
  <2>5. [A EXCEPT !.queue = R] \in GoodState BY <1>4, <2>4, WithQueue
  <2> QED BY <2>5 DEF Q, R
<1> HIDE DEF B
<1>9. C \in GoodState BY <1>1, <1>3, <1>8, AskedIs DEF Reasons
<1> HIDE DEF C
<1>10. {p} \in SUBSET Provider OBVIOUS
<1>11. Free BY DEF AnswerRequest
<1>12. \A X \in GoodState : Ranked([ag EXCEPT ![p] = X], {p}) \in States BY <1>1, <1>10, PutIs, RankedIs
<1> QED BY <1>4, <1>5, <1>8, <1>9, <1>11, <1>12, FreeIs

LEMMA LinkIs ==
    ASSUME NEW A \in GoodState, NEW p \in Provider, NEW x \in {"never", "ok", "short", "long"}
    PROVE  [A EXCEPT !.link[p] = x] \in GoodState
<1> DEFINE f == [A.link EXCEPT ![p] = x]
<1>1. f \in [Provider -> {"never", "ok", "short", "long"}] BY GoodIs DEF CarriedTypes
<1>2. [A EXCEPT !.link[p] = x] = [A EXCEPT !.link = f] OBVIOUS
<1> HIDE DEF f
<1> QED BY <1>1, <1>2, WithLink

LEMMA BeatStep ==
    ASSUME Typing, NEW a \in Provider, NEW p \in Provider, Beat(a, p)
    PROVE  ag' \in States /\ RestTyped
<1> DEFINE A == ag[a]
           e == A.ask[p]
           x == [e EXCEPT !.st = "due"]
           y == [e EXCEPT !.st = "due", !.name = NewName(a, p)]
           g == CASE e.st = "noted" -> x
                  [] e.st = "paused" -> y
                  [] OTHER -> e
           L == [A EXCEPT !.link[p] = "ok"]
           W == [L EXCEPT !.ask[p] = g]
<1>1. ag \in States /\ A \in GoodState /\ e \in Asking BY StateOf, AskOf DEF Typing
<1>2. NewName(a, p) \in Nat BY <1>1, NewNameIs
<1>3. g \in Asking
  <2>1. CASE e.st = "noted"
    <3>1. x \in Asking BY <1>1, <2>1 DEF Asking, Ask
    <3> QED BY <2>1, <3>1
  <2>2. CASE e.st = "paused"
    <3>1. y \in Asking BY <1>1, <1>2, <2>2 DEF Asking, Ask
    <3> QED BY <2>2, <3>1
  <2>3. CASE e.st \notin {"noted", "paused"} BY <1>1, <2>3
  <2> QED BY <2>1, <2>2, <2>3
<1>4. ag' \in {[ag EXCEPT ![a] = Asked(W, a, p, "start", 0)],
               [ag EXCEPT ![a] = Asked(W, a, p, "outage", 0)], [ag EXCEPT ![a] = W]}
  <2> DEFINE V == [A EXCEPT !.link[p] = "ok", !.ask[p] = g]
  <2>1. V = W BY <1>1, GoodIs DEF AgentState
  <2>2. ag' \in {[ag EXCEPT ![a] = Asked(V, a, p, "start", 0)],
                 [ag EXCEPT ![a] = Asked(V, a, p, "outage", 0)], [ag EXCEPT ![a] = V]}
    BY DEF Beat
  <2> QED BY <2>1, <2>2
<1> HIDE DEF g, A
<1>5. L \in GoodState BY <1>1, LinkIs
<1> HIDE DEF L
<1>6. W \in GoodState BY <1>3, <1>5, AskIs
<1> HIDE DEF W
<1>7. /\ Asked(W, a, p, "start", 0) \in GoodState /\ Asked(W, a, p, "outage", 0) \in GoodState
  BY <1>1, <1>6, AskedIs DEF Reasons
<1>8. Free BY DEF Beat
<1> QED BY <1>1, <1>4, <1>6, <1>7, <1>8, PutIs, FreeIs

LEMMA CutStep ==
    ASSUME Typing, NEW a \in Provider, NEW p \in Provider, Cut(a, p)
    PROVE  ag' \in States /\ RestTyped
<1>1. ag \in States /\ ag[a] \in GoodState BY StateOf DEF Typing
<1>2. PICK gap \in {"short", "long"} : ag' = [ag EXCEPT ![a].link[p] = gap] BY DEF Cut
<1> DEFINE B == [ag[a] EXCEPT !.link[p] = gap]
<1>3. B \in GoodState BY <1>1, LinkIs
<1>4. ag' = [ag EXCEPT ![a] = B] BY <1>2
<1> HIDE DEF B
<1>5. Spend("cut") BY DEF Cut
<1> QED BY <1>1, <1>3, <1>4, <1>5, PutIs, SpendIs DEF CatchEvent

LEMMA OperatorAsksStep ==
    ASSUME Typing, NEW a \in Provider, OperatorAsks(a)
    PROVE  ag' \in States /\ RestTyped
<1>1. ag \in States /\ ag[a] \in GoodState BY StateOf DEF Typing
<1>2. AskZone(ag[a], a, "manual") \in GoodState BY <1>1, AskZoneIs DEF Reasons
<1>3. Spend("manual") /\ ag' = [ag EXCEPT ![a] = AskZone(ag[a], a, "manual")] BY DEF OperatorAsks
<1> QED BY <1>1, <1>2, <1>3, PutIs, SpendIs DEF CatchEvent

LEMMA FirstLoadStep ==
    ASSUME Typing, NEW a \in Provider, FirstLoad(a)
    PROVE  ag' \in States /\ RestTyped
<1> DEFINE B == [ag[a] EXCEPT !.loaded = TRUE]
<1>1. ag \in States /\ ag[a] \in GoodState BY StateOf DEF Typing
<1>2. B \in GoodState BY <1>1, WithLoaded
<1>3. Free /\ ag' = [ag EXCEPT ![a] = AskZone(B, a, "start")] BY DEF FirstLoad
<1> HIDE DEF B
<1>4. AskZone(B, a, "start") \in GoodState BY <1>1, <1>2, AskZoneIs DEF Reasons
<1> QED BY <1>1, <1>3, <1>4, PutIs, FreeIs

LEMMA ZoneRefreshStep ==
    ASSUME Typing, NEW a \in Provider, ZoneRefresh(a)
    PROVE  ag' \in States /\ RestTyped
<1>1. ag \in States /\ ag[a] \in GoodState BY StateOf DEF Typing
<1>2. Pruned(ag[a], a) \in GoodState BY <1>1, PrunedIs
<1>3. Free /\ ag' = [ag EXCEPT ![a] = Pruned(ag[a], a)] BY DEF ZoneRefresh
<1> QED BY <1>1, <1>2, <1>3, PutIs, FreeIs

LEMMA AgreeStep ==
    ASSUME Typing, NEW a \in Provider, Agree(a)
    PROVE  ag' \in States /\ RestTyped
<1> DEFINE B == [ag[a] EXCEPT !.phase = "agreeing"]
<1>1. ag \in States /\ ag[a] \in GoodState BY StateOf DEF Typing
<1>2. B \in GoodState BY <1>1, WithPhase
<1>3. Spend("agree") /\ ag' = [ag EXCEPT ![a] = B] BY DEF Agree
<1> HIDE DEF B
<1> QED BY <1>1, <1>2, <1>3, PutIs, SpendIs DEF CatchEvent

\* A serial becomes active.
LEMMA ActivatedIs ==
    ASSUME NEW A \in GoodState, NEW v \in Serials
    PROVE  ActiveChanged([A EXCEPT !.active = v, !.phase = "reconciling"]) \in GoodState
<1> DEFINE B == [A EXCEPT !.active = v]
           C == [B EXCEPT !.phase = "reconciling"]
<1>1. B \in GoodState BY WithActive
<1>2. C = [A EXCEPT !.active = v, !.phase = "reconciling"] OBVIOUS
<1> HIDE DEF B
<1>3. C \in GoodState BY <1>1, WithPhase
<1> HIDE DEF C
<1> QED BY <1>2, <1>3, ActiveChangedIs

LEMMA ActivateStep ==
    ASSUME Typing, NEW a \in Provider, Activate(a)
    PROVE  ag' \in States /\ RestTyped
<1> DEFINE A == ag[a]
           v == A.active + 1
           B == ActiveChanged([A EXCEPT !.active = v, !.phase = "reconciling"])
<1>1. ag \in States /\ A \in GoodState BY StateOf DEF Typing
<1>2. Serials = 1..Len(votersAt) /\ Len(votersAt) \in Nat BY EmptySeq DEF Serials, Typing, VotersTyped
<1>3. A.active \in 1..(Len(votersAt) - 1) BY DEF Activate
<1>4. v \in Serials BY <1>2, <1>3
<1>5. Free /\ ag' = [ag EXCEPT ![a] = B] BY <1>1, GoodIs DEF Activate, AgentState
<1> HIDE DEF A, v
<1>6. B \in GoodState BY <1>1, <1>4, ActivatedIs
<1> HIDE DEF B
<1> QED BY <1>1, <1>5, <1>6, PutIs, FreeIs

LEMMA KnowStep ==
    ASSUME Typing, NEW a \in Provider, Know(a)
    PROVE  ag' \in States /\ RestTyped
<1>1. ag \in States /\ ag[a] \in GoodState BY StateOf DEF Typing
<1>2. PICK b \in Provider :
        /\ ag[b].active # 0
        /\ ag' = [ag EXCEPT ![a] = ActiveChanged([@ EXCEPT !.active = ag[b].active, !.phase = "reconciling"])]
  BY DEF Know
<1> DEFINE v == ag[b].active
           B == ActiveChanged([ag[a] EXCEPT !.active = v, !.phase = "reconciling"])
<1>3. v \in Serials
  <2>1. v \in Serials \cup {0} BY <1>1, StateOf, GoodIs DEF CarriedTypes
  <2> QED BY <1>2, <2>1
<1>4. ag' = [ag EXCEPT ![a] = B] BY <1>2
<1> HIDE DEF v
<1>5. B \in GoodState BY <1>1, <1>3, ActivatedIs
<1> HIDE DEF B
<1>6. Free BY DEF Know
<1> QED BY <1>1, <1>4, <1>5, <1>6, PutIs, FreeIs

LEMMA DoneStep ==
    ASSUME Typing, NEW a \in Provider, Done(a)
    PROVE  ag' \in States /\ RestTyped
<1> DEFINE B == [ag[a] EXCEPT !.phase = "steady"]
<1>1. ag \in States /\ ag[a] \in GoodState BY StateOf DEF Typing
<1>2. B \in GoodState BY <1>1, WithPhase
<1>3. Free /\ ag' = [ag EXCEPT ![a] = B] BY DEF Done
<1> HIDE DEF B
<1> QED BY <1>1, <1>2, <1>3, PutIs, FreeIs

LEMMA AgentRestartStep ==
    ASSUME Typing, NEW a \in Provider, AgentRestart(a)
    PROVE  ag' \in States /\ RestTyped
<1> DEFINE S == Started(ag[a], a, TRUE)
           U == Started(ag[a], a, FALSE)
           B == [S EXCEPT !.active = 0]
           C == [B EXCEPT !.phase = "steady"]
<1>1. ag \in States /\ ag[a] \in GoodState BY StateOf DEF Typing
<1>2. S \in GoodState /\ U \in GoodState BY <1>1, StartedAgain
<1>3. ag' \in {[ag EXCEPT ![a] = S], [ag EXCEPT ![a] = U], [ag EXCEPT ![a] = [S EXCEPT !.active = 0, !.phase = "steady"]]}
  BY Zenon DEF AgentRestart
<1>4. Spend("restart") \/ Spend("unread") \/ Spend("forgotten") BY DEF AgentRestart
<1> HIDE DEF S, U
<1>5. [S EXCEPT !.active = 0, !.phase = "steady"] = C OBVIOUS
<1>6. B \in GoodState BY <1>2, WithActive
<1> HIDE DEF B
<1>7. C \in GoodState BY <1>6, WithPhase
<1> HIDE DEF C
<1>8. ag' \in States BY <1>1, <1>2, <1>3, <1>5, <1>7, PutIs
<1>9. RestTyped BY <1>4, SpendIs DEF CatchEvent
<1> QED BY <1>8, <1>9

-----------------------------------------------------------------------------
(* The invariant *)

LEMMA TypingInit == CatchInit => Typing
<1> SUFFICES ASSUME CatchInit PROVE Typing
  OBVIOUS
<1>1. VotersTyped /\ left \in [CatchEvent -> Nat] BY ConstantsAssumption DEF CatchInit, VotersTyped
<1>2. 1 \in Serials BY <1>1, EmptySeq DEF VotersTyped, Serials
<1>3. ag = [a \in Provider |-> ag[a]] BY DEF CatchInit
<1>4. ASSUME NEW a \in Provider PROVE ag[a] \in GoodState
  <2> DEFINE none == [b \in Provider |-> {}]
             notes == [b \in Provider |-> "none"]
             zero == [b \in Provider |-> 0]
             ask == [b \in Provider |-> IF b # a /\ {a, b} \subseteq votersAt[1]
                                        THEN [NoAsk EXCEPT !.st = "idle"] ELSE NoAsk]
             link == [b \in Provider |-> "ok"]
             A == [loaded |-> TRUE, data |-> none, stored |-> none, note |-> notes, read |-> TRUE, reading |-> "no",
                   answer |-> none, fresh |-> {}, origin |-> zero, active |-> 1, phase |-> "steady",
                   kept |-> <<>>, owed |-> <<>>, notYet |-> <<>>, calls |-> <<>>, queue |-> {}, todo |-> {},
                   ask |-> ask, link |-> link, told |-> {}, undone |-> {}]
  <2>1. ag[a] = A BY DEF CatchInit
  <2>2. /\ none \in [Provider -> SUBSET Rec] /\ notes \in [Provider -> {"none", "sent", "confirmed"}]
        /\ zero \in [Provider -> Nat] /\ link \in [Provider -> {"never", "ok", "short", "long"}]
    OBVIOUS
  <2>3. ask \in [Provider -> Asking] BY NoAskIs
  <2>4. /\ <<>> \in Seq(KeptMessage) /\ <<>> \in Seq(SUBSET Rec) /\ <<>> \in Seq(NotYet) /\ <<>> \in Seq(Call)
        /\ Len(<<>>) = 0 /\ 0 <= MaxKept /\ 0 <= NotYetsKept /\ IsFiniteSet({})
    BY FS_EmptySet, ConstantsAssumption
  <2>5. ask \in [Provider -> Ask] BY <2>3, AskingAsks
  <2>6. \A b \in Provider : notes[b] = "none" OBVIOUS
  <2> HIDE DEF none, notes, zero, ask, link
  <2>7. A \in AgentState BY <1>2, <2>2, <2>4, <2>5 DEF AgentState, KeptMessage, NotYet, Call
  <2>8. SetTypes(A) BY <2>2 DEF SetTypes
  <2>9. CarriedTypes(A) BY <1>2, <2>2, <2>3, <2>4 DEF CarriedTypes
  <2>10. Backed(A) BY <2>6 DEF Backed
  <2> HIDE DEF A
  <2> QED BY <2>1, <2>7, <2>8, <2>9, <2>10 DEF GoodState
<1> QED BY <1>1, <1>3, <1>4 DEF Typing, States

LEMMA TypingNext == Typing /\ [CatchNext]_catchVars => Typing'
<1> SUFFICES ASSUME Typing, [CatchNext]_catchVars PROVE Typing'
  OBVIOUS
<1>1. ASSUME ag' \in States, RestTyped PROVE Typing'
  <2>1. States' = States BY <1>1, SameStates DEF RestTyped
  <2>2. VotersTyped' BY <1>1 DEF RestTyped, Typing, VotersTyped
  <2> QED BY <1>1, <2>1, <2>2 DEF Typing, RestTyped
<1>2. CASE UNCHANGED catchVars
  <2>1. ag' \in States /\ RestTyped BY <1>2 DEF catchVars, Typing, RestTyped
  <2> QED BY <1>1, <2>1
<1>3. ASSUME NEW a \in Provider,
             \/ \E q \in ag[a].todo : AnswerRequest(a, q)
             \/ \E m \in ag[a].queue : Deliver(a, m)
             \/ Engine(a) \/ OwnRead(a) \/ Transition(a) \/ ZoneRefresh(a) \/ Agree(a) \/ OperatorAsks(a) \/ AgentRestart(a)
             \/ \E r \in Rec : EditCall(a, r)
             \/ \E p \in Provider : Tracker(a, p) \/ Cut(a, p)
      PROVE  ag' \in States /\ RestTyped
  <2>1. CASE \E q \in ag[a].todo : AnswerRequest(a, q) BY <2>1, AnswerRequestStep
  <2>2. CASE \E m \in ag[a].queue : Deliver(a, m) BY <2>2, DeliverStep
  <2>3. CASE Engine(a)
    BY <2>3, ApplyLocalStep, InstrDoneStep, InstrActivatedStep, HandOverStep DEF Engine
  <2>4. CASE OwnRead(a) BY <2>4, OwnReadStep
  <2>5. CASE Transition(a) BY <2>5, FirstLoadStep, ActivateStep, KnowStep, DoneStep DEF Transition
  <2>6. CASE ZoneRefresh(a) BY <2>6, ZoneRefreshStep
  <2>7. CASE Agree(a) BY <2>7, AgreeStep
  <2>8. CASE OperatorAsks(a) BY <2>8, OperatorAsksStep
  <2>9. CASE AgentRestart(a) BY <2>9, AgentRestartStep
  <2>10. CASE \E r \in Rec : EditCall(a, r) BY <2>10, EditCallStep
  <2>11. CASE \E p \in Provider : Tracker(a, p) \/ Cut(a, p)
    BY <2>11, SendStep, TimeoutStep, RetryStep, BeatStep, CutStep DEF Tracker
  <2> QED BY <1>3, <2>1, <2>2, <2>3, <2>4, <2>5, <2>6, <2>7, <2>8, <2>9, <2>10, <2>11
<1> QED BY <1>1, <1>2, <1>3 DEF CatchNext

LEMMA CatchInvariance == CatchSpec => []Typing
<1> QED BY TypingInit, TypingNext, PTL DEF CatchSpec

LEMMA TypingIsTypeOK == Typing => CatchTypeOK
<1> SUFFICES ASSUME Typing PROVE CatchTypeOK
  OBVIOUS
<1>1. ag \in [Provider -> AgentState] BY StateOf, GoodIs DEF Typing, States
<1>2. \A a \in Provider : Len(ag[a].notYet) <= NotYetsKept /\ Len(ag[a].kept) <= MaxKept
  BY StateOf, GoodIs DEF Typing, CarriedTypes
<1> QED BY <1>1, <1>2 DEF Typing, VotersTyped, CatchTypeOK

LEMMA TypingHoldsOwn == Typing => CombinerHoldsOwn
<1> SUFFICES ASSUME Typing, NEW a \in Provider, ag[a].read, ag[a].note[a] # "sent"
             PROVE  ag[a].stored[a] = ag[a].data[a]
  BY DEF CombinerHoldsOwn
<1>1. SetTypes(ag[a]) /\ Backed(ag[a]) BY StateOf, GoodIs DEF Typing
<1>2. ag[a].note[a] \in {"none", "confirmed"} BY <1>1 DEF SetTypes
<1> QED BY <1>1, <1>2 DEF Backed

\* The state of every agent stays of its type, its kept messages and its
\* book of refused distributions within their bounds.
THEOREM CatchTypeCorrect == CatchSpec => []CatchTypeOK
BY CatchInvariance, TypingIsTypeOK, PTL

\* An agent that has read its own state and has nothing handed over holds
\* what its combiner does: no answer the combiner gave before a change undoes
\* the change.
THEOREM HoldsOwn == CatchSpec => []CombinerHoldsOwn
BY CatchInvariance, TypingHoldsOwn, PTL

=============================================================================
