-------------------------- MODULE KeyLifecycleProofs --------------------------
(***************************************************************************)
(* The keys of a zone never go where a validator cannot follow, proved for *)
(* any finite number of keys, any signers, algorithms and standby counts,  *)
(* and any mix and number of the operator's commands, crashes, restarts,   *)
(* lost, late and refused answers, and parents that go back.               *)
(*                                                                         *)
(* The argument.  One KSK at a time is the anchor: it signs, and its DS    *)
(* withdrawal is not written (OneAnchor).  Where the parent serves a DS    *)
(* of the zone, the anchor's is in what the parent serves, in what a       *)
(* leader has sent it and in all that a validator may still hold           *)
(* (AnchorHeld).  Another KSK becomes the anchor only with its wait for    *)
(* the DS TTL over, and then its DS is in all these too: no DS set begins  *)
(* its TTL without it once it was noted at the parent, unless the parent   *)
(* went back, which the tick that would promote it sees first (NoteHeld).  *)
(* No key of the zone is in a DS set before it is standby (EarlyUnserved), *)
(* and none that is standby leaves one by an update (StandbySent).         *)
(*                                                                         *)
(* A key reaches its states in one direction (Stage).  It is accepted once *)
(* everyone it was distributed to confirmed it, and what an answer on its  *)
(* way says is so: a signer's word follows its serving the set (Announced, *)
(* Confirms).  Whoever signs the zone, and was there when the key was      *)
(* minted, is among those it was distributed to, or took part in a later   *)
(* distribution, because a change of the signers adds them (ServedLed).    *)
(*                                                                         *)
(* A tick is a composition of steps of single keys and of the two roles.   *)
(* What a step makes of one key is a relation that composes (Moves, Turned,*)
(* Calm), so the proof is of each step by itself.                          *)
(*                                                                         *)
(* The DS of another provider's key leaves the parent's set only as its    *)
(* row does.  Two facts about its row compose (Heeds), one of each state   *)
(* (Settled) and one of what a step may take away (StaysIn); only a zone   *)
(* and a word write the row otherwise, and they ask who signs (MayGo).     *)
(***************************************************************************)
EXTENDS KeyLifecycle, FiniteSetTheorems, SequenceTheorems, WellFoundedInduction, TLAPS

-----------------------------------------------------------------------------
(* The invariant. *)

\* A KSK in these states has had no DS at the parent.
Early == {"none", "created", "mpdist", "published"}
\* The KSKs that sign and whose DS is to stay.
Anchors(x) == {k \in OfRole(x, {"active"}, "KSK") : x.row[k].ds # "out"}
\* What the ds and the waits of a key say of its state.
FitsAt(x, k) ==
  /\ x.row[k].ds = "in" => Sep(x, k) /\ x.row[k].state \in {"standby", "active"}
  /\ x.row[k].ds = "unset" => x.row[k].state = "active"
  /\ x.row[k].state = "standby" /\ Sep(x, k) => x.row[k].ds = "in"
  /\ x.row[k].state \in Early => x.present[k] = "none"
  /\ x.row[k].state \in Early \cup {"standby"} => x.since[k] = "none"
Fits(x) == \A k \in Key : FitsAt(x, k)
OneEach(x) ==
  \A role \in Role : \A a, b \in OfRole(x, {"active"}, role) : x.row[a].alg = x.row[b].alg => a = b
OneAnchor(x) == \E u \in Key : Anchors(x) = {u}

\* An old DS set that a validator may hold, without the key.
Lacks(e, k) == e.key = 0 /\ k \notin e.set
\* The anchor's DS is wherever a DS set is, if the parent had it at first.
AnchorHeld ==
  AtParent => \A u \in Anchors(m) :
    /\ u \in parent.own
    /\ \A i \in DOMAIN line : ~Lacks(line[i], u)
    /\ \A i \in DOMAIN update : u \in update[i].own
\* An update keeps the DS of a standby key that the parent serves.
StandbySent ==
  \A k \in OfRole(m, {"standby"}, "KSK") \cap parent.own : \A i \in DOMAIN update : k \in update[i].own
\* No DS of an early key is served or on its way.
EarlyUnserved ==
  \A k \in Keys(m, Early) : k \notin parent.own /\ \A i \in DOMAIN update : k \notin update[i].own
\* A standby key whose DS was noted is at the parent: no set without it begins
\* its TTL, and once the key's wait is over none is held, unless the parent
\* went back, and no tick has seen it.
NoteHeld ==
  \A k \in OfRole(m, {"standby"}, "KSK") : m.present[k] # "none" =>
    \/ /\ k \in parent.own
       /\ m.present[k] = "over" => \A i \in DOMAIN line : ~Lacks(line[i], k)
       /\ \A i, j \in DOMAIN line : line[i].key = k /\ Lacks(line[j], k) => j < i
    \/ unseen /\ k \notin parent.own
\* The clocks that run are those of the keys noted, one each.
Clocks ==
  /\ \A i \in DOMAIN line : Runs(m, line[i])
  /\ \A i, j \in DOMAIN line : line[i].key # 0 /\ line[i].key = line[j].key => i = j
HeldInv == Fits(m) /\ OneEach(m) /\ OneAnchor(m) /\ AnchorHeld /\ StandbySent /\ EarlyUnserved /\ NoteHeld /\ Clocks

Accepted == {"published", "standby", "active"}
\* Who is to serve a key before it signs.
Owes(k) == m.others \ joined[k]
\* What is asked of the signers, and the answers on their way, are of keys that
\* are distributed; who has answered serves them.
Announced ==
  /\ \A a \in asked \cup answers : a.kind = "propagated" => m.row[a.key].state \notin {"none", "created"}
  /\ \A a \in asked : a.kind = "propagated" => a.key \in sent /\ \A p \in Owes(a.key) \ a.who : a.key \in serves[p]
  /\ \A a \in answers : a.kind = "propagated" /\ Pub(m.row[a.key].state) =>
        a.key \in sent /\ \A p \in Owes(a.key) : a.key \in serves[p]
\* An accepted key is served by everyone it is owed; so is one by whoever its
\* distribution counts as applied, and that expects all others.
Confirms ==
  \A k \in Key :
    /\ m.row[k].state \in Accepted => \A p \in Owes(k) : k \in serves[p] /\ k \in sent
    /\ m.dist[k].live /\ m.row[k].state = "mpdist" => Owes(k) \subseteq m.dist[k].expected \cup m.dist[k].applied
    /\ Pub(m.row[k].state) /\ m.dist[k].live => \A p \in Owes(k) \cap m.dist[k].applied : k \in serves[p] /\ k \in sent
\* A distribution is of a key that is out, and a removal's of one that leaves.
Fresh ==
  \A k \in Key : m.dist[k].live =>
    /\ m.row[k].state \notin {"none", "created"}
    /\ m.dist[k].removal => m.row[k].state \in {"mpremove", "removed"}
ServedInv == Announced /\ Confirms /\ Fresh

-----------------------------------------------------------------------------
(* Induction over the subsets of a finite set, and what follows from it of *)
(* numbers.                                                                *)

LEMMA EverySet ==
  ASSUME NEW S, IsFiniteSet(S), NEW T, {} \in T,
         \A U \in SUBSET S, x \in S : U \in T => U \cup {x} \in T
  PROVE  S \in T
<1> DEFINE C == {U \in SUBSET S : S \ U \in T}
<1>1. S \in C BY DEF C
<1>2. C \subseteq FiniteSubsetsOf(S) BY FS_Subset DEF FiniteSubsetsOf
<1>3. IsWellFoundedOn(StrictSubsetOrdering(S), FiniteSubsetsOf(S)) BY FS_StrictSubsetOrderingWellFounded
<1> HIDE DEF C
<1>4. PICK U \in C : \A V \in C : ~ (<<V, U>> \in StrictSubsetOrdering(S)) BY <1>1, <1>2, <1>3, WFMin
<1>5. U \subseteq S /\ S \ U \in T BY DEF C
<1>6. CASE U = {} BY <1>5, <1>6
<1>7. CASE U # {}
  <2>1. PICK x \in U : TRUE BY <1>7
  <2>2. (S \ U) \cup {x} = S \ (U \ {x}) BY <1>5
  <2>3. (U \ {x}) \in C BY <2>2, <1>5 DEF C
  <2>4. <<U \ {x}, U>> \in StrictSubsetOrdering(S) BY <1>5 DEF StrictSubsetOrdering
  <2> QED BY <2>3, <2>4, <1>4
<1> QED BY <1>6, <1>7

LEMMA MaxOf ==
  ASSUME NEW S \in SUBSET Nat, IsFiniteSet(S), S # {}
  PROVE  Max(S) \in S /\ \A i \in S : Max(S) >= i
<1> DEFINE T == {U \in SUBSET S : U = {} \/ \E n \in U : \A i \in U : n >= i}
<1>1. ASSUME NEW U \in SUBSET S, NEW x \in S, U \in T PROVE U \cup {x} \in T
  <2>1. CASE U = {} BY <2>1
  <2>2. CASE U # {}
    <3>1. PICK n \in U : \A i \in U : n >= i BY <1>1, <2>2
    <3>2. n \in Nat /\ x \in Nat OBVIOUS
    <3>3. CASE x >= n
      <4>1. \A i \in U \cup {x} : x >= i BY <3>1, <3>2, <3>3
      <4> QED BY <4>1
    <3>4. CASE ~(x >= n)
      <4>1. \A i \in U \cup {x} : n >= i BY <3>1, <3>2, <3>4
      <4> QED BY <4>1
    <3> QED BY <3>3, <3>4
  <2> QED BY <2>1, <2>2
<1>2. {} \in T OBVIOUS
<1> HIDE DEF T
<1>3. S \in T BY <1>1, <1>2, EverySet
<1>4. \E n \in S : \A i \in S : n >= i BY <1>3 DEF T
<1> QED BY <1>4 DEF Max

LEMMA MinOf ==
  ASSUME NEW S \in SUBSET Nat, IsFiniteSet(S), S # {}
  PROVE  Min(S) \in S /\ \A i \in S : Min(S) <= i
<1> DEFINE T == {U \in SUBSET S : U = {} \/ \E n \in U : \A i \in U : n <= i}
<1>1. ASSUME NEW U \in SUBSET S, NEW x \in S, U \in T PROVE U \cup {x} \in T
  <2>1. CASE U = {} BY <2>1
  <2>2. CASE U # {}
    <3>1. PICK n \in U : \A i \in U : n <= i BY <1>1, <2>2
    <3>2. n \in Nat /\ x \in Nat OBVIOUS
    <3>3. CASE x <= n
      <4>1. \A i \in U \cup {x} : x <= i BY <3>1, <3>2, <3>3
      <4> QED BY <4>1
    <3>4. CASE ~(x <= n)
      <4>1. \A i \in U \cup {x} : n <= i BY <3>1, <3>2, <3>4
      <4> QED BY <4>1
    <3> QED BY <3>3, <3>4
  <2> QED BY <2>1, <2>2
<1>2. {} \in T OBVIOUS
<1> HIDE DEF T
<1>3. S \in T BY <1>1, <1>2, EverySet
<1>4. \E n \in S : \A i \in S : n <= i BY <1>3 DEF T
<1> QED BY <1>4 DEF Min

-----------------------------------------------------------------------------
Stage(s) ==
  CASE s = "none" -> 0 [] s = "created" -> 1 [] s = "mpdist" -> 2 [] s = "published" -> 3
    [] s = "standby" -> 4 [] s = "active" -> 5 [] s = "retired" -> 6 [] s = "mpremove" -> 7
    [] OTHER -> 8

Keeps(x, y) ==
  /\ y.rolls = x.rolls /\ y.alg = x.alg /\ y.aged = x.aged /\ y.hold = x.hold /\ y.known = x.known
  /\ y.others = x.others /\ y.signs = x.signs /\ y.run = x.run /\ y.said = x.said /\ y.foreign = x.foreign
OwnStep(x, y, k) ==
  /\ y \in Machine /\ Keeps(x, y)
  /\ \A o \in Key \ {k} : /\ y.row[o] = x.row[o] /\ y.dist[o] = x.dist[o]
                          /\ y.present[o] = x.present[o] /\ y.since[o] = x.since[o]

LEMMA ResendType ==
  ASSUME NEW x \in Machine, NEW k \in Key
  PROVE  /\ OwnStep(x, Resend(x, k), k)
         /\ Resend(x, k).row = x.row /\ Resend(x, k).dist = x.dist
         /\ Resend(x, k).present = x.present /\ Resend(x, k).since = x.since
BY DEF Machine, OwnStep, Keeps, Resend

LEMMA WriteType ==
  ASSUME NEW x \in Machine, NEW k \in Key, NEW state \in State
  PROVE  LET y == Write(x, k, state) IN
         /\ OwnStep(x, y, k)
         /\ y.row[k].state = state /\ y.row[k].role = x.row[k].role /\ y.row[k].alg = x.row[k].alg
         /\ y.row[k].ds = DsOf(state, x.row[k].role, state = "retired") /\ y.row[k].at = x.row[k].at
         /\ y.dist = x.dist /\ y.present = x.present /\ y.since = x.since
         /\ y.push = x.push /\ y.gone = x.gone /\ y.left = x.left
<1>1. DsOf(state, x.row[k].role, state = "retired") \in {"in", "out"} BY DEF DsOf
<1> DEFINE r == [x.row[k] EXCEPT !.state = state, !.ds = DsOf(state, x.row[k].role, state = "retired")]
<1>2. x.row \in [Key -> Row] BY DEF Machine
<1>3. /\ r \in Row
      /\ r.state = state /\ r.role = x.row[k].role /\ r.alg = x.row[k].alg /\ r.at = x.row[k].at
      /\ r.ds = DsOf(state, x.row[k].role, state = "retired")
  BY <1>1, <1>2 DEF Row
<1>4. Write(x, k, state) = [x EXCEPT !.row = [x.row EXCEPT ![k] = r]] BY <1>2 DEF Write, Machine, Row
<1> HIDE DEF r
<1>5. [x.row EXCEPT ![k] = r] \in [Key -> Row] BY <1>2, <1>3
<1>6. [x.row EXCEPT ![k] = r][k] = r BY <1>2
<1>7. \A o \in Key \ {k} : [x.row EXCEPT ![k] = r][o] = x.row[o] BY <1>2
<1>8. LET y == [x EXCEPT !.row = [x.row EXCEPT ![k] = r]] IN
      /\ OwnStep(x, y, k) /\ y.row[k] = r
      /\ y.dist = x.dist /\ y.present = x.present /\ y.since = x.since
      /\ y.push = x.push /\ y.gone = x.gone /\ y.left = x.left
  BY <1>5, <1>6, <1>7 DEF Machine, OwnStep, Keeps
<1> QED BY <1>3, <1>4, <1>8

LEMMA StartType ==
  ASSUME NEW x \in Machine, NEW k \in Key, NEW removal \in BOOLEAN
  PROVE  LET y == StartDistribution(x, k, removal) IN
         /\ OwnStep(x, y, k)
         /\ y.row = x.row /\ y.present = x.present /\ y.since = x.since
         /\ y.push = x.push /\ y.gone = x.gone /\ y.left = x.left
         /\ y.dist[k].live /\ y.dist[k].removal = removal /\ y.dist[k].expected = x.others
         /\ y.dist[k].applied = {} /\ ~y.dist[k].rejected
<1> DEFINE d == [live |-> TRUE, n |-> x.dist[k].n + 1, removal |-> removal,
                 expected |-> x.others, applied |-> {}, rejected |-> FALSE]
<1>1. x.dist \in [Key -> Dist] /\ x.others \subseteq Signer BY DEF Machine
<1>2. d \in Dist
  <2>1. x.dist[k].n + 1 \in Nat BY <1>1 DEF Dist
  <2> QED BY <1>1, <2>1 DEF Dist
<1>3. StartDistribution(x, k, removal) = [x EXCEPT !.dist = [x.dist EXCEPT ![k] = d]]
  BY <1>1 DEF StartDistribution, Machine
<1>4. d.live /\ d.removal = removal /\ d.expected = x.others /\ d.applied = {} /\ ~d.rejected OBVIOUS
<1> HIDE DEF d
<1>5. LET y == [x EXCEPT !.dist = [x.dist EXCEPT ![k] = d]] IN
      /\ OwnStep(x, y, k) /\ y.dist[k] = d
      /\ y.row = x.row /\ y.present = x.present /\ y.since = x.since
      /\ y.push = x.push /\ y.gone = x.gone /\ y.left = x.left
  BY <1>1, <1>2 DEF Machine, OwnStep, Keeps
<1> QED BY <1>3, <1>4, <1>5

LEMMA DropType ==
  ASSUME NEW x \in Machine, NEW k \in Key
  PROVE  LET y == Drop(x, k) IN
         /\ OwnStep(x, y, k)
         /\ y.row = x.row /\ y.present = x.present /\ y.since = x.since
         /\ y.push = x.push /\ y.gone = x.gone /\ y.left = x.left
         /\ ~y.dist[k].live
BY DEF Machine, OwnStep, Keeps, Drop, NoDist, Dist

-----------------------------------------------------------------------------
(* What a step of the driver does to one key. *)

\* The key's row moves on, and becomes none that signs.
Grows(x, y, k) ==
  /\ Stage(x.row[k].state) <= Stage(y.row[k].state)
  /\ x.row[k].state # "none" => y.row[k].role = x.row[k].role /\ y.row[k].alg = x.row[k].alg
  /\ y.row[k].state = "active" => x.row[k].state = "active"
  /\ k \in Anchors(y) <=> k \in Anchors(x)
  /\ FitsAt(x, k) => FitsAt(y, k)
\* Until a key signs, its waits stay as they are.
Rests(x, y, k) ==
  Stage(y.row[k].state) <= 4 => y.present[k] = x.present[k] /\ y.since[k] = x.since[k]
\* A distribution is the one there was, or starts from nothing.
Deals(x, y, k) ==
  /\ y.row[k].state \in Accepted => x.row[k].state \in Accepted \/ x.others = {}
  /\ y.dist[k].live =>
       \/ /\ x.dist[k].live /\ y.dist[k].expected = x.dist[k].expected
          /\ y.dist[k].applied = x.dist[k].applied /\ y.dist[k].removal = x.dist[k].removal
       \/ /\ y.dist[k].expected = x.others /\ y.dist[k].applied = {}
          /\ Stage(y.row[k].state) >= 2 /\ (y.dist[k].removal => Stage(y.row[k].state) >= 7)
Moves(x, y, k) == Grows(x, y, k) /\ Rests(x, y, k) /\ Deals(x, y, k)
KeyStep(x, y, k) == OwnStep(x, y, k) /\ Moves(x, y, k)

LEMMA StageNat == ASSUME NEW s PROVE Stage(s) \in 0..8
BY DEF Stage

LEMMA StageOf ==
  ASSUME NEW s \in State
  PROVE  /\ Stage(s) = 0 <=> s = "none"
         /\ Stage(s) <= 1 <=> s \in {"none", "created"}
         /\ Stage(s) <= 3 <=> s \in Early
         /\ Stage(s) <= 4 <=> s \in Early \cup {"standby"}
         /\ Stage(s) = 5 <=> s = "active"
         /\ Stage(s) >= 7 <=> s \in {"mpremove", "removed"}
         /\ Stage(s) = 6 <=> s = "retired"
         /\ Stage(s) >= 2 <=> s \notin {"none", "created"}
BY DEF Stage, State, Early

LEMMA RowType ==
  ASSUME NEW x \in Machine, NEW k \in Key
  PROVE  /\ x.row[k] \in Row /\ x.row[k].state \in State /\ x.row[k].role \in Role /\ x.row[k].alg \in Alg
         /\ x.row[k].ds \in {"in", "out", "unset"} /\ x.row[k].at \in Nat
         /\ x.dist[k] \in Dist /\ x.present[k] \in Waited /\ x.since[k] \in Waited
BY DEF Machine, Row

LEMMA MovesSame ==
  ASSUME NEW x \in Machine, NEW y \in Machine, NEW k \in Key, y.others = x.others,
         y.row[k] = x.row[k], y.dist[k] = x.dist[k], y.present[k] = x.present[k], y.since[k] = x.since[k]
  PROVE  Moves(x, y, k)
BY StageNat DEF Moves, Grows, Rests, Deals, Anchors, OfRole, Keys, FitsAt, Sep

LEMMA MovesOn ==
  ASSUME NEW x \in Machine, NEW y \in Machine, NEW z \in Machine, NEW k \in Key, y.others = x.others,
         Moves(x, y, k), Moves(y, z, k)
  PROVE  Moves(x, z, k)
<1>1. Stage(x.row[k].state) <= Stage(y.row[k].state) /\ Stage(y.row[k].state) <= Stage(z.row[k].state)
  BY DEF Moves, Grows
<1>2. Stage(x.row[k].state) \in 0..8 /\ Stage(y.row[k].state) \in 0..8 /\ Stage(z.row[k].state) \in 0..8 BY StageNat
<1>3. x.row[k].state # "none" => y.row[k].state # "none" BY <1>1, <1>2, StageOf, RowType
<1>4. Grows(x, z, k)
  <2>1. Stage(x.row[k].state) <= Stage(z.row[k].state) BY <1>1, <1>2
  <2> QED BY <2>1, <1>3 DEF Moves, Grows
<1>5. Rests(x, z, k)
  <2>1. Stage(z.row[k].state) <= 4 => Stage(y.row[k].state) <= 4 BY <1>1, <1>2
  <2> QED BY <2>1 DEF Moves, Rests
<1>6. Deals(x, z, k)
  <2>1. z.row[k].state \in Accepted => x.row[k].state \in Accepted \/ x.others = {} BY DEF Moves, Deals
  <2>2. ASSUME z.dist[k].live
        PROVE  \/ /\ x.dist[k].live /\ z.dist[k].expected = x.dist[k].expected
                  /\ z.dist[k].applied = x.dist[k].applied /\ z.dist[k].removal = x.dist[k].removal
               \/ /\ z.dist[k].expected = x.others /\ z.dist[k].applied = {}
                  /\ Stage(z.row[k].state) >= 2 /\ (z.dist[k].removal => Stage(z.row[k].state) >= 7)
    <3>1. CASE z.dist[k].expected = y.others /\ z.dist[k].applied = {} /\ Stage(z.row[k].state) >= 2
               /\ (z.dist[k].removal => Stage(z.row[k].state) >= 7)
      BY <3>1
    <3>2. CASE y.dist[k].live /\ z.dist[k].expected = y.dist[k].expected
               /\ z.dist[k].applied = y.dist[k].applied /\ z.dist[k].removal = y.dist[k].removal
      <4>1. Stage(y.row[k].state) >= 2 => Stage(z.row[k].state) >= 2 BY <1>1, <1>2
      <4>2. Stage(y.row[k].state) >= 7 => Stage(z.row[k].state) >= 7 BY <1>1, <1>2
      <4> QED BY <3>2, <4>1, <4>2 DEF Moves, Deals
    <3> QED BY <2>2, <3>1, <3>2 DEF Moves, Deals
  <2> QED BY <2>1, <2>2 DEF Deals
<1> QED BY <1>4, <1>5, <1>6 DEF Moves

LEMMA StepOn ==
  ASSUME NEW x \in Machine, NEW y, NEW z, NEW k \in Key, KeyStep(x, y, k), KeyStep(y, z, k)
  PROVE  KeyStep(x, z, k)
<1>1. y \in Machine /\ z \in Machine /\ y.others = x.others BY DEF KeyStep, OwnStep, Keeps
<1>2. Moves(x, z, k) BY <1>1, MovesOn DEF KeyStep
<1>3. OwnStep(x, z, k) BY DEF KeyStep, OwnStep, Keeps
<1> QED BY <1>2, <1>3 DEF KeyStep

LEMMA SameStep == ASSUME NEW x \in Machine, NEW k \in Key PROVE KeyStep(x, x, k)
BY MovesSame DEF KeyStep, OwnStep, Keeps

LEMMA ResendStep == ASSUME NEW x \in Machine, NEW k \in Key PROVE KeyStep(x, Resend(x, k), k)
BY ResendType, MovesSame DEF KeyStep, OwnStep, Keeps

\* What of a step holds whoever is waited for.
CalmStep(x, y, k) == OwnStep(x, y, k) /\ Grows(x, y, k) /\ Rests(x, y, k)

LEMMA WriteCalm ==
  ASSUME NEW x \in Machine, NEW k \in Key, NEW state \in State \ {"none", "created", "active"},
         Stage(x.row[k].state) <= Stage(state), k \notin Anchors(x)
  PROVE  LET y == Write(x, k, state) IN
         CalmStep(x, y, k) /\ y.row[k].state = state /\ y.dist = x.dist
<1> DEFINE y == Write(x, k, state)
<1>1. OwnStep(x, y, k) /\ y.dist = x.dist /\ y.present = x.present /\ y.since = x.since
  BY WriteType
<1>2. /\ y.row[k].state = state /\ y.row[k].role = x.row[k].role /\ y.row[k].alg = x.row[k].alg
      /\ y.row[k].ds = DsOf(state, x.row[k].role, state = "retired")
  BY WriteType
<1> HIDE DEF y
<1>3. Stage(x.row[k].state) \in 0..8 /\ Stage(state) \in 0..8 BY StageNat
<1>4. state \in Early => x.row[k].state \in Early BY <1>3, StageOf, RowType
<1>5. state \in Early \cup {"standby"} => x.row[k].state \in Early \cup {"standby"} BY <1>3, StageOf, RowType
<1>6. FitsAt(x, k) => FitsAt(y, k) BY <1>1, <1>2, <1>4, <1>5 DEF FitsAt, Sep, DsOf
<1>7. k \notin Anchors(y) BY <1>2 DEF Anchors, OfRole, Keys
<1>8. Grows(x, y, k) BY <1>2, <1>6, <1>7 DEF Grows
<1>9. Rests(x, y, k) BY <1>1, <1>2 DEF Rests
<1> QED BY <1>1, <1>2, <1>8, <1>9 DEF CalmStep, y

LEMMA WriteStep ==
  ASSUME NEW x \in Machine, NEW k \in Key, NEW state \in State \ {"none", "created", "active"},
         Stage(x.row[k].state) <= Stage(state), k \notin Anchors(x),
         state \in Accepted => x.row[k].state \in Accepted \/ x.others = {}
  PROVE  KeyStep(x, Write(x, k, state), k)
<1> DEFINE y == Write(x, k, state)
<1>1. CalmStep(x, y, k) /\ y.row[k].state = state /\ y.dist = x.dist BY WriteCalm
<1> HIDE DEF y
<1>2. Deals(x, y, k) BY <1>1 DEF Deals
<1> QED BY <1>1, <1>2 DEF KeyStep, Moves, CalmStep, y

LEMMA DropStep == ASSUME NEW x \in Machine, NEW k \in Key PROVE KeyStep(x, Drop(x, k), k)
<1> DEFINE y == Drop(x, k)
<1>1. OwnStep(x, y, k) /\ y.row = x.row /\ y.present = x.present /\ y.since = x.since /\ ~y.dist[k].live
  BY DropType
<1> HIDE DEF y
<1> QED BY <1>1, StageNat DEF KeyStep, Moves, Grows, Rests, Deals, Anchors, OfRole, Keys, FitsAt, Sep, y

LEMMA StartStep ==
  ASSUME NEW x \in Machine, NEW k \in Key, NEW removal \in BOOLEAN, Stage(x.row[k].state) >= 2,
         removal = TRUE => Stage(x.row[k].state) >= 7
  PROVE  KeyStep(x, StartDistribution(x, k, removal), k)
<1> DEFINE y == StartDistribution(x, k, removal)
<1>1. /\ OwnStep(x, y, k) /\ y.row = x.row /\ y.present = x.present /\ y.since = x.since
      /\ y.dist[k].removal = removal /\ y.dist[k].expected = x.others /\ y.dist[k].applied = {}
  BY StartType
<1> HIDE DEF y
<1> QED BY <1>1, StageNat DEF KeyStep, Moves, Grows, Rests, Deals, Anchors, OfRole, Keys, FitsAt, Sep, y

LEMMA DoneStep == ASSUME NEW x \in Machine, NEW k \in Key PROVE KeyStep(x, Done(x, k), k)
BY DropStep, SameStep DEF Done

\* Early keys are no anchors.
LEMMA NoAnchor == ASSUME NEW x, NEW k, x.row[k].state # "active" PROVE k \notin Anchors(x)
BY DEF Anchors, OfRole, Keys

LEMMA AcceptStep ==
  ASSUME NEW x \in Machine, NEW k \in Key, Stage(x.row[k].state) <= 3,
         x.row[k].state \in Accepted \/ x.others = {}
  PROVE  KeyStep(x, Accept(x, k), k)
<1>1. x.row[k].state # "active" BY DEF Stage
<1>2. "published" \in State \ {"none", "created", "active"} /\ Stage("published") = 3 BY DEF State, Stage
<1>3. KeyStep(x, Write(x, k, "published"), k) BY <1>1, <1>2, WriteStep, NoAnchor
<1>4. Write(x, k, "published") \in Machine BY <1>3 DEF KeyStep, OwnStep
<1>5. KeyStep(Write(x, k, "published"), Done(Write(x, k, "published"), k), k) BY <1>4, DoneStep
<1> QED BY <1>3, <1>5, StepOn DEF Accept

LEMMA DistributeStep ==
  ASSUME NEW x \in Machine, NEW k \in Key, Stage(x.row[k].state) <= 2
  PROVE  KeyStep(x, Distribute(x, k), k)
<1> DEFINE w == Write(x, k, "mpdist")
           y == StartDistribution(w, k, FALSE)
<1>1. x.row[k].state # "active" BY DEF Stage
<1>2. "mpdist" \in State \ {"none", "created", "active"} /\ Stage("mpdist") = 2 /\ "mpdist" \notin Accepted
  BY DEF State, Stage, Accepted
<1>3. KeyStep(x, w, k) BY <1>1, <1>2, WriteStep, NoAnchor
<1>4. w \in Machine /\ w.others = x.others BY <1>3 DEF KeyStep, OwnStep, Keeps
<1>5. w.row[k].state = "mpdist" BY <1>2, WriteType
<1> HIDE DEF w
<1>6. KeyStep(w, y, k)
  <2>1. Stage(w.row[k].state) >= 2 BY <1>2, <1>5
  <2>2. FALSE # TRUE OBVIOUS
  <2> QED BY <1>4, <2>1, <2>2, StartStep
<1>7. y.row[k].state = "mpdist" BY <1>4, <1>5, StartType
<1>8. y \in Machine /\ y.others = x.others BY <1>4, <1>6 DEF KeyStep, OwnStep, Keeps
<1> HIDE DEF y
<1>9. KeyStep(x, y, k) BY <1>3, <1>6, StepOn
<1>10. x.others = {} => KeyStep(y, Accept(y, k), k) BY <1>2, <1>7, <1>8, AcceptStep
<1>11. x.others = {} => KeyStep(x, Accept(y, k), k) BY <1>9, <1>10, StepOn
<1> QED BY <1>9, <1>11 DEF Distribute, w, y

\* A step that leaves the row and the distribution of a key that has signed.
LEMMA WaitStep ==
  ASSUME NEW x \in Machine, NEW y, NEW k \in Key, OwnStep(x, y, k), Stage(x.row[k].state) >= 5,
         y.row = x.row, y.dist = x.dist
  PROVE  KeyStep(x, y, k)
<1>1. ~(Stage(x.row[k].state) <= 4) BY StageNat
<1>2. x.row[k].state \notin Early \cup {"standby"} BY <1>1, StageOf, RowType
<1>3. FitsAt(x, k) => FitsAt(y, k) BY <1>2 DEF FitsAt, Sep
<1> QED BY <1>1, <1>3, StageNat DEF KeyStep, Moves, Grows, Rests, Deals, Anchors, OfRole, Keys

LEMMA LeaveStep ==
  ASSUME NEW x \in Machine, NEW k \in Key, Stage(x.row[k].state) >= 5
  PROVE  KeyStep(x, [Leave(x, k) EXCEPT !.gone = @ \ {k}], k)
<1> DEFINE y == [Leave(x, k) EXCEPT !.gone = @ \ {k}]
<1>1. y.row = x.row /\ y.dist = x.dist BY DEF Leave, Machine
<1>2. OwnStep(x, y, k) BY DEF Leave, Machine, OwnStep, Keeps, Waited
<1> QED BY <1>1, <1>2, WaitStep

LEMMA StartRemovalStep ==
  ASSUME NEW x \in Machine, NEW k \in Key, NEW bad, Stage(x.row[k].state) <= 6, x.row[k].state # "active"
  PROVE  KeyStep(x, StartRemoval(x, k, bad), k)
<1> DEFINE w == Write(x, k, "mpremove")
           v == [Leave(w, k) EXCEPT !.gone = @ \ {k}]
           y == StartDistribution(v, k, TRUE)
           u == Write(y, k, "removed")
<1>1. {"mpremove", "removed"} \subseteq State \ {"none", "created", "active"} /\ Stage("mpremove") = 7 /\ Stage("removed") = 8
      /\ "mpremove" \notin Accepted /\ "removed" \notin Accepted
  BY DEF State, Stage, Accepted
<1>2. Stage(x.row[k].state) <= 7 BY StageNat
<1>3. KeyStep(x, w, k) BY <1>1, <1>2, WriteStep, NoAnchor
<1>4. w \in Machine BY <1>3 DEF KeyStep, OwnStep
<1>5. w.row[k].state = "mpremove" BY <1>1, WriteType
<1> HIDE DEF w
<1>6. KeyStep(w, v, k) BY <1>1, <1>4, <1>5, LeaveStep
<1>7. v \in Machine BY <1>6 DEF KeyStep, OwnStep
<1>8. v.row[k].state = "mpremove" BY <1>4, <1>5 DEF Leave, Machine
<1> HIDE DEF v
<1>9. KeyStep(v, y, k)
  <2>1. Stage(v.row[k].state) >= 2 /\ Stage(v.row[k].state) >= 7 BY <1>1, <1>8
  <2> QED BY <1>7, <2>1, StartStep
<1>10. y \in Machine BY <1>9 DEF KeyStep, OwnStep
<1>11. y.row[k].state = "mpremove" BY <1>7, <1>8, StartType
<1> HIDE DEF y
<1>12. KeyStep(y, u, k) BY <1>1, <1>10, <1>11, WriteStep, NoAnchor
<1>13. u \in Machine BY <1>12 DEF KeyStep, OwnStep
<1> HIDE DEF u
<1>14. KeyStep(u, Drop(u, k), k) BY <1>13, DropStep
<1>15. KeyStep(x, v, k) BY <1>3, <1>6, StepOn
<1>16. KeyStep(x, y, k) BY <1>15, <1>9, StepOn
<1>17. KeyStep(x, u, k) BY <1>16, <1>12, StepOn
<1>18. KeyStep(x, Drop(u, k), k) BY <1>17, <1>14, StepOn
<1> QED BY <1>16, <1>18, SameStep DEF StartRemoval, w, v, y, u

LEMMA WithdrawStep ==
  ASSUME NEW x \in Machine, NEW k \in Key, NEW bad
  PROVE  KeyStep(x, Withdraw(x, k, bad), k)
<1>1. CASE x.row[k].state \in {"mpdist", "published", "standby"}
  <2>1. Stage(x.row[k].state) <= 6 BY <1>1 DEF Stage
  <2> QED BY <1>1, <2>1, StartRemovalStep DEF Withdraw
<1> QED BY <1>1, SameStep DEF Withdraw

LEMMA PropagatedStep ==
  ASSUME NEW x \in Machine, NEW k \in Key, NEW over, x.row[k].state = "published"
  PROVE  KeyStep(x, Propagated(x, k, over), k)
<1>1. "standby" \in State \ {"none", "created", "active"} /\ Stage("published") <= Stage("standby")
      /\ "published" \in Accepted
  BY DEF State, Stage, Accepted
<1>2. KeyStep(x, Write(x, k, "standby"), k) BY <1>1, WriteStep, NoAnchor
<1>3. Write(x, k, "standby") \in Machine BY <1>2 DEF KeyStep, OwnStep
<1>4. KeyStep(Write(x, k, "standby"), Done(Write(x, k, "standby"), k), k) BY <1>3, DoneStep
<1> QED BY <1>2, <1>4, StepOn, SameStep DEF Propagated

LEMMA NoteGoneStep ==
  ASSUME NEW x \in Machine, NEW k \in Key, NEW p, x.row[k].state = "retired"
  PROVE  KeyStep(x, NoteGone(x, k, p), k) /\ NoteGone(x, k, p).row = x.row
<1>1. Stage("retired") >= 5 BY DEF Stage
<1> DEFINE y == [x EXCEPT !.gone = @ \cup {k}]
<1>2. OwnStep(x, y, k) /\ y.row = x.row /\ y.dist = x.dist BY DEF Machine, OwnStep, Keeps
<1>3. KeyStep(x, y, k) BY <1>1, <1>2, WaitStep
<1> QED BY <1>2, <1>3, SameStep DEF NoteGone

LEMMA MarginStep ==
  ASSUME NEW x \in Machine, NEW k \in Key, NEW over, NEW bad, x.row[k].state = "retired"
  PROVE  KeyStep(x, Margin(x, k, over, bad), k)
<1>1. Stage("retired") <= 6 BY DEF Stage
<1> QED BY <1>1, StartRemovalStep, SameStep DEF Margin

LEMMA ExpireStep ==
  ASSUME NEW x \in Machine, NEW k \in Key, x.row[k].state = "active", k \notin Anchors(x)
  PROVE  KeyStep(x, Expire(x, k), k)
<1> DEFINE w == Write(x, k, "retired")
<1>1. "retired" \in State \ {"none", "created", "active"} /\ Stage("active") <= Stage("retired")
      /\ "retired" \notin Accepted /\ Stage("retired") >= 5
  BY DEF State, Stage, Accepted
<1>2. KeyStep(x, w, k) BY <1>1, WriteStep
<1>3. w \in Machine BY <1>2 DEF KeyStep, OwnStep
<1>4. w.row[k].state = "retired" BY <1>1, WriteType
<1>5. x.row[k].alg \in Alg BY RowType
<1> HIDE DEF w
<1>6. ASSUME NEW l, l \subseteq Alg PROVE KeyStep(w, [w EXCEPT !.since[k] = "none", !.left = l], k)
  <2> DEFINE y == [w EXCEPT !.since[k] = "none", !.left = l]
  <2>a. [w.since EXCEPT ![k] = "none"] \in [Key -> Waited] BY <1>3 DEF Machine, Waited
  <2>b. \A o \in Key \ {k} : [w.since EXCEPT ![k] = "none"][o] = w.since[o] BY <1>3 DEF Machine
  <2>1. OwnStep(w, y, k) /\ y.row = w.row /\ y.dist = w.dist
    BY <1>3, <1>6, <2>a, <2>b DEF Machine, OwnStep, Keeps
  <2> HIDE DEF y
  <2>2. KeyStep(w, y, k) BY <1>1, <1>3, <1>4, <2>1, WaitStep
  <2> QED BY <2>2 DEF y
<1>7. w.left \subseteq Alg BY <1>3 DEF Machine
<1> DEFINE rolled == \E o \in OfRole(x, {"active"}, "ZSK") : x.row[o].alg = x.row[k].alg /\ x.row[o].alg # x.alg["ZSK"]
           l == IF rolled THEN w.left \cup {x.row[k].alg} ELSE w.left
<1>8. l \subseteq Alg BY <1>5, <1>7
<1>9. Expire(x, k) = [w EXCEPT !.since[k] = "none", !.left = l] BY <1>3 DEF Expire, Machine, w
<1> HIDE DEF l
<1>10. KeyStep(w, [w EXCEPT !.since[k] = "none", !.left = l], k) BY <1>6, <1>8
<1> QED BY <1>2, <1>9, <1>10, StepOn

-----------------------------------------------------------------------------
(* One key's part of a tick. *)

\* What a tick that had the answer p makes of the waits of a key that does not
\* sign: a DS may be noted as seen, and one that is not there has none.
Notes(x, y, k, p) ==
  Stage(y.row[k].state) <= 4 =>
    /\ y.since[k] = x.since[k]
    /\ \/ y.present[k] \in {"none", x.present[k]}
       \/ y.present[k] = "noted" /\ x.present[k] = "none" /\ p.known /\ k \in p.own
    /\ y.row[k].state = "standby" /\ Sep(y, k) /\ FitsAt(x, k) /\ p.known /\ k \notin p.own => y.present[k] = "none"
Stays(x, y, k) == x.row[k].state = "active" => y.row[k].state \in {"active", "retired"}
TickStep(x, y, k, p) ==
  OwnStep(x, y, k) /\ Grows(x, y, k) /\ Deals(x, y, k) /\ Notes(x, y, k, p) /\ Stays(x, y, k)

LEMMA StepNotes ==
  ASSUME NEW x \in Machine, NEW y, NEW k \in Key, NEW p, KeyStep(x, y, k), x.row[k].state # "none",
         ~(x.row[k].state = "standby" /\ Sep(x, k))
  PROVE  Notes(x, y, k, p)
<1>1. y \in Machine BY DEF KeyStep, OwnStep
<1>2. Stage(x.row[k].state) <= Stage(y.row[k].state) BY DEF KeyStep, Moves, Grows
<1>3. Stage(y.row[k].state) <= 4 => y.present[k] = x.present[k] /\ y.since[k] = x.since[k]
  BY DEF KeyStep, Moves, Rests
<1>4. y.row[k].role = x.row[k].role BY DEF KeyStep, Moves, Grows
<1>5. y.row[k].state = "standby" => Stage(x.row[k].state) <= 4 BY <1>2, StageNat DEF Stage
<1>6. y.row[k].state = "standby" /\ Sep(y, k) => x.row[k].state \in Early
  BY <1>4, <1>5, StageOf, RowType DEF Sep
<1>7. y.row[k].state = "standby" /\ Sep(y, k) /\ FitsAt(x, k) => x.present[k] = "none" BY <1>6 DEF FitsAt
<1>8. y.row[k].state = "standby" => Stage(y.row[k].state) <= 4 BY DEF Stage
<1> QED BY <1>3, <1>7, <1>8 DEF Notes

LEMMA NotesOn ==
  ASSUME NEW x \in Machine, NEW z \in Machine, NEW y, NEW k \in Key, NEW p, x.row[k].state # "none",
         Grows(x, z, k), Notes(x, z, k, p), KeyStep(z, y, k)
  PROVE  Notes(x, y, k, p)
<1>1. y \in Machine BY DEF KeyStep, OwnStep
<1>2. Stage(x.row[k].state) <= Stage(z.row[k].state) /\ Stage(z.row[k].state) <= Stage(y.row[k].state)
  BY DEF KeyStep, Moves, Grows
<1>3. Stage(y.row[k].state) <= 4 => Stage(z.row[k].state) <= 4 BY <1>2, StageNat
<1>4. z.row[k].state # "none" BY <1>2, StageOf, StageNat, RowType
<1>5. Stage(y.row[k].state) <= 4 => y.present[k] = z.present[k] /\ y.since[k] = z.since[k]
  BY DEF KeyStep, Moves, Rests
<1>6. y.row[k].role = z.row[k].role BY <1>4 DEF KeyStep, Moves, Grows
<1>7. y.row[k].state = "standby" => z.row[k].state \in Early \cup {"standby"}
  <2>1. y.row[k].state = "standby" => Stage(z.row[k].state) <= 4 BY <1>3 DEF Stage
  <2> QED BY <2>1, StageOf, RowType
<1>8. FitsAt(x, k) => FitsAt(z, k) BY DEF Grows
<1>9. y.row[k].state = "standby" => Stage(y.row[k].state) <= 4 BY DEF Stage
<1>10. ASSUME y.row[k].state = "standby", Sep(y, k), FitsAt(x, k), p.known, k \notin p.own
       PROVE  y.present[k] = "none"
  <2>1. CASE z.row[k].state = "standby" BY <1>3, <1>5, <1>6, <1>9, <1>10, <2>1 DEF Notes, Sep
  <2>2. CASE z.row[k].state \in Early BY <1>5, <1>8, <1>9, <1>10, <2>2 DEF FitsAt
  <2> QED BY <1>7, <1>10, <2>1, <2>2
<1> QED BY <1>3, <1>5, <1>10 DEF Notes

LEMMA LeaveOne ==
  ASSUME NEW x \in Machine, NEW k \in Key, NEW v \in Waited
  PROVE  LET y == [x EXCEPT !.present[k] = v] IN
         OwnStep(x, y, k) /\ y.row = x.row /\ y.dist = x.dist /\ y.since = x.since /\ y.present[k] = v
<1>1. /\ [x.present EXCEPT ![k] = v] \in [Key -> Waited] /\ [x.present EXCEPT ![k] = v][k] = v
      /\ \A o \in Key \ {k} : [x.present EXCEPT ![k] = v][o] = x.present[o]
  BY DEF Machine
<1> QED BY <1>1 DEF Machine, OwnStep, Keeps

LEMMA NotePresentStep ==
  ASSUME NEW x \in Machine, NEW k \in Key, NEW p, x.row[k].state = "standby", Sep(x, k)
  PROVE  LET y == NotePresent(x, k, p) IN
         OwnStep(x, y, k) /\ Grows(x, y, k) /\ Deals(x, y, k) /\ Notes(x, y, k, p) /\ y.row = x.row
<1> DEFINE y == NotePresent(x, k, p)
<1>1. /\ OwnStep(x, y, k) /\ y.row = x.row /\ y.dist = x.dist /\ y.since = x.since
      /\ \/ y.present[k] \in {"none", x.present[k]}
         \/ y.present[k] = "noted" /\ x.present[k] = "none" /\ p.known /\ k \in p.own
      /\ p.known /\ k \notin p.own => y.present[k] = "none"
  <2>1. CASE p.known /\ k \in p.own /\ x.present[k] = "none"
    <3>1. y = [x EXCEPT !.present[k] = "noted"] BY <2>1 DEF NotePresent
    <3> HIDE DEF y
    <3> QED BY <2>1, <3>1, LeaveOne DEF Waited
  <2>2. CASE p.known /\ k \notin p.own
    <3>1. y = [x EXCEPT !.present[k] = "none"] BY <2>2 DEF NotePresent, Leave
    <3> HIDE DEF y
    <3>a. "none" \in Waited BY DEF Waited
    <3>2. LET w == [x EXCEPT !.present[k] = "none"] IN
          OwnStep(x, w, k) /\ w.row = x.row /\ w.dist = x.dist /\ w.since = x.since /\ w.present[k] = "none"
      BY <3>a, LeaveOne
    <3>b. OwnStep(x, y, k) /\ y.row = x.row /\ y.dist = x.dist /\ y.since = x.since /\ y.present[k] = "none"
      BY <3>1, <3>2
    <3>3. y.present[k] \in {"none", x.present[k]} BY <3>b
    <3> QED BY <3>b, <3>3, Zenon
  <2>3. CASE ~(p.known /\ k \in p.own /\ x.present[k] = "none") /\ ~(p.known /\ k \notin p.own)
    <3>1. y = x BY <2>3 DEF NotePresent
    <3> HIDE DEF y
    <3> QED BY <2>3, <3>1 DEF OwnStep, Keeps
  <2> QED BY <2>1, <2>2, <2>3
<1> HIDE DEF y
<1>2. "standby" \notin Early BY DEF Early
<1>3. Grows(x, y, k) BY <1>1, <1>2, StageNat DEF Grows, Anchors, OfRole, Keys, FitsAt, Sep
<1>4. Deals(x, y, k) BY <1>1, StageNat DEF Deals
<1>5. Notes(x, y, k, p) BY <1>1 DEF Notes
<1> QED BY <1>1, <1>3, <1>4, <1>5 DEF y

LEMMA NoteWithdrawnStep ==
  ASSUME NEW x \in Machine, NEW k \in Key, NEW p, x.row[k].state = "active", k \notin Anchors(x)
  PROVE  KeyStep(x, NoteWithdrawn(x, k, p), k) /\ Stays(x, NoteWithdrawn(x, k, p), k)
<1> DEFINE y == [x EXCEPT !.gone = @ \cup {k}, !.since[k] = "noted"]
<1>1. Stage("active") >= 5 BY DEF Stage
<1>2. OwnStep(x, y, k) /\ y.row = x.row /\ y.dist = x.dist
  <2>1. /\ [x.since EXCEPT ![k] = "noted"] \in [Key -> Waited]
        /\ \A o \in Key \ {k} : [x.since EXCEPT ![k] = "noted"][o] = x.since[o]
    BY DEF Machine, Waited
  <2> QED BY <2>1 DEF Machine, OwnStep, Keeps
<1>3. y.row[k].state = "active" BY <1>2
<1> HIDE DEF y
<1>4. KeyStep(x, y, k) BY <1>1, <1>2, WaitStep
<1>5. Stays(x, y, k) /\ Stays(x, x, k) BY <1>3 DEF Stays
<1>6. Expire(x, k).row[k].state = "retired"
  <2>1. Write(x, k, "retired").row[k].state = "retired" /\ Write(x, k, "retired") \in Machine
    BY WriteType DEF State, OwnStep
  <2> HIDE DEF Write
  <2> QED BY <2>1 DEF Expire, Machine
<1>7. Stays(x, Expire(x, k), k) BY <1>6 DEF Stays
<1> QED BY <1>4, <1>5, <1>7, ExpireStep, SameStep DEF NoteWithdrawn, y

LEMMA TickKeyStep ==
  ASSUME NEW x \in Machine, NEW start, start.row = x.row, NEW k \in Key, x.row[k].state # "none",
         NEW p, NEW over, NEW late, NEW bad
  PROVE  TickStep(x, TickKey(start, x, k, p, over, late, bad), k, p)
<1> DEFINE row == start.row[k]
           y == IF k \in late /\ Outstanding(x.dist[k]) THEN Resend(x, k) ELSE x
           z == CASE row.state = "created" -> Distribute(y, k)
                  [] row.state = "published" -> Propagated(y, k, over)
                  [] row.state = "standby" /\ row.role = "KSK" -> NotePresent(y, k, p)
                  [] row.state = "active" /\ k \in Withdrawn(start) -> NoteWithdrawn(y, k, p)
                  [] row.state = "retired" -> Margin(NoteGone(y, k, p), k, over, bad)
                  [] OTHER -> y
           u == IF row.state \in {"mpdist", "published", "standby"} /\ row.alg # start.alg[row.role]
                THEN Withdraw(z, k, bad) ELSE z
<1>1. KeyStep(x, y, k) /\ y.row = x.row BY ResendStep, ResendType, SameStep
<1>2. y \in Machine BY <1>1 DEF KeyStep, OwnStep
<1>3. row = x.row[k] OBVIOUS
<1>a. TickKey(start, x, k, p, over, late, bad) = u BY DEF TickKey
<1> HIDE DEF y
<1>4. OwnStep(x, z, k) /\ Grows(x, z, k) /\ Deals(x, z, k) /\ Notes(x, z, k, p) /\ Stays(x, z, k)
  <2>1. CASE row.state = "standby" /\ row.role = "KSK"
    <3>1. z = NotePresent(y, k, p) BY <2>1
    <3> HIDE DEF z
    <3>2. OwnStep(y, z, k) /\ Grows(y, z, k) /\ Deals(y, z, k) /\ Notes(y, z, k, p) /\ z.row = y.row
      BY <1>1, <1>2, <1>3, <2>1, <3>1, NotePresentStep DEF Sep
    <3>3. y.dist = x.dist /\ y.present = x.present /\ y.since = x.since
      BY ResendType DEF y
    <3>4. y.others = x.others BY <1>1 DEF KeyStep, OwnStep, Keeps
    <3>5. OwnStep(x, z, k) BY <1>1, <3>2 DEF KeyStep, OwnStep, Keeps
    <3>6. Grows(x, z, k) BY <1>1, <3>2, <3>3 DEF Grows, Anchors, OfRole, Keys, FitsAt, Sep
    <3>7. Deals(x, z, k) BY <1>1, <3>2, <3>3, <3>4 DEF Deals
    <3>8. Notes(x, z, k, p) BY <1>1, <3>2, <3>3 DEF Notes, FitsAt, Sep
    <3>9. Stays(x, z, k) BY <1>3, <2>1 DEF Stays
    <3> QED BY <3>5, <3>6, <3>7, <3>8, <3>9
  <2>2. CASE ~(row.state = "standby" /\ row.role = "KSK")
    <3>1. KeyStep(y, z, k) /\ Stays(x, z, k)
      <4>1. CASE row.state = "created"
        <5>1. z = Distribute(y, k) BY <4>1
        <5>2. Stage(y.row[k].state) <= 2 BY <1>1, <1>3, <4>1 DEF Stage
        <5> QED BY <1>2, <1>3, <4>1, <5>1, <5>2, DistributeStep DEF Stays
      <4>2. CASE row.state = "published"
        <5>1. z = Propagated(y, k, over) BY <4>2
        <5> QED BY <1>1, <1>2, <1>3, <4>2, <5>1, PropagatedStep DEF Stays
      <4>3. CASE row.state = "active" /\ k \in Withdrawn(start)
        <5>1. z = NoteWithdrawn(y, k, p) BY <4>3
        <5>2. k \notin Anchors(y) BY <1>1, <4>3 DEF Anchors, Withdrawn, OfRole, Keys
        <5> QED BY <1>1, <1>2, <1>3, <4>3, <5>1, <5>2, NoteWithdrawnStep DEF Stays
      <4>4. CASE row.state = "retired"
        <5>1. z = Margin(NoteGone(y, k, p), k, over, bad) BY <4>4
        <5>2. KeyStep(y, NoteGone(y, k, p), k) /\ NoteGone(y, k, p).row = y.row
          BY <1>1, <1>2, <1>3, <4>4, NoteGoneStep
        <5>3. NoteGone(y, k, p) \in Machine BY <5>2 DEF KeyStep, OwnStep
        <5>4. KeyStep(NoteGone(y, k, p), z, k) BY <1>1, <1>3, <4>4, <5>1, <5>2, <5>3, MarginStep
        <5> QED BY <1>2, <1>3, <4>4, <5>2, <5>4, StepOn DEF Stays
      <4>5. CASE row.state \notin {"created", "published", "retired"} /\ ~(row.state = "active" /\ k \in Withdrawn(start))
        <5>1. z = y BY <2>2, <4>5
        <5> HIDE DEF z
        <5> QED BY <1>1, <1>2, <5>1, SameStep DEF Stays
      <4> HIDE DEF z
      <4> QED BY <4>1, <4>2, <4>3, <4>4, <4>5
    <3> HIDE DEF z
    <3>2. KeyStep(x, z, k) BY <1>1, <3>1, StepOn
    <3>3. Notes(x, z, k, p) BY <1>3, <2>2, <3>2, StepNotes DEF Sep
    <3> QED BY <3>1, <3>2, <3>3 DEF KeyStep, Moves
  <2> HIDE DEF z
  <2> QED BY <2>1, <2>2
<1> HIDE DEF z
<1>5. z \in Machine BY <1>4 DEF OwnStep
<1>6. CASE row.state \in {"mpdist", "published", "standby"} /\ row.alg # start.alg[row.role]
  <2>1. u = Withdraw(z, k, bad) BY <1>6
  <2> HIDE DEF u
  <2>2. KeyStep(z, u, k) BY <1>5, <2>1, WithdrawStep
  <2>3. Notes(x, u, k, p) BY <1>4, <1>5, <2>2, NotesOn
  <2>4. Stays(x, u, k) BY <1>3, <1>6 DEF Stays
  <2>5. OwnStep(x, u, k) BY <1>4, <2>2 DEF KeyStep, OwnStep, Keeps
  <2>6. Grows(x, u, k)
    <3>1. Stage(x.row[k].state) <= Stage(u.row[k].state)
      BY <1>4, <2>2, StageNat DEF KeyStep, Moves, Grows
    <3>2. z.row[k].state # "none" BY <1>4, <1>5, StageOf, StageNat, RowType DEF Grows
    <3> QED BY <1>4, <2>2, <3>1, <3>2 DEF KeyStep, Moves, Grows
  <2>7. Deals(x, u, k)
    <3>1. z.others = x.others BY <1>4 DEF OwnStep, Keeps
    <3>2. Stage(z.row[k].state) >= 2 => Stage(u.row[k].state) >= 2 BY <2>2, StageNat DEF KeyStep, Moves, Grows
    <3>3. Stage(z.row[k].state) >= 7 => Stage(u.row[k].state) >= 7 BY <2>2, StageNat DEF KeyStep, Moves, Grows
    <3> QED BY <1>4, <2>2, <3>1, <3>2, <3>3 DEF KeyStep, Moves, Deals
  <2> QED BY <1>a, <2>3, <2>4, <2>5, <2>6, <2>7 DEF TickStep
<1>7. CASE ~(row.state \in {"mpdist", "published", "standby"} /\ row.alg # start.alg[row.role])
  BY <1>a, <1>4, <1>7 DEF TickStep
<1> QED BY <1>6, <1>7

-----------------------------------------------------------------------------
(* Steps of the whole machine. *)

Steps(x, y) == y \in Machine /\ y.others = x.others /\ \A k \in Key : Moves(x, y, k)

\* Two machines agree on a key.
Agree(x, y, k) ==
  y.row[k] = x.row[k] /\ y.dist[k] = x.dist[k] /\ y.present[k] = x.present[k] /\ y.since[k] = x.since[k]

LEMMA MergedParts ==
  ASSUME NEW x \in Machine, NEW of, of \in [Key -> Machine], \A k \in Key : OwnStep(x, of[k], k)
  PROVE  LET y == Merged(x, of) IN
         y \in Machine /\ Keeps(x, y) /\ \A k \in Key : Agree(of[k], y, k)
<1> DEFINE row == [k \in Key |-> of[k].row[k]]
           dist == [k \in Key |-> of[k].dist[k]]
           present == [k \in Key |-> of[k].present[k]]
           since == [k \in Key |-> of[k].since[k]]
           push == {k \in Key : k \in of[k].push}
           gone == {k \in Key : k \in of[k].gone}
           left == {a \in Alg : IF a \in x.left THEN \A k \in Key : a \in of[k].left
                                                ELSE \E k \in Key : a \in of[k].left}
<1>1. \A k \in Key : of[k].row[k] \in Row /\ of[k].dist[k] \in Dist /\ of[k].present[k] \in Waited /\ of[k].since[k] \in Waited
  BY RowType
<1>2. row \in [Key -> Row] /\ dist \in [Key -> Dist] /\ present \in [Key -> Waited] /\ since \in [Key -> Waited] BY <1>1
<1>3. push \subseteq Key /\ gone \subseteq Key /\ left \subseteq Alg OBVIOUS
<1>4. \A k \in Key : row[k] = of[k].row[k] /\ dist[k] = of[k].dist[k] /\ present[k] = of[k].present[k] /\ since[k] = of[k].since[k]
  OBVIOUS
<1>5. Merged(x, of) = [x EXCEPT !.row = row, !.dist = dist, !.present = present, !.since = since,
                                !.push = push, !.gone = gone, !.left = left]
  BY DEF Merged, Machine
<1> HIDE DEF row, dist, present, since, push, gone, left
<1>6. LET y == [x EXCEPT !.row = row, !.dist = dist, !.present = present, !.since = since,
                         !.push = push, !.gone = gone, !.left = left] IN
      y \in Machine /\ Keeps(x, y) /\ y.row = row /\ y.dist = dist /\ y.present = present /\ y.since = since
  BY <1>2, <1>3 DEF Machine, Keeps
<1> QED BY <1>4, <1>5, <1>6 DEF Agree

LEMMA AgreeMoves ==
  ASSUME NEW x \in Machine, NEW y \in Machine, NEW z \in Machine, NEW k \in Key, Agree(y, z, k), Moves(x, y, k)
  PROVE  Moves(x, z, k)
<1>1. z.row[k] = y.row[k] /\ z.dist[k] = y.dist[k] /\ z.present[k] = y.present[k] /\ z.since[k] = y.since[k]
  BY DEF Agree
<1>2. k \in Anchors(z) <=> k \in Anchors(y) BY <1>1 DEF Anchors, OfRole, Keys
<1>3. FitsAt(y, k) => FitsAt(z, k) BY <1>1 DEF FitsAt, Sep
<1> QED BY <1>1, <1>2, <1>3 DEF Moves, Grows, Rests, Deals

LEMMA MergedSteps ==
  ASSUME NEW x \in Machine, NEW of, DOMAIN of = Key, of = [k \in Key |-> of[k]], \A k \in Key : KeyStep(x, of[k], k)
  PROVE  Steps(x, Merged(x, of)) /\ Keeps(x, Merged(x, of))
<1>1. \A k \in Key : of[k] \in Machine /\ OwnStep(x, of[k], k) /\ Moves(x, of[k], k) BY DEF KeyStep, OwnStep
<1>2. of \in [Key -> Machine] BY <1>1
<1> DEFINE y == Merged(x, of)
<1>3. y \in Machine /\ Keeps(x, y) /\ \A k \in Key : Agree(of[k], y, k) BY <1>1, <1>2, MergedParts
<1> HIDE DEF y
<1>4. \A k \in Key : Moves(x, y, k) BY <1>1, <1>3, AgreeMoves
<1>5. Keeps(x, y) /\ Steps(x, y) BY <1>3, <1>4 DEF Steps, Keeps
<1> QED BY <1>5 DEF y

LEMMA StepsSame == ASSUME NEW x \in Machine PROVE Steps(x, x)
BY MovesSame DEF Steps

LEMMA StepsOn ==
  ASSUME NEW x \in Machine, NEW y, NEW z, Steps(x, y), Steps(y, z)
  PROVE  Steps(x, z)
BY MovesOn DEF Steps

LEMMA KeySteps == ASSUME NEW x \in Machine, NEW y, NEW k \in Key, KeyStep(x, y, k) PROVE Steps(x, y)
<1>1. y \in Machine /\ y.others = x.others /\ \A o \in Key \ {k} : Agree(x, y, o)
  BY DEF KeyStep, OwnStep, Keeps, Agree
<1>2. \A o \in Key \ {k} : Moves(x, y, o) BY <1>1, MovesSame DEF Agree
<1>3. Moves(x, y, k) BY DEF KeyStep
<1> QED BY <1>1, <1>2, <1>3 DEF Steps

\* A step that touches no row, no distribution and no wait.
LEMMA StepsQuiet ==
  ASSUME NEW x \in Machine, NEW y \in Machine, y.others = x.others,
         y.row = x.row, y.dist = x.dist, y.present = x.present, y.since = x.since
  PROVE  Steps(x, y)
BY MovesSame DEF Steps

LEMMA AgainStep == ASSUME NEW x \in Machine, NEW k \in Key PROVE KeyStep(x, Again(x, k), k)
<1> DEFINE removal == x.row[k].state = "mpremove"
           y == StartDistribution(x, k, removal)
<1>1. CASE x.row[k].state \in {"mpdist", "mpremove"} /\ ~x.dist[k].live
  <2>1. Again(x, k) = Resend(y, k) BY <1>1 DEF Again
  <2>2. Stage(x.row[k].state) >= 2 /\ (removal = TRUE => Stage(x.row[k].state) >= 7) BY <1>1 DEF Stage
  <2>3. removal \in BOOLEAN OBVIOUS
  <2> HIDE DEF removal
  <2>4. KeyStep(x, y, k) BY <2>2, <2>3, StartStep
  <2>5. y \in Machine BY <2>4 DEF KeyStep, OwnStep
  <2> HIDE DEF y
  <2>6. KeyStep(y, Resend(y, k), k) BY <2>5, ResendStep
  <2> QED BY <2>1, <2>4, <2>6, StepOn
<1>2. CASE ~(x.row[k].state \in {"mpdist", "mpremove"} /\ ~x.dist[k].live)
  <2>1. Again(x, k) \in {x, Resend(x, k)} BY <1>2 DEF Again
  <2> QED BY <2>1, ResendStep, SameStep
<1> QED BY <1>1, <1>2

LEMMA AgainSteps == ASSUME NEW x \in Machine PROVE Steps(x, ForEach(Again, x, Key)) /\ Keeps(x, ForEach(Again, x, Key))
<1> DEFINE of == [k \in Key |-> IF k \in Key THEN Again(x, k) ELSE x]
<1>1. ForEach(Again, x, Key) = Merged(x, of) BY DEF ForEach
<1>2. \A k \in Key : KeyStep(x, of[k], k) BY AgainStep
<1>3. DOMAIN of = Key /\ of = [k \in Key |-> of[k]] OBVIOUS
<1> HIDE DEF of
<1> QED BY <1>1, <1>2, <1>3, MergedSteps

\* A step that touches no row and no distribution, and only the waits of keys
\* that have signed.
LEMMA StepsWaits ==
  ASSUME NEW x \in Machine, NEW y \in Machine, y.others = x.others, y.row = x.row, y.dist = x.dist,
         \A k \in Key : Stage(x.row[k].state) <= 4 => y.present[k] = x.present[k] /\ y.since[k] = x.since[k]
  PROVE  Steps(x, y)
<1> SUFFICES ASSUME NEW k \in Key PROVE Moves(x, y, k) BY DEF Steps
<1>1. x.row[k].state \in Early \cup {"standby"} => y.present[k] = x.present[k] /\ y.since[k] = x.since[k]
  BY StageOf, RowType
<1>2. FitsAt(x, k) => FitsAt(y, k) BY <1>1 DEF FitsAt, Sep
<1> QED BY <1>2, StageNat DEF Moves, Grows, Rests, Deals, Anchors, OfRole, Keys

LEMMA ForeignSteps ==
  ASSUME NEW x \in Machine
  PROVE  /\ Steps(x, ApplyForeign(x))
         /\ ApplyForeign(x).row = x.row /\ ApplyForeign(x).present = x.present /\ ApplyForeign(x).since = x.since
<1> DEFINE foreign == [p \in Signer |-> IF x.foreign[p] = "none" \/ x.said[p] \in {"nothing", "undecided"} THEN x.foreign[p]
                                         ELSE IF x.said[p] = "in" /\ p \in x.others THEN "in" ELSE "out"]
           said == [p \in Signer |-> IF x.said[p] = "omitted" /\ x.foreign[p] = "none" THEN "nothing" ELSE x.said[p]]
           y == [x EXCEPT !.foreign = foreign, !.said = said]
<1>1. foreign \in [Signer -> {"none", "unset", "in", "out"}] BY DEF Machine
<1>2. said \in [Signer -> Words \cup {"nothing"}] BY DEF Machine
<1>3. ApplyForeign(x) = y BY DEF ApplyForeign, Machine
<1> HIDE DEF foreign, said
<1>4. /\ y \in Machine /\ y.others = x.others
      /\ y.row = x.row /\ y.dist = x.dist /\ y.present = x.present /\ y.since = x.since
  BY <1>1, <1>2 DEF Machine
<1> HIDE DEF y
<1> QED BY <1>3, <1>4, StepsQuiet

LEMMA ServedSteps ==
  ASSUME NEW x \in Machine, NEW p
  PROVE  Steps(x, ServedAgain(x, p)) /\ ServedAgain(x, p).row = x.row
<1> DEFINE back == IF p.known THEN Withdrawn(x) \cap p.own \cap x.gone ELSE {}
           since == [k \in Key |-> IF k \in back THEN "none" ELSE x.since[k]]
           y == [x EXCEPT !.gone = @ \ back, !.since = since]
<1>1. ServedAgain(x, p) = y BY DEF ServedAgain, Machine
<1>2. \A k \in back : x.row[k].state = "active" BY DEF Withdrawn, OfRole, Keys
<1> HIDE DEF back
<1>3. since \in [Key -> Waited] BY DEF Machine, Waited
<1>4. \A k \in Key : Stage(x.row[k].state) <= 4 => since[k] = x.since[k] BY <1>2 DEF Stage
<1> HIDE DEF since
<1>5. /\ y \in Machine /\ y.others = x.others
      /\ y.row = x.row /\ y.dist = x.dist /\ y.present = x.present /\ y.since = since
  BY <1>3 DEF Machine
<1> HIDE DEF y
<1> QED BY <1>1, <1>4, <1>5, StepsWaits

LEMMA AdoptSteps ==
  ASSUME NEW x \in Machine
  PROVE  Steps(x, Adopt(x)) /\ Adopt(x).present = x.present /\ Adopt(x).since = x.since
<1> DEFINE ds(k) == IF x.row[k].ds = "unset" THEN DsOf(x.row[k].state, x.row[k].role, FALSE) ELSE x.row[k].ds
           row == [k \in Key |-> [x.row[k] EXCEPT !.ds = ds(k)]]
           y == [x EXCEPT !.row = row]
<1>1. \A k \in Key : ds(k) \in {"in", "out", "unset"} BY RowType DEF DsOf
<1>2. \A k \in Key : x.row[k] \in Row BY RowType
<1>3. \A k \in Key : (IF x.row[k].ds = "unset" THEN [x.row[k] EXCEPT !.ds = DsOf(x.row[k].state, x.row[k].role, FALSE)]
                      ELSE x.row[k]) = [x.row[k] EXCEPT !.ds = ds(k)]
  BY <1>2 DEF Row
<1>4. Adopt(x) = y BY <1>3 DEF Adopt, Machine
<1>5. \A k \in Key : (x.row[k].ds = "unset" => ds(k) = DsOf(x.row[k].state, x.row[k].role, FALSE))
                     /\ (x.row[k].ds # "unset" => ds(k) = x.row[k].ds)
  OBVIOUS
<1> HIDE DEF ds
<1>6. row \in [Key -> Row] BY <1>1, <1>2 DEF Row
<1>7. \A k \in Key : /\ row[k].state = x.row[k].state /\ row[k].role = x.row[k].role
                     /\ row[k].alg = x.row[k].alg /\ row[k].ds = ds(k)
  BY <1>2 DEF Row
<1> HIDE DEF row
<1>8. /\ y \in Machine /\ y.others = x.others /\ y.row = row
      /\ y.dist = x.dist /\ y.present = x.present /\ y.since = x.since
  BY <1>6 DEF Machine
<1> HIDE DEF y
<1>9. ASSUME NEW k \in Key PROVE Moves(x, y, k)
  <2>1. /\ y.row[k].state = x.row[k].state /\ y.row[k].role = x.row[k].role
        /\ y.row[k].alg = x.row[k].alg /\ y.row[k].ds = ds(k)
    BY <1>7, <1>8
  <2>2. FitsAt(x, k) => FitsAt(y, k) BY <1>5, <1>8, <2>1 DEF FitsAt, Sep, DsOf
  <2>3. k \in Anchors(x) <=> k \in Anchors(y) BY <1>5, <2>1 DEF Anchors, OfRole, Keys, DsOf
  <2> QED BY <1>8, <2>1, <2>2, <2>3, StageNat DEF Moves, Grows, Rests, Deals
<1> QED BY <1>4, <1>8, <1>9 DEF Steps

LEMMA ForgetsSteps ==
  ASSUME NEW x \in Machine
  PROVE  Steps(x, Forgets(x)) /\ Forgets(x).row = x.row /\ Forgets(x).dist = x.dist
         /\ Forgets(x).present = x.present /\ Forgets(x).since = x.since
<1> DEFINE y == Forgets(x)
<1>1. /\ y \in Machine /\ y.others = x.others
      /\ y.row = x.row /\ y.dist = x.dist /\ y.present = x.present /\ y.since = x.since
  BY DEF Forgets, Machine
<1> HIDE DEF y
<1>2. Steps(x, y) BY <1>1, StepsQuiet
<1> QED BY <1>1, <1>2 DEF y

LEMMA ReloadSteps == ASSUME NEW x \in Machine, Fits(x) PROVE Steps(x, Reload(x))
<1> DEFINE present == [k \in Key |-> IF x.row[k].state = "standby" THEN x.present[k] ELSE "none"]
           read == [x EXCEPT !.known = x.others, !.present = present]
           y == ApplyForeign(Adopt(read))
           gone == {k \in Withdrawn(y) : y.since[k] # "none"}
           since == [k \in Key |-> IF k \in gone THEN y.since[k] ELSE "none"]
           z == [y EXCEPT !.gone = gone, !.since = since]
           u == [z EXCEPT !.run = TRUE]
<1>1. Reload(x) = ForEach(Again, u, Key)
  <2>1. read = [x EXCEPT !.known = x.others,
                         !.present = [k \in Key |-> IF x.row[k].state = "standby" THEN @[k] ELSE "none"]]
    BY DEF Machine
  <2>2. read \in Machine BY DEF Machine, Waited
  <2> HIDE DEF read
  <2>3. Adopt(read) \in Machine BY <2>2, AdoptSteps DEF Steps
  <2>4. y \in Machine BY <2>3, ForeignSteps DEF Steps
  <2> HIDE DEF y
  <2>5. z = [y EXCEPT !.gone = gone, !.since = [k \in Key |-> IF k \in gone THEN @[k] ELSE "none"]]
    BY <2>4 DEF Machine
  <2> QED BY <2>1, <2>5 DEF Reload, y
<1>2. present \in [Key -> Waited] BY DEF Machine, Waited
<1>3. \A k \in Key : Stage(x.row[k].state) <= 4 => present[k] = x.present[k]
  BY StageOf, RowType DEF Fits, FitsAt
<1> HIDE DEF present
<1>4. /\ read \in Machine /\ read.others = x.others /\ read.row = x.row /\ read.dist = x.dist
      /\ read.present = present /\ read.since = x.since
  BY <1>2 DEF Machine
<1> HIDE DEF read
<1>5. Steps(x, read) BY <1>3, <1>4, StepsWaits
<1>6. Steps(read, Adopt(read)) /\ Adopt(read) \in Machine BY <1>4, AdoptSteps DEF Steps
<1>7. Steps(Adopt(read), y) /\ y \in Machine BY <1>6, ForeignSteps DEF Steps
<1> HIDE DEF y
<1>8. Steps(x, y)
  <2>1. Steps(x, Adopt(read)) BY <1>5, <1>6, StepsOn
  <2> QED BY <2>1, <1>7, StepsOn
<1>9. gone \subseteq Key BY DEF Withdrawn, OfRole, Keys
<1>10. since \in [Key -> Waited] BY <1>7 DEF Machine, Waited
<1>11. \A k \in Key : Stage(y.row[k].state) <= 4 => since[k] = y.since[k]
  <2> SUFFICES ASSUME NEW k \in Key, Stage(y.row[k].state) <= 4 PROVE since[k] = y.since[k] OBVIOUS
  <2>1. FitsAt(y, k) BY <1>8 DEF Steps, Moves, Grows, Fits
  <2>2. y.row[k].state \in Early \cup {"standby"} BY <1>7, StageOf, RowType
  <2>3. y.since[k] = "none" BY <2>1, <2>2 DEF FitsAt
  <2> QED BY <2>3
<1> HIDE DEF gone, since
<1>12. /\ u \in Machine /\ u.others = y.others /\ u.row = y.row /\ u.dist = y.dist
       /\ u.present = y.present /\ u.since = since
  BY <1>7, <1>9, <1>10 DEF Machine
<1> HIDE DEF u
<1>13. Steps(y, u) BY <1>7, <1>11, <1>12, StepsWaits
<1>14. Steps(x, u) BY <1>8, <1>13, StepsOn
<1>15. Steps(u, ForEach(Again, u, Key)) BY <1>12, AgainSteps
<1> QED BY <1>1, <1>14, <1>15, StepsOn

LEMMA DriverSteps == ASSUME NEW x \in Machine, Fits(x) PROVE Steps(x, Driver(x))
BY ReloadSteps, ForgetsSteps, StepsSame DEF Driver

-----------------------------------------------------------------------------
(* The roles' part of a tick. *)

\* What the rest of a tick makes of a key.
Turned(x, y, k) ==
  /\ Stage(x.row[k].state) <= Stage(y.row[k].state)
  /\ x.row[k].state # "none" => y.row[k].role = x.row[k].role /\ y.row[k].alg = x.row[k].alg
  /\ FitsAt(x, k) => FitsAt(y, k)
  /\ Rests(x, y, k) /\ Deals(x, y, k) /\ Stays(x, y, k)
  /\ Stage(x.row[k].state) >= 6 => y.row[k].state = x.row[k].state
\* The KSK whose DS is to be at the parent is the one it was, or one whose DS
\* every validator has seen.
Anchored(x, y, p) ==
  \/ Anchors(y) = Anchors(x)
  \/ \E k \in Key : /\ Anchors(y) = {k} /\ p.known
                    /\ p.empty \/ (x.present[k] = "over" /\ Stage(x.row[k].state) <= 4)
Turns(x, y, p) ==
  /\ y \in Machine /\ y.others = x.others
  /\ \A k \in Key : Turned(x, y, k)
  /\ OneEach(x) => OneEach(y)
  /\ Anchored(x, y, p)

LEMMA TurnedOn ==
  ASSUME NEW x \in Machine, NEW y \in Machine, NEW z \in Machine, y.others = x.others, NEW k \in Key,
         Turned(x, y, k), Turned(y, z, k)
  PROVE  Turned(x, z, k)
<1> DEFINE a == Stage(x.row[k].state)
           b == Stage(y.row[k].state)
           c == Stage(z.row[k].state)
<1>1. a \in 0..8 /\ b \in 0..8 /\ c \in 0..8 /\ a <= b /\ b <= c BY StageNat DEF Turned
<1>2. a # 0 => b # 0 BY <1>1
<1>3. x.row[k].state # "none" => y.row[k].state # "none" BY <1>2, StageOf, RowType
<1>4. a <= c /\ (c <= 4 => b <= 4) /\ (b >= 2 => c >= 2) /\ (b >= 7 => c >= 7) /\ (a >= 6 => b >= 6) BY <1>1
<1>5. Rests(x, z, k) BY <1>4 DEF Rests, Turned
<1>6. Deals(x, z, k) BY <1>4 DEF Deals, Turned
<1>7. Stays(x, z, k)
  <2>1. y.row[k].state = "retired" => b >= 6 BY DEF Stage
  <2>2. y.row[k].state = "retired" => z.row[k].state = "retired" BY <2>1 DEF Turned
  <2> QED BY <2>2 DEF Stays, Turned
<1> QED BY <1>3, <1>4, <1>5, <1>6, <1>7 DEF Turned

LEMMA TurnsOn ==
  ASSUME NEW x \in Machine, NEW y, NEW z, NEW p, Turns(x, y, p), Turns(y, z, p)
  PROVE  Turns(x, z, p)
<1>1. y \in Machine /\ z \in Machine /\ z.others = x.others /\ y.others = x.others BY DEF Turns
<1>2. \A k \in Key : Turned(x, z, k) BY <1>1, TurnedOn DEF Turns
<1>3. OneEach(x) => OneEach(z) BY DEF Turns
<1>4. Anchored(x, z, p)
  <2>1. CASE Anchors(z) = Anchors(y) BY <2>1 DEF Turns, Anchored
  <2>2. CASE Anchors(z) # Anchors(y)
    <3>1. PICK k \in Key : /\ Anchors(z) = {k} /\ p.known
                           /\ p.empty \/ (y.present[k] = "over" /\ Stage(y.row[k].state) <= 4)
      BY <2>2 DEF Turns, Anchored
    <3>2. Rests(x, y, k) /\ Stage(x.row[k].state) <= Stage(y.row[k].state) BY DEF Turns, Turned
    <3>3. Stage(y.row[k].state) <= 4 => y.present[k] = x.present[k] /\ Stage(x.row[k].state) <= 4
      BY <3>2, StageNat DEF Rests
    <3> QED BY <3>1, <3>3 DEF Anchored
  <2> QED BY <2>1, <2>2
<1> QED BY <1>1, <1>2, <1>3, <1>4 DEF Turns

\* A step that adds to what signs nothing, and ends nothing.
LEMMA StepsTurn ==
  ASSUME NEW x \in Machine, NEW y, NEW p, Steps(x, y),
         \A k \in Key : Stays(x, y, k) /\ (Stage(x.row[k].state) >= 6 => y.row[k].state = x.row[k].state)
  PROVE  Turns(x, y, p)
<1>1. y \in Machine /\ y.others = x.others BY DEF Steps
<1>2. \A k \in Key : Turned(x, y, k) BY DEF Steps, Moves, Grows, Turned
<1>3. \A k \in Key : y.row[k].state = "active" =>
         x.row[k].state = "active" /\ y.row[k].role = x.row[k].role /\ y.row[k].alg = x.row[k].alg
  BY DEF Steps, Moves, Grows
<1>4. OneEach(x) => OneEach(y) BY <1>3 DEF OneEach, OfRole, Keys
<1>5. Anchors(y) = Anchors(x)
  <2>1. \A k \in Key : k \in Anchors(y) <=> k \in Anchors(x) BY DEF Steps, Moves, Grows
  <2>2. Anchors(x) \subseteq Key /\ Anchors(y) \subseteq Key BY DEF Anchors, OfRole, Keys
  <2> QED BY <2>1, <2>2
<1> QED BY <1>1, <1>2, <1>4, <1>5 DEF Turns, Anchored

LEMMA MintTurns ==
  ASSUME NEW x \in Machine, NEW role \in Role, NEW p
  PROVE  Turns(x, Mint(x, role), p)
<1>1. CASE Keys(x, {"none"}) = {}
  <2>1. Mint(x, role) = x BY <1>1 DEF Mint
  <2> QED BY <2>1, StepsSame, StepsTurn DEF Stays
<1>2. CASE Keys(x, {"none"}) # {}
  <2> DEFINE k == Min(Keys(x, {"none"}))
             r == [NoRow EXCEPT !.state = "created", !.role = role, !.alg = x.alg[role]]
             y == [x EXCEPT !.row[k] = r]
             z == Distribute(y, k)
  <2>1. k \in Key /\ x.row[k].state = "none"
    <3>1. Keys(x, {"none"}) \subseteq Key /\ \A o \in Keys(x, {"none"}) : x.row[o].state = "none" BY DEF Keys
    <3>2. IsFiniteSet(Keys(x, {"none"})) BY <3>1, KeyAssumption, FS_Subset
    <3>3. Keys(x, {"none"}) \in SUBSET Nat BY <3>1, KeyAssumption
    <3>4. k \in Keys(x, {"none"}) BY <1>2, <3>2, <3>3, MinOf
    <3> QED BY <3>1, <3>4
  <2>2. Mint(x, role) = z BY <1>2 DEF Mint
  <2> HIDE DEF k
  <2>3. /\ r \in Row /\ r.state = "created" /\ r.role = role /\ r.ds = "out"
    BY DEF Machine, Row, NoRow, State
  <2> HIDE DEF r
  <2>4. [x.row EXCEPT ![k] = r] \in [Key -> Row] /\ [x.row EXCEPT ![k] = r][k] = r
        /\ \A o \in Key \ {k} : [x.row EXCEPT ![k] = r][o] = x.row[o]
    BY <2>1, <2>3 DEF Machine
  <2>5. /\ OwnStep(x, y, k) /\ y \in Machine /\ y.row[k] = r
        /\ y.dist = x.dist /\ y.present = x.present /\ y.since = x.since
    BY <2>4 DEF Machine, OwnStep, Keeps
  <2> HIDE DEF y
  <2>6. Stage("none") = 0 /\ Stage("created") = 1 /\ {"none", "created"} \subseteq Early /\ "created" \notin Accepted
    BY DEF Stage, Early, Accepted
  <2>7. FitsAt(x, k) => FitsAt(y, k) BY <2>1, <2>3, <2>5, <2>6 DEF FitsAt, Sep
  <2>8. k \notin Anchors(x) /\ k \notin Anchors(y) BY <2>1, <2>3, <2>5, NoAnchor
  <2>9. KeyStep(x, y, k)
    <3>1. Grows(x, y, k) BY <2>1, <2>3, <2>5, <2>6, <2>7, <2>8 DEF Grows
    <3>2. Rests(x, y, k) /\ Deals(x, y, k) BY <2>3, <2>5, <2>6 DEF Rests, Deals
    <3> QED BY <2>5, <3>1, <3>2 DEF KeyStep, Moves
  <2>10. KeyStep(y, z, k) BY <2>1, <2>3, <2>5, <2>6, DistributeStep
  <2> HIDE DEF z
  <2>11. KeyStep(x, z, k) BY <2>1, <2>9, <2>10, StepOn
  <2>12. Steps(x, z) BY <2>1, <2>11, KeySteps
  <2>13. \A o \in Key \ {k} : z.row[o] = x.row[o] BY <2>11 DEF KeyStep, OwnStep
  <2>14. \A o \in Key : Stays(x, z, o) /\ (Stage(x.row[o].state) >= 6 => z.row[o].state = x.row[o].state)
    BY <2>1, <2>6, <2>13 DEF Stays
  <2> QED BY <2>2, <2>12, <2>14, StepsTurn
<1> QED BY <1>1, <1>2

\* A key that signs, beside the one that is promoted.
LEMMA SupersedeRow ==
  ASSUME NEW x \in Machine, NEW k \in Key, NEW alg, x.row[k].state = "active"
  PROVE  LET y == Supersede(x, k, alg) IN
         /\ OwnStep(x, y, k) /\ y.dist = x.dist /\ y.present = x.present /\ y.since = x.since
         /\ y.row[k].role = x.row[k].role /\ y.row[k].alg = x.row[k].alg
         /\ y.row[k].state \in {"active", "retired"} /\ (y.row[k].state = "active" => x.row[k].alg # alg)
         /\ y.row[k].state = "retired" => y.row[k].ds = "out"
         /\ x.row[k].role = "KSK" => y.row[k].ds = "out"
         /\ x.row[k].role = "ZSK" => y.row[k].ds \in {"out", x.row[k].ds}
<1> DEFINE y == Supersede(x, k, alg)
<1>1. CASE x.row[k].alg = alg
  <2>1. y = Write(x, k, "retired") BY <1>1 DEF Supersede
  <2>2. "retired" \in State BY DEF State
  <2>3. DsOf("retired", x.row[k].role, "retired" = "retired") = "out" BY DEF DsOf
  <2> HIDE DEF y
  <2>4. /\ OwnStep(x, y, k) /\ y.dist = x.dist /\ y.present = x.present /\ y.since = x.since
        /\ y.row[k].role = x.row[k].role /\ y.row[k].alg = x.row[k].alg
        /\ y.row[k].state = "retired" /\ y.row[k].ds = "out"
    BY <2>1, <2>2, <2>3, WriteType
  <2>5. y.row[k].state \in {"active", "retired"} /\ y.row[k].state # "active" BY <2>4
  <2> QED BY <2>4, <2>5 DEF y
<1>2. CASE x.row[k].alg # alg /\ Sep(x, k)
  <2> DEFINE r == [x.row[k] EXCEPT !.ds = "out"]
  <2>1. y = [x EXCEPT !.row = [x.row EXCEPT ![k] = r]] BY <1>2 DEF Supersede, Machine, Row
  <2>2. /\ r \in Row /\ r.role = x.row[k].role /\ r.alg = x.row[k].alg
        /\ r.state = "active" /\ r.ds = "out"
    BY RowType DEF Row
  <2> HIDE DEF y, r
  <2>3. [x.row EXCEPT ![k] = r] \in [Key -> Row] /\ [x.row EXCEPT ![k] = r][k] = r
        /\ \A o \in Key \ {k} : [x.row EXCEPT ![k] = r][o] = x.row[o]
    BY <2>2 DEF Machine
  <2>4. /\ OwnStep(x, y, k) /\ y.dist = x.dist /\ y.present = x.present /\ y.since = x.since /\ y.row[k] = r
    BY <2>1, <2>3 DEF Machine, OwnStep, Keeps
  <2> QED BY <1>2, <2>2, <2>4 DEF y
<1>3. CASE x.row[k].alg # alg /\ ~Sep(x, k)
  <2>1. y = x BY <1>3 DEF Supersede
  <2> HIDE DEF y
  <2>2. OwnStep(x, y, k) BY <2>1 DEF OwnStep, Keeps
  <2> QED BY <1>3, <2>1, <2>2 DEF Sep, y
<1> QED BY <1>1, <1>2, <1>3

\* The key that is promoted.
LEMMA PromotedRow ==
  ASSUME NEW x \in Machine, NEW k \in Key
  PROVE  LET y == [Leave(Write(x, k, "active"), k) EXCEPT
                     !.row[k].at = 1 + Max({x.row[o].at : o \in Key}), !.aged = @ \ {k}] IN
         /\ y \in Machine /\ y.others = x.others
         /\ \A o \in Key \ {k} : Agree(x, y, o)
         /\ y.dist[k] = x.dist[k]
         /\ y.row[k].state = "active" /\ y.row[k].role = x.row[k].role /\ y.row[k].alg = x.row[k].alg
         /\ y.row[k].ds = IF x.row[k].role = "KSK" THEN "in" ELSE "out"
<1> DEFINE n == 1 + Max({x.row[o].at : o \in Key})
           w == Write(x, k, "active")
           v == Leave(w, k)
           y == [v EXCEPT !.row[k].at = n, !.aged = @ \ {k}]
<1>1. n \in Nat
  <2> DEFINE T == {U \in SUBSET Key : IsFiniteSet({x.row[o].at : o \in U})}
  <2>1. {} \in T
    <3>1. {x.row[o].at : o \in {}} = {} OBVIOUS
    <3> QED BY <3>1, FS_EmptySet
  <2>2. ASSUME NEW U \in SUBSET Key, NEW o \in Key, U \in T PROVE U \cup {o} \in T
    <3> DEFINE ats == {x.row[i].at : i \in U}
    <3>1. {x.row[i].at : i \in U \cup {o}} = ats \cup {x.row[o].at} OBVIOUS
    <3>2. IsFiniteSet(ats) BY <2>2
    <3> HIDE DEF ats
    <3>3. IsFiniteSet(ats \cup {x.row[o].at}) BY <3>2, FS_AddElement
    <3>4. IsFiniteSet({x.row[i].at : i \in U \cup {o}}) BY <3>1, <3>3
    <3> QED BY <3>4
  <2> HIDE DEF T
  <2>3. Key \in T BY <2>1, <2>2, KeyAssumption, EverySet
  <2>4. IsFiniteSet({x.row[o].at : o \in Key}) BY <2>3 DEF T
  <2>5. {x.row[o].at : o \in Key} \in SUBSET Nat BY RowType
  <2>6. {x.row[o].at : o \in Key} # {} OBVIOUS
  <2>7. Max({x.row[o].at : o \in Key}) \in Nat BY <2>4, <2>5, <2>6, MaxOf
  <2> QED BY <2>7
<1> HIDE DEF n
<1>2. "active" \in State /\ DsOf("active", x.row[k].role, "active" = "retired") = IF x.row[k].role = "KSK" THEN "in" ELSE "out"
  BY DEF State, DsOf
<1>3. /\ OwnStep(x, w, k) /\ w.dist = x.dist /\ w.present = x.present /\ w.since = x.since
      /\ w.row[k].state = "active" /\ w.row[k].role = x.row[k].role /\ w.row[k].alg = x.row[k].alg
      /\ w.row[k].ds = IF x.row[k].role = "KSK" THEN "in" ELSE "out"
  BY <1>2, WriteType
<1>4. w \in Machine BY <1>3 DEF OwnStep
<1> HIDE DEF w
<1>5. OwnStep(w, v, k) /\ v.row = w.row /\ v.dist = w.dist /\ v.since = w.since
  <2>1. "none" \in Waited BY DEF Waited
  <2>2. LET u == [w EXCEPT !.present[k] = "none"] IN
        OwnStep(w, u, k) /\ u.row = w.row /\ u.dist = w.dist /\ u.since = w.since
    BY <1>4, <2>1, LeaveOne
  <2> QED BY <2>2 DEF Leave
<1>6. v \in Machine BY <1>5 DEF OwnStep
<1> HIDE DEF v
<1> DEFINE r == [v.row[k] EXCEPT !.at = n]
<1>7. /\ r \in Row /\ r.state = v.row[k].state /\ r.role = v.row[k].role
      /\ r.alg = v.row[k].alg /\ r.ds = v.row[k].ds
  BY <1>1, <1>6, RowType DEF Row
<1>8. y = [v EXCEPT !.row = [v.row EXCEPT ![k] = r], !.aged = v.aged \ {k}] BY <1>6 DEF Machine, Row
<1> HIDE DEF r, y
<1>9. [v.row EXCEPT ![k] = r] \in [Key -> Row] /\ [v.row EXCEPT ![k] = r][k] = r
      /\ \A o \in Key \ {k} : [v.row EXCEPT ![k] = r][o] = v.row[o]
  BY <1>6, <1>7 DEF Machine
<1>11. /\ y \in Machine /\ y.others = v.others /\ y.dist = v.dist /\ y.row[k] = r
       /\ \A o \in Key \ {k} : Agree(v, y, o)
  BY <1>6, <1>8, <1>9 DEF Machine, Agree
<1>12. \A o \in Key \ {k} : Agree(x, y, o) BY <1>3, <1>5, <1>11 DEF OwnStep, Agree
<1>13. y.others = x.others BY <1>3, <1>5, <1>11 DEF OwnStep, Keeps
<1> QED BY <1>3, <1>5, <1>7, <1>11, <1>12, <1>13 DEF n, w, v, y

LEMMA PromoteTurns ==
  ASSUME NEW x \in Machine, NEW k \in Key, NEW p, x.row[k].state = "standby", ParentDSWaitMet(x, k, p)
  PROVE  Turns(x, Promote(x, k), p)
<1> DEFINE role == x.row[k].role
           alg == x.row[k].alg
           O == OfRole(x, {"active"}, role)
           first == [Leave(Write(x, k, "active"), k) EXCEPT
                       !.row[k].at = 1 + Max({x.row[o].at : o \in Key}), !.aged = @ \ {k}]
           of == [o \in Key |-> IF o \in O THEN Supersede(first, o, alg) ELSE first]
           y == Merged(first, of)
<1>1. Promote(x, k) = y BY DEF Promote, ForEach
<1>2. /\ first \in Machine /\ first.others = x.others
      /\ \A o \in Key \ {k} : Agree(x, first, o)
      /\ first.dist[k] = x.dist[k]
      /\ first.row[k].state = "active" /\ first.row[k].role = role /\ first.row[k].alg = alg
      /\ first.row[k].ds = IF role = "KSK" THEN "in" ELSE "out"
  BY PromotedRow
<1>3. O = {o \in Key : x.row[o].state = "active" /\ x.row[o].role = role} BY DEF OfRole, Keys
<1>4. k \notin O BY <1>3
<1> HIDE DEF first, O
<1>5. ASSUME NEW o \in Key
      PROVE  /\ OwnStep(first, of[o], o)
             /\ o \notin O => Agree(first, of[o], o)
             /\ o \in O =>
                  /\ of[o].dist[o] = x.dist[o] /\ of[o].present[o] = x.present[o] /\ of[o].since[o] = x.since[o]
                  /\ of[o].row[o].role = x.row[o].role /\ of[o].row[o].alg = x.row[o].alg
                  /\ of[o].row[o].state \in {"active", "retired"} /\ (of[o].row[o].state = "active" => x.row[o].alg # alg)
                  /\ of[o].row[o].state = "retired" => of[o].row[o].ds = "out"
                  /\ x.row[o].role = "KSK" => of[o].row[o].ds = "out"
                  /\ x.row[o].role = "ZSK" => of[o].row[o].ds \in {"out", x.row[o].ds}
  <2>1. CASE o \in O
    <3>1. of[o] = Supersede(first, o, alg) BY <2>1
    <3>2. Agree(x, first, o) /\ first.row[o].state = "active" BY <1>2, <1>3, <1>4, <2>1 DEF Agree
    <3> HIDE DEF of
    <3>3. LET z == Supersede(first, o, alg) IN
          /\ OwnStep(first, z, o) /\ z.dist = first.dist /\ z.present = first.present /\ z.since = first.since
          /\ z.row[o].role = first.row[o].role /\ z.row[o].alg = first.row[o].alg
          /\ z.row[o].state \in {"active", "retired"} /\ (z.row[o].state = "active" => first.row[o].alg # alg)
          /\ z.row[o].state = "retired" => z.row[o].ds = "out"
          /\ first.row[o].role = "KSK" => z.row[o].ds = "out"
          /\ first.row[o].role = "ZSK" => z.row[o].ds \in {"out", first.row[o].ds}
      BY <1>2, <3>2, SupersedeRow
    <3> QED BY <2>1, <3>1, <3>2, <3>3 DEF Agree
  <2>2. CASE o \notin O
    <3>1. of[o] = first BY <2>2
    <3> HIDE DEF of
    <3> QED BY <1>2, <2>2, <3>1 DEF OwnStep, Keeps, Agree
  <2> QED BY <2>1, <2>2
<1>6. DOMAIN of = Key /\ of = [o \in Key |-> of[o]] OBVIOUS
<1> HIDE DEF of
<1>7. \A o \in Key : of[o] \in Machine BY <1>5 DEF OwnStep
<1>8. y \in Machine /\ Keeps(first, y) /\ \A o \in Key : Agree(of[o], y, o)
  <2>1. of \in [Key -> Machine] BY <1>6, <1>7
  <2> QED BY <1>2, <1>5, <2>1, MergedParts
<1> HIDE DEF y
\* What becomes of each key.
<1>9. /\ y.row[k].state = "active" /\ y.row[k].role = role /\ y.row[k].alg = alg
      /\ y.row[k].ds = (IF role = "KSK" THEN "in" ELSE "out") /\ y.dist[k] = x.dist[k]
  BY <1>2, <1>4, <1>5, <1>8 DEF Agree
<1>10. \A o \in Key \ (O \cup {k}) : Agree(x, y, o) BY <1>2, <1>5, <1>8 DEF Agree
<1>11. ASSUME NEW o \in O
       PROVE  /\ o \in Key \ {k} /\ x.row[o].state = "active" /\ x.row[o].role = role
              /\ y.dist[o] = x.dist[o] /\ y.present[o] = x.present[o] /\ y.since[o] = x.since[o]
              /\ y.row[o].role = role /\ y.row[o].alg = x.row[o].alg
              /\ y.row[o].state \in {"active", "retired"} /\ (y.row[o].state = "active" => x.row[o].alg # alg)
              /\ y.row[o].state = "retired" => y.row[o].ds = "out"
              /\ role = "KSK" => y.row[o].ds = "out"
              /\ role = "ZSK" => y.row[o].ds \in {"out", x.row[o].ds}
  BY <1>3, <1>4, <1>5, <1>8 DEF Agree
<1>12. role \in Role BY RowType
<1>13. y.others = x.others BY <1>2, <1>8 DEF Keeps
<1> HIDE DEF role, alg
<1>14. ASSUME NEW o \in Key PROVE Turned(x, y, o)
  <2>1. CASE o = k
    <3>1. Stage("standby") = 4 /\ Stage("active") = 5 /\ "standby" \in Accepted /\ "active" \notin Early \cup {"standby"}
      BY DEF Stage, Accepted, Early
    <3>2. FitsAt(y, k) BY <1>9, <3>1 DEF FitsAt, Sep
    <3>3. y.row[k].role = x.row[k].role /\ y.row[k].alg = x.row[k].alg BY <1>9 DEF role, alg
    <3> QED BY <1>9, <2>1, <3>1, <3>2, <3>3 DEF Turned, Rests, Deals, Stays
  <2>2. CASE o \in O
    <3>1. Stage("active") = 5 /\ Stage("retired") = 6 /\ "active" \in Accepted /\ "retired" \notin Accepted
          /\ {"active", "retired"} \cap (Early \cup {"standby"}) = {}
      BY DEF Stage, Accepted, Early
    <3>2. y.row[o].role = x.row[o].role BY <1>11, <2>2
    <3>3. Stage(x.row[o].state) = 5 /\ Stage(y.row[o].state) \in {5, 6} BY <1>11, <2>2, <3>1
    <3>4. FitsAt(x, o) => FitsAt(y, o) BY <1>11, <1>12, <2>2, <3>1, <3>2 DEF FitsAt, Sep, Role
    <3>5. Rests(x, y, o) /\ Stays(x, y, o) BY <1>11, <2>2, <3>3 DEF Rests, Stays
    <3>6. Deals(x, y, o) BY <1>11, <2>2, <3>1 DEF Deals
    <3> QED BY <1>11, <2>2, <3>2, <3>3, <3>4, <3>5, <3>6 DEF Turned
  <2>3. CASE o \notin O \cup {k}
    <3>1. Agree(x, y, o) BY <1>10, <2>3
    <3>2. Moves(x, y, o) BY <1>8, <1>13, <3>1, MovesSame DEF Agree
    <3> QED BY <3>1, <3>2 DEF Agree, Turned, Moves, Grows, Stays
  <2> QED BY <2>1, <2>2, <2>3
<1>15. \A o \in Key \ {k} : y.row[o].state = "active" =>
          /\ x.row[o].state = "active" /\ y.row[o].role = x.row[o].role /\ y.row[o].alg = x.row[o].alg
          /\ x.row[o].role = role => o \in O
  BY <1>3, <1>10, <1>11 DEF Agree
<1>16. OneEach(x) => OneEach(y)
  <2> SUFFICES ASSUME OneEach(x), NEW r \in Role, NEW a \in OfRole(y, {"active"}, r), NEW b \in OfRole(y, {"active"}, r),
                      y.row[a].alg = y.row[b].alg
               PROVE  a = b
    BY DEF OneEach
  <2>1. a \in Key /\ b \in Key /\ y.row[a].state = "active" /\ y.row[b].state = "active"
        /\ y.row[a].role = r /\ y.row[b].role = r
    BY DEF OfRole, Keys
  <2>2. CASE a = k /\ b # k BY <1>9, <1>11, <1>15, <2>1, <2>2
  <2>3. CASE a # k /\ b = k BY <1>9, <1>11, <1>15, <2>1, <2>3
  <2>4. CASE a # k /\ b # k
    <3>1. a \in OfRole(x, {"active"}, r) /\ b \in OfRole(x, {"active"}, r) /\ x.row[a].alg = x.row[b].alg
      BY <1>15, <2>1, <2>4 DEF OfRole, Keys
    <3> QED BY <3>1 DEF OneEach
  <2> QED BY <2>2, <2>3, <2>4
<1>17. Anchored(x, y, p)
  <2>1. CASE role = "KSK"
    <3>1. k \in Anchors(y) BY <1>9, <2>1 DEF Anchors, OfRole, Keys
    <3>2. \A o \in Anchors(y) : o = k
      BY <1>11, <1>15, <2>1 DEF Anchors, OfRole, Keys
    <3>3. Anchors(y) = {k} BY <3>1, <3>2
    <3>4. p.known /\ (p.empty \/ x.present[k] = "over") BY <2>1 DEF ParentDSWaitMet, Sep, role
    <3>5. Stage(x.row[k].state) <= 4 BY DEF Stage
    <3> QED BY <3>3, <3>4, <3>5 DEF Anchored
  <2>2. CASE role = "ZSK"
    <3>1. \A o \in O \cup {k} : o \notin Anchors(x) /\ o \notin Anchors(y)
      BY <1>9, <1>11, <2>2 DEF Anchors, OfRole, Keys, role
    <3>2. \A o \in Key \ (O \cup {k}) : o \in Anchors(x) <=> o \in Anchors(y)
      BY <1>10 DEF Agree, Anchors, OfRole, Keys
    <3>3. Anchors(x) \subseteq Key /\ Anchors(y) \subseteq Key BY DEF Anchors, OfRole, Keys
    <3> QED BY <3>1, <3>2, <3>3 DEF Anchored
  <2> QED BY <1>12, <2>1, <2>2 DEF Role
<1> QED BY <1>1, <1>8, <1>13, <1>14, <1>16, <1>17 DEF Turns

LEMMA TickRoleTurns ==
  ASSUME NEW x \in Machine, NEW role \in Role, NEW p
  PROVE  Turns(x, TickRole(x, role, p), p)
<1> DEFINE standbys == Named(x, {"standby"}, role)
           k == Successor(x, role)
           y == IF Promotes(x, role, p) THEN [Promote(x, k) EXCEPT !.rolls = @ \ {role}] ELSE x
<1>1. TickRole(x, role, p) \in {y, Mint(y, role)} BY DEF TickRole
<1>2. Promotes(x, role, p) => standbys # {} /\ ParentDSWaitMet(x, k, p) BY DEF Promotes
<1>3. standbys \subseteq Key /\ \A o \in standbys : x.row[o].state = "standby" BY DEF Named, OfRole, Keys
<1>4. Turns(x, y, p)
  <2>1. CASE Promotes(x, role, p)
    <3>1. IsFiniteSet(standbys) /\ standbys \in SUBSET Nat BY <1>3, KeyAssumption, FS_Subset
    <3>2. k = Min(standbys) BY DEF Successor
    <3> HIDE DEF standbys, k
    <3>3. k \in standbys BY <1>2, <2>1, <3>1, <3>2, MinOf
    <3> DEFINE z == Promote(x, k)
    <3>4. Turns(x, z, p) BY <1>2, <1>3, <2>1, <3>3, PromoteTurns
    <3>5. z \in Machine BY <3>4 DEF Turns
    <3> HIDE DEF z
    <3> DEFINE u == [z EXCEPT !.rolls = @ \ {role}]
    <3>6. /\ u \in Machine /\ u.others = z.others /\ u.row = z.row /\ u.dist = z.dist
          /\ u.present = z.present /\ u.since = z.since
      BY <3>5 DEF Machine
    <3> HIDE DEF u
    <3>7. Turns(z, u, p) BY <3>5, <3>6, StepsQuiet, StepsTurn DEF Stays
    <3>8. Turns(x, u, p) BY <3>4, <3>7, TurnsOn
    <3> QED BY <2>1, <3>8 DEF u, z
  <2>2. CASE ~Promotes(x, role, p) BY <2>2, StepsSame, StepsTurn DEF Stays
  <2> QED BY <2>1, <2>2
<1>5. y \in Machine BY <1>4 DEF Turns
<1> HIDE DEF y
<1>6. Turns(y, Mint(y, role), p) BY <1>5, MintTurns
<1>7. Turns(x, Mint(y, role), p) BY <1>4, <1>6, TurnsOn
<1> QED BY <1>1, <1>4, <1>7

LEMMA AlgSupersededStep ==
  ASSUME NEW x \in Machine, NEW k \in OfRole(x, {"active"}, "ZSK"), NEW over
  PROVE  LET y == AlgSuperseded(x, k, over) IN KeyStep(x, y, k) /\ y.row[k].state \in {"active", "retired"}
<1> DEFINE y == AlgSuperseded(x, k, over)
           w == Write(x, k, "retired")
           u == [w EXCEPT !.left = w.left \ {x.row[k].alg}]
<1>1. k \in Key /\ x.row[k].state = "active" /\ k \notin Anchors(x) BY DEF Anchors, OfRole, Keys
<1>2. "retired" \in State \ {"none", "created", "active"} /\ Stage("active") <= Stage("retired") /\ "retired" \notin Accepted
  BY DEF State, Stage, Accepted
<1>3. KeyStep(x, w, k) BY <1>1, <1>2, WriteStep
<1>4. w \in Machine BY <1>3 DEF KeyStep, OwnStep
<1>5. w.row[k].state = "retired" BY <1>1, <1>2, WriteType
<1>6. y \in {x, u}
  <2>1. u = [w EXCEPT !.left = @ \ {x.row[k].alg}] BY <1>4 DEF Machine
  <2> HIDE DEF u
  <2> QED BY <2>1 DEF AlgSuperseded
<1> HIDE DEF w, y
<1>7. OwnStep(w, u, k) /\ u.row = w.row /\ u.dist = w.dist /\ u.present = w.present /\ u.since = w.since
  BY <1>4 DEF Machine, OwnStep, Keeps
<1> HIDE DEF u
<1>8. Moves(w, u, k)
  <2>1. u \in Machine /\ u.others = w.others BY <1>7 DEF OwnStep, Keeps
  <2> QED BY <1>1, <1>4, <1>7, <2>1, MovesSame
<1>9. KeyStep(w, u, k) BY <1>7, <1>8 DEF KeyStep
<1>10. KeyStep(x, u, k) /\ u.row[k].state = "retired" BY <1>1, <1>3, <1>5, <1>7, <1>9, StepOn
<1>11. KeyStep(x, x, k) BY <1>1, SameStep
<1>12. KeyStep(x, y, k) /\ y.row[k].state \in {"active", "retired"} BY <1>1, <1>6, <1>10, <1>11
<1> QED BY <1>12 DEF y

LEMMA LeavingTurns ==
  ASSUME NEW x \in Machine, NEW over, NEW p
  PROVE  Turns(x, Merged(x, [k \in Key |-> IF k \in OfRole(x, {"active"}, "ZSK") THEN AlgSuperseded(x, k, over) ELSE x]), p)
<1> DEFINE S == OfRole(x, {"active"}, "ZSK")
           of == [k \in Key |-> IF k \in S THEN AlgSuperseded(x, k, over) ELSE x]
           z == Merged(x, of)
<1>2. \A k \in S : k \in Key /\ x.row[k].state = "active" BY DEF OfRole, Keys
<1>3. \A k \in S : KeyStep(x, AlgSuperseded(x, k, over), k) /\ AlgSuperseded(x, k, over).row[k].state \in {"active", "retired"}
  BY AlgSupersededStep
<1>4. DOMAIN of = Key /\ of = [k \in Key |-> of[k]] OBVIOUS
<1>5. \A k \in Key : k \in S => of[k] = AlgSuperseded(x, k, over) OBVIOUS
<1>6. \A k \in Key : k \notin S => of[k] = x OBVIOUS
<1> HIDE DEF S, of
<1>7. \A k \in Key : KeyStep(x, of[k], k) BY <1>3, <1>5, <1>6, SameStep
<1>8. Steps(x, z) BY <1>4, <1>7, MergedSteps
<1>9. \A k \in Key : z.row[k] = of[k].row[k]
  <2>1. \A k \in Key : of[k] \in Machine /\ OwnStep(x, of[k], k) BY <1>7 DEF KeyStep, OwnStep
  <2>2. of \in [Key -> Machine] BY <1>4, <2>1
  <2> QED BY <2>1, <2>2, MergedParts DEF Agree
<1> HIDE DEF z
<1>10. ASSUME NEW k \in Key PROVE Stays(x, z, k) /\ (Stage(x.row[k].state) >= 6 => z.row[k].state = x.row[k].state)
  <2>1. CASE k \in S
    <3>1. z.row[k].state \in {"active", "retired"} BY <1>3, <1>5, <1>9, <2>1
    <3>2. Stage(x.row[k].state) = 5 BY <1>2, <2>1 DEF Stage
    <3> QED BY <3>1, <3>2 DEF Stays
  <2>2. CASE k \notin S BY <1>6, <1>9, <2>2 DEF Stays
  <2> QED BY <2>1, <2>2
<1>11. Turns(x, z, p) BY <1>8, <1>10, StepsTurn
<1> QED BY <1>11 DEF S, of, z

-----------------------------------------------------------------------------
(* A tick. *)

LEMMA NotesThen ==
  ASSUME NEW x \in Machine, NEW z \in Machine, NEW y \in Machine, NEW k \in Key, NEW p,
         FitsAt(x, k) => FitsAt(z, k), Notes(x, z, k, p), Turned(z, y, k)
  PROVE  Notes(x, y, k, p)
<1>1. Stage(z.row[k].state) <= Stage(y.row[k].state) /\ Rests(z, y, k) BY DEF Turned
<1>2. Stage(y.row[k].state) <= 4 => Stage(z.row[k].state) <= 4 BY <1>1, StageNat
<1>3. Stage(y.row[k].state) <= 4 => y.present[k] = z.present[k] /\ y.since[k] = z.since[k] BY <1>1 DEF Rests
<1>4. ASSUME y.row[k].state = "standby", Sep(y, k), FitsAt(x, k), p.known, k \notin p.own
      PROVE  y.present[k] = "none"
  <2>1. Stage(y.row[k].state) <= 4 BY <1>4 DEF Stage
  <2>2. z.row[k].state \in Early \cup {"standby"} BY <1>2, <2>1, StageOf, RowType
  <2>3. CASE z.row[k].state \in Early
    <3>1. z.present[k] = "none" BY <1>4, <2>3 DEF FitsAt
    <3> QED BY <1>3, <2>1, <3>1
  <2>4. CASE z.row[k].state = "standby"
    <3>1. Sep(z, k) BY <1>4, <2>4 DEF Turned, Sep
    <3>2. z.present[k] = "none" BY <1>2, <1>4, <2>1, <2>4, <3>1 DEF Notes
    <3> QED BY <1>3, <2>1, <3>2
  <2> QED BY <2>2, <2>3, <2>4
<1> QED BY <1>2, <1>3, <1>4 DEF Notes

LEMMA NotesAfter ==
  ASSUME NEW x \in Machine, NEW z \in Machine, NEW y \in Machine, NEW k \in Key, NEW p,
         Moves(x, z, k), Stage(z.row[k].state) <= Stage(y.row[k].state), Notes(z, y, k, p)
  PROVE  Notes(x, y, k, p)
<1>1. Stage(y.row[k].state) <= 4 => Stage(z.row[k].state) <= 4 BY StageNat
<1>2. Stage(y.row[k].state) <= 4 => z.present[k] = x.present[k] /\ z.since[k] = x.since[k] BY <1>1 DEF Moves, Rests
<1>3. FitsAt(x, k) => FitsAt(z, k) BY DEF Moves, Grows
<1> QED BY <1>2, <1>3 DEF Notes

\* What a tick with the parent's answer p makes of a machine.
Ticks1(x, y, k, p) ==
  /\ Stage(x.row[k].state) <= Stage(y.row[k].state)
  /\ x.row[k].state # "none" => y.row[k].role = x.row[k].role /\ y.row[k].alg = x.row[k].alg
  /\ FitsAt(x, k) => FitsAt(y, k)
  /\ Deals(x, y, k) /\ Stays(x, y, k) /\ Notes(x, y, k, p)
TickTurns(x, y, p) ==
  /\ y \in Machine /\ y.others = x.others
  /\ \A k \in Key : Ticks1(x, y, k, p)
  /\ OneEach(x) => OneEach(y)
  /\ \/ Anchors(y) = Anchors(x)
     \/ \E k \in Key : /\ Anchors(y) = {k} /\ p.known
                       /\ p.empty \/ (x.present[k] = "over" /\ k \in p.own /\ x.row[k].state = "standby" /\ Sep(x, k))

\* The keys' part of it.
LEMMA KeysTurn ==
  ASSUME NEW x \in Machine, NEW start, start.row = x.row, NEW p, NEW over, NEW late, NEW bad
  PROVE  LET z == Merged(x, [k \in Key |-> IF k \in Keys(start, State \ {"none"})
                                         THEN TickKey(start, x, k, p, over, late, bad) ELSE x]) IN
         /\ z \in Machine /\ z.others = x.others
         /\ \A k \in Key : Grows(x, z, k) /\ Deals(x, z, k) /\ Notes(x, z, k, p) /\ Stays(x, z, k)
<1> DEFINE S == Keys(start, State \ {"none"})
           of == [k \in Key |-> IF k \in S THEN TickKey(start, x, k, p, over, late, bad) ELSE x]
           z == Merged(x, of)
<1>2. \A k \in S : k \in Key /\ x.row[k].state # "none" BY DEF Keys
<1>3. \A k \in Key \ S : x.row[k].state = "none" BY RowType DEF Keys
<1>4. DOMAIN of = Key /\ of = [k \in Key |-> of[k]] OBVIOUS
<1>5. \A k \in Key : k \in S => of[k] = TickKey(start, x, k, p, over, late, bad) OBVIOUS
<1>6. \A k \in Key : k \notin S => of[k] = x OBVIOUS
<1> HIDE DEF S, of
<1>7. \A k \in S : TickStep(x, of[k], k, p) BY <1>2, <1>5, TickKeyStep
<1>8. \A k \in Key \ S : KeyStep(x, of[k], k) /\ Stays(x, of[k], k) BY <1>6, SameStep DEF Stays
<1>9. ASSUME NEW k \in Key
      PROVE  OwnStep(x, of[k], k) /\ Grows(x, of[k], k) /\ Deals(x, of[k], k) /\ Notes(x, of[k], k, p) /\ Stays(x, of[k], k)
  <2>1. CASE k \in S BY <1>7, <2>1 DEF TickStep
  <2>2. CASE k \notin S
    <3>2. Notes(x, of[k], k, p) BY <1>3, <1>6, <2>2 DEF Notes
    <3> QED BY <1>8, <2>2, <3>2 DEF KeyStep, Moves
  <2> QED BY <2>1, <2>2
<1>10. of \in [Key -> Machine]
  <2>1. \A k \in Key : of[k] \in Machine BY <1>9 DEF OwnStep
  <2> QED BY <1>4, <2>1
<1>11. z \in Machine /\ Keeps(x, z) /\ \A k \in Key : Agree(of[k], z, k) BY <1>9, <1>10, MergedParts
<1> HIDE DEF z
<1>12. ASSUME NEW k \in Key
       PROVE  Grows(x, z, k) /\ Deals(x, z, k) /\ Notes(x, z, k, p) /\ Stays(x, z, k)
  <2>1. z.row[k] = of[k].row[k] /\ z.dist[k] = of[k].dist[k] /\ z.present[k] = of[k].present[k] /\ z.since[k] = of[k].since[k]
    BY <1>11 DEF Agree
  <2>2. Grows(x, z, k) BY <1>9, <2>1 DEF Grows, Anchors, OfRole, Keys, FitsAt, Sep
  <2>3. Deals(x, z, k) BY <1>9, <2>1 DEF Deals
  <2>4. Notes(x, z, k, p) BY <1>9, <2>1 DEF Notes, FitsAt, Sep
  <2>5. Stays(x, z, k) BY <1>9, <2>1 DEF Stays
  <2> QED BY <2>2, <2>3, <2>4, <2>5
<1>13. z.others = x.others BY <1>11 DEF Keeps
<1> QED BY <1>11, <1>12, <1>13 DEF S, of, z

\* The answer a tick has from the parent.
Heeded(x, known) ==
  [known |-> known /\ AsksParent(x), own |-> parent.own, empty |-> parent.own = {} /\ parent.foreign = {}]

LEMMA TickedTurns ==
  ASSUME NEW x \in Machine, Fits(x), NEW known, NEW over, NEW late, NEW bad
  PROVE  TickTurns(x, Ticked(x, known, over, late, bad), Heeded(x, known))
<1> DEFINE p == Heeded(x, known)
           start == ApplyForeign(x)
           s == ServedAgain(start, p)
           z == Merged(s, [k \in Key |-> IF k \in Keys(start, State \ {"none"})
                                        THEN TickKey(start, s, k, p, over, late, bad) ELSE s])
           r == TickRole(z, "KSK", p)
           roles == TickRole(r, "ZSK", p)
           y == Merged(roles, [k \in Key |-> IF k \in OfRole(roles, {"active"}, "ZSK")
                                            THEN AlgSuperseded(roles, k, over) ELSE roles])
<1>1. Ticked(x, known, over, late, bad) = y BY Zenon DEF Ticked, Heeded, ForEach
<1>2. Steps(x, start) /\ start \in Machine /\ start.row = x.row BY ForeignSteps DEF Steps
<1> HIDE DEF p, start
<1>3. Steps(start, s) /\ s \in Machine /\ s.row = start.row BY <1>2, ServedSteps DEF Steps
<1> HIDE DEF s
<1>4. Steps(x, s) BY <1>2, <1>3, StepsOn
<1>5. s.others = x.others /\ \A k \in Key : Moves(x, s, k) BY <1>4 DEF Steps
<1>6. /\ z \in Machine /\ z.others = s.others
      /\ \A k \in Key : Grows(s, z, k) /\ Deals(s, z, k) /\ Notes(s, z, k, p) /\ Stays(s, z, k)
  BY <1>3, KeysTurn
<1> HIDE DEF z
<1>7. Turns(z, y, p) /\ y \in Machine
  <2>1. "KSK" \in Role /\ "ZSK" \in Role BY DEF Role
  <2>2. Turns(z, r, p) /\ r \in Machine BY <1>6, <2>1, TickRoleTurns DEF Turns
  <2> HIDE DEF r
  <2>3. Turns(r, roles, p) /\ roles \in Machine BY <2>1, <2>2, TickRoleTurns DEF Turns
  <2> HIDE DEF roles
  <2>4. Turns(z, roles, p) BY <1>6, <2>2, <2>3, TurnsOn
  <2>5. Turns(roles, y, p) BY <2>3, LeavingTurns
  <2> HIDE DEF y
  <2>6. Turns(z, y, p) BY <1>6, <2>4, <2>5, TurnsOn
  <2> QED BY <2>6 DEF Turns
<1> HIDE DEF y
<1>8. y.others = x.others BY <1>5, <1>6, <1>7 DEF Turns
<1>9. ASSUME NEW k \in Key
      PROVE  /\ Stage(x.row[k].state) <= Stage(z.row[k].state)
             /\ x.row[k].state # "none" => z.row[k].role = x.row[k].role /\ z.row[k].alg = x.row[k].alg
             /\ FitsAt(x, k) => FitsAt(z, k)
             /\ k \in Anchors(z) <=> k \in Anchors(x)
             /\ z.row[k].state = "active" => x.row[k].state = "active"
             /\ Deals(x, z, k) /\ Stays(x, z, k) /\ Notes(x, z, k, p)
  <2>1. Moves(x, s, k) /\ Grows(s, z, k) /\ Deals(s, z, k) /\ Notes(s, z, k, p) /\ Stays(s, z, k) BY <1>5, <1>6
  <2>2. s.row[k] = x.row[k] BY <1>2, <1>3
  <2>3. Notes(x, z, k, p) BY <1>3, <1>6, <2>1, NotesAfter DEF Grows
  <2>4. Stage(z.row[k].state) >= Stage(s.row[k].state) BY <2>1 DEF Grows
  <2>5. Deals(x, z, k)
    <3>1. Stage(s.row[k].state) >= 2 => Stage(z.row[k].state) >= 2 BY <2>4, StageNat
    <3>2. Stage(s.row[k].state) >= 7 => Stage(z.row[k].state) >= 7 BY <2>4, StageNat
    <3> QED BY <1>5, <2>1, <3>1, <3>2 DEF Moves, Deals
  <2> QED BY <2>1, <2>2, <2>3, <2>5 DEF Moves, Grows, Stays
<1>10. \A k \in Key : Turned(z, y, k) BY <1>7 DEF Turns
<1>11. ASSUME NEW k \in Key PROVE Ticks1(x, y, k, p)
  <2>1. Stage(x.row[k].state) <= Stage(y.row[k].state) BY <1>9, <1>10, StageNat DEF Turned
  <2>2. x.row[k].state # "none" => z.row[k].state # "none" BY <1>6, <1>9, StageOf, StageNat, RowType
  <2>3. Notes(x, y, k, p) BY <1>6, <1>7, <1>9, <1>10, NotesThen
  <2>4. Deals(x, y, k)
    <3>1. Stage(z.row[k].state) >= 2 => Stage(y.row[k].state) >= 2 BY <1>10, StageNat DEF Turned
    <3>2. Stage(z.row[k].state) >= 7 => Stage(y.row[k].state) >= 7 BY <1>10, StageNat DEF Turned
    <3> QED BY <1>5, <1>6, <1>9, <1>10, <3>1, <3>2 DEF Turned, Deals
  <2>5. Stays(x, y, k)
    <3>1. z.row[k].state = "retired" => y.row[k].state = "retired" BY <1>10 DEF Turned, Stage
    <3> QED BY <1>9, <1>10, <3>1 DEF Stays, Turned
  <2> QED BY <1>9, <1>10, <2>1, <2>2, <2>3, <2>4, <2>5 DEF Ticks1, Turned
<1>12. OneEach(x) => OneEach(y)
  <2>1. OneEach(x) => OneEach(z)
    <3>1. \A k \in Key : z.row[k].state = "active" =>
             x.row[k].state = "active" /\ z.row[k].role = x.row[k].role /\ z.row[k].alg = x.row[k].alg
      BY <1>9
    <3> QED BY <3>1 DEF OneEach, OfRole, Keys
  <2> QED BY <1>7, <2>1 DEF Turns
<1>13. Anchors(z) = Anchors(x)
  <2>1. Anchors(x) \subseteq Key /\ Anchors(z) \subseteq Key BY DEF Anchors, OfRole, Keys
  <2> QED BY <1>9, <2>1
<1>14. Anchors(y) # Anchors(x) =>
         \E k \in Key : /\ Anchors(y) = {k} /\ p.known
                        /\ p.empty \/ (x.present[k] = "over" /\ k \in p.own /\ x.row[k].state = "standby" /\ Sep(x, k))
  <2> SUFFICES ASSUME Anchors(y) # Anchors(z)
               PROVE  \E k \in Key : /\ Anchors(y) = {k} /\ p.known
                                     /\ p.empty \/ (x.present[k] = "over" /\ k \in p.own /\ x.row[k].state = "standby" /\ Sep(x, k))
    BY <1>13
  <2>1. PICK k \in Key : /\ Anchors(y) = {k} /\ p.known
                         /\ p.empty \/ (z.present[k] = "over" /\ Stage(z.row[k].state) <= 4)
    BY <1>7 DEF Turns, Anchored
  <2>2. CASE ~p.empty
    <3>1. z.present[k] = "over" /\ Stage(z.row[k].state) <= 4 BY <2>1, <2>2
    <3>2. FitsAt(x, k) /\ FitsAt(z, k) BY <1>9 DEF Fits
    <3>3. z.row[k].state = "standby" BY <1>6, <3>1, <3>2, StageOf, RowType DEF FitsAt
    <3>4. x.present[k] = "over" BY <1>9, <3>1 DEF Notes
    <3>5. Stage(x.row[k].state) <= 4 BY <1>9, <3>1, StageNat
    <3>6. x.row[k].state = "standby" BY <3>2, <3>4, <3>5, StageOf, RowType DEF FitsAt
    <3>7. Sep(y, k) BY <2>1 DEF Anchors, OfRole, Keys, Sep
    <3>8. Sep(z, k) BY <1>10, <3>3, <3>7 DEF Turned, Sep
    <3>9. Sep(x, k) BY <1>9, <3>6, <3>8 DEF Sep
    <3>10. k \in p.own BY <1>9, <2>1, <3>1, <3>2, <3>3, <3>8 DEF Notes
    <3> QED BY <2>1, <3>4, <3>6, <3>9, <3>10
  <2> QED BY <2>1, <2>2
<1>15. TickTurns(x, y, p) BY <1>7, <1>8, <1>11, <1>12, <1>14 DEF TickTurns
<1> QED BY <1>1, <1>15 DEF p

-----------------------------------------------------------------------------
(* What the other signers' confirmations make of a machine. *)

LEMMA CalmOn ==
  ASSUME NEW x \in Machine, NEW y, NEW z, NEW k \in Key, CalmStep(x, y, k), CalmStep(y, z, k)
  PROVE  CalmStep(x, z, k)
<1>1. y \in Machine /\ z \in Machine BY DEF CalmStep, OwnStep
<1>2. Stage(x.row[k].state) <= Stage(y.row[k].state) /\ Stage(y.row[k].state) <= Stage(z.row[k].state)
  BY DEF CalmStep, Grows
<1>3. Stage(x.row[k].state) <= Stage(z.row[k].state) /\ (Stage(z.row[k].state) <= 4 => Stage(y.row[k].state) <= 4)
  BY <1>2, StageNat
<1>4. x.row[k].state # "none" => y.row[k].state # "none" BY <1>1, <1>2, StageOf, StageNat, RowType
<1>5. Grows(x, z, k) BY <1>3, <1>4 DEF CalmStep, Grows
<1>6. Rests(x, z, k) BY <1>3 DEF CalmStep, Rests
<1>7. OwnStep(x, z, k) BY DEF CalmStep, OwnStep, Keeps
<1> QED BY <1>5, <1>6, <1>7 DEF CalmStep

LEMMA StepCalm == ASSUME NEW x, NEW y, NEW k, KeyStep(x, y, k) PROVE CalmStep(x, y, k)
BY DEF KeyStep, Moves, CalmStep

\* What a key's distribution is after it was done with, or was not.
LEMMA DoneCalm ==
  ASSUME NEW x \in Machine, NEW k \in Key
  PROVE  LET y == Done(x, k) IN
         CalmStep(x, y, k) /\ y.row = x.row /\ (y.dist[k] = x.dist[k] \/ ~y.dist[k].live)
<1>1. CASE Incomplete(x.dist[k])
  <2>1. Done(x, k) = x BY <1>1 DEF Done
  <2> QED BY <2>1, SameStep, StepCalm
<1>2. CASE ~Incomplete(x.dist[k])
  <2>1. Done(x, k) = Drop(x, k) BY <1>2 DEF Done
  <2> QED BY <2>1, DropStep, DropType, StepCalm
<1> QED BY <1>1, <1>2

LEMMA AcceptCalm ==
  ASSUME NEW x \in Machine, NEW k \in Key, x.row[k].state = "mpdist"
  PROVE  LET y == Accept(x, k) IN
         CalmStep(x, y, k) /\ y.row[k].state = "published" /\ (y.dist[k] = x.dist[k] \/ ~y.dist[k].live)
<1> DEFINE w == Write(x, k, "published")
           y == Done(w, k)
<1>1. "published" \in State \ {"none", "created", "active"} /\ Stage("mpdist") <= Stage("published") BY DEF State, Stage
<1>2. CalmStep(x, w, k) /\ w.row[k].state = "published" /\ w.dist = x.dist BY <1>1, WriteCalm, NoAnchor
<1>3. w \in Machine BY <1>2 DEF CalmStep, OwnStep
<1> HIDE DEF w
<1>4. CalmStep(w, y, k) /\ y.row = w.row /\ (y.dist[k] = w.dist[k] \/ ~y.dist[k].live) BY <1>3, DoneCalm
<1> HIDE DEF y
<1>5. CalmStep(x, y, k) BY <1>2, <1>4, CalmOn
<1>6. y = Accept(x, k) BY DEF Accept, w, y
<1> QED BY <1>2, <1>4, <1>5, <1>6

LEMMA RemovedCalm ==
  ASSUME NEW x \in Machine, NEW k \in Key, x.row[k].state = "mpremove"
  PROVE  LET y == Drop(Write(x, k, "removed"), k) IN
         CalmStep(x, y, k) /\ y.row[k].state = "removed" /\ ~y.dist[k].live
<1> DEFINE w == Write(x, k, "removed")
           y == Drop(w, k)
<1>1. "removed" \in State \ {"none", "created", "active"} /\ Stage("mpremove") <= Stage("removed") BY DEF State, Stage
<1>2. CalmStep(x, w, k) /\ w.row[k].state = "removed" /\ w.dist = x.dist BY <1>1, WriteCalm, NoAnchor
<1>3. w \in Machine BY <1>2 DEF CalmStep, OwnStep
<1> HIDE DEF w
<1>4. CalmStep(w, y, k) /\ y.row = w.row /\ ~y.dist[k].live BY <1>3, DropStep, DropType, StepCalm
<1> HIDE DEF y
<1>5. CalmStep(x, y, k) BY <1>2, <1>4, CalmOn
<1> QED BY <1>2, <1>4, <1>5 DEF w, y

\* A change of a distribution alone.
LEMMA DistCalm ==
  ASSUME NEW x \in Machine, NEW k \in Key, NEW d \in Dist
  PROVE  LET y == [x EXCEPT !.dist = [x.dist EXCEPT ![k] = d]] IN
         CalmStep(x, y, k) /\ y.row = x.row /\ y.dist[k] = d /\ y.present = x.present /\ y.since = x.since
<1> DEFINE y == [x EXCEPT !.dist = [x.dist EXCEPT ![k] = d]]
<1>1. /\ [x.dist EXCEPT ![k] = d] \in [Key -> Dist] /\ [x.dist EXCEPT ![k] = d][k] = d
      /\ \A o \in Key \ {k} : [x.dist EXCEPT ![k] = d][o] = x.dist[o]
  BY DEF Machine
<1>2. /\ OwnStep(x, y, k) /\ y.row = x.row /\ y.dist[k] = d /\ y.present = x.present /\ y.since = x.since
  BY <1>1 DEF Machine, OwnStep, Keeps
<1> HIDE DEF y
<1>3. Grows(x, y, k) /\ Rests(x, y, k) BY <1>2, StageNat DEF Grows, Rests, Anchors, OfRole, Keys, FitsAt, Sep
<1> QED BY <1>2, <1>3 DEF CalmStep, y

\* What a confirmation of k that counts makes of its row and its distribution.
Closes(x, y, k) ==
  /\ y.row[k].state \in Accepted => x.row[k].state \in Accepted \/ (x.row[k].state = "mpdist" /\ ~x.dist[k].removal)
  /\ y.dist[k].live => /\ x.dist[k].live /\ y.dist[k].expected = x.dist[k].expected /\ y.dist[k].removal = x.dist[k].removal
                       /\ y.dist[k].applied = x.dist[k].applied \cup x.dist[k].expected

LEMMA AppliedCalm ==
  ASSUME NEW x \in Machine, NEW k \in Key, x.dist[k].live
  PROVE  CalmStep(x, Applied(x, k), k) /\ Closes(x, Applied(x, k), k)
<1> DEFINE d == [x.dist[k] EXCEPT !.applied = @ \cup x.dist[k].expected]
           y == [x EXCEPT !.dist = [x.dist EXCEPT ![k] = d]]
           u == Applied(x, k)
<1>1. /\ d \in Dist /\ d.live /\ d.removal = x.dist[k].removal /\ d.expected = x.dist[k].expected
      /\ d.rejected = x.dist[k].rejected /\ d.applied = x.dist[k].applied \cup x.dist[k].expected
  BY RowType DEF Dist
<1>2. [x EXCEPT !.dist[k].applied = @ \cup x.dist[k].expected] = y
  <2>1. x.dist[k] \in Dist BY RowType
  <2> QED BY <2>1 DEF Machine, Dist
<1> HIDE DEF d
<1>3. CalmStep(x, y, k) /\ y.row = x.row /\ y.dist[k] = d BY <1>1, DistCalm
<1>4. u = CASE d.rejected \/ (d.removal /\ x.row[k].state # "mpremove") -> y
            [] ~d.rejected /\ d.removal /\ x.row[k].state = "mpremove" -> Drop(Write(y, k, "removed"), k)
            [] ~d.rejected /\ ~d.removal /\ x.row[k].state = "mpdist" -> Accept(y, k)
            [] OTHER -> Drop(y, k)
  <2> HIDE DEF y
  <2> QED BY <1>2, <1>3 DEF Applied
<1>5. y \in Machine BY <1>3 DEF CalmStep, OwnStep
<1> HIDE DEF y, u
<1>6. "mpdist" \notin Accepted /\ "mpremove" \notin Accepted /\ "removed" \notin Accepted BY DEF Accepted
<1>7. CASE d.rejected \/ (d.removal /\ x.row[k].state # "mpremove")
  <2>1. u = y BY <1>4, <1>7
  <2> QED BY <1>1, <1>3, <2>1 DEF Closes, u
<1>8. CASE ~d.rejected /\ d.removal /\ x.row[k].state = "mpremove"
  <2>1. u = Drop(Write(y, k, "removed"), k) BY <1>4, <1>8
  <2>2. CalmStep(y, u, k) /\ u.row[k].state = "removed" /\ ~u.dist[k].live BY <1>3, <1>5, <1>8, <2>1, RemovedCalm
  <2> QED BY <1>3, <1>6, <2>2, CalmOn DEF Closes, u
<1>9. CASE ~d.rejected /\ ~d.removal /\ x.row[k].state = "mpdist"
  <2>1. u = Accept(y, k) BY <1>4, <1>9
  <2>2. CalmStep(y, u, k) /\ (u.dist[k] = y.dist[k] \/ ~u.dist[k].live) BY <1>3, <1>5, <1>9, <2>1, AcceptCalm
  <2> QED BY <1>1, <1>3, <1>9, <2>2, CalmOn DEF Closes, u
<1>10. CASE /\ ~(d.rejected \/ (d.removal /\ x.row[k].state # "mpremove"))
            /\ ~(~d.rejected /\ d.removal /\ x.row[k].state = "mpremove")
            /\ ~(~d.rejected /\ ~d.removal /\ x.row[k].state = "mpdist")
  <2>1. u = Drop(y, k) BY <1>4, <1>10
  <2>2. CalmStep(y, u, k) /\ u.row = y.row /\ ~u.dist[k].live BY <1>5, <2>1, DropStep, DropType, StepCalm
  <2> QED BY <1>3, <2>2, CalmOn DEF Closes, u
<1> QED BY <1>7, <1>8, <1>9, <1>10

LEMMA NobodyCalm ==
  ASSUME NEW x \in Machine, NEW k \in Key, x.dist[k].live, x.dist[k].expected = {},
         x.dist[k].removal => x.row[k].state \in {"mpremove", "removed"}
  PROVE  CalmStep(x, NobodyToWaitFor(x, k), k) /\ Closes(x, NobodyToWaitFor(x, k), k)
<1> DEFINE u == NobodyToWaitFor(x, k)
<1>1. x.dist[k].applied = x.dist[k].applied \cup x.dist[k].expected OBVIOUS
<1>2. "mpdist" \notin Accepted /\ "mpremove" \notin Accepted /\ "removed" \notin Accepted BY DEF Accepted
<1>3. CASE x.row[k].state = "mpdist"
  <2>1. u = Accept(x, k) BY <1>3 DEF NobodyToWaitFor
  <2> HIDE DEF u
  <2>2. CalmStep(x, u, k) /\ (u.dist[k] = x.dist[k] \/ ~u.dist[k].live) BY <1>3, <2>1, AcceptCalm
  <2>3. Closes(x, u, k) BY <1>1, <1>3, <2>2 DEF Closes
  <2> QED BY <2>2, <2>3 DEF u
<1>4. CASE x.row[k].state = "mpremove"
  <2>1. u = Drop(Write(x, k, "removed"), k) BY <1>4 DEF NobodyToWaitFor
  <2> HIDE DEF u
  <2>2. CalmStep(x, u, k) /\ u.row[k].state = "removed" /\ ~u.dist[k].live BY <1>4, <2>1, RemovedCalm
  <2>3. Closes(x, u, k) BY <1>2, <2>2 DEF Closes
  <2> QED BY <2>2, <2>3 DEF u
<1>5. CASE x.row[k].state \notin {"mpdist", "mpremove"}
  <2>1. u = x BY <1>5 DEF NobodyToWaitFor
  <2> HIDE DEF u
  <2>2. CalmStep(x, u, k) BY <2>1, SameStep, StepCalm
  <2>3. Closes(x, u, k) BY <1>1, <2>1 DEF Closes
  <2> QED BY <2>2, <2>3 DEF u
<1> QED BY <1>3, <1>4, <1>5

\* A confirmation that counts says that the signers have the key, or is of
\* its removal, or a refusal.
LEMMA ConfirmedCalm ==
  ASSUME NEW x \in Machine, NEW a \in Answer, NEW slow,
         x.dist[a.key].live /\ x.dist[a.key].removal => x.row[a.key].state \in {"mpremove", "removed"}
  PROVE  LET y == Confirmed(x, a, slow) IN
         /\ CalmStep(x, y, a.key)
         /\ \/ Deals(x, y, a.key)
            \/ /\ Closes(x, y, a.key) /\ x.dist[a.key].live
               /\ x.dist[a.key].expected = {} \/ ((x.dist[a.key].removal <=> a.kind = "removed") /\ a.kind # "rejected")
<1> DEFINE k == a.key
           y == Confirmed(x, a, slow)
<1>1. k \in Key BY DEF Answer
<1>2. CASE ~Counts(x.dist[k], a, slow)
  <2>1. y = x BY <1>2 DEF Confirmed
  <2> HIDE DEF y
  <2>2. KeyStep(x, y, k) BY <1>1, <2>1, SameStep
  <2>3. CalmStep(x, y, k) /\ Deals(x, y, k) BY <2>2, StepCalm DEF KeyStep, Moves
  <2> QED BY <2>3 DEF y, k
<1>3. CASE Counts(x.dist[k], a, slow)
  <2>1. x.dist[k].live /\ (a.kind = "rejected" \/ x.dist[k].removal = (a.kind = "removed")) BY <1>3 DEF Counts
  <2>2. CASE x.dist[k].expected = {}
    <3>1. y = NobodyToWaitFor(x, k) BY <1>3, <2>2 DEF Confirmed
    <3> HIDE DEF y
    <3>2. CalmStep(x, y, k) /\ Closes(x, y, k) BY <1>1, <2>1, <2>2, <3>1, NobodyCalm
    <3> QED BY <2>1, <2>2, <3>2 DEF y, k
  <2>3. CASE x.dist[k].expected # {} /\ a.kind = "rejected"
    <3> DEFINE d == [x.dist[k] EXCEPT !.rejected = TRUE]
    <3>1. /\ d \in Dist /\ d.live /\ d.removal = x.dist[k].removal /\ d.expected = x.dist[k].expected
          /\ d.applied = x.dist[k].applied
      BY <1>1, <2>1, RowType DEF Dist
    <3>2. y = [x EXCEPT !.dist = [x.dist EXCEPT ![k] = d]]
      <4>1. y = [x EXCEPT !.dist[k].rejected = TRUE] BY <1>3, <2>3 DEF Confirmed
      <4>2. x.dist[k] \in Dist BY <1>1, RowType
      <4> HIDE DEF y
      <4> QED BY <1>1, <4>1, <4>2 DEF Machine, Dist
    <3> HIDE DEF d, y
    <3>3. CalmStep(x, y, k) /\ y.row = x.row /\ y.dist[k] = d BY <1>1, <3>1, <3>2, DistCalm
    <3>4. Deals(x, y, k) BY <2>1, <3>1, <3>3 DEF Deals
    <3> QED BY <3>3, <3>4 DEF y, k
  <2>4. CASE x.dist[k].expected # {} /\ a.kind # "rejected"
    <3>1. y = Applied(x, k) BY <1>3, <2>4 DEF Confirmed
    <3> HIDE DEF y
    <3>2. CalmStep(x, y, k) /\ Closes(x, y, k) BY <1>1, <2>1, <3>1, AppliedCalm
    <3>3. x.dist[k].removal <=> a.kind = "removed" BY <2>1, <2>4
    <3> QED BY <2>1, <2>4, <3>2, <3>3 DEF y, k
  <2> QED BY <2>2, <2>3, <2>4
<1> QED BY <1>2, <1>3

\* What following the signers makes of a key's row and its distribution.
Follows(x, y, k) ==
  /\ y.row[k].state \in Accepted => x.row[k].state \in Accepted \/ (x.row[k].state = "mpdist" /\ x.others \subseteq x.dist[k].applied)
  /\ y.dist[k].live => /\ x.others \subseteq y.dist[k].expected \cup y.dist[k].applied
                       /\ y.dist[k].applied = x.dist[k].applied /\ y.dist[k].removal = x.dist[k].removal

LEMMA FollowCalm ==
  ASSUME NEW x \in Machine, NEW k \in Key, x.dist[k].live
  PROVE  CalmStep(x, Follow(x, k), k) /\ Follows(x, Follow(x, k), k)
<1> DEFINE added == x.others \ (x.dist[k].expected \cup x.dist[k].applied)
           d == [x.dist[k] EXCEPT !.expected = (@ \cap x.others) \cup added]
           y == [x EXCEPT !.dist = [x.dist EXCEPT ![k] = d]]
           z == IF added # {} THEN Resend(y, k) ELSE y
           met == ~z.dist[k].rejected /\ z.dist[k].expected \subseteq z.dist[k].applied
           u == Follow(x, k)
<1>1. /\ d \in Dist /\ d.live /\ d.removal = x.dist[k].removal /\ d.applied = x.dist[k].applied
      /\ x.others \subseteq d.expected \cup d.applied
  <2>1. x.others \subseteq Signer /\ x.dist[k] \in Dist BY RowType DEF Machine
  <2> QED BY <2>1 DEF Dist
<1>2. [x EXCEPT !.dist[k].expected = (@ \cap x.others) \cup added] = y
  <2>1. x.dist[k] \in Dist BY RowType
  <2> HIDE DEF added
  <2> QED BY <2>1 DEF Machine, Dist
<1>3. u = CASE met /\ x.row[k].state = "mpdist" -> Accept(z, k)
            [] met /\ x.row[k].state = "mpremove" /\ x.dist[k].removal -> Drop(Write(z, k, "removed"), k)
            [] OTHER -> z
  <2> HIDE DEF y
  <2> QED BY <1>2 DEF Follow
<1> HIDE DEF d, u
<1>4. CalmStep(x, y, k) /\ y.row = x.row /\ y.dist[k] = d BY <1>1, DistCalm
<1>5. y \in Machine BY <1>4 DEF CalmStep, OwnStep
<1> HIDE DEF added, y
<1>6. CalmStep(y, z, k) /\ z.row = y.row /\ z.dist = y.dist BY <1>5, ResendStep, ResendType, SameStep, StepCalm
<1>7. z \in Machine BY <1>6 DEF CalmStep, OwnStep
<1>8. CalmStep(x, z, k) BY <1>4, <1>6, CalmOn
<1>9. met => x.others \subseteq d.applied BY <1>1, <1>4, <1>6
<1> HIDE DEF z, met
<1>10. "removed" \notin Accepted BY DEF Accepted
<1>11. CASE met /\ x.row[k].state = "mpdist"
  <2>1. u = Accept(z, k) BY <1>3, <1>11
  <2>2. CalmStep(z, u, k) /\ (u.dist[k] = z.dist[k] \/ ~u.dist[k].live) BY <1>4, <1>6, <1>7, <1>11, <2>1, AcceptCalm
  <2>3. CalmStep(x, u, k) BY <1>8, <2>2, CalmOn
  <2>4. Follows(x, u, k) BY <1>1, <1>4, <1>6, <1>9, <1>11, <2>2 DEF Follows
  <2> QED BY <2>3, <2>4 DEF u
<1>12. CASE met /\ x.row[k].state = "mpremove" /\ x.dist[k].removal
  <2>1. u = Drop(Write(z, k, "removed"), k) BY <1>3, <1>12
  <2>2. CalmStep(z, u, k) /\ u.row[k].state = "removed" /\ ~u.dist[k].live BY <1>4, <1>6, <1>7, <1>12, <2>1, RemovedCalm
  <2>3. CalmStep(x, u, k) BY <1>8, <2>2, CalmOn
  <2>4. Follows(x, u, k) BY <1>10, <2>2 DEF Follows
  <2> QED BY <2>3, <2>4 DEF u
<1>13. CASE ~(met /\ x.row[k].state = "mpdist") /\ ~(met /\ x.row[k].state = "mpremove" /\ x.dist[k].removal)
  <2>1. u = z BY <1>3, <1>13
  <2>2. Follows(x, u, k) BY <1>1, <1>4, <1>6, <2>1 DEF Follows
  <2> QED BY <1>8, <2>1, <2>2 DEF u
<1> QED BY <1>11, <1>12, <1>13

\* What a change of the signers makes of a key's row and its distribution.
Led(x, y, k) ==
  /\ y.row[k].state \in Accepted =>
       \/ x.row[k].state \in Accepted \/ x.others = {}
       \/ x.dist[k].live /\ Stage(x.row[k].state) <= 2 /\ x.others \subseteq x.dist[k].applied
  /\ y.dist[k].live =>
       /\ x.others \subseteq y.dist[k].expected \cup y.dist[k].applied
       /\ \/ x.dist[k].live /\ y.dist[k].applied = x.dist[k].applied /\ y.dist[k].removal = x.dist[k].removal
          \/ /\ y.dist[k].applied = {} /\ Stage(y.row[k].state) >= 2
             /\ y.dist[k].removal => Stage(y.row[k].state) >= 7

LEMMA OwedStep ==
  ASSUME NEW x \in Machine, NEW k \in Key, Owed(x, k)
  PROVE  KeyStep(x, Resend(StartDistribution(x, k, FALSE), k), k)
<1> DEFINE y == StartDistribution(x, k, FALSE)
<1>1. KeyStep(x, y, k)
  <2>1. Stage(x.row[k].state) >= 2 BY DEF Owed, Stage
  <2>2. FALSE # TRUE OBVIOUS
  <2> QED BY <2>1, <2>2, StartStep
<1>2. y \in Machine BY <1>1 DEF KeyStep, OwnStep
<1> HIDE DEF y
<1>3. KeyStep(y, Resend(y, k), k) BY <1>2, ResendStep
<1>4. KeyStep(x, Resend(y, k), k) BY <1>1, <1>3, StepOn
<1> QED BY <1>4 DEF y

LEMMA SignersCalm ==
  ASSUME NEW x \in Machine
  PROVE  LET y == SignersChanged(x) IN
         /\ y \in Machine /\ y.others = x.others
         /\ \A k \in Key : Grows(x, y, k) /\ Rests(x, y, k) /\ Led(x, y, k)
<1> DEFINE owed == IF x.others \subseteq x.known THEN {} ELSE {k \in Key : Owed(x, k)}
           of == [k \in Key |-> IF k \in owed THEN Resend(StartDistribution(x, k, FALSE), k) ELSE x]
           y == Merged(x, of)
           live == {k \in Key : y.dist[k].live}
           to == [k \in Key |-> IF k \in live THEN Follow(y, k) ELSE y]
           w == Merged(y, to)
           v == ApplyForeign(w)
           u == [v EXCEPT !.known = x.others]
<1>1. SignersChanged(x) = u BY Zenon DEF SignersChanged, ForEach
<1>2. owed \subseteq Key /\ \A k \in owed : Owed(x, k) OBVIOUS
<1>3. DOMAIN of = Key /\ of = [k \in Key |-> of[k]] OBVIOUS
<1>4. \A k \in Key : of[k] = IF k \in owed THEN Resend(StartDistribution(x, k, FALSE), k) ELSE x OBVIOUS
<1> HIDE DEF owed, of
<1>5. \A k \in Key : KeyStep(x, of[k], k) BY <1>2, <1>4, OwedStep, SameStep
<1>6. Steps(x, y) /\ y \in Machine BY <1>3, <1>5, MergedSteps DEF Steps
<1> HIDE DEF y
<1>7. live \subseteq Key /\ \A k \in Key : k \in live <=> y.dist[k].live OBVIOUS
<1>8. DOMAIN to = Key /\ to = [k \in Key |-> to[k]] OBVIOUS
<1>9. \A k \in Key : (k \in live => to[k] = Follow(y, k)) /\ (k \notin live => to[k] = y) OBVIOUS
<1> HIDE DEF live, to
<1>10. \A k \in live : CalmStep(y, to[k], k) /\ Follows(y, to[k], k) BY <1>6, <1>7, <1>9, FollowCalm
<1>11. \A k \in Key \ live : KeyStep(y, to[k], k) BY <1>6, <1>9, SameStep
<1>12. \A k \in Key : CalmStep(y, to[k], k) BY <1>10, <1>11, StepCalm
<1>13. to \in [Key -> Machine]
  <2>1. \A k \in Key : to[k] \in Machine BY <1>12 DEF CalmStep, OwnStep
  <2> QED BY <1>8, <2>1
<1>14. w \in Machine /\ Keeps(y, w) /\ \A k \in Key : Agree(to[k], w, k)
  <2>1. \A k \in Key : OwnStep(y, to[k], k) BY <1>12 DEF CalmStep
  <2> QED BY <1>6, <1>13, <2>1, MergedParts
<1> HIDE DEF w
<1>15. Steps(w, v) /\ v \in Machine BY <1>14, ForeignSteps DEF Steps
<1> HIDE DEF v
<1>16. x.others \subseteq Signer BY DEF Machine
<1>17. /\ u \in Machine /\ u.others = v.others /\ u.row = v.row /\ u.dist = v.dist
       /\ u.present = v.present /\ u.since = v.since
  BY <1>15, <1>16 DEF Machine
<1> HIDE DEF u
<1>18. Steps(v, u) BY <1>15, <1>17, StepsQuiet
<1>19. Steps(w, u) BY <1>14, <1>15, <1>18, StepsOn
<1>20. y.others = x.others /\ w.others = x.others /\ u.others = x.others
  BY <1>6, <1>14, <1>19 DEF Steps, Keeps
<1>21. ASSUME NEW k \in Key PROVE Grows(x, u, k) /\ Rests(x, u, k) /\ Led(x, u, k)
  <2>1. Moves(x, y, k) /\ Moves(w, u, k) BY <1>6, <1>19 DEF Steps
  <2>2. w.row[k] = to[k].row[k] /\ w.dist[k] = to[k].dist[k] /\ w.present[k] = to[k].present[k] /\ w.since[k] = to[k].since[k]
    BY <1>14 DEF Agree
  <2>3. Grows(y, w, k) /\ Rests(y, w, k)
    BY <1>12, <2>2 DEF CalmStep, Grows, Rests, Anchors, OfRole, Keys, FitsAt, Sep
  <2>4. /\ Stage(x.row[k].state) <= Stage(y.row[k].state) /\ Stage(y.row[k].state) <= Stage(w.row[k].state)
        /\ Stage(w.row[k].state) <= Stage(u.row[k].state)
    BY <2>1, <2>3 DEF Moves, Grows
  <2>5. Stage(x.row[k].state) \in 0..8 /\ Stage(y.row[k].state) \in 0..8 /\ Stage(w.row[k].state) \in 0..8 /\ Stage(u.row[k].state) \in 0..8
    BY StageNat
  <2>6. x.row[k].state # "none" => y.row[k].state # "none" BY <1>6, <2>4, <2>5, StageOf, RowType
  <2>7. y.row[k].state # "none" => w.row[k].state # "none" BY <1>6, <1>14, <2>4, <2>5, StageOf, RowType
  <2>8. Grows(x, u, k)
    <3>1. Stage(x.row[k].state) <= Stage(u.row[k].state) BY <2>4, <2>5
    <3> QED BY <2>1, <2>3, <2>6, <2>7, <3>1 DEF Moves, Grows
  <2>9. Rests(x, u, k)
    <3>1. Stage(u.row[k].state) <= 4 => Stage(w.row[k].state) <= 4 /\ Stage(y.row[k].state) <= 4 BY <2>4, <2>5
    <3> QED BY <2>1, <2>3, <3>1 DEF Moves, Rests
  <2>a. u.row[k].state = w.row[k].state /\ u.dist[k] = w.dist[k]
    <3>1. v.row = w.row /\ v.dist = w.dist
      BY <1>14 DEF v, ApplyForeign, Machine
    <3> QED BY <1>17, <3>1
  <2>10. Led(x, u, k)
    <3>1. CASE k \in live
      <4>1. Follows(y, w, k) BY <1>10, <2>2, <3>1 DEF Follows
      <4>2. y.dist[k].live BY <1>7, <3>1
      <4>3. \/ /\ x.dist[k].live /\ y.dist[k].applied = x.dist[k].applied /\ y.dist[k].removal = x.dist[k].removal
            \/ /\ y.dist[k].applied = {}
               /\ Stage(y.row[k].state) >= 2 /\ (y.dist[k].removal => Stage(y.row[k].state) >= 7)
        BY <2>1, <4>2 DEF Moves, Deals
      <4>4. (Stage(y.row[k].state) >= 2 => Stage(u.row[k].state) >= 2) /\ (Stage(y.row[k].state) >= 7 => Stage(u.row[k].state) >= 7)
        BY <2>4, <2>5
      <4>5. y.row[k].state = "mpdist" => Stage(x.row[k].state) <= 2 BY <2>4, <2>5 DEF Stage
      <4>6. u.row[k].state \in Accepted =>
              \/ x.row[k].state \in Accepted \/ x.others = {}
              \/ x.dist[k].live /\ Stage(x.row[k].state) <= 2 /\ x.others \subseteq x.dist[k].applied
        <5>1. y.row[k].state \in Accepted => x.row[k].state \in Accepted \/ x.others = {} BY <2>1 DEF Moves, Deals
        <5> QED BY <1>20, <2>a, <4>1, <4>3, <4>5, <5>1 DEF Follows
      <4>7. u.dist[k].live =>
              /\ x.others \subseteq u.dist[k].expected \cup u.dist[k].applied
              /\ u.dist[k].applied = y.dist[k].applied /\ u.dist[k].removal = y.dist[k].removal
        BY <1>20, <2>a, <4>1 DEF Follows
      <4> QED BY <4>3, <4>4, <4>6, <4>7 DEF Led
    <3>2. CASE k \notin live
      <4>1. u.dist[k] = y.dist[k] /\ ~y.dist[k].live /\ u.row[k].state = y.row[k].state
        BY <1>7, <1>9, <2>2, <2>a, <3>2
      <4>2. y.row[k].state \in Accepted => x.row[k].state \in Accepted \/ x.others = {} BY <2>1 DEF Moves, Deals
      <4> QED BY <4>1, <4>2 DEF Led
    <3> QED BY <3>1, <3>2
  <2> QED BY <2>8, <2>9, <2>10
<1>22. u \in Machine BY <1>17
<1> QED BY <1>1, <1>20, <1>21, <1>22

LEMMA EveryUpTo ==
  ASSUME NEW N \in Nat, NEW T, 0 \in T, \A n \in 0..(N - 1) : n \in T => n + 1 \in T
  PROVE  \A n \in 0..N : n \in T
<1> DEFINE U == {n \in 0..N : n \notin T}
<1>1. CASE U # {}
  <2>1. U \in SUBSET Nat /\ IsFiniteSet(U)
    <3>1. IsFiniteSet(0..N) BY FS_Interval
    <3>2. U \subseteq 0..N /\ 0..N \subseteq Nat OBVIOUS
    <3> HIDE DEF U
    <3>3. IsFiniteSet(U) BY <3>1, <3>2, FS_Subset
    <3> QED BY <3>2, <3>3
  <2> DEFINE n == Min(U)
  <2>2. n \in U /\ \A i \in U : n <= i
    <3> HIDE DEF U
    <3> QED BY <1>1, <2>1, MinOf
  <2> HIDE DEF n
  <2>3. n \in 0..N /\ n \notin T /\ n # 0 BY <2>2
  <2>4. n - 1 \in 0..(N - 1) /\ ~(n <= n - 1) BY <2>3
  <2>5. n - 1 \in T BY <2>2, <2>4
  <2>6. n \in T BY <2>3, <2>4, <2>5
  <2> QED BY <2>3, <2>6
<1> QED BY <1>1

\* r is made of s at places in I, in their order.
Picks(r, s, I, n) ==
  \E at \in [1..Len(r) -> 1..n] :
    /\ \A i \in 1..Len(r) : r[i] = s[at[i]] /\ at[i] \in I
    /\ \A i, j \in 1..Len(r) : i < j => at[i] < at[j]

LEMMA SubsequencePicks ==
  ASSUME NEW E, NEW s \in Seq(E), NEW I
  PROVE  Subsequence(s, I) \in Seq(E) /\ Picks(Subsequence(s, I), s, I, Len(s))
<1> DEFINE N == Len(s)
           Is(f) == f = [n \in 0..N |-> IF n = 0 THEN <<>> ELSE IF n \in I THEN Append(f[n - 1], s[n]) ELSE f[n - 1]]
           f == CHOOSE g : Is(g)
<1>1. Subsequence(s, I) = f[N] BY DEF Subsequence
<1>2. N \in Nat OBVIOUS
<1>3. \E g : Is(g)
  <2> DEFINE Up(g, n) == g = [i \in 0..n |-> IF i = 0 THEN <<>> ELSE IF i \in I THEN Append(g[i - 1], s[i]) ELSE g[i - 1]]
             T == {n \in 0..N : \E g : Up(g, n)}
  <2>1. 0 \in T
    <3>1. Up([i \in 0..0 |-> <<>>], 0) OBVIOUS
    <3>2. 0 \in 0..N BY <1>2
    <3> HIDE DEF Up, N
    <3> QED BY <3>1, <3>2
  <2>2. ASSUME NEW n \in 0..(N - 1), n \in T PROVE n + 1 \in T
    <3>1. PICK g : Up(g, n) BY <2>2
    <3> DEFINE h == [i \in 0..(n + 1) |-> IF i <= n THEN g[i] ELSE IF n + 1 \in I THEN Append(g[n], s[n + 1]) ELSE g[n]]
    <3>2. \A i \in 0..n : h[i] = g[i] OBVIOUS
    <3>3. h[n + 1] = IF n + 1 \in I THEN Append(h[n], s[n + 1]) ELSE h[n] OBVIOUS
    <3>4. \A i \in 0..n : g[i] = IF i = 0 THEN <<>> ELSE IF i \in I THEN Append(g[i - 1], s[i]) ELSE g[i - 1] BY <3>1
    <3>5. \A i \in 1..n : i - 1 \in 0..n OBVIOUS
    <3>6. h = [i \in 0..(n + 1) |-> h[i]] OBVIOUS
    <3> HIDE DEF h
    <3>7. \A i \in 0..(n + 1) : h[i] = IF i = 0 THEN <<>> ELSE IF i \in I THEN Append(h[i - 1], s[i]) ELSE h[i - 1]
      <4> TAKE i \in 0..(n + 1)
      <4>1. CASE i = n + 1 BY <3>3, <4>1
      <4>2. CASE i # n + 1
        <5>1. i \in 0..n BY <4>2
        <5>2. i # 0 => h[i - 1] = g[i - 1] BY <3>2, <3>5, <5>1
        <5> QED BY <3>2, <3>4, <5>1, <5>2
      <4> QED BY <4>1, <4>2
    <3>8. Up(h, n + 1)
      <4>1. [i \in 0..(n + 1) |-> h[i]] = [i \in 0..(n + 1) |-> IF i = 0 THEN <<>> ELSE IF i \in I THEN Append(h[i - 1], s[i]) ELSE h[i - 1]]
        BY <3>7
      <4> QED BY <3>6, <4>1
    <3> HIDE DEF Up
    <3>9. n + 1 \in 0..N BY <1>2
    <3> QED BY <3>8, <3>9
  <2> HIDE DEF T
  <2>3. N \in T
    <3> HIDE DEF N
    <3>1. \A n \in 0..N : n \in T BY <1>2, <2>1, <2>2, EveryUpTo
    <3> QED BY <1>2, <3>1
  <2> QED BY <2>3 DEF T
<1>4. Is(f)
  <2> HIDE DEF Is
  <2> QED BY <1>3
<1> HIDE DEF f
<1>5. f[0] = <<>> /\ \A n \in 1..N : f[n] = IF n \in I THEN Append(f[n - 1], s[n]) ELSE f[n - 1]
  <2>1. \A n \in 0..N : f[n] = IF n = 0 THEN <<>> ELSE IF n \in I THEN Append(f[n - 1], s[n]) ELSE f[n - 1] BY <1>4
  <2> QED BY <1>2, <2>1
<1> DEFINE T == {n \in 0..N : f[n] \in Seq(E) /\ Picks(f[n], s, I, n)}
<1>6. 0 \in T
  <2>1. Picks(<<>>, s, I, 0)
    <3> DEFINE at == [i \in 1..0 |-> 0]
    <3>1. Len(<<>>) = 0 /\ 1..0 = {} OBVIOUS
    <3>2. at \in [1..Len(<<>>) -> 1..0] BY <3>1
    <3> QED BY <3>1, <3>2 DEF Picks
  <2>2. 0 \in 0..N /\ <<>> \in Seq(E) BY <1>2
  <2>3. f[0] \in Seq(E) /\ Picks(f[0], s, I, 0) BY <1>5, <2>1, <2>2
  <2> HIDE DEF N
  <2> QED BY <2>2, <2>3
<1>7. ASSUME NEW n \in 0..(N - 1), n \in T PROVE n + 1 \in T
  <2> DEFINE r == f[n]
             q == f[n + 1]
             e == s[n + 1]
  <2>1. n \in Nat /\ n + 1 \in 1..N /\ (n + 1) - 1 = n BY <1>2
  <2>2. q = IF n + 1 \in I THEN Append(r, e) ELSE r BY <1>5, <2>1
  <2>3. r \in Seq(E) /\ e \in E BY <1>7, <2>1
  <2>4. PICK at \in [1..Len(r) -> 1..n] :
          /\ \A i \in 1..Len(r) : r[i] = s[at[i]] /\ at[i] \in I
          /\ \A i, j \in 1..Len(r) : i < j => at[i] < at[j]
    BY <1>7 DEF Picks
  <2> HIDE DEF r, q
  <2>5. CASE n + 1 \in I
    <3> DEFINE to == [i \in 1..(Len(r) + 1) |-> IF i = Len(r) + 1 THEN n + 1 ELSE at[i]]
    <3>1. q = Append(r, e) /\ Len(q) = Len(r) + 1 /\ q \in Seq(E) BY <2>2, <2>3, <2>5
    <3>2. \A i \in 1..Len(r) : q[i] = r[i] /\ to[i] = at[i] /\ at[i] \in 1..n BY <2>3, <3>1
    <3>3. q[Len(r) + 1] = e /\ to[Len(r) + 1] = n + 1 /\ Len(r) \in Nat BY <2>3, <3>1
    <3>4. to \in [1..Len(q) -> 1..(n + 1)]
      <4>1. \A i \in 1..(Len(r) + 1) : to[i] \in 1..(n + 1) BY <2>1, <3>2, <3>3
      <4> QED BY <3>1, <4>1
    <3> HIDE DEF to
    <3>5. \A i \in 1..Len(q) : q[i] = s[to[i]] /\ to[i] \in I
      <4> TAKE i \in 1..Len(q)
      <4>1. CASE i = Len(r) + 1 BY <2>5, <3>3, <4>1 DEF e
      <4>2. CASE i # Len(r) + 1
        <5>1. i \in 1..Len(r) BY <3>1, <3>3, <4>2
        <5> QED BY <2>4, <3>2, <5>1
      <4> QED BY <4>1, <4>2
    <3>6. \A i, j \in 1..Len(q) : i < j => to[i] < to[j]
      <4> TAKE i, j \in 1..Len(q)
      <4>1. CASE j = Len(r) + 1 /\ i < j
        <5>1. i \in 1..Len(r) BY <3>1, <3>3, <4>1
        <5>2. to[i] \in 1..n BY <3>2, <5>1
        <5> QED BY <2>1, <3>3, <4>1, <5>2
      <4>2. CASE j # Len(r) + 1 /\ i < j
        <5>0. i \in Nat /\ j \in Nat /\ i < j /\ j <= Len(r) + 1 /\ j # Len(r) + 1 /\ 1 <= i BY <3>1, <3>3, <4>2
        <5>1. i \in 1..Len(r) /\ j \in 1..Len(r) BY <3>3, <5>0
        <5> QED BY <2>4, <3>2, <4>2, <5>1
      <4> QED BY <4>1, <4>2
    <3>7. Picks(q, s, I, n + 1) BY <3>4, <3>5, <3>6 DEF Picks
    <3>8. n + 1 \in 0..N BY <1>2, <2>1
    <3> HIDE DEF N
    <3> QED BY <3>1, <3>7, <3>8 DEF q
  <2>6. CASE n + 1 \notin I
    <3>1. q = r BY <2>2, <2>6
    <3>2. at \in [1..Len(r) -> 1..(n + 1)] BY <2>1
    <3>3. Picks(q, s, I, n + 1) BY <2>4, <3>1, <3>2 DEF Picks
    <3> QED BY <2>1, <2>3, <3>1, <3>3 DEF q
  <2> QED BY <2>5, <2>6
<1> HIDE DEF T
<1>8. N \in T
  <2> HIDE DEF N
  <2>1. \A n \in 0..N : n \in T BY <1>2, <1>6, <1>7, EveryUpTo
  <2> QED BY <1>2, <2>1
<1> QED BY <1>1, <1>8 DEF T
-----------------------------------------------------------------------------
(* The line of the DS TTLs that run, after a step of the driver. *)

Entry == [key : Key \cup {0}, set : SUBSET Key]

LEMMA ToSeq ==
  ASSUME NEW S, IsFiniteSet(S)
  PROVE  /\ SetToSeq(S) \in Seq(S)
         /\ \A i, j \in 1..Len(SetToSeq(S)) : SetToSeq(S)[i] = SetToSeq(S)[j] => i = j
<1> DEFINE n == Cardinality(S)
           Is(f) == f \in [1..n -> S] /\ IsInjective(f)
<1>1. n \in Nat /\ ExistsBijection(1..n, S) BY FS_CardinalityType
<1>2. PICK f \in Bijection(1..n, S) : TRUE BY <1>1 DEF ExistsBijection
<1>3. Is(f) BY <1>2 DEF Bijection, Injection
<1>4. SetToSeq(S) = CHOOSE g : Is(g)
  <2>1. SetToSeq(S) = CHOOSE g \in [1..n -> S] : IsInjective(g) BY DEF SetToSeq
  <2> QED BY <2>1
<1>5. Is(SetToSeq(S))
  <2> HIDE DEF Is
  <2> QED BY <1>3, <1>4
<1> DEFINE s == SetToSeq(S)
<1>6. s \in [1..n -> S] /\ IsInjective(s) BY <1>5
<1> HIDE DEF s, n
<1>7. s \in Seq(S) /\ Len(s) = n BY <1>1, <1>6
<1>8. \A i, j \in 1..n : s[i] = s[j] => i = j BY <1>6 DEF IsInjective
<1> QED BY <1>7, <1>8 DEF s

\* r is what runs of l under x, in its order, and then a clock of each key
\* that has none.
Follows1(x, l, r, n, at) ==
  /\ n \in 0..Len(r) /\ at \in [1..n -> DOMAIN l]
  /\ \A i \in 1..n : r[i] = l[at[i]] /\ Runs(x, r[i])
  /\ \A i, j \in 1..n : i < j => at[i] < at[j]
  /\ \A i \in DOMAIN r : i > n => r[i].key \in Noted(x) /\ \A j \in DOMAIN r : r[j].key = r[i].key => j = i

LEMMA LineFollows ==
  ASSUME NEW x \in Machine, line \in Seq(Entry)
  PROVE  LineOf(x) \in Seq(Entry) /\ \E n, at : Follows1(x, line, LineOf(x), n, at)
<1> DEFINE I == {i \in DOMAIN line : Runs(x, line[i])}
           kept == Subsequence(line, I)
           new == {k \in Noted(x) : \A i \in DOMAIN kept : kept[i].key # k}
           clocks == SetToSeq(new)
           added == [i \in DOMAIN clocks |-> ClockOf(clocks[i])]
           r == kept \o added
           n == Len(kept)
<1>1. LineOf(x) = r BY Zenon DEF LineOf
<1>2. kept \in Seq(Entry) /\ Picks(kept, line, I, Len(line))
  <2> HIDE DEF I
  <2> QED BY SubsequencePicks
<1>3. PICK at \in [1..n -> 1..Len(line)] :
        /\ \A i \in 1..n : kept[i] = line[at[i]] /\ at[i] \in I
        /\ \A i, j \in 1..n : i < j => at[i] < at[j]
  <2> HIDE DEF kept, I
  <2> QED BY <1>2 DEF Picks
<1>4. \A i \in 1..n : Runs(x, kept[i]) BY <1>3
<1>5. new \subseteq Key /\ new \subseteq Noted(x) /\ IsFiniteSet(new)
  <2>1. new \subseteq Key /\ new \subseteq Noted(x) BY DEF Noted
  <2> HIDE DEF new
  <2> QED BY <2>1, KeyAssumption, FS_Subset
<1>6. \A k \in new : \A i \in 1..n : kept[i].key # k BY <1>2
<1>7. clocks \in Seq(new) /\ \A i, j \in 1..Len(clocks) : clocks[i] = clocks[j] => i = j
  <2> HIDE DEF new
  <2> QED BY <1>5, ToSeq
<1> HIDE DEF kept, I, new, clocks
<1>8. DOMAIN clocks = 1..Len(clocks) /\ Len(clocks) \in Nat /\ \A i \in 1..Len(clocks) : clocks[i] \in new BY <1>7
<1>9. added \in Seq(Entry) /\ Len(added) = Len(clocks) /\ \A i \in 1..Len(clocks) : added[i] = ClockOf(clocks[i])
  <2>1. \A k \in Key : ClockOf(k) \in Entry BY DEF ClockOf, Entry
  <2>2. added = [i \in 1..Len(clocks) |-> ClockOf(clocks[i])] BY <1>8
  <2>3. \A i \in 1..Len(clocks) : ClockOf(clocks[i]) \in Entry BY <1>5, <1>8, <2>1
  <2>4. added \in [1..Len(clocks) -> Entry] BY <2>2, <2>3
  <2>5. \A i \in 1..Len(clocks) : added[i] = ClockOf(clocks[i]) BY <2>2
  <2> HIDE DEF added
  <2> QED BY <1>8, <2>4, <2>5
<1> HIDE DEF added
<1>10. /\ r \in Seq(Entry) /\ Len(r) = n + Len(clocks) /\ n \in Nat /\ DOMAIN r = 1..Len(r)
       /\ \A i \in 1..n : r[i] = kept[i]
       /\ \A i \in (n + 1)..Len(r) : r[i] = ClockOf(clocks[i - n]) /\ i - n \in 1..Len(clocks)
  <2>0. kept \in Seq(Entry) /\ added \in Seq(Entry) /\ n \in Nat BY <1>2, <1>9
  <2>a. r \in Seq(Entry) BY <2>0, ConcatProperties
  <2>b. Len(r) = Len(kept) + Len(added) BY <2>0, ConcatProperties
  <2>1. n \in Nat /\ r \in Seq(Entry) /\ Len(r) = n + Len(clocks) BY <1>9, <2>0, <2>a, <2>b
  <2>2. \A i \in 1..n : r[i] = kept[i] BY <2>0
  <2>3. \A i \in (n + 1)..Len(r) : r[i] = added[i - n] /\ i - n \in 1..Len(clocks) BY <1>8, <1>9, <2>0, <2>1
  <2>4. DOMAIN r = 1..Len(r) BY <2>1
  <2> HIDE DEF r, n
  <2> QED BY <1>9, <2>1, <2>2, <2>3, <2>4
<1> HIDE DEF r, n
<1>11. \A i \in (n + 1)..Len(r) : r[i].key = clocks[i - n] /\ r[i].key \in new
  <2>1. \A k : ClockOf(k).key = k BY DEF ClockOf
  <2> QED BY <1>8, <1>10, <2>1
<1>12. Follows1(x, line, r, n, at)
  <2>1. n \in 0..Len(r) BY <1>8, <1>10
  <2>2. at \in [1..n -> DOMAIN line] BY <1>3
  <2>3. \A i \in 1..n : r[i] = line[at[i]] /\ Runs(x, r[i]) BY <1>3, <1>4, <1>10
  <2>4. ASSUME NEW i \in DOMAIN r, i > n PROVE r[i].key \in Noted(x) /\ \A j \in DOMAIN r : r[j].key = r[i].key => j = i
    <3>1. i \in (n + 1)..Len(r) BY <1>10, <2>4
    <3>2. r[i].key \in Noted(x) BY <1>5, <1>11, <3>1
    <3>3. ASSUME NEW j \in DOMAIN r, r[j].key = r[i].key PROVE j = i
      <4>1. CASE j \in 1..n BY <1>6, <1>10, <1>11, <3>1, <3>3, <4>1
      <4>2. CASE j \in (n + 1)..Len(r)
        <5>1. clocks[j - n] = clocks[i - n] /\ i - n \in 1..Len(clocks) /\ j - n \in 1..Len(clocks)
          BY <1>10, <1>11, <3>1, <3>3, <4>2
        <5>2. j - n = i - n BY <1>7, <5>1
        <5> QED BY <1>10, <3>1, <4>2, <5>2
      <4> QED BY <1>10, <4>1, <4>2
    <3> QED BY <3>2, <3>3
  <2> QED BY <1>3, <2>1, <2>2, <2>3, <2>4 DEF Follows1
<1> QED BY <1>1, <1>10, <1>12

\* What a driver's step leaves of the line's facts: the clocks are of the keys
\* noted, no old set is new, and a clock comes after the sets it came after.
After(k, l) == \A i, j \in DOMAIN l : l[i].key = k /\ Lacks(l[j], k) => j < i
LEMMA LineKeeps ==
  ASSUME NEW x \in Machine, line \in Seq(Entry), Clocks, Becomes(x)
  PROVE  /\ line' \in Seq(Entry) /\ Clocks'
         /\ \A k \in Key, i \in DOMAIN line' : Lacks(line'[i], k) => \E j \in DOMAIN line : Lacks(line[j], k)
         /\ \A k \in Key : After(k, line) => After(k, line')
<1> DEFINE r == LineOf(x)
<1>1. line' = r /\ m' = x BY DEF Becomes
<1>2. r \in Seq(Entry) BY LineFollows
<1>3. PICK n, at : Follows1(x, line, r, n, at) BY LineFollows
<1> HIDE DEF r
<1>4. /\ n \in 0..Len(r) /\ at \in [1..n -> DOMAIN line] /\ DOMAIN r = 1..Len(r) /\ Len(r) \in Nat /\ DOMAIN line \subseteq Nat
      /\ \A i \in 1..n : r[i] = line[at[i]] /\ Runs(x, r[i])
      /\ \A i, j \in 1..n : i < j => at[i] < at[j]
      /\ \A i \in DOMAIN r : i > n => r[i].key \in Noted(x) /\ \A j \in DOMAIN r : r[j].key = r[i].key => j = i
  BY <1>2, <1>3 DEF Follows1
<1>5. \A k \in Noted(x) : k # 0 BY KeyAssumption DEF Noted
<1>6. ASSUME NEW i \in DOMAIN r PROVE Runs(x, r[i])
  <2>1. CASE i \in 1..n BY <1>4, <2>1
  <2>2. CASE i > n BY <1>4, <2>2 DEF Runs, Noted
  <2> QED BY <1>4, <2>1, <2>2
<1>7. ASSUME NEW i \in DOMAIN r, NEW j \in DOMAIN r, r[i].key # 0, r[i].key = r[j].key PROVE i = j
  <2>1. CASE i > n BY <1>4, <1>7, <2>1
  <2>2. CASE j > n BY <1>4, <1>7, <2>2
  <2>3. CASE i \in 1..n /\ j \in 1..n
    <3>1. at[i] \in DOMAIN line /\ at[j] \in DOMAIN line /\ r[i] = line[at[i]] /\ r[j] = line[at[j]] BY <1>4, <2>3
    <3>2. at[i] = at[j] BY <1>7, <3>1 DEF Clocks
    <3>3. ~(at[i] < at[j]) /\ ~(at[j] < at[i]) BY <1>4, <3>1, <3>2
    <3>4. ~(i < j) /\ ~(j < i) BY <1>4, <2>3, <3>3
    <3> QED BY <2>3, <3>4
  <2> QED BY <1>4, <2>1, <2>2, <2>3
<1>8. ASSUME NEW i \in DOMAIN r, NEW k \in Key, Lacks(r[i], k)
      PROVE  i \in 1..n /\ at[i] \in DOMAIN line /\ Lacks(line[at[i]], k)
  <2>1. ~(i > n) BY <1>4, <1>5, <1>8 DEF Lacks
  <2>2. i \in 1..n BY <1>4, <2>1
  <2> QED BY <1>4, <1>8, <2>2
<1>9. ASSUME NEW k \in Key, After(k, line), NEW i \in DOMAIN r, NEW j \in DOMAIN r, r[i].key = k, Lacks(r[j], k)
      PROVE  j < i
  <2>1. j \in 1..n /\ at[j] \in DOMAIN line /\ Lacks(line[at[j]], k) BY <1>8, <1>9
  <2>2. CASE i > n BY <1>4, <2>1, <2>2
  <2>3. CASE i \in 1..n
    <3>1. at[i] \in DOMAIN line /\ line[at[i]].key = k BY <1>4, <1>9, <2>3
    <3>2. at[j] < at[i] BY <1>9, <2>1, <3>1 DEF After
    <3>3. ~(at[i] < at[j]) /\ at[i] # at[j] BY <1>4, <2>1, <3>1, <3>2
    <3>4. ~(i < j) /\ i # j BY <1>4, <2>1, <2>3, <3>3
    <3> QED BY <2>1, <2>3, <3>4
  <2> QED BY <1>4, <2>2, <2>3
<1>10. Clocks' BY <1>1, <1>6, <1>7 DEF Clocks, Runs
<1>11. \A k \in Key, i \in DOMAIN r : Lacks(r[i], k) => \E j \in DOMAIN line : Lacks(line[j], k) BY <1>8
<1>12. \A k \in Key : After(k, line) => After(k, r)
  <2> SUFFICES ASSUME NEW k \in Key, After(k, line), NEW i \in DOMAIN r, NEW j \in DOMAIN r, r[i].key = k, Lacks(r[j], k)
               PROVE  j < i
    BY DEF After
  <2> QED BY <1>9
<1> QED BY <1>1, <1>2, <1>10, <1>11, <1>12

-----------------------------------------------------------------------------
(* The held DS sets, after a step of the driver. *)

\* What a driver's step may make of a key, next to the machine before it.
Kept(x, k) ==
  /\ Stage(m.row[k].state) <= Stage(x.row[k].state)
  /\ m.row[k].state # "none" => x.row[k].role = m.row[k].role
  /\ Stage(x.row[k].state) <= 4 =>
       \/ x.present[k] \in {"none", m.present[k]}
       \/ x.present[k] = "noted" /\ m.present[k] = "none" /\ k \in parent.own
  /\ x.row[k].state = "standby" /\ Sep(x, k) /\ k \notin parent.own /\ unseen /\ ~unseen' => x.present[k] = "none"
\* Every validator has seen the DS of k.
Seen(k) ==
  k \in parent.own /\ (\A i \in DOMAIN line : ~Lacks(line[i], k)) /\ \A i \in DOMAIN update : k \in update[i].own

LEMMA HeldBecomes ==
  ASSUME TypeOK, HeldInv, NEW x \in Machine, Becomes(x), parent' = parent, update' = update,
         Fits(x), OneEach(x), \A k \in Key : Kept(x, k),
         Anchors(x) = Anchors(m) \/ \E k \in Key : Anchors(x) = {k} /\ (AtParent => Seen(k))
  PROVE  HeldInv' /\ line' \in Seq(Entry)
<1>0. m \in Machine /\ line \in Seq(Entry) /\ update \in Seq(DsSet) BY DEF TypeOK, Entry
<1>1. m' = x BY DEF Becomes
<1>2. /\ line' \in Seq(Entry) /\ Clocks'
      /\ \A k \in Key, i \in DOMAIN line' : Lacks(line'[i], k) => \E j \in DOMAIN line : Lacks(line[j], k)
      /\ \A k \in Key : After(k, line) => After(k, line')
  BY <1>0, LineKeeps DEF HeldInv
<1>3. \A k \in Key : (\A i \in DOMAIN line : ~Lacks(line[i], k)) => \A i \in DOMAIN line' : ~Lacks(line'[i], k) BY <1>2
<1>4. \A k \in Key : Stage(x.row[k].state) <= 3 => m.row[k].state \in Early
  <2> TAKE k \in Key
  <2>1. Stage(m.row[k].state) <= Stage(x.row[k].state) /\ m.row[k].state \in State BY <1>0, RowType DEF Kept
  <2> QED BY <2>1, StageNat, StageOf
<1>5. \A k \in Key : x.row[k].state \in Early => m.row[k].state \in Early BY <1>4, RowType, StageOf
<1>6. ASSUME NEW k \in OfRole(x, {"standby"}, "KSK")
      PROVE  m.row[k].state \in Early \/ (k \in OfRole(m, {"standby"}, "KSK"))
  <2>1. k \in Key /\ x.row[k].state = "standby" /\ x.row[k].role = "KSK" BY <1>6 DEF OfRole, Keys
  <2>2. Stage(m.row[k].state) <= 4 BY <2>1, StageNat DEF Kept, Stage
  <2>3. m.row[k].state \in Early \cup {"standby"} BY <1>0, <2>1, <2>2, RowType, StageOf
  <2>4. m.row[k].state = "standby" => m.row[k].role = "KSK" BY <2>1 DEF Kept
  <2> QED BY <2>1, <2>3, <2>4 DEF OfRole, Keys
<1>7. Fits(m)' /\ OneEach(m)' BY <1>1 DEF Fits, FitsAt, OneEach, OfRole, Keys, Sep
<1>8. OneAnchor(m)'
  <2>1. OneAnchor(x) BY DEF HeldInv, OneAnchor
  <2> QED BY <1>1, <2>1 DEF OneAnchor, Anchors, OfRole, Keys
<1>9. AnchorHeld'
  <2> SUFFICES ASSUME AtParent, NEW u \in Anchors(x)
               PROVE  u \in parent.own /\ (\A i \in DOMAIN line' : ~Lacks(line'[i], u)) /\ \A i \in DOMAIN update : u \in update[i].own
    BY <1>1 DEF AnchorHeld, Anchors, OfRole, Keys, Lacks
  <2>1. u \in Key BY DEF Anchors, OfRole, Keys
  <2>2. Seen(u)
    <3>1. CASE Anchors(x) = Anchors(m) BY <3>1 DEF HeldInv, AnchorHeld, Seen
    <3>2. CASE \E k \in Key : Anchors(x) = {k} /\ (AtParent => Seen(k)) BY <3>2
    <3> QED BY <3>1, <3>2
  <2> QED BY <1>3, <2>1, <2>2 DEF Seen
<1>10. StandbySent'
  <2> SUFFICES ASSUME NEW k \in OfRole(x, {"standby"}, "KSK") \cap parent.own, NEW i \in DOMAIN update PROVE k \in update[i].own
    BY <1>1 DEF StandbySent, OfRole, Keys
  <2>1. k \in Key BY DEF OfRole, Keys
  <2>2. m.row[k].state \notin Early BY <2>1 DEF HeldInv, EarlyUnserved, Keys
  <2> QED BY <1>6, <2>2 DEF HeldInv, StandbySent
<1>11. EarlyUnserved'
  <2> SUFFICES ASSUME NEW k \in Keys(x, Early) PROVE k \notin parent.own /\ \A i \in DOMAIN update : k \notin update[i].own
    BY <1>1 DEF EarlyUnserved, Keys
  <2>1. k \in Keys(m, Early) BY <1>5 DEF Keys
  <2> QED BY <2>1 DEF HeldInv, EarlyUnserved
<1>12. NoteHeld'
  <2> SUFFICES ASSUME NEW k \in OfRole(x, {"standby"}, "KSK"), x.present[k] # "none"
               PROVE  \/ /\ k \in parent.own
                         /\ x.present[k] = "over" => \A i \in DOMAIN line' : ~Lacks(line'[i], k)
                         /\ After(k, line')
                      \/ unseen' /\ k \notin parent.own
    BY <1>1 DEF NoteHeld, OfRole, Keys, Lacks, After
  <2>1. k \in Key /\ x.row[k].state = "standby" /\ Sep(x, k) BY DEF OfRole, Keys, Sep
  <2>2. Stage(x.row[k].state) <= 4 BY <2>1 DEF Stage
  <2>3. FitsAt(m, k) BY <2>1 DEF HeldInv, Fits
  <2>4. x.present[k] = m.present[k] \/ (x.present[k] = "noted" /\ m.present[k] = "none" /\ k \in parent.own)
    BY <2>1, <2>2 DEF Kept
  <2>5. k \in parent.own \/ ~unseen \/ unseen' BY <2>1 DEF Kept
  <2>6. CASE m.row[k].state \in Early
    <3>1. m.present[k] = "none" /\ k \notin parent.own BY <2>1, <2>3, <2>6 DEF FitsAt, HeldInv, EarlyUnserved, Keys
    <3> QED BY <2>4, <3>1
  <2>7. CASE k \in OfRole(m, {"standby"}, "KSK")
    <3>0. m.row[k].state = "standby" BY <2>7 DEF OfRole, Keys
    <3>1. CASE m.present[k] = "none"
      <4>1. x.present[k] = "noted" /\ k \in parent.own BY <2>4, <3>1
      <4>2. m.since[k] = "none" BY <2>3, <3>0 DEF FitsAt
      <4>3. \A i \in DOMAIN line : line[i].key # k
        <5> SUFFICES ASSUME NEW i \in DOMAIN line, line[i].key = k PROVE FALSE OBVIOUS
        <5>1. k # 0 BY <2>1, KeyAssumption
        <5>2. Runs(m, line[i]) BY DEF HeldInv, Clocks
        <5> QED BY <3>1, <4>2, <5>1, <5>2 DEF Runs
      <4>4. After(k, line) BY <4>3 DEF After
      <4> QED BY <1>2, <2>1, <4>1, <4>4
    <3>2. CASE m.present[k] # "none"
      <4>1. x.present[k] = m.present[k] BY <2>4, <3>2
      <4>2. \/ /\ k \in parent.own
               /\ m.present[k] = "over" => \A i \in DOMAIN line : ~Lacks(line[i], k)
               /\ After(k, line)
            \/ unseen /\ k \notin parent.own
        BY <2>7, <3>2 DEF HeldInv, NoteHeld, After
      <4> QED BY <1>2, <1>3, <2>1, <2>5, <4>1, <4>2
    <3> QED BY <3>1, <3>2
  <2> QED BY <1>6, <2>6, <2>7
<1> QED BY <1>2, <1>7, <1>8, <1>9, <1>10, <1>11, <1>12 DEF HeldInv

\* A step that makes no key sign and notes nothing at the parent.
Calm(x, y) == y \in Machine /\ \A k \in Key : Grows(x, y, k) /\ Rests(x, y, k)

LEMMA StepsCalm == ASSUME NEW x, NEW y, Steps(x, y) PROVE Calm(x, y)
BY DEF Steps, Moves, Calm

LEMMA CalmThen ==
  ASSUME NEW x \in Machine, NEW y, NEW z, Calm(x, y), Calm(y, z)
  PROVE  Calm(x, z)
<1>1. y \in Machine /\ z \in Machine BY DEF Calm
<1>2. ASSUME NEW k \in Key PROVE Grows(x, z, k) /\ Rests(x, z, k)
  <2>1. Stage(x.row[k].state) <= Stage(y.row[k].state) /\ Stage(y.row[k].state) <= Stage(z.row[k].state)
    BY DEF Calm, Grows
  <2>2. Stage(x.row[k].state) <= Stage(z.row[k].state) /\ (Stage(z.row[k].state) <= 4 => Stage(y.row[k].state) <= 4)
    BY <2>1, StageNat
  <2>3. x.row[k].state # "none" => y.row[k].state # "none" BY <1>1, <2>1, StageOf, StageNat, RowType
  <2>4. Grows(x, z, k) BY <2>2, <2>3 DEF Calm, Grows
  <2>5. Rests(x, z, k) BY <2>2 DEF Calm, Rests
  <2> QED BY <2>4, <2>5
<1> QED BY <1>1, <1>2 DEF Calm

LEMMA OneCalm ==
  ASSUME NEW x \in Machine, NEW y, NEW k \in Key, CalmStep(x, y, k)
  PROVE  Calm(x, y)
<1>1. y \in Machine /\ y.others = x.others BY DEF CalmStep, OwnStep, Keeps
<1>2. ASSUME NEW o \in Key \ {k} PROVE Grows(x, y, o) /\ Rests(x, y, o)
  <2>1. Moves(x, y, o) BY <1>1, MovesSame DEF CalmStep, OwnStep
  <2> QED BY <2>1 DEF Moves
<1>3. Grows(x, y, k) /\ Rests(x, y, k) BY DEF CalmStep
<1> QED BY <1>1, <1>2, <1>3 DEF Calm

LEMMA CalmFits ==
  ASSUME NEW x \in Machine, NEW y, Calm(x, y)
  PROVE  /\ Fits(x) => Fits(y)
         /\ OneEach(x) => OneEach(y)
         /\ Anchors(y) = Anchors(x)
<1>1. Fits(x) => Fits(y) BY DEF Fits, Calm, Grows
<1>2. Anchors(y) = Anchors(x)
  <2>1. \A k \in Key : k \in Anchors(y) <=> k \in Anchors(x) BY DEF Calm, Grows
  <2>2. Anchors(y) \subseteq Key /\ Anchors(x) \subseteq Key BY DEF Anchors, OfRole, Keys
  <2> QED BY <2>1, <2>2
<1>3. ASSUME OneEach(x), NEW role \in Role, NEW a \in OfRole(y, {"active"}, role), NEW b \in OfRole(y, {"active"}, role),
             y.row[a].alg = y.row[b].alg
      PROVE  a = b
  <2>1. a \in Key /\ b \in Key /\ y.row[a].state = "active" /\ y.row[b].state = "active"
        /\ y.row[a].role = role /\ y.row[b].role = role
    BY DEF OfRole, Keys
  <2>2. x.row[a].state = "active" /\ x.row[b].state = "active" BY <2>1 DEF Calm, Grows
  <2>3. /\ x.row[a].role = role /\ x.row[a].alg = y.row[a].alg
        /\ x.row[b].role = role /\ x.row[b].alg = y.row[b].alg
    BY <2>1, <2>2 DEF Calm, Grows
  <2>4. a \in OfRole(x, {"active"}, role) /\ b \in OfRole(x, {"active"}, role) BY <2>1, <2>2, <2>3 DEF OfRole, Keys
  <2> QED BY <1>3, <2>3, <2>4 DEF OneEach
<1>4. OneEach(x) => OneEach(y) BY <1>3 DEF OneEach
<1> QED BY <1>1, <1>2, <1>4

LEMMA CalmHolds ==
  ASSUME TypeOK, HeldInv, NEW x, Calm(m, x), Becomes(x), parent' = parent, update' = update, unseen' = unseen
  PROVE  HeldInv' /\ line' \in Seq(Entry)
<1>1. x \in Machine /\ m \in Machine BY DEF Calm, TypeOK
<1>2. Fits(x) /\ OneEach(x) /\ Anchors(x) = Anchors(m) BY <1>1, CalmFits DEF HeldInv
<1>3. \A k \in Key : Kept(x, k) BY DEF Calm, Grows, Rests, Kept
<1> QED BY <1>1, <1>2, <1>3, HeldBecomes

\* A tick: the KSK it makes sign, if it makes one, is one whose DS every
\* validator has seen.
LEMMA TickHolds ==
  ASSUME TypeOK, HeldInv, NEW known \in BOOLEAN, known => AsksParent(m), NEW over, NEW late, NEW bad,
         Becomes(Ticked(Driver(m), known, over, late, bad)), parent' = parent, update' = update,
         unseen' = (unseen /\ ~known /\ AsksParent(m))
  PROVE  HeldInv' /\ line' \in Seq(Entry) /\ m' \in Machine
<1> DEFINE x == Driver(m)
           y == Ticked(x, known, over, late, bad)
           p == Heeded(x, known)
<1>1. m \in Machine /\ Fits(m) BY DEF TypeOK, HeldInv
<1>2. Calm(m, x) BY <1>1, DriverSteps, StepsCalm
<1>3. x \in Machine /\ Fits(x) /\ OneEach(x) /\ Anchors(x) = Anchors(m)
  <2> HIDE DEF x
  <2> QED BY <1>1, <1>2, CalmFits DEF Calm, HeldInv
<1>4. TickTurns(x, y, p)
  <2> HIDE DEF x
  <2> QED BY <1>3, TickedTurns
<1>5. p.own = parent.own /\ (p.known <=> known /\ AsksParent(x)) /\ (p.empty <=> parent.own = {} /\ parent.foreign = {})
  BY DEF Heeded
<1>6. Becomes(y) OBVIOUS
<1> HIDE DEF x, y, p
<1>7. y \in Machine /\ Fits(y) /\ OneEach(y) BY <1>3, <1>4 DEF TickTurns, Ticks1, Fits
<1>8. ASSUME NEW k \in Key
      PROVE  /\ Stage(m.row[k].state) <= Stage(x.row[k].state) /\ Stage(x.row[k].state) <= Stage(y.row[k].state)
             /\ Stage(m.row[k].state) <= Stage(y.row[k].state)
             /\ Stage(y.row[k].state) <= 4 => Stage(x.row[k].state) <= 4
             /\ Stage(x.row[k].state) <= 4 => x.present[k] = m.present[k] /\ Stage(m.row[k].state) <= 4
             /\ m.row[k].state # "none" => /\ x.row[k].state # "none" /\ x.row[k].role = m.row[k].role
                                           /\ y.row[k].role = m.row[k].role
             /\ Stage(m.row[k].state) <= 4 => m.row[k].state \in Early \/ m.row[k].state = "standby"
             /\ FitsAt(m, k) /\ FitsAt(x, k)
  <2>1. Stage(m.row[k].state) <= Stage(x.row[k].state) /\ Stage(x.row[k].state) <= Stage(y.row[k].state)
    BY <1>2, <1>4 DEF Calm, Grows, TickTurns, Ticks1
  <2>2. /\ Stage(m.row[k].state) <= Stage(y.row[k].state)
        /\ Stage(y.row[k].state) <= 4 => Stage(x.row[k].state) <= 4
        /\ Stage(x.row[k].state) <= 4 => Stage(m.row[k].state) <= 4
    BY <2>1, StageNat
  <2>3. Stage(x.row[k].state) <= 4 => x.present[k] = m.present[k] BY <1>2 DEF Calm, Rests
  <2>4. m.row[k].state # "none" => x.row[k].state # "none" BY <1>1, <1>3, <2>1, StageOf, StageNat, RowType
  <2>5. m.row[k].state # "none" => x.row[k].role = m.row[k].role BY <1>2 DEF Calm, Grows
  <2>6. x.row[k].state # "none" => y.row[k].role = x.row[k].role BY <1>4 DEF TickTurns, Ticks1
  <2>7. Stage(m.row[k].state) <= 4 => m.row[k].state \in Early \/ m.row[k].state = "standby"
    BY <1>1, RowType, StageOf
  <2> QED BY <1>1, <1>3, <2>1, <2>2, <2>3, <2>4, <2>5, <2>6, <2>7 DEF Fits
<1>9. ASSUME NEW k \in Key, Stage(x.row[k].state) <= 4, k \in parent.own
      PROVE  m.row[k].state = "standby" /\ x.present[k] = m.present[k]
  <2>1. m.row[k].state \notin Early BY <1>9 DEF HeldInv, EarlyUnserved, Keys
  <2> QED BY <1>8, <1>9, <2>1
<1>10. ASSUME NEW k \in Key PROVE Kept(y, k)
  <2>1. Notes(x, y, k, p) BY <1>4 DEF TickTurns, Ticks1
  <2>2. Stage(y.row[k].state) <= 4 =>
          \/ y.present[k] \in {"none", m.present[k]}
          \/ y.present[k] = "noted" /\ m.present[k] = "none" /\ k \in parent.own
    BY <1>5, <1>8, <2>1 DEF Notes
  <2>3. ASSUME y.row[k].state = "standby", Sep(y, k), k \notin parent.own, unseen, ~unseen'
        PROVE  y.present[k] = "none"
    <3>0. Stage(y.row[k].state) = 4 BY <2>3 DEF Stage
    <3>a. Stage(y.row[k].state) <= 4 BY <3>0
    <3>1. known \/ ~AsksParent(m) BY <2>3
    <3>2. CASE m.row[k].state \in Early
      <4>1. m.present[k] = "none" BY <1>8, <3>2 DEF FitsAt
      <4> QED BY <2>2, <2>3, <3>a, <4>1
    <3>3. CASE m.row[k].state = "standby"
      <4>1. m.row[k].role = "KSK" /\ x.row[k].role = "KSK" BY <1>8, <2>3, <3>3 DEF Sep
      <4>2. k \in OfRole(m, {"published", "standby"}, "KSK") BY <3>3, <4>1 DEF OfRole, Keys
      <4>3. AsksParent(m) BY <4>2 DEF AsksParent
      <4>4. x.row[k].state = "standby"
        <5>1. Stage(m.row[k].state) = 4 BY <3>3 DEF Stage
        <5>2. Stage(x.row[k].state) = 4 BY <1>8, <3>0, <5>1, StageNat
        <5>3. ~(Stage(x.row[k].state) <= 3) /\ Stage(x.row[k].state) <= 4 BY <5>2
        <5> QED BY <1>3, <5>3, RowType, StageOf
      <4>5. k \in OfRole(x, {"published", "standby"}, "KSK") BY <4>1, <4>4 DEF OfRole, Keys
      <4>6. AsksParent(x) BY <4>5 DEF AsksParent
      <4>7. p.known BY <1>5, <3>1, <4>3, <4>6
      <4> QED BY <1>5, <1>8, <2>1, <2>3, <3>a, <4>7 DEF Notes
    <3> QED BY <1>8, <3>a, <3>2, <3>3
  <2> QED BY <1>8, <2>2, <2>3 DEF Kept
<1>11. Anchors(y) = Anchors(m) \/ \E k \in Key : Anchors(y) = {k} /\ (AtParent => Seen(k))
  <2>1. CASE Anchors(y) = Anchors(x) BY <1>3, <2>1
  <2>2. ASSUME NEW k \in Key, Anchors(y) = {k}, p.known,
               p.empty \/ (x.present[k] = "over" /\ k \in p.own /\ x.row[k].state = "standby" /\ Sep(x, k)), AtParent
        PROVE  Seen(k)
    <3>1. ~p.empty
      <4>1. PICK u \in Key : Anchors(m) = {u} BY DEF HeldInv, OneAnchor
      <4>2. u \in parent.own BY <2>2, <4>1 DEF HeldInv, AnchorHeld
      <4> QED BY <1>5, <4>2
    <3>2. x.present[k] = "over" /\ k \in parent.own /\ x.row[k].state = "standby" /\ Sep(x, k) BY <1>5, <2>2, <3>1
    <3>3. Stage(x.row[k].state) <= 4 BY <3>2 DEF Stage
    <3>4. m.row[k].state = "standby" /\ m.present[k] = "over" BY <1>9, <3>2, <3>3
    <3>5. k \in OfRole(m, {"standby"}, "KSK") BY <1>8, <3>2, <3>4 DEF OfRole, Keys, Sep
    <3>6. \A i \in DOMAIN line : ~Lacks(line[i], k) BY <3>2, <3>4, <3>5 DEF HeldInv, NoteHeld
    <3>7. \A i \in DOMAIN update : k \in update[i].own BY <3>2, <3>5 DEF HeldInv, StandbySent
    <3> QED BY <3>2, <3>6, <3>7 DEF Seen
  <2> QED BY <1>4, <2>1, <2>2 DEF TickTurns
<1>12. m' = y BY <1>6 DEF Becomes
<1> QED BY <1>6, <1>7, <1>10, <1>11, <1>12, HeldBecomes

\* A tick that writes the row of k and no more.
LEMMA DiesSteps ==
  ASSUME NEW x \in Machine, Fits(x), NEW y, NEW p, TickTurns(x, y, p), NEW k \in Key, NEW r,
         r \in IF x.row[k].state = "none" THEN {y.row[k], [y.row[k] EXCEPT !.state = "created", !.ds = "out"]}
                                          ELSE {y.row[k]},
         r.state \in Dying \ {x.row[k].state}
  PROVE  Steps(x, Forgets([x EXCEPT !.row[k] = r, !.push = {}]))
<1>1. y \in Machine /\ y.row[k] \in Row /\ x.row \in [Key -> Row] BY RowType DEF TickTurns, Machine
<1>2. Ticks1(x, y, k, p) BY DEF TickTurns
<1>3. /\ r \in Row
      /\ r = y.row[k] \/ (x.row[k].state = "none" /\ r.state = "created" /\ r.ds = "out")
  BY <1>1 DEF Row, State
<1>4. r.state \in {"created", "mpdist", "published", "standby", "mpremove", "removed"} BY DyingAssumption
<1> DEFINE z == [x EXCEPT !.row = [x.row EXCEPT ![k] = r]]
           w == [z EXCEPT !.push = {}]
<1>5. [x EXCEPT !.row[k] = r, !.push = {}] = w BY <1>1 DEF Machine
<1>6. /\ z \in Machine /\ z.row[k] = r /\ z.dist = x.dist /\ z.present = x.present /\ z.since = x.since
      /\ OwnStep(x, z, k)
  <2>1. [x.row EXCEPT ![k] = r] \in [Key -> Row] /\ [x.row EXCEPT ![k] = r][k] = r BY <1>1, <1>3
  <2>2. \A o \in Key \ {k} : [x.row EXCEPT ![k] = r][o] = x.row[o] BY <1>1
  <2> QED BY <2>1, <2>2 DEF Machine, OwnStep, Keeps
<1>7. w \in Machine /\ w.others = z.others /\ w.row = z.row /\ w.dist = z.dist /\ w.present = z.present /\ w.since = z.since
  BY <1>6 DEF Machine
<1> HIDE DEF z, w
<1>8. x.row[k].state # "active" /\ r.state # "active"
  BY <1>2, <1>3, <1>4 DEF Ticks1, Stays
<1>9. Stage(x.row[k].state) <= Stage(r.state)
  BY <1>2, <1>3, StageNat DEF Ticks1, Stage
<1>10. FitsAt(z, k)
  <2>1. FitsAt(x, k) /\ FitsAt(y, k) BY <1>2 DEF Fits, Ticks1
  <2>2. x.row[k].state \in State /\ r.state \in State BY <1>3, RowType DEF Row
  <2>3. r.state \in Early => x.row[k].state \in Early BY <1>9, <2>2, StageOf, StageNat
  <2>4. r.state \in Early \cup {"standby"} => x.row[k].state \in Early \cup {"standby"} BY <1>9, <2>2, StageOf, StageNat
  <2>5. (r.state \in Early => z.present[k] = "none") /\ (r.state \in Early \cup {"standby"} => z.since[k] = "none")
    BY <1>6, <2>1, <2>3, <2>4 DEF FitsAt
  <2>6. CASE r = y.row[k] BY <1>6, <2>1, <2>5, <2>6 DEF FitsAt, Sep
  <2>7. CASE r.state = "created" /\ r.ds = "out" BY <1>6, <2>5, <2>7 DEF FitsAt, Sep
  <2> QED BY <1>3, <2>6, <2>7
<1>11. KeyStep(x, z, k)
  <2>1. x.row[k].state # "none" => r.role = x.row[k].role /\ r.alg = x.row[k].alg BY <1>2, <1>3 DEF Ticks1
  <2>2. k \notin Anchors(x) /\ k \notin Anchors(z) BY <1>6, <1>8, NoAnchor
  <2>3. Grows(x, z, k) BY <1>6, <1>8, <1>9, <1>10, <2>1, <2>2 DEF Grows
  <2>4. Rests(x, z, k) BY <1>6 DEF Rests
  <2>5. r.state \in Accepted => x.row[k].state \in Accepted \/ x.others = {}
    BY <1>2, <1>3 DEF Ticks1, Deals, Accepted
  <2>6. Deals(x, z, k) BY <1>6, <2>5 DEF Deals
  <2> QED BY <1>6, <2>3, <2>4, <2>6 DEF KeyStep, Moves
<1>12. Steps(x, z) BY <1>11, KeySteps
<1>13. Steps(z, w) BY <1>6, <1>7, StepsQuiet
<1>14. Steps(w, Forgets(w)) BY <1>7, ForgetsSteps
<1>15. Steps(x, Forgets(w)) BY <1>12, <1>13, <1>14, StepsOn
<1> QED BY <1>5, <1>15

-----------------------------------------------------------------------------
(* What the other operations make of the machine. *)

\* A distribution is of a key that is out, and a removal's of one that leaves.
FreshIn(x) ==
  \A k \in Key : x.dist[k].live =>
    /\ x.row[k].state \notin {"none", "created"}
    /\ x.dist[k].removal => x.row[k].state \in {"mpremove", "removed"}

LEMMA FreshStage ==
  ASSUME NEW x \in Machine, NEW k \in Key
  PROVE  /\ (x.row[k].state \notin {"none", "created"}) <=> Stage(x.row[k].state) >= 2
         /\ (x.row[k].state \in {"mpremove", "removed"}) <=> Stage(x.row[k].state) >= 7
BY RowType, StageOf

LEMMA FreshDeals ==
  ASSUME NEW x \in Machine, NEW y \in Machine, FreshIn(x),
         \A k \in Key : Stage(x.row[k].state) <= Stage(y.row[k].state) /\ Deals(x, y, k)
  PROVE  FreshIn(y)
<1> SUFFICES ASSUME NEW k \in Key, y.dist[k].live
             PROVE  /\ y.row[k].state \notin {"none", "created"}
                    /\ y.dist[k].removal => y.row[k].state \in {"mpremove", "removed"}
  BY DEF FreshIn
<1>1. CASE x.dist[k].live /\ y.dist[k].removal = x.dist[k].removal
  <2>1. Stage(x.row[k].state) >= 2 /\ (x.dist[k].removal => Stage(x.row[k].state) >= 7) BY <1>1, FreshStage DEF FreshIn
  <2>2. Stage(y.row[k].state) >= 2 /\ (y.dist[k].removal => Stage(y.row[k].state) >= 7) BY <1>1, <2>1, StageNat
  <2> QED BY <2>2, FreshStage
<1>2. CASE Stage(y.row[k].state) >= 2 /\ (y.dist[k].removal => Stage(y.row[k].state) >= 7) BY <1>2, FreshStage
<1> QED BY <1>1, <1>2 DEF Deals

LEMMA FreshSteps ==
  ASSUME NEW x \in Machine, NEW y, FreshIn(x), Steps(x, y)
  PROVE  FreshIn(y)
BY FreshDeals DEF Steps, Moves, Grows

LEMMA RetrySteps ==
  ASSUME NEW x \in Machine, FreshIn(x), NEW k \in Key, x.dist[k].live
  PROVE  Steps(x, Resend(StartDistribution(x, k, x.row[k].state = "mpremove"), k))
<1> DEFINE removal == x.row[k].state = "mpremove"
           y == StartDistribution(x, k, removal)
<1>1. Stage(x.row[k].state) >= 2 BY FreshStage DEF FreshIn
<1>2. removal = TRUE => Stage(x.row[k].state) >= 7 BY FreshStage
<1>3. removal \in BOOLEAN OBVIOUS
<1>4. KeyStep(x, y, k)
  <2> HIDE DEF removal
  <2> QED BY <1>1, <1>2, <1>3, StartStep
<1> HIDE DEF y
<1>5. y \in Machine BY <1>4 DEF KeyStep, OwnStep
<1>6. KeyStep(x, Resend(y, k), k) BY <1>4, <1>5, ResendStep, StepOn
<1> QED BY <1>6, KeySteps DEF y

\* A step that touches neither rows nor waits is calm.
LEMMA CalmSame ==
  ASSUME NEW x \in Machine, NEW y \in Machine, y.row = x.row, y.present = x.present, y.since = x.since
  PROVE  Calm(x, y)
<1> SUFFICES ASSUME NEW k \in Key PROVE Grows(x, y, k) /\ Rests(x, y, k) BY DEF Calm
<1>1. Grows(x, y, k)
  <2>1. Stage(x.row[k].state) <= Stage(y.row[k].state) BY StageNat
  <2>2. FitsAt(x, k) => FitsAt(y, k) BY DEF FitsAt, Sep
  <2>3. k \in Anchors(y) <=> k \in Anchors(x) BY DEF Anchors, OfRole, Keys
  <2> QED BY <2>1, <2>2, <2>3 DEF Grows
<1> QED BY <1>1 DEF Rests

LEMMA RestartSteps == ASSUME NEW x \in Machine PROVE Steps(x, Forgets([x EXCEPT !.push = {}]))
<1> DEFINE y == [x EXCEPT !.push = {}]
<1>1. y \in Machine /\ y.others = x.others /\ y.row = x.row /\ y.dist = x.dist /\ y.present = x.present /\ y.since = x.since
  BY DEF Machine
<1> HIDE DEF y
<1>2. Steps(x, y) BY <1>1, StepsQuiet
<1>3. Steps(x, Forgets(y)) BY <1>1, <1>2, ForgetsSteps, StepsOn
<1> QED BY <1>3 DEF y

\* The operator's commands, of a zone whose driver is x.
LEMMA RollsSteps ==
  ASSUME NEW x \in Machine, NEW rolls \in SUBSET Role, NEW alg \in [Role -> Alg]
  PROVE  Steps(x, [x EXCEPT !.rolls = rolls]) /\ Steps(x, [x EXCEPT !.alg = alg])
         /\ Steps(x, [[x EXCEPT !.rolls = rolls] EXCEPT !.alg = alg])
<1>1. /\ [x EXCEPT !.rolls = rolls] \in Machine /\ [x EXCEPT !.alg = alg] \in Machine
      /\ [[x EXCEPT !.rolls = rolls] EXCEPT !.alg = alg] \in Machine
  BY DEF Machine
<1>2. ASSUME NEW y \in {[x EXCEPT !.rolls = rolls], [x EXCEPT !.alg = alg], [[x EXCEPT !.rolls = rolls] EXCEPT !.alg = alg]}
      PROVE  y.others = x.others /\ y.row = x.row /\ y.dist = x.dist /\ y.present = x.present /\ y.since = x.since
  BY DEF Machine
<1> QED BY <1>1, <1>2, StepsQuiet

\* The rows of the other providers' keys, and their words.
LEMMA OthersSteps ==
  ASSUME NEW x \in Machine, NEW said \in [Signer -> Words \cup {"nothing"}],
         NEW foreign \in [Signer -> {"none", "unset", "in", "out"}]
  PROVE  Steps(x, [x EXCEPT !.said = said]) /\ Steps(x, [x EXCEPT !.foreign = foreign])
<1>1. [x EXCEPT !.said = said] \in Machine /\ [x EXCEPT !.foreign = foreign] \in Machine BY DEF Machine
<1>2. ASSUME NEW y \in {[x EXCEPT !.said = said], [x EXCEPT !.foreign = foreign]}
      PROVE  y.others = x.others /\ y.row = x.row /\ y.dist = x.dist /\ y.present = x.present /\ y.since = x.since
  BY DEF Machine
<1> QED BY <1>1, <1>2, StepsQuiet

LEMMA ForeignType == ASSUME NEW x \in Machine, NEW p \in Signer PROVE x.foreign[p] \in {"none", "unset", "in", "out"}
BY DEF Machine

\* What a step of the driver on its own is: the machine moves on, and the
\* agent, the signers and the parent do not.
Quietly ==
  /\ \E x : Becomes(x) /\ Steps(m, x)
  /\ UNCHANGED <<agent, joined, above>> /\ listed' \subseteq Signer /\ events' \in Nat

LEMMA RestartsQuiet == ASSUME TypeOK, Restarts PROVE Quietly
<1>1. m \in Machine /\ listed \subseteq Signer /\ events \in Nat BY DEF TypeOK
<1>2. Steps(m, Forgets([m EXCEPT !.push = {}])) BY <1>1, RestartSteps
<1>3. Becomes(Forgets([m EXCEPT !.push = {}])) BY DEF Restarts
<1>4. UNCHANGED <<agent, joined, above, listed>> /\ events' = events + 1 BY DEF Restarts, Happens
<1>5. events' \in Nat BY <1>1, <1>4
<1> QED BY <1>1, <1>2, <1>3, <1>4, <1>5 DEF Quietly

LEMMA DiesQuiet == ASSUME TypeOK, HeldInv, NEW k \in Key, DiesInATick(k) PROVE Quietly
<1>1. m \in Machine /\ listed \subseteq Signer /\ events \in Nat /\ Fits(m) BY DEF TypeOK, HeldInv
<1> DEFINE x == Driver(m)
<1>2. PICK over \in SUBSET Waiting :
        LET row == Ticked(x, TRUE, over, {}, {}).row[k]
            minted == [row EXCEPT !.state = "created", !.ds = "out"]
        IN \E r \in IF x.row[k].state = "none" THEN {row, minted} ELSE {row} :
             /\ r.state \in Dying \ {x.row[k].state}
             /\ Becomes(Forgets([x EXCEPT !.row[k] = r, !.push = {}]))
  BY DEF DiesInATick
<1> DEFINE y == Ticked(x, TRUE, over, {}, {})
<1>3. PICK r : /\ r \in IF x.row[k].state = "none" THEN {y.row[k], [y.row[k] EXCEPT !.state = "created", !.ds = "out"]}
                                                    ELSE {y.row[k]}
               /\ r.state \in Dying \ {x.row[k].state}
               /\ Becomes(Forgets([x EXCEPT !.row[k] = r, !.push = {}]))
  <2> HIDE DEF x
  <2> QED BY <1>2
<1>4. Steps(m, x) BY <1>1, DriverSteps
<1> HIDE DEF x
<1>5. x \in Machine /\ Fits(x) BY <1>1, <1>4, StepsCalm, CalmFits DEF Steps
<1>6. TickTurns(x, y, Heeded(x, TRUE)) BY <1>5, TickedTurns
<1> HIDE DEF y
<1>7. Steps(x, Forgets([x EXCEPT !.row[k] = r, !.push = {}])) BY <1>3, <1>5, <1>6, DiesSteps
<1>8. Steps(m, Forgets([x EXCEPT !.row[k] = r, !.push = {}])) BY <1>1, <1>4, <1>7, StepsOn
<1>9. UNCHANGED <<agent, joined, above, listed>> /\ events' = events + 1 BY DEF DiesInATick, Happens
<1>10. events' \in Nat BY <1>1, <1>9
<1> QED BY <1>1, <1>3, <1>8, <1>9, <1>10 DEF Quietly

LEMMA CommandQuiet == ASSUME TypeOK, NEW x, Steps(m, x), Commanded(x) PROVE Quietly
<1>1. listed \subseteq Signer /\ events \in Nat BY DEF TypeOK
<1>2. UNCHANGED <<agent, joined, above, listed>> /\ events' = events + 1 /\ Becomes(x) BY DEF Commanded, Ordered
<1>3. events' \in Nat BY <1>1, <1>2
<1> QED BY <1>1, <1>2, <1>3 DEF Quietly

LEMMA CommandsQuiet == ASSUME TypeOK, HeldInv, FreshIn(m), Commands PROVE Quietly
<1>1. m \in Machine /\ Fits(m) BY DEF TypeOK, HeldInv
<1> DEFINE x == Driver(m)
<1>2. Steps(m, x) BY <1>1, DriverSteps
<1> HIDE DEF x
<1>3. x \in Machine /\ FreshIn(x) BY <1>1, <1>2, FreshSteps DEF Steps
<1>4. x.rolls \subseteq Role /\ x.alg \in [Role -> Alg] BY <1>3 DEF Machine
<1>5. ASSUME NEW y, Steps(x, y), Commanded(y) PROVE Quietly
  BY <1>1, <1>2, <1>5, StepsOn, CommandQuiet
<1>6. ASSUME NEW role \in Role, RequestRollover(role) PROVE Quietly
  <2>1. x.rolls \cup {role} \in SUBSET Role BY <1>4
  <2>2. Steps(x, [x EXCEPT !.rolls = x.rolls \cup {role}]) BY <1>3, <1>4, <2>1, RollsSteps
  <2>3. Commanded([x EXCEPT !.rolls = x.rolls \cup {role}]) BY <1>6 DEF RequestRollover, x
  <2> QED BY <1>5, <2>2, <2>3
<1>7. ASSUME NEW role \in Role, CancelRollover(role) PROVE Quietly
  <2> DEFINE rolls == x.rolls \ {role}
             y == [x EXCEPT !.rolls = rolls]
  <2>1. \/ Commanded(y)
        \/ \E alg \in {x.row[k].alg : k \in AlgRollover(x, role)} : Commanded([y EXCEPT !.alg[role] = alg])
    BY <1>7 DEF CancelRollover, x
  <2>2. CASE Commanded(y)
    <3>1. rolls \in SUBSET Role BY <1>4
    <3> HIDE DEF rolls
    <3>2. Steps(x, y) BY <1>3, <1>4, <3>1, RollsSteps
    <3> QED BY <1>5, <2>2, <3>2
  <2>3. ASSUME NEW alg \in {x.row[k].alg : k \in AlgRollover(x, role)}, Commanded([y EXCEPT !.alg[role] = alg])
        PROVE  Quietly
    <3>1. rolls \in SUBSET Role BY <1>4
    <3>2. alg \in Alg BY <1>3, RowType DEF AlgRollover, OfRole, Keys
    <3> DEFINE to == [x.alg EXCEPT ![role] = alg]
    <3>3. to \in [Role -> Alg] BY <1>4, <3>2
    <3>4. [y EXCEPT !.alg[role] = alg] = [[x EXCEPT !.rolls = rolls] EXCEPT !.alg = to] BY <1>3 DEF Machine
    <3> HIDE DEF rolls, to
    <3>5. Steps(x, [[x EXCEPT !.rolls = rolls] EXCEPT !.alg = to]) BY <1>3, <3>1, <3>3, RollsSteps
    <3> QED BY <1>5, <2>3, <3>4, <3>5
  <2> QED BY <2>1, <2>2, <2>3
<1>8. ASSUME NEW to \in [Role -> Alg], SetAlgorithm(to) PROVE Quietly
  <2>1. Steps(x, [x EXCEPT !.alg = to]) BY <1>3, <1>4, RollsSteps
  <2>2. Commanded([x EXCEPT !.alg = to]) BY <1>8 DEF SetAlgorithm, x
  <2> QED BY <1>5, <2>1, <2>2
<1>9. ASSUME NEW k \in Key, Retry(k) PROVE Quietly
  <2>1. x.dist[k].live /\ Commanded(Resend(StartDistribution(x, k, x.row[k].state = "mpremove"), k))
    BY <1>9 DEF Retry, x
  <2>2. Steps(x, Resend(StartDistribution(x, k, x.row[k].state = "mpremove"), k)) BY <1>3, <2>1, RetrySteps
  <2> QED BY <1>5, <2>1, <2>2
<1>10. ASSUME NEW k \in Key, GiveUp(k) PROVE Quietly
  <2>1. Commanded(Withdraw(x, k, {})) BY <1>10 DEF GiveUp, x
  <2>2. Steps(x, Withdraw(x, k, {})) BY <1>3, WithdrawStep, KeySteps
  <2> QED BY <1>5, <2>1, <2>2
<1> QED BY <1>6, <1>7, <1>8, <1>9, <1>10 DEF Commands

LEMMA ZoneQuiet == ASSUME TypeOK, NEW S \in SUBSET Signer, ZoneArrives(S) PROVE Quietly
<1>1. m \in Machine /\ events \in Nat BY DEF TypeOK
<1> DEFINE f == [p \in Signer |-> CASE p \in S /\ m.foreign[p] = "none" -> "unset"
                                    [] p \notin S /\ MayGo(m, p) -> "none"
                                    [] OTHER -> m.foreign[p]]
<1>2. f \in [Signer -> {"none", "unset", "in", "out"}] BY <1>1, ForeignType
<1>3. Becomes([m EXCEPT !.foreign = f]) BY DEF ZoneArrives
<1>4. m.said \in [Signer -> Words \cup {"nothing"}] BY <1>1 DEF Machine
<1> HIDE DEF f
<1>5. Steps(m, [m EXCEPT !.foreign = f]) BY <1>1, <1>2, <1>4, OthersSteps
<1>6. UNCHANGED <<agent, joined, above>> /\ listed' = S /\ events' = events + 1 BY DEF ZoneArrives, Happens
<1>7. events' \in Nat BY <1>1, <1>6
<1> QED BY <1>3, <1>5, <1>6, <1>7 DEF Quietly

LEMMA WordQuiet == ASSUME TypeOK, HeldInv, NEW p \in Signer, NEW word \in Words, WordComes(p, word) PROVE Quietly
<1>1. m \in Machine /\ Fits(m) /\ listed \subseteq Signer /\ events \in Nat BY DEF TypeOK, HeldInv
<1> DEFINE x == Driver(m)
<1>2. Steps(m, x) BY <1>1, DriverSteps
<1> HIDE DEF x
<1> DEFINE said == [x.said EXCEPT ![p] = word]
           y == ApplyForeign([x EXCEPT !.said = said])
           f == [q \in Signer |-> IF q \notin listed /\ MayGo(y, q) THEN "none" ELSE y.foreign[q]]
<1>3. x \in Machine BY <1>2 DEF Steps
<1>4. said \in [Signer -> Words \cup {"nothing"}] /\ x.foreign \in [Signer -> {"none", "unset", "in", "out"}]
  BY <1>3 DEF Machine
<1>5. Becomes([y EXCEPT !.foreign = f]) BY <1>3 DEF WordComes, x, Machine
<1> HIDE DEF said
<1>6. Steps(x, [x EXCEPT !.said = said]) BY <1>3, <1>4, OthersSteps
<1>7. Steps(x, y) BY <1>3, <1>6, ForeignSteps, StepsOn DEF Steps
<1> HIDE DEF y
<1>8. y \in Machine BY <1>7 DEF Steps
<1>9. f \in [Signer -> {"none", "unset", "in", "out"}] BY <1>8, ForeignType
<1>10. y.said \in [Signer -> Words \cup {"nothing"}] BY <1>8 DEF Machine
<1> HIDE DEF f
<1>11. Steps(y, [y EXCEPT !.foreign = f]) BY <1>8, <1>9, <1>10, OthersSteps
<1>12. Steps(m, [y EXCEPT !.foreign = f]) BY <1>1, <1>2, <1>3, <1>7, <1>11, StepsOn
<1>13. UNCHANGED <<agent, joined, above, listed>> /\ events' = events + 1 BY DEF WordComes, Happens
<1>14. events' \in Nat BY <1>1, <1>13
<1> QED BY <1>1, <1>5, <1>12, <1>13, <1>14 DEF Quietly

-----------------------------------------------------------------------------
(* The held DS sets, as the parent and the validators go on. *)

LEMMA QuietHolds == ASSUME TypeOK, HeldInv, Quietly PROVE HeldInv' /\ line' \in Seq(Entry) /\ m' \in Machine
<1>1. PICK x : Becomes(x) /\ Steps(m, x) BY DEF Quietly
<1>2. parent' = parent /\ update' = update /\ unseen' = unseen BY DEF Quietly, above
<1>3. m' \in Machine BY <1>1 DEF Becomes, Steps
<1> QED BY <1>1, <1>2, <1>3, StepsCalm, CalmHolds

\* What touches neither the rows nor the waits, nor the line and the parent.
LEMMA SameHolds ==
  ASSUME HeldInv, m'.row = m.row, m'.present = m.present, m'.since = m.since,
         UNCHANGED above, line' = line
  PROVE  HeldInv'
<1>1. Fits(m)' BY DEF HeldInv, Fits, FitsAt, Sep
<1>2. OneEach(m)' /\ OneAnchor(m)' BY DEF HeldInv, OneEach, OneAnchor, Anchors, OfRole, Keys
<1>3. AnchorHeld' BY DEF HeldInv, AnchorHeld, Anchors, OfRole, Keys, above, Lacks
<1>4. StandbySent' /\ EarlyUnserved' BY DEF HeldInv, StandbySent, EarlyUnserved, OfRole, Keys, above
<1>5. NoteHeld' BY DEF HeldInv, NoteHeld, OfRole, Keys, above, Lacks
<1>6. Clocks' BY DEF HeldInv, Clocks, Runs
<1> QED BY <1>1, <1>2, <1>3, <1>4, <1>5, <1>6 DEF HeldInv

LEMMA LeaderHolds == ASSUME TypeOK, HeldInv, LeaderUpdates PROVE HeldInv' /\ update' \in Seq(DsSet)
<1> DEFINE set == Intent(m).set
<1>1. m \in Machine /\ Fits(m) BY DEF TypeOK, HeldInv
<1>2. m' = m /\ line' = line /\ parent' = parent /\ unseen' = unseen /\ update' = <<set>> BY DEF LeaderUpdates
<1>3. /\ \A k \in Key : k \in set.own <=> m.row[k].ds = "in"
      /\ set \in DsSet
  BY DEF Intent, DsSet
<1>4. \A k \in OfRole(m, State \ {"none"}, "KSK") : m.row[k].ds # "unset" BY DEF LeaderUpdates, Intent
<1> HIDE DEF set
<1>5. DOMAIN update' = {1} /\ update'[1] = set BY <1>2
<1>6. Fits(m)' /\ OneEach(m)' /\ OneAnchor(m)' /\ NoteHeld' /\ Clocks'
  BY <1>2 DEF HeldInv, Fits, FitsAt, Sep, OneEach, OneAnchor, Anchors, OfRole, Keys, NoteHeld, Clocks, Runs, Lacks
<1>7. AnchorHeld'
  <2> SUFFICES ASSUME AtParent, NEW u \in Anchors(m)
               PROVE  u \in parent.own /\ (\A i \in DOMAIN line : ~Lacks(line[i], u)) /\ \A i \in DOMAIN update' : u \in update'[i].own
    BY <1>2 DEF AnchorHeld, Anchors, OfRole, Keys, Lacks
  <2>1. u \in Key /\ m.row[u].state = "active" /\ m.row[u].role = "KSK" /\ m.row[u].ds # "out" BY DEF Anchors, OfRole, Keys
  <2>2. u \in OfRole(m, State \ {"none"}, "KSK") BY <2>1 DEF OfRole, Keys, State
  <2>3. m.row[u].ds = "in" BY <1>1, <1>4, <2>1, <2>2, RowType
  <2> QED BY <1>3, <1>5, <2>1, <2>3 DEF HeldInv, AnchorHeld
<1>8. StandbySent'
  <2> SUFFICES ASSUME NEW k \in OfRole(m, {"standby"}, "KSK") PROVE k \in set.own
    BY <1>2, <1>5 DEF StandbySent, OfRole, Keys
  <2>1. k \in Key /\ m.row[k].state = "standby" /\ Sep(m, k) BY DEF OfRole, Keys, Sep
  <2> QED BY <1>1, <1>3, <2>1 DEF Fits, FitsAt
<1>9. EarlyUnserved'
  <2> SUFFICES ASSUME NEW k \in Keys(m, Early) PROVE k \notin parent.own /\ k \notin set.own
    BY <1>2, <1>5 DEF EarlyUnserved, Keys
  <2>1. k \in Key /\ m.row[k].state \in Early BY DEF Keys
  <2>2. m.row[k].ds # "in" BY <1>1, <2>1 DEF Fits, FitsAt, Early
  <2> QED BY <1>3, <2>1, <2>2 DEF HeldInv, EarlyUnserved
<1>10. update' \in Seq(DsSet) BY <1>2, <1>3
<1> QED BY <1>6, <1>7, <1>8, <1>9, <1>10 DEF HeldInv

\* What the parent served before, a validator may hold.
LEMMA ServeLine ==
  ASSUME TypeOK, NEW set, Serve(set)
  PROVE  /\ line' \in Seq(Entry) /\ DOMAIN line' = 1..(Len(line) + 1) /\ DOMAIN line = 1..Len(line) /\ Len(line) \in Nat
         /\ \A i \in DOMAIN line : line'[i] = line[i]
         /\ line'[Len(line) + 1] = [key |-> 0, set |-> parent.own]
         /\ parent' = set
<1>1. line \in Seq(Entry) /\ line' = Append(line, [key |-> 0, set |-> parent.own]) /\ parent' = set
  BY DEF TypeOK, Entry, Serve
<1>2. [key |-> 0, set |-> parent.own] \in Entry BY DEF TypeOK, DsSet, Entry
<1> QED BY <1>1, <1>2

LEMMA ServeClocks ==
  ASSUME TypeOK, Clocks, NEW set, Serve(set), m' = m
  PROVE  /\ Clocks'
         /\ \A k \in parent.own, i \in DOMAIN line' : Lacks(line'[i], k) => i \in DOMAIN line /\ Lacks(line[i], k)
         /\ \A k \in parent.own \cap Key : After(k, line) => After(k, line')
<1> DEFINE n == Len(line) + 1
<1>1. /\ DOMAIN line' = 1..n /\ DOMAIN line = 1..Len(line) /\ Len(line) \in Nat
      /\ \A i \in DOMAIN line : line'[i] = line[i]
      /\ line'[n].key = 0 /\ line'[n].set = parent.own
  BY ServeLine
<1>2. \A i \in DOMAIN line' : i \in DOMAIN line \/ i = n BY <1>1
<1> HIDE DEF n
<1>3. ASSUME NEW i \in DOMAIN line' PROVE Runs(m, line'[i])
  <2>1. CASE i \in DOMAIN line BY <1>1, <2>1 DEF Clocks
  <2>2. CASE i = n BY <1>1, <2>2 DEF Runs
  <2> QED BY <1>2, <2>1, <2>2
<1>4. \A i, j \in DOMAIN line' : line'[i].key # 0 /\ line'[i].key = line'[j].key => i = j BY <1>1, <1>2 DEF Clocks
<1>5. Clocks' BY <1>3, <1>4 DEF Clocks, Runs
<1>6. ASSUME NEW k \in parent.own, NEW i \in DOMAIN line', Lacks(line'[i], k) PROVE i \in DOMAIN line /\ Lacks(line[i], k)
  BY <1>1, <1>2, <1>6 DEF Lacks
<1>7. ASSUME NEW k \in parent.own \cap Key, After(k, line), NEW i \in DOMAIN line', NEW j \in DOMAIN line',
             line'[i].key = k, Lacks(line'[j], k)
      PROVE  j < i
  <2>1. k # 0 BY KeyAssumption
  <2>2. i \in DOMAIN line /\ line[i].key = k BY <1>1, <1>2, <1>7, <2>1
  <2> QED BY <1>6, <1>7, <2>2 DEF After
<1> QED BY <1>5, <1>6, <1>7 DEF After

LEMMA AppliesHolds ==
  ASSUME TypeOK, HeldInv, ParentApplies
  PROVE  HeldInv' /\ line' \in Seq(Entry) /\ parent' \in DsSet /\ update' = <<>>
<1>1. update \in Seq(DsSet) /\ update # <<>> /\ m' = m /\ unseen' = unseen /\ ~unseen /\ update' = <<>> /\ Serve(update[1])
  BY DEF TypeOK, ParentApplies
<1>2. 1 \in DOMAIN update /\ update[1] \in DsSet BY <1>1
<1>3. line' \in Seq(Entry) /\ parent' = update[1] BY <1>1, ServeLine
<1>4. /\ Clocks'
      /\ \A k \in parent.own, i \in DOMAIN line' : Lacks(line'[i], k) => i \in DOMAIN line /\ Lacks(line[i], k)
      /\ \A k \in parent.own \cap Key : After(k, line) => After(k, line')
  BY <1>1, ServeClocks DEF HeldInv
<1>5. DOMAIN update' = {} BY <1>1
<1>6. Fits(m)' /\ OneEach(m)' /\ OneAnchor(m)'
  BY <1>1 DEF HeldInv, Fits, FitsAt, Sep, OneEach, OneAnchor, Anchors, OfRole, Keys
<1>7. AnchorHeld'
  <2> SUFFICES ASSUME AtParent, NEW u \in Anchors(m)
               PROVE  u \in update[1].own /\ \A i \in DOMAIN line' : ~Lacks(line'[i], u)
    BY <1>1, <1>3, <1>5 DEF AnchorHeld, Anchors, OfRole, Keys, Lacks
  <2> QED BY <1>2, <1>4 DEF HeldInv, AnchorHeld
<1>8. StandbySent' BY <1>5 DEF StandbySent
<1>9. EarlyUnserved'
  <2> SUFFICES ASSUME NEW k \in Keys(m, Early) PROVE k \notin update[1].own
    BY <1>1, <1>3, <1>5 DEF EarlyUnserved, Keys
  <2> QED BY <1>2 DEF HeldInv, EarlyUnserved
<1>10. NoteHeld'
  <2> SUFFICES ASSUME NEW k \in OfRole(m, {"standby"}, "KSK"), m.present[k] # "none"
               PROVE  /\ k \in update[1].own
                      /\ m.present[k] = "over" => \A i \in DOMAIN line' : ~Lacks(line'[i], k)
                      /\ After(k, line')
    BY <1>1, <1>3 DEF NoteHeld, OfRole, Keys, Lacks, After
  <2>1. k \in Key /\ k \in parent.own /\ (m.present[k] = "over" => \A i \in DOMAIN line : ~Lacks(line[i], k)) /\ After(k, line)
    BY <1>1 DEF HeldInv, NoteHeld, After, OfRole, Keys
  <2>2. k \in update[1].own BY <1>2, <2>1 DEF HeldInv, StandbySent
  <2> QED BY <1>4, <2>1, <2>2
<1> QED BY <1>1, <1>2, <1>3, <1>4, <1>6, <1>7, <1>8, <1>9, <1>10 DEF HeldInv

LEMMA BackHolds ==
  ASSUME TypeOK, HeldInv, ParentGoesBack
  PROVE  HeldInv' /\ line' \in Seq(Entry) /\ parent' \in DsSet
<1>1. m' = m /\ unseen' = TRUE /\ update' = update BY DEF ParentGoesBack
<1>2. PICK k \in Key :
        \/ m.row[k].state = "standby" /\ k \in parent.own /\ Serve([parent EXCEPT !.own = @ \ {k}])
        \/ k \in Withdrawn(m) \ parent.own /\ Serve([parent EXCEPT !.own = @ \cup {k}])
  BY DEF ParentGoesBack
<1>3. m \in Machine /\ parent \in DsSet BY DEF TypeOK
<1>4. \E set :
        /\ Serve(set) /\ set \in DsSet
        /\ \/ m.row[k].state = "standby" /\ k \in parent.own /\ set.own = parent.own \ {k}
           \/ m.row[k].state = "active" /\ m.row[k].ds = "out" /\ k \notin parent.own /\ set.own = parent.own \cup {k}
  <2>1. CASE m.row[k].state = "standby" /\ k \in parent.own /\ Serve([parent EXCEPT !.own = @ \ {k}])
    <3>1. [parent EXCEPT !.own = @ \ {k}] \in DsSet BY <1>3 DEF DsSet
    <3>2. [parent EXCEPT !.own = @ \ {k}].own = parent.own \ {k} BY <1>3 DEF DsSet
    <3> QED BY <2>1, <3>1, <3>2
  <2>2. CASE k \in Withdrawn(m) \ parent.own /\ Serve([parent EXCEPT !.own = @ \cup {k}])
    <3>1. [parent EXCEPT !.own = @ \cup {k}] \in DsSet BY <1>3 DEF DsSet
    <3>2. [parent EXCEPT !.own = @ \cup {k}].own = parent.own \cup {k} BY <1>3 DEF DsSet
    <3>3. m.row[k].state = "active" /\ m.row[k].ds = "out" BY <2>2 DEF Withdrawn, OfRole, Keys
    <3> QED BY <2>2, <3>1, <3>2, <3>3
  <2> QED BY <1>2, <2>1, <2>2
<1>5. PICK set :
        /\ Serve(set) /\ set \in DsSet
        /\ \/ m.row[k].state = "standby" /\ k \in parent.own /\ set.own = parent.own \ {k}
           \/ m.row[k].state = "active" /\ m.row[k].ds = "out" /\ k \notin parent.own /\ set.own = parent.own \cup {k}
  BY <1>4
<1>6. line' \in Seq(Entry) /\ parent' = set BY <1>5, ServeLine
<1>7. /\ Clocks'
      /\ \A o \in parent.own, i \in DOMAIN line' : Lacks(line'[i], o) => i \in DOMAIN line /\ Lacks(line[i], o)
      /\ \A o \in parent.own \cap Key : After(o, line) => After(o, line')
  BY <1>1, <1>5, ServeClocks DEF HeldInv
<1>8. \A o : o # k => (o \in set.own <=> o \in parent.own) BY <1>5
<1>9. Fits(m)' /\ OneEach(m)' /\ OneAnchor(m)'
  BY <1>1 DEF HeldInv, Fits, FitsAt, Sep, OneEach, OneAnchor, Anchors, OfRole, Keys
<1>10. AnchorHeld'
  <2> SUFFICES ASSUME AtParent, NEW u \in Anchors(m)
               PROVE  /\ u \in set.own /\ (\A i \in DOMAIN line' : ~Lacks(line'[i], u))
                      /\ \A i \in DOMAIN update : u \in update[i].own
    BY <1>1, <1>6 DEF AnchorHeld, Anchors, OfRole, Keys, Lacks
  <2>1. m.row[u].state = "active" /\ m.row[u].ds # "out" BY DEF Anchors, OfRole, Keys
  <2>2. u # k BY <1>5, <2>1
  <2> QED BY <1>7, <1>8, <2>2 DEF HeldInv, AnchorHeld
<1>11. StandbySent'
  <2> SUFFICES ASSUME NEW o \in OfRole(m, {"standby"}, "KSK"), o \in set.own PROVE \A i \in DOMAIN update : o \in update[i].own
    BY <1>1, <1>6 DEF StandbySent, OfRole, Keys
  <2>1. m.row[o].state = "standby" BY DEF OfRole, Keys
  <2>2. o \in parent.own BY <1>5, <2>1
  <2> QED BY <2>2 DEF HeldInv, StandbySent
<1>12. EarlyUnserved'
  <2> SUFFICES ASSUME NEW o \in Keys(m, Early) PROVE o \notin set.own /\ \A i \in DOMAIN update : o \notin update[i].own
    BY <1>1, <1>6 DEF EarlyUnserved, Keys
  <2>1. m.row[o].state \in Early BY DEF Keys
  <2>2. o # k BY <1>5, <2>1 DEF Early
  <2> QED BY <1>8, <2>2 DEF HeldInv, EarlyUnserved
<1>13. NoteHeld'
  <2> SUFFICES ASSUME NEW o \in OfRole(m, {"standby"}, "KSK"), m.present[o] # "none"
               PROVE  \/ /\ o \in set.own
                         /\ m.present[o] = "over" => \A i \in DOMAIN line' : ~Lacks(line'[i], o)
                         /\ After(o, line')
                      \/ o \notin set.own
    BY <1>1, <1>6 DEF NoteHeld, OfRole, Keys, Lacks, After
  <2>1. o \in Key /\ m.row[o].state = "standby" BY DEF OfRole, Keys
  <2>2. \/ /\ o \in parent.own
           /\ m.present[o] = "over" => \A i \in DOMAIN line : ~Lacks(line[i], o)
           /\ After(o, line)
        \/ o \notin parent.own
    BY DEF HeldInv, NoteHeld, After
  <2>3. o \in set.own => o \in parent.own BY <1>5, <2>1
  <2> QED BY <1>7, <2>1, <2>2, <2>3
<1> QED BY <1>5, <1>6, <1>7, <1>9, <1>10, <1>11, <1>12, <1>13 DEF HeldInv

\* The wait of the key at the head of the line is over.
LEMMA TtlHolds ==
  ASSUME TypeOK, HeldInv, TtlPasses
  PROVE  HeldInv' /\ line' \in Seq(Entry) /\ m' \in Machine /\ m'.row = m.row /\ m'.dist = m.dist /\ m'.others = m.others
<1> DEFINE k == Head(line).key
<1>1. m \in Machine /\ line \in Seq(Entry) /\ line # <<>> /\ parent' = parent /\ update' = update /\ unseen' = unseen
  BY DEF TypeOK, Entry, TtlPasses, above
<1>2. /\ line' \in Seq(Entry) /\ DOMAIN line = 1..Len(line) /\ DOMAIN line' = 1..(Len(line) - 1) /\ Len(line) \in Nat \ {0}
      /\ \A i \in DOMAIN line' : line'[i] = line[i + 1] /\ i + 1 \in DOMAIN line
      /\ k = line[1].key /\ 1 \in DOMAIN line /\ k \in Key \cup {0}
  <2>1. DOMAIN line = 1..Len(line) /\ Len(line) \in Nat \ {0} /\ Head(line) = line[1] /\ 1 \in DOMAIN line BY <1>1
  <2>2. line' = Tail(line) BY DEF TtlPasses
  <2>3. line' \in Seq(Entry) /\ Len(line') = Len(line) - 1 BY <1>1, <2>2
  <2>4. DOMAIN line' = 1..(Len(line) - 1) BY <2>1, <2>3
  <2>5. \A i \in 1..(Len(line) - 1) : line'[i] = line[i + 1] /\ i + 1 \in DOMAIN line BY <1>1, <2>1, <2>2
  <2>6. line[1] \in Entry BY <1>1, <2>1
  <2>7. k \in Key \cup {0} BY <2>1, <2>6 DEF Entry
  <2> QED BY <2>1, <2>3, <2>4, <2>5, <2>7
<1>3. m' = CASE k = 0 -> m
             [] k # 0 /\ m.present[k] = "noted" -> [m EXCEPT !.present[k] = "over"]
             [] OTHER -> [m EXCEPT !.since[k] = "over"]
  BY DEF TtlPasses
<1> HIDE DEF k
<1>4. k # 0 => m.present[k] = "noted" \/ m.since[k] = "noted" BY <1>2 DEF HeldInv, Clocks, Runs
<1>5. /\ m' \in Machine /\ m'.row = m.row /\ m'.dist = m.dist /\ m'.others = m.others
      /\ \A o \in Key : /\ m'.present[o] = m.present[o] \/ (o = k /\ k # 0 /\ m.present[o] = "noted" /\ m'.present[o] = "over")
                        /\ m'.since[o] = m.since[o] \/ (o = k /\ k # 0 /\ m.since[o] = "noted" /\ m'.since[o] = "over")
  <2>1. CASE k = 0 BY <1>1, <1>3, <2>1
  <2>2. CASE k # 0 /\ m.present[k] = "noted"
    <3>1. k \in Key BY <1>2, <2>2
    <3>2. m' = [m EXCEPT !.present[k] = "over"] BY <1>3, <2>2
    <3>3. OwnStep(m, m', k) /\ m'.row = m.row /\ m'.dist = m.dist /\ m'.since = m.since /\ m'.present[k] = "over"
      BY <1>1, <3>1, <3>2, LeaveOne DEF Waited
    <3> QED BY <2>2, <3>3 DEF OwnStep, Keeps
  <2>3. CASE k # 0 /\ m.present[k] # "noted"
    <3>1. k \in Key /\ m.since[k] = "noted" BY <1>2, <1>4, <2>3
    <3>2. m' = [m EXCEPT !.since[k] = "over"] BY <1>3, <2>3
    <3>3. m.since \in [Key -> Waited] BY <1>1 DEF Machine
    <3> DEFINE f == [m.since EXCEPT ![k] = "over"]
    <3>4. f \in [Key -> Waited] /\ f[k] = "over" /\ \A o \in Key \ {k} : f[o] = m.since[o] BY <3>1, <3>3 DEF Waited
    <3>5. m' = [m EXCEPT !.since = f] BY <1>1, <3>2 DEF Machine
    <3> HIDE DEF f
    <3>6. m' \in Machine /\ m'.row = m.row /\ m'.dist = m.dist /\ m'.others = m.others /\ m'.present = m.present /\ m'.since = f
      BY <1>1, <3>4, <3>5 DEF Machine
    <3> QED BY <2>3, <3>1, <3>4, <3>6
  <2> QED BY <2>1, <2>2, <2>3
<1>6. Fits(m)'
  <2> SUFFICES ASSUME NEW o \in Key PROVE FitsAt(m, o)' BY DEF Fits
  <2>1. FitsAt(m, o) BY DEF HeldInv, Fits
  <2> QED BY <1>5, <2>1 DEF FitsAt, Sep
<1>7. OneEach(m)' /\ OneAnchor(m)' BY <1>5 DEF HeldInv, OneEach, OneAnchor, Anchors, OfRole, Keys
<1>8. AnchorHeld'
  <2> SUFFICES ASSUME AtParent, NEW u \in Anchors(m)
               PROVE  /\ u \in parent.own /\ (\A i \in DOMAIN line' : ~Lacks(line'[i], u))
                      /\ \A i \in DOMAIN update : u \in update[i].own
    BY <1>1, <1>5 DEF AnchorHeld, Anchors, OfRole, Keys, Lacks
  <2> QED BY <1>2 DEF HeldInv, AnchorHeld
<1>9. StandbySent' /\ EarlyUnserved' BY <1>1, <1>5 DEF HeldInv, StandbySent, EarlyUnserved, OfRole, Keys
<1>10. NoteHeld'
  <2> SUFFICES ASSUME NEW o \in OfRole(m, {"standby"}, "KSK"), m'.present[o] # "none"
               PROVE  \/ /\ o \in parent.own
                         /\ m'.present[o] = "over" => \A i \in DOMAIN line' : ~Lacks(line'[i], o)
                         /\ After(o, line')
                      \/ unseen /\ o \notin parent.own
    BY <1>1, <1>5 DEF NoteHeld, OfRole, Keys, Lacks, After
  <2>1. o \in Key BY DEF OfRole, Keys
  <2>2. m.present[o] # "none" BY <1>5, <2>1
  <2>3. \/ /\ o \in parent.own
           /\ m.present[o] = "over" => \A i \in DOMAIN line : ~Lacks(line[i], o)
           /\ After(o, line)
        \/ unseen /\ o \notin parent.own
    BY <2>2 DEF HeldInv, NoteHeld, After
  <2>4. ASSUME After(o, line) PROVE After(o, line')
    <3> SUFFICES ASSUME NEW i \in DOMAIN line', NEW j \in DOMAIN line', line'[i].key = o, Lacks(line'[j], o) PROVE j < i
      BY DEF After
    <3>1. j + 1 < i + 1 BY <1>2, <2>4 DEF After
    <3> QED BY <1>2, <3>1
  <2>5. ASSUME After(o, line), o = k, NEW j \in DOMAIN line', Lacks(line'[j], o) PROVE FALSE
    <3>1. line[1].key = o /\ Lacks(line[j + 1], o) /\ j + 1 \in DOMAIN line /\ 1 \in DOMAIN line BY <1>2, <2>5
    <3>2. j + 1 < 1 BY <2>5, <3>1 DEF After
    <3> QED BY <1>2, <3>2
  <2>6. ASSUME o \in parent.own, After(o, line), m'.present[o] = "over", NEW j \in DOMAIN line', Lacks(line'[j], o) PROVE FALSE
    <3>1. CASE m.present[o] = "over" BY <1>2, <2>3, <2>6, <3>1
    <3>2. CASE m.present[o] # "over" BY <1>5, <2>1, <2>5, <2>6, <3>2
    <3> QED BY <3>1, <3>2
  <2> QED BY <2>3, <2>4, <2>6
<1>11. Clocks'
  <2>2. \A i \in DOMAIN line' : line'[i].key # 0 => m'.present[line'[i].key] = "noted" \/ m'.since[line'[i].key] = "noted"
    <3> SUFFICES ASSUME NEW i \in DOMAIN line', line'[i].key # 0 PROVE m'.present[line'[i].key] = "noted" \/ m'.since[line'[i].key] = "noted"
      OBVIOUS
    <3>1. i + 1 \in DOMAIN line /\ line[i + 1].key = line'[i].key /\ line[i + 1] \in Entry BY <1>1, <1>2
    <3>2. line'[i].key \in Key BY <3>1 DEF Entry
    <3>3. i + 1 # 1 BY <1>2
    <3>4. line'[i].key # k BY <1>2, <3>1, <3>3 DEF HeldInv, Clocks
    <3>5. m.present[line'[i].key] = "noted" \/ m.since[line'[i].key] = "noted" BY <3>1 DEF HeldInv, Clocks, Runs
    <3> QED BY <1>5, <3>2, <3>4, <3>5
  <2>3. ASSUME NEW i \in DOMAIN line', NEW j \in DOMAIN line', line'[i].key # 0, line'[i].key = line'[j].key PROVE i = j
    <3>1. i + 1 = j + 1 BY <1>2, <2>3 DEF HeldInv, Clocks
    <3> QED BY <1>2, <3>1
  <2> QED BY <2>2, <2>3 DEF Clocks, Runs
<1> QED BY <1>2, <1>5, <1>6, <1>7, <1>8, <1>9, <1>10, <1>11 DEF HeldInv

-----------------------------------------------------------------------------
(* What the other signers serve. *)

\* Announced, Confirms and Fresh of a machine x that is owed to owe[k] of key k.
AnnouncedIn(x, owe) ==
  /\ \A a \in asked \cup answers : a.kind = "propagated" => x.row[a.key].state \notin {"none", "created"}
  /\ \A a \in asked : a.kind = "propagated" => a.key \in sent /\ \A p \in owe[a.key] \ a.who : a.key \in serves[p]
  /\ \A a \in answers : a.kind = "propagated" /\ Pub(x.row[a.key].state) =>
        a.key \in sent /\ \A p \in owe[a.key] : a.key \in serves[p]
ConfirmsAt(x, owe, k) ==
  /\ x.row[k].state \in Accepted => \A p \in owe[k] : k \in serves[p] /\ k \in sent
  /\ x.dist[k].live /\ x.row[k].state = "mpdist" => owe[k] \subseteq x.dist[k].expected \cup x.dist[k].applied
  /\ Pub(x.row[k].state) /\ x.dist[k].live => \A p \in owe[k] \cap x.dist[k].applied : k \in serves[p] /\ k \in sent
ServedIn(x, owe) == AnnouncedIn(x, owe) /\ (\A k \in Key : ConfirmsAt(x, owe, k)) /\ FreshIn(x)
OweAll == [k \in Key |-> Owes(k)]

LEMMA ServedAll == ASSUME TypeOK PROVE ServedInv <=> ServedIn(m, OweAll)
<1>1. \A a \in asked \cup answers : a.key \in Key BY DEF TypeOK, Asked, Answer
<1>2. \A k \in Key : OweAll[k] = Owes(k) BY DEF OweAll
<1>3. Announced <=> AnnouncedIn(m, OweAll) BY <1>1, <1>2 DEF Announced, AnnouncedIn
<1>4. Confirms <=> \A k \in Key : ConfirmsAt(m, OweAll, k) BY <1>2 DEF Confirms, ConfirmsAt
<1> QED BY <1>3, <1>4 DEF ServedInv, ServedIn, Fresh, FreshIn

LEMMA PubStage ==
  ASSUME NEW x \in Machine, NEW k \in Key
  PROVE  /\ Pub(x.row[k].state) <=> Stage(x.row[k].state) \in 2..6
         /\ x.row[k].state = "mpdist" <=> Stage(x.row[k].state) = 2
         /\ x.row[k].state \in Accepted => Pub(x.row[k].state)
BY RowType DEF Stage, Pub, State, Accepted

\* The machine moves on: a key's distribution is the one there was, or is to
\* everyone it is owed.
LEMMA ServedDeals ==
  ASSUME NEW x \in Machine, NEW y \in Machine, NEW owe, ServedIn(x, owe),
         \A a \in asked \cup answers : a.key \in Key,
         \A k \in Key : owe[k] \subseteq x.others,
         \A k \in Key : Stage(x.row[k].state) <= Stage(y.row[k].state) /\ Deals(x, y, k)
  PROVE  ServedIn(y, owe)
<1>1. FreshIn(y) BY FreshDeals DEF ServedIn
<1>2. ASSUME NEW k \in Key
      PROVE  /\ x.row[k].state \notin {"none", "created"} => y.row[k].state \notin {"none", "created"}
             /\ x.row[k].state \notin {"none", "created"} /\ Pub(y.row[k].state) => Pub(x.row[k].state)
             /\ x.row[k].state \notin {"none", "created"} /\ y.row[k].state = "mpdist" => x.row[k].state = "mpdist"
  <2>1. Stage(x.row[k].state) <= Stage(y.row[k].state) /\ Stage(x.row[k].state) \in 0..8 /\ Stage(y.row[k].state) \in 0..8
    BY StageNat
  <2>2. /\ Stage(x.row[k].state) >= 2 => Stage(y.row[k].state) >= 2
        /\ Stage(x.row[k].state) >= 2 /\ Stage(y.row[k].state) \in 2..6 => Stage(x.row[k].state) \in 2..6
        /\ Stage(x.row[k].state) >= 2 /\ Stage(y.row[k].state) = 2 => Stage(x.row[k].state) = 2
    BY <2>1
  <2> QED BY <2>2, FreshStage, PubStage
<1>3. AnnouncedIn(y, owe) BY <1>2 DEF ServedIn, AnnouncedIn
<1>4. ASSUME NEW k \in Key PROVE ConfirmsAt(y, owe, k)
  <2>1. Deals(x, y, k) /\ ConfirmsAt(x, owe, k) /\ owe[k] \subseteq x.others BY DEF ServedIn
  <2>2. y.row[k].state \in Accepted => \A p \in owe[k] : k \in serves[p] /\ k \in sent
    BY <2>1 DEF Deals, ConfirmsAt
  <2>3. CASE x.dist[k].live /\ y.dist[k].expected = x.dist[k].expected /\ y.dist[k].applied = x.dist[k].applied
    <3>1. x.row[k].state \notin {"none", "created"} BY <2>3 DEF ServedIn, FreshIn
    <3> QED BY <1>2, <2>1, <2>2, <2>3, <3>1 DEF ConfirmsAt
  <2>4. CASE y.dist[k].expected = x.others /\ y.dist[k].applied = {} BY <2>1, <2>2, <2>4 DEF ConfirmsAt
  <2>5. CASE ~y.dist[k].live BY <2>2, <2>5 DEF ConfirmsAt
  <2> QED BY <2>1, <2>3, <2>4, <2>5 DEF Deals
<1> QED BY <1>1, <1>3, <1>4 DEF ServedIn

\* An answer of every signer expected: the key it is of is served where it is owed.
LEMMA ServedCloses ==
  ASSUME NEW x \in Machine, NEW y \in Machine, NEW owe, ServedIn(x, owe), NEW a \in answers, a.key \in Key,
         \A b \in asked \cup answers : b.key \in Key,
         Stage(x.row[a.key].state) <= Stage(y.row[a.key].state), Closes(x, y, a.key), x.dist[a.key].live,
         x.dist[a.key].expected = {} \/ ((x.dist[a.key].removal <=> a.kind = "removed") /\ a.kind # "rejected"),
         a.kind \in Kinds,
         \A k \in Key \ {a.key} : y.row[k] = x.row[k] /\ y.dist[k] = x.dist[k]
  PROVE  ServedIn(y, owe)
<1> DEFINE k == a.key
<1>0. k \in Key /\ a \in answers OBVIOUS
<1>1. x.row[k].state \notin {"none", "created"} /\ (x.dist[k].removal => x.row[k].state \in {"mpremove", "removed"})
  BY DEF ServedIn, FreshIn
<1>2. /\ y.row[k].state \notin {"none", "created"}
      /\ Pub(y.row[k].state) => Pub(x.row[k].state)
      /\ y.row[k].state = "mpdist" => x.row[k].state = "mpdist"
      /\ x.row[k].state \in {"mpremove", "removed"} => y.row[k].state \in {"mpremove", "removed"} /\ ~Pub(y.row[k].state)
  <2>1. Stage(x.row[k].state) <= Stage(y.row[k].state) /\ Stage(x.row[k].state) \in 0..8 /\ Stage(y.row[k].state) \in 0..8
    BY StageNat
  <2>2. Stage(x.row[k].state) >= 2 BY <1>0, <1>1, FreshStage
  <2>3. /\ Stage(y.row[k].state) >= 2
        /\ Stage(y.row[k].state) \in 2..6 => Stage(x.row[k].state) \in 2..6
        /\ Stage(y.row[k].state) = 2 => Stage(x.row[k].state) = 2
        /\ Stage(x.row[k].state) >= 7 => Stage(y.row[k].state) >= 7 /\ ~(Stage(y.row[k].state) \in 2..6)
    BY <2>1, <2>2
  <2> QED BY <1>0, <2>3, FreshStage, PubStage
<1>3. Closes(x, y, k) /\ ConfirmsAt(x, owe, k) BY <1>0 DEF ServedIn
<1>4. ASSUME Pub(x.row[k].state), x.dist[k].expected # {}
      PROVE  k \in sent /\ \A p \in owe[k] : k \in serves[p]
  <2>1. ~x.dist[k].removal BY <1>1, <1>4 DEF Pub
  <2>2. a.kind = "propagated" BY <1>4, <2>1 DEF Kinds
  <2> QED BY <1>0, <1>4, <2>2 DEF ServedIn, AnnouncedIn
<1>5. \A p \in owe[k] \cap (x.dist[k].applied \cup x.dist[k].expected) : Pub(x.row[k].state) => k \in serves[p] /\ k \in sent
  BY <1>3, <1>4 DEF ConfirmsAt
<1>6. FreshIn(y)
  <2> SUFFICES ASSUME NEW o \in Key, y.dist[o].live
               PROVE  /\ y.row[o].state \notin {"none", "created"}
                      /\ y.dist[o].removal => y.row[o].state \in {"mpremove", "removed"}
    BY DEF FreshIn
  <2>1. CASE o = k BY <1>1, <1>2, <1>3, <2>1 DEF Closes
  <2>2. CASE o # k BY <2>2 DEF ServedIn, FreshIn
  <2> QED BY <2>1, <2>2
<1>7. ConfirmsAt(y, owe, k)
  <2>1. ASSUME y.row[k].state \in Accepted, NEW p \in owe[k] PROVE k \in serves[p] /\ k \in sent
    <3>1. CASE x.row[k].state \in Accepted BY <1>3, <3>1 DEF ConfirmsAt
    <3>2. CASE x.row[k].state = "mpdist"
      <4>1. p \in x.dist[k].expected \cup x.dist[k].applied BY <1>3, <2>1, <3>2 DEF ConfirmsAt
      <4>2. Pub(x.row[k].state) BY <3>2 DEF Pub
      <4> QED BY <1>5, <4>1, <4>2
    <3> QED BY <1>3, <2>1, <3>1, <3>2 DEF Closes
  <2>2. y.dist[k].live /\ y.row[k].state = "mpdist" => owe[k] \subseteq y.dist[k].expected \cup y.dist[k].applied
    BY <1>2, <1>3 DEF Closes, ConfirmsAt
  <2>3. Pub(y.row[k].state) /\ y.dist[k].live => \A p \in owe[k] \cap y.dist[k].applied : k \in serves[p] /\ k \in sent
    BY <1>2, <1>3, <1>5 DEF Closes
  <2> QED BY <2>1, <2>2, <2>3 DEF ConfirmsAt
<1>8. ASSUME NEW o \in Key PROVE ConfirmsAt(y, owe, o)
  <2>1. CASE o # k BY <2>1 DEF ServedIn, ConfirmsAt
  <2> QED BY <1>7, <2>1
<1>9. AnnouncedIn(y, owe)
  <2>1. ASSUME NEW b \in asked \cup answers, b.kind = "propagated"
        PROVE  y.row[b.key].state \notin {"none", "created"}
    <3>1. CASE b.key = k BY <1>2, <3>1
    <3>2. CASE b.key # k BY <2>1, <3>2 DEF ServedIn, AnnouncedIn
    <3> QED BY <3>1, <3>2
  <2>2. ASSUME NEW b \in answers, Pub(y.row[b.key].state) PROVE Pub(x.row[b.key].state)
    <3>1. CASE b.key = k BY <1>2, <2>2, <3>1
    <3>2. CASE b.key # k BY <2>2, <3>2
    <3> QED BY <3>1, <3>2
  <2> QED BY <2>1, <2>2 DEF ServedIn, AnnouncedIn
<1> QED BY <1>6, <1>8, <1>9 DEF ServedIn

\* The signers changed.
LEMMA ServedLed ==
  ASSUME NEW x \in Machine, NEW y \in Machine, NEW owe, ServedIn(x, owe),
         \A a \in asked \cup answers : a.key \in Key,
         \A k \in Key : owe[k] \subseteq x.others,
         \A k \in Key : Stage(x.row[k].state) <= Stage(y.row[k].state) /\ Led(x, y, k)
  PROVE  ServedIn(y, owe)
<1>1. FreshIn(y)
  <2> SUFFICES ASSUME NEW k \in Key, y.dist[k].live
               PROVE  /\ y.row[k].state \notin {"none", "created"}
                      /\ y.dist[k].removal => y.row[k].state \in {"mpremove", "removed"}
    BY DEF FreshIn
  <2>1. CASE x.dist[k].live /\ y.dist[k].removal = x.dist[k].removal
    <3>1. Stage(x.row[k].state) >= 2 /\ (x.dist[k].removal => Stage(x.row[k].state) >= 7)
      BY <2>1, FreshStage DEF ServedIn, FreshIn
    <3>2. Stage(y.row[k].state) >= 2 /\ (y.dist[k].removal => Stage(y.row[k].state) >= 7) BY <2>1, <3>1, StageNat
    <3> QED BY <3>2, FreshStage
  <2>2. CASE Stage(y.row[k].state) >= 2 /\ (y.dist[k].removal => Stage(y.row[k].state) >= 7) BY <2>2, FreshStage
  <2> QED BY <2>1, <2>2 DEF Led
<1>2. ASSUME NEW k \in Key
      PROVE  /\ x.row[k].state \notin {"none", "created"} => y.row[k].state \notin {"none", "created"}
             /\ x.row[k].state \notin {"none", "created"} /\ Pub(y.row[k].state) => Pub(x.row[k].state)
             /\ x.row[k].state \notin {"none", "created"} /\ Stage(x.row[k].state) <= 2 => Pub(x.row[k].state)
  <2>1. Stage(x.row[k].state) <= Stage(y.row[k].state) /\ Stage(x.row[k].state) \in 0..8 /\ Stage(y.row[k].state) \in 0..8
    BY StageNat
  <2>2. /\ Stage(x.row[k].state) >= 2 => Stage(y.row[k].state) >= 2
        /\ Stage(x.row[k].state) >= 2 /\ Stage(y.row[k].state) \in 2..6 => Stage(x.row[k].state) \in 2..6
        /\ Stage(x.row[k].state) >= 2 /\ Stage(x.row[k].state) <= 2 => Stage(x.row[k].state) \in 2..6
    BY <2>1
  <2> QED BY <2>2, FreshStage, PubStage
<1>3. AnnouncedIn(y, owe) BY <1>2 DEF ServedIn, AnnouncedIn
<1>4. ASSUME NEW k \in Key PROVE ConfirmsAt(y, owe, k)
  <2>1. Led(x, y, k) /\ ConfirmsAt(x, owe, k) /\ owe[k] \subseteq x.others BY DEF ServedIn
  <2>2. x.dist[k].live => x.row[k].state \notin {"none", "created"} BY DEF ServedIn, FreshIn
  <2>3. ASSUME y.row[k].state \in Accepted, NEW p \in owe[k] PROVE k \in serves[p] /\ k \in sent
    <3>1. CASE x.row[k].state \in Accepted \/ x.others = {} BY <2>1, <3>1 DEF ConfirmsAt
    <3>2. CASE x.dist[k].live /\ Stage(x.row[k].state) <= 2 /\ x.others \subseteq x.dist[k].applied
      BY <1>2, <2>1, <2>2, <3>2 DEF ConfirmsAt
    <3> QED BY <2>1, <2>3, <3>1, <3>2 DEF Led
  <2>4. y.dist[k].live => owe[k] \subseteq y.dist[k].expected \cup y.dist[k].applied BY <2>1 DEF Led
  <2>5. Pub(y.row[k].state) /\ y.dist[k].live => \A p \in owe[k] \cap y.dist[k].applied : k \in serves[p] /\ k \in sent
    BY <1>2, <2>1, <2>2 DEF Led, ConfirmsAt
  <2> QED BY <2>3, <2>4, <2>5 DEF ConfirmsAt
<1> QED BY <1>1, <1>3, <1>4 DEF ServedIn

\* Less is owed, and nothing of a key that is not minted.
LEMMA ServedLess ==
  ASSUME NEW x, NEW y, NEW owe, NEW less, ServedIn(x, owe), y.row = x.row, y.dist = x.dist,
         \A a \in asked \cup answers : a.key \in Key,
         \A k \in Key : x.row[k].state # "none" => less[k] \subseteq owe[k]
  PROVE  ServedIn(y, less)
<1>1. FreshIn(y) BY DEF ServedIn, FreshIn
<1>2. AnnouncedIn(y, less)
  <2>1. \A a \in asked \cup answers : a.kind = "propagated" => less[a.key] \subseteq owe[a.key] BY DEF ServedIn, AnnouncedIn
  <2> QED BY <2>1 DEF ServedIn, AnnouncedIn
<1>3. ASSUME NEW k \in Key PROVE ConfirmsAt(y, less, k)
  <2>1. ConfirmsAt(x, owe, k) BY DEF ServedIn
  <2>2. CASE x.row[k].state = "none"
    <3>1. ~y.dist[k].live BY <2>2 DEF ServedIn, FreshIn
    <3> QED BY <2>2, <3>1 DEF ConfirmsAt, Accepted
  <2>3. CASE x.row[k].state # "none" BY <2>1, <2>3 DEF ConfirmsAt
  <2> QED BY <2>2, <2>3
<1> QED BY <1>1, <1>2, <1>3 DEF ServedIn

Inv == TypeOK /\ HeldInv /\ ServedInv

LEMMA Parts ==
  ASSUME TypeOK
  PROVE  /\ m \in Machine /\ m.others \subseteq Signer
         /\ \A a \in asked \cup answers : a.key \in Key
         /\ \A k \in Key : OweAll[k] \subseteq m.others
         /\ line \in Seq(Entry)
<1>1. m \in Machine /\ line \in Seq(Entry) BY DEF TypeOK, Entry
<1>2. \A a \in asked \cup answers : a.key \in Key BY DEF TypeOK, Asked, Answer
<1>3. \A k \in Key : OweAll[k] \subseteq m.others BY DEF OweAll, Owes
<1> QED BY <1>1, <1>2, <1>3 DEF Machine

\* The agent as it was: what holds of the machine's new value holds.
LEMMA ServedNext ==
  ASSUME TypeOK', NEW x, NEW owe, ServedIn(x, owe), m' = x,
         sent' = sent, asked' = asked, serves' = serves, answers' \subseteq answers,
         \A k \in Key : (Owes(k))' \subseteq owe[k]
  PROVE  ServedInv'
<1>1. \A a \in asked' \cup answers' : a.key \in Key BY DEF TypeOK, Asked, Answer
<1>2. Announced' BY <1>1 DEF Announced, ServedIn, AnnouncedIn
<1>3. Confirms' BY DEF Confirms, ServedIn, ConfirmsAt
<1>4. Fresh' BY DEF Fresh, ServedIn, FreshIn
<1> QED BY <1>2, <1>3, <1>4 DEF ServedInv

LEMMA TypedNext ==
  ASSUME TypeOK, m' \in Machine, line' \in Seq(Entry), UNCHANGED <<agent, joined, above>>,
         listed' \subseteq Signer, events' \in Nat
  PROVE  TypeOK'
BY DEF TypeOK, Entry, agent, above

\* A step of the machine alone.
LEMMA MovedServed ==
  ASSUME Inv, TypeOK', NEW x \in Machine, m' = x, x.others = m.others, UNCHANGED <<agent, joined>>,
         \A k \in Key : Stage(m.row[k].state) <= Stage(x.row[k].state) /\ Deals(m, x, k)
  PROVE  ServedInv'
<1>1. TypeOK BY DEF Inv
<1>2. ServedIn(m, OweAll) BY <1>1, ServedAll DEF Inv
<1>3. ServedIn(x, OweAll) BY <1>1, <1>2, Parts, ServedDeals
<1>4. \A k \in Key : (Owes(k))' \subseteq OweAll[k] BY DEF Owes, OweAll
<1> QED BY <1>3, <1>4, ServedNext DEF agent

LEMMA QuietInv == ASSUME Inv, Quietly PROVE Inv'
<1>1. PICK x : Becomes(x) /\ Steps(m, x) BY DEF Quietly
<1>2. HeldInv' /\ line' \in Seq(Entry) /\ m' \in Machine BY QuietHolds DEF Inv
<1>3. UNCHANGED <<agent, joined, above>> /\ listed' \subseteq Signer /\ events' \in Nat BY DEF Quietly
<1>4. TypeOK' BY <1>2, <1>3, TypedNext DEF Inv
<1>5. m' = x /\ x \in Machine /\ x.others = m.others BY <1>1 DEF Becomes, Steps
<1>6. \A k \in Key : Stage(m.row[k].state) <= Stage(x.row[k].state) /\ Deals(m, x, k) BY <1>1 DEF Steps, Moves, Grows
<1>7. ServedInv' BY <1>3, <1>4, <1>5, <1>6, MovedServed
<1> QED BY <1>2, <1>4, <1>7 DEF Inv

LEMMA TickInv ==
  ASSUME Inv, NEW known \in BOOLEAN, known => AsksParent(m), NEW over, NEW late, NEW bad,
         Tick(known, over, late, bad), events' \in Nat
  PROVE  Inv'
<1> DEFINE x == Driver(m)
           y == Ticked(x, known, over, late, bad)
<1>1. TypeOK /\ HeldInv /\ m \in Machine /\ Fits(m) BY DEF Inv, TypeOK, HeldInv
<1>2. Becomes(y) /\ unseen' = (unseen /\ ~known /\ AsksParent(m)) /\ UNCHANGED <<agent, joined, listed, parent, update>>
  BY DEF Tick
<1>3. HeldInv' /\ line' \in Seq(Entry) /\ m' \in Machine
  <2>1. parent' = parent /\ update' = update BY <1>2
  <2> QED BY <1>1, <1>2, <2>1, TickHolds
<1>4. TypeOK' BY <1>1, <1>2, <1>3 DEF TypeOK, Entry, agent
<1>5. Steps(m, x) BY <1>1, DriverSteps
<1> HIDE DEF x
<1>6. x \in Machine /\ Fits(x) BY <1>1, <1>5, StepsCalm, CalmFits DEF Steps
<1>7. TickTurns(x, y, Heeded(x, known)) BY <1>6, TickedTurns
<1> HIDE DEF y
<1>8. y \in Machine /\ y.others = x.others /\ x.others = m.others BY <1>5, <1>7 DEF TickTurns, Steps
<1>9. ServedIn(m, OweAll) BY <1>1, ServedAll DEF Inv
<1>10. ServedIn(x, OweAll)
  <2>1. \A k \in Key : Stage(m.row[k].state) <= Stage(x.row[k].state) /\ Deals(m, x, k) BY <1>5 DEF Steps, Moves, Grows
  <2> QED BY <1>1, <1>6, <1>9, <2>1, Parts, ServedDeals
<1>11. ServedIn(y, OweAll)
  <2>1. \A k \in Key : Stage(x.row[k].state) <= Stage(y.row[k].state) /\ Deals(x, y, k) BY <1>7 DEF TickTurns, Ticks1
  <2>2. \A k \in Key : OweAll[k] \subseteq x.others BY <1>1, <1>8, Parts
  <2> QED BY <1>1, <1>6, <1>8, <1>10, <2>1, <2>2, Parts, ServedDeals
<1>12. m' = y BY <1>2 DEF Becomes
<1>13. \A k \in Key : (Owes(k))' \subseteq OweAll[k] BY <1>2, <1>8, <1>12 DEF Owes, OweAll
<1>14. ServedInv' BY <1>2, <1>4, <1>11, <1>12, <1>13, ServedNext DEF agent
<1> QED BY <1>3, <1>4, <1>14 DEF Inv

LEMMA TicksInv == ASSUME Inv, Ticks PROVE Inv'
<1>1. events \in Nat BY DEF Inv, TypeOK
<1>2. AsksParent(m) \in BOOLEAN BY DEF AsksParent
<1>3. PICK known \in {FALSE, AsksParent(m)}, over \in SUBSET Waiting :
        \/ \E late \in {{}, Lost} : Tick(known, over, late, {}) /\ NothingHappens
        \/ Happens("slow") /\ Overdue # {} /\ Tick(known, over, Overdue, {})
        \/ Happens("strip") /\ Tick(known, over, {}, Key)
  BY DEF Ticks
<1>4. known \in BOOLEAN /\ (known => AsksParent(m)) BY <1>2, <1>3
<1>5. \A e : Happens(e) => events' \in Nat BY <1>1 DEF Happens
<1>6. NothingHappens => events' \in Nat BY <1>1 DEF NothingHappens
<1>7. \E late, bad : Tick(known, over, late, bad) /\ events' \in Nat BY <1>3, <1>5, <1>6
<1> QED BY <1>4, <1>7, TickInv

LEMMA HearsInv == ASSUME Inv, NEW a \in answers, HearsOf(a) PROVE Inv'
<1> DEFINE x == Driver(m)
<1>1. TypeOK /\ HeldInv /\ m \in Machine /\ Fits(m) /\ a \in Answer BY DEF Inv, TypeOK, HeldInv
<1>2. PICK slow : Becomes(Confirmed(x, a, slow)) BY DEF HearsOf
<1> DEFINE y == Confirmed(x, a, slow)
<1>3. answers' = answers \ {a} /\ UNCHANGED <<sent, asked, serves, joined, listed, above, events>> BY DEF HearsOf
<1>4. Steps(m, x) BY <1>1, DriverSteps
<1>5. Becomes(y) BY <1>2
<1> HIDE DEF x
<1>6. x \in Machine BY <1>4 DEF Steps
<1>7. ServedIn(x, OweAll)
  <2>1. \A k \in Key : Stage(m.row[k].state) <= Stage(x.row[k].state) /\ Deals(m, x, k) BY <1>4 DEF Steps, Moves, Grows
  <2>2. ServedIn(m, OweAll) BY <1>1, ServedAll DEF Inv
  <2> QED BY <1>1, <1>6, <2>1, <2>2, Parts, ServedDeals
<1>8. a.key \in Key /\ a.kind \in Kinds BY <1>1 DEF Answer
<1>9. x.dist[a.key].live /\ x.dist[a.key].removal => x.row[a.key].state \in {"mpremove", "removed"}
  BY <1>7, <1>8 DEF ServedIn, FreshIn
<1>10. /\ CalmStep(x, y, a.key)
       /\ \/ Deals(x, y, a.key)
          \/ /\ Closes(x, y, a.key) /\ x.dist[a.key].live
             /\ x.dist[a.key].expected = {} \/ ((x.dist[a.key].removal <=> a.kind = "removed") /\ a.kind # "rejected")
  BY <1>1, <1>6, <1>9, ConfirmedCalm
<1> HIDE DEF y
<1>11. y \in Machine /\ y.others = x.others /\ x.others = m.others BY <1>4, <1>10 DEF CalmStep, OwnStep, Keeps, Steps
<1>12. Calm(m, y)
  <2>1. Calm(m, x) BY <1>4, StepsCalm
  <2>2. Calm(x, y) BY <1>6, <1>8, <1>10, OneCalm
  <2> QED BY <1>1, <2>1, <2>2, CalmThen
<1>13. HeldInv' /\ line' \in Seq(Entry) BY <1>1, <1>3, <1>5, <1>12, CalmHolds DEF above
<1>14. m' = y BY <1>5 DEF Becomes
<1>15. TypeOK' BY <1>1, <1>3, <1>11, <1>13, <1>14 DEF TypeOK, Entry, above
<1>16. \A k \in Key \ {a.key} : Agree(x, y, k) BY <1>10 DEF CalmStep, OwnStep, Agree
<1>17. Stage(x.row[a.key].state) <= Stage(y.row[a.key].state) BY <1>10 DEF CalmStep, Grows
<1>18. \A b \in asked \cup answers : b.key \in Key BY <1>1, Parts
<1>19. \A k \in Key : OweAll[k] \subseteq x.others BY <1>1, <1>11, Parts
<1>20. ServedIn(y, OweAll)
  <2>1. CASE Deals(x, y, a.key)
    <3>1. ASSUME NEW k \in Key PROVE Stage(x.row[k].state) <= Stage(y.row[k].state) /\ Deals(x, y, k)
      <4>1. CASE k = a.key BY <1>17, <2>1, <4>1
      <4>2. CASE k # a.key
        <5>1. Moves(x, y, k) BY <1>6, <1>11, <1>16, <4>2, MovesSame DEF Agree
        <5> QED BY <5>1 DEF Moves, Grows
      <4> QED BY <4>1, <4>2
    <3> QED BY <1>6, <1>7, <1>11, <1>18, <1>19, <3>1, ServedDeals
  <2>2. CASE /\ Closes(x, y, a.key) /\ x.dist[a.key].live
             /\ x.dist[a.key].expected = {} \/ ((x.dist[a.key].removal <=> a.kind = "removed") /\ a.kind # "rejected")
    BY <1>6, <1>7, <1>8, <1>11, <1>16, <1>17, <1>18, <2>2, ServedCloses DEF Agree
  <2> QED BY <1>10, <2>1, <2>2
<1>21. \A k \in Key : (Owes(k))' \subseteq OweAll[k] BY <1>3, <1>11, <1>14 DEF Owes, OweAll
<1>22. ServedInv' BY <1>3, <1>14, <1>15, <1>20, <1>21, ServedNext
<1> QED BY <1>13, <1>15, <1>22 DEF Inv

LEMMA HandOverInv == ASSUME Inv, NEW S \in SUBSET Signer, NEW signs \in BOOLEAN, NEW hold \in BOOLEAN, HandOver(S, signs, hold) PROVE Inv'
<1> DEFINE x == [m EXCEPT !.others = S, !.signs = signs, !.hold = hold]
           d == Driver(x)
           before == IF m.signs THEN m.others ELSE {}
           y == CASE ~signs -> d
                  [] signs /\ S # before -> SignersChanged(d)
                  [] OTHER -> ApplyForeign(d)
           to == [k \in Key |-> IF m.row[k].state = "none" THEN {} ELSE joined[k] \cup (S \ before)]
           less == [k \in Key |-> S \ to[k]]
<1>1. TypeOK /\ HeldInv /\ m \in Machine /\ Fits(m) BY DEF Inv, TypeOK, HeldInv
<1>2. Becomes(y) /\ joined' = to /\ UNCHANGED <<agent, listed, above>> /\ events' = events + 1
  <2>1. Becomes(y) BY Zenon DEF HandOver
  <2>2. joined' = to BY DEF HandOver
  <2> QED BY <2>1, <2>2 DEF HandOver, Happens
<1>3. /\ x \in Machine /\ x.others = S /\ x.row = m.row /\ x.dist = m.dist /\ x.present = m.present /\ x.since = m.since
  BY <1>1 DEF Machine
<1>4. to \in [Key -> SUBSET Signer] BY <1>1 DEF TypeOK
<1>5. ServedIn(m, OweAll) BY <1>1, ServedAll DEF Inv
<1>6. \A a \in asked \cup answers : a.key \in Key BY <1>1, Parts
<1>7. ServedIn(x, less)
  <2>1. \A k \in Key : m.row[k].state # "none" => less[k] \subseteq OweAll[k] BY <1>1 DEF OweAll, Owes
  <2> HIDE DEF x, less
  <2> QED BY <1>3, <1>5, <1>6, <2>1, ServedLess
<1>8. \A k \in Key : less[k] \subseteq S /\ less[k] = S \ to[k] OBVIOUS
<1> HIDE DEF x, less, to, before
<1>9. Calm(m, x) BY <1>1, <1>3, CalmSame
<1>10. Fits(x) BY <1>1, <1>9, CalmFits
<1>11. Steps(x, d) BY <1>3, <1>10, DriverSteps
<1> HIDE DEF d
<1>12. d \in Machine /\ d.others = S BY <1>3, <1>11 DEF Steps
<1>13. ServedIn(d, less)
  <2>1. \A k \in Key : Stage(x.row[k].state) <= Stage(d.row[k].state) /\ Deals(x, d, k) BY <1>11 DEF Steps, Moves, Grows
  <2> QED BY <1>3, <1>6, <1>7, <1>8, <1>12, <2>1, ServedDeals
<1>14. y \in Machine /\ y.others = S /\ Calm(d, y) /\ ServedIn(y, less)
  <2>1. CASE y = d BY <1>12, <1>13, <2>1, CalmSame
  <2>2. CASE y = SignersChanged(d)
    <3>1. /\ y \in Machine /\ y.others = d.others
          /\ \A k \in Key : Grows(d, y, k) /\ Rests(d, y, k) /\ Led(d, y, k)
      BY <1>12, <2>2, SignersCalm
    <3> HIDE DEF y
    <3>2. Calm(d, y) BY <3>1 DEF Calm
    <3>3. \A k \in Key : Stage(d.row[k].state) <= Stage(y.row[k].state) /\ Led(d, y, k) BY <3>1 DEF Grows
    <3>4. ServedIn(y, less) BY <1>6, <1>8, <1>12, <1>13, <3>1, <3>3, ServedLed
    <3> QED BY <1>12, <3>1, <3>2, <3>4
  <2>3. CASE y = ApplyForeign(d)
    <3>1. Steps(d, y) BY <1>12, <2>3, ForeignSteps
    <3> HIDE DEF y
    <3>2. \A k \in Key : Stage(d.row[k].state) <= Stage(y.row[k].state) /\ Deals(d, y, k) BY <3>1 DEF Steps, Moves, Grows
    <3>3. y \in Machine /\ y.others = S BY <1>12, <3>1 DEF Steps
    <3>4. ServedIn(y, less) BY <1>6, <1>8, <1>12, <1>13, <3>2, <3>3, ServedDeals
    <3> QED BY <3>1, <3>3, <3>4, StepsCalm
  <2> QED BY <2>1, <2>2, <2>3
<1> HIDE DEF y
<1>15. Calm(m, y)
  <2>1. Calm(x, d) BY <1>11, StepsCalm
  <2>2. Calm(m, d) BY <1>1, <1>9, <2>1, CalmThen
  <2> QED BY <1>1, <1>14, <2>2, CalmThen
<1>16. HeldInv' /\ line' \in Seq(Entry) BY <1>1, <1>2, <1>15, CalmHolds DEF above
<1>17. m' = y BY <1>2 DEF Becomes
<1>18. TypeOK' BY <1>1, <1>2, <1>4, <1>14, <1>16, <1>17 DEF TypeOK, Entry, agent, above
<1>19. \A k \in Key : (Owes(k))' \subseteq less[k] BY <1>2, <1>8, <1>14, <1>17 DEF Owes
<1>20. ServedInv' BY <1>2, <1>14, <1>17, <1>18, <1>19, ServedNext DEF agent
<1> QED BY <1>16, <1>18, <1>20 DEF Inv

\* The machine's rows, distributions and signers as they were.
LEMMA IdleServed ==
  ASSUME Inv, TypeOK', m'.row = m.row, m'.dist = m.dist, m'.others = m.others,
         sent' = sent, asked' = asked, serves' = serves, joined' = joined, answers' \subseteq answers
  PROVE  ServedInv'
<1>1. TypeOK BY DEF Inv
<1>2. \A a \in asked \cup answers : a.key \in Key BY <1>1, Parts
<1>3. Announced' BY <1>2 DEF Inv, ServedInv, Announced, Owes
<1>4. Confirms' BY DEF Inv, ServedInv, Confirms, Owes
<1>5. Fresh' BY DEF Inv, ServedInv, Fresh
<1> QED BY <1>3, <1>4, <1>5 DEF ServedInv

LEMMA AgesInv == ASSUME Inv, NEW k \in Key, Ages(k) PROVE Inv'
<1>1. TypeOK /\ HeldInv /\ m \in Machine BY DEF Inv, TypeOK
<1>2. m' = [m EXCEPT !.aged = @ \cup {k}] /\ UNCHANGED <<agent, joined, listed, above, line>> /\ events' = events + 1
  BY DEF Ages, Ordered
<1>3. /\ m' \in Machine /\ m'.row = m.row /\ m'.dist = m.dist /\ m'.others = m.others
      /\ m'.present = m.present /\ m'.since = m.since
  BY <1>1, <1>2 DEF Machine
<1>4. HeldInv' BY <1>1, <1>2, <1>3, SameHolds
<1>5. TypeOK' BY <1>1, <1>2, <1>3 DEF TypeOK, agent, above
<1>6. ServedInv' BY <1>2, <1>3, <1>5, IdleServed DEF agent
<1> QED BY <1>4, <1>5, <1>6 DEF Inv

LEMMA LoseInv == ASSUME Inv, LoseAnswer PROVE Inv'
<1>1. TypeOK /\ HeldInv BY DEF Inv
<1>2. UNCHANGED <<m, sent, asked, serves, joined, listed, above, line>> /\ answers' \subseteq answers /\ events' = events + 1
  BY DEF LoseAnswer, Happens
<1>3. HeldInv' BY <1>1, <1>2, SameHolds
<1>4. TypeOK' BY <1>1, <1>2 DEF TypeOK, above
<1>5. ServedInv' BY <1>2, <1>4, IdleServed
<1> QED BY <1>3, <1>4, <1>5 DEF Inv

LEMMA AboveInv == ASSUME Inv, LeaderUpdates \/ ParentApplies \/ ParentGoesBack \/ TtlPasses PROVE Inv'
<1>1. TypeOK /\ HeldInv /\ m \in Machine /\ line \in Seq(Entry) /\ events \in Nat BY DEF Inv, TypeOK, Entry
<1>2. CASE LeaderUpdates
  <2>1. HeldInv' /\ update' \in Seq(DsSet) BY <1>1, <1>2, LeaderHolds
  <2>2. UNCHANGED <<m, agent, joined, listed, parent, unseen, line, events>> BY <1>2 DEF LeaderUpdates
  <2>3. TypeOK' BY <1>1, <2>1, <2>2 DEF TypeOK, agent
  <2>4. ServedInv' BY <2>2, <2>3, IdleServed DEF agent
  <2> QED BY <2>1, <2>3, <2>4 DEF Inv
<1>3. CASE ParentApplies
  <2>1. HeldInv' /\ line' \in Seq(Entry) /\ parent' \in DsSet /\ update' = <<>> BY <1>1, <1>3, AppliesHolds
  <2>2. UNCHANGED <<m, agent, joined, listed, unseen, events>> BY <1>3 DEF ParentApplies
  <2>3. update' \in Seq(DsSet) BY <2>1
  <2>4. TypeOK' BY <1>1, <2>1, <2>2, <2>3 DEF TypeOK, agent, Entry
  <2>5. ServedInv' BY <2>2, <2>4, IdleServed DEF agent
  <2> QED BY <2>1, <2>4, <2>5 DEF Inv
<1>4. CASE ParentGoesBack
  <2>1. HeldInv' /\ line' \in Seq(Entry) /\ parent' \in DsSet BY <1>1, <1>4, BackHolds
  <2>2. UNCHANGED <<m, agent, joined, listed, update>> /\ unseen' = TRUE /\ events' = events + 1
    BY <1>4 DEF ParentGoesBack, Happens
  <2>3. events' \in Nat BY <1>1, <2>2
  <2>4. TypeOK' BY <1>1, <2>1, <2>2, <2>3 DEF TypeOK, agent, Entry
  <2>5. ServedInv' BY <2>2, <2>4, IdleServed DEF agent
  <2> QED BY <2>1, <2>4, <2>5 DEF Inv
<1>5. CASE TtlPasses
  <2>1. HeldInv' /\ line' \in Seq(Entry) /\ m' \in Machine /\ m'.row = m.row /\ m'.dist = m.dist /\ m'.others = m.others
    BY <1>1, <1>5, TtlHolds
  <2>2. UNCHANGED <<agent, joined, listed, above, events>> BY <1>5 DEF TtlPasses
  <2>3. TypeOK' BY <1>1, <2>1, <2>2 DEF TypeOK, agent, above, Entry
  <2>4. ServedInv' BY <2>1, <2>2, <2>3, IdleServed DEF agent
  <2> QED BY <2>1, <2>3, <2>4 DEF Inv
<1> QED BY <1>2, <1>3, <1>4, <1>5

LEMMA DistributesInv == ASSUME Inv, AgentDistributes PROVE Inv'
<1> DEFINE set == Published(m)
           changed == (set \ sent) \cup (sent \ set) \cup m.push
           To(k) == [key |-> k, kind |-> IF k \in set THEN "propagated" ELSE "removed",
                     n |-> m.dist[k].n, who |-> m.others]
           new == IF m.others = {} THEN {} ELSE {To(k) : k \in changed}
<1>1. TypeOK /\ HeldInv /\ m \in Machine /\ sent \subseteq Key BY DEF Inv, TypeOK
<1>2. /\ sent' = set /\ m' = [m EXCEPT !.push = {}]
      /\ UNCHANGED <<answers, serves, joined, listed, above, line, events>>
  BY DEF AgentDistributes
<1>3. /\ m' \in Machine /\ m'.row = m.row /\ m'.dist = m.dist /\ m'.others = m.others
      /\ m'.present = m.present /\ m'.since = m.since
  BY <1>1, <1>2 DEF Machine
<1>4. asked' = {a \in asked : a.key \notin changed} \cup new
  <2> DEFINE to == [k \in changed |-> To(k)]
  <2>1. asked' = {a \in asked : a.key \notin changed} \cup (IF m.others = {} THEN {} ELSE {to[k] : k \in changed})
    BY DEF AgentDistributes
  <2>2. {to[k] : k \in changed} = {To(k) : k \in changed} OBVIOUS
  <2> QED BY <2>1, <2>2
<1>5. set \subseteq Key /\ changed \subseteq Key /\ m.others \subseteq Signer /\ (\A k \in Key : m.dist[k].n \in Nat)
      /\ (\A k \in Key : k \in set <=> Pub(m.row[k].state))
  <2>1. set \subseteq Key /\ m.others \subseteq Signer /\ m.push \subseteq Key BY <1>1 DEF Published, Machine
  <2>2. \A k \in Key : m.dist[k].n \in Nat BY <1>1, RowType DEF Dist
  <2> QED BY <1>1, <2>1, <2>2 DEF Published
<1>6. \A k \in sent \ changed : k \in set OBVIOUS
<1> HIDE DEF set, changed
<1>7. new \subseteq Asked BY <1>5 DEF Asked, Kinds
<1>8. \A a \in new : a.key \in Key /\ a.who = m.others /\ (a.kind = "propagated" => a.key \in set) BY <1>5
<1> HIDE DEF new
<1>9. HeldInv' BY <1>1, <1>2, <1>3, SameHolds
<1>10. TypeOK' BY <1>1, <1>2, <1>3, <1>4, <1>5, <1>7 DEF TypeOK, above
<1>11. \A a \in asked \cup answers : a.key \in Key BY <1>1, Parts
<1>12. \A k : (Owes(k))' = Owes(k) /\ Owes(k) \subseteq m.others BY <1>2, <1>3 DEF Owes
<1>13. \A k \in Key : k \in set => m.row[k].state \notin {"none", "created"} BY <1>5 DEF Pub
<1>14. Announced'
  <2>1. ASSUME NEW a \in asked' \cup answers, a.kind = "propagated" PROVE m.row[a.key].state \notin {"none", "created"}
    <3>1. CASE a \in asked \cup answers BY <2>1, <3>1 DEF Inv, ServedInv, Announced
    <3>2. CASE a \in new BY <1>8, <1>13, <2>1, <3>2
    <3> QED BY <1>4, <3>1, <3>2
  <2>2. ASSUME NEW a \in asked', a.kind = "propagated" PROVE a.key \in set /\ \A p \in Owes(a.key) \ a.who : a.key \in serves[p]
    <3>1. CASE a \in asked /\ a.key \notin changed BY <1>6, <2>2, <3>1 DEF Inv, ServedInv, Announced
    <3>2. CASE a \in new BY <1>8, <1>12, <2>2, <3>2
    <3> QED BY <1>4, <3>1, <3>2
  <2>3. ASSUME NEW a \in answers, a.kind = "propagated", Pub(m.row[a.key].state)
        PROVE  a.key \in set /\ \A p \in Owes(a.key) : a.key \in serves[p]
    BY <1>5, <1>11, <2>3 DEF Inv, ServedInv, Announced
  <2> QED BY <1>2, <1>3, <1>12, <2>1, <2>2, <2>3 DEF Announced
<1>15. Confirms'
  <2> SUFFICES ASSUME NEW k \in Key
               PROVE  /\ m.row[k].state \in Accepted => \A p \in Owes(k) : k \in serves[p] /\ k \in set
                      /\ m.dist[k].live /\ m.row[k].state = "mpdist" => Owes(k) \subseteq m.dist[k].expected \cup m.dist[k].applied
                      /\ Pub(m.row[k].state) /\ m.dist[k].live => \A p \in Owes(k) \cap m.dist[k].applied : k \in serves[p] /\ k \in set
    BY <1>2, <1>3, <1>12 DEF Confirms
  <2>1. m.row[k].state \in Accepted => Pub(m.row[k].state) BY DEF Accepted, Pub
  <2> QED BY <1>5, <2>1 DEF Inv, ServedInv, Confirms
<1>16. Fresh' BY <1>3 DEF Inv, ServedInv, Fresh
<1> QED BY <1>9, <1>10, <1>14, <1>15, <1>16 DEF Inv, ServedInv

LEMMA AppliesInv == ASSUME Inv, NEW p \in Signer, PeerApplies(p) PROVE Inv'
<1>1. TypeOK /\ HeldInv /\ sent \subseteq Key /\ serves \in [Signer -> SUBSET Key] BY DEF Inv, TypeOK
<1>2. /\ p \in m.others /\ UNCHANGED <<m, sent, joined, listed, above, line, events>>
      /\ serves' = [serves EXCEPT ![p] = sent]
      /\ asked' = {a \in Heard(p) : a.who # {}}
      /\ answers' = answers \cup {AnswerTo(a, a.kind) : a \in {b \in Heard(p) : b.who = {}}}
  BY DEF PeerApplies
<1>3. ASSUME NEW b \in Heard(p)
      PROVE  \E a \in asked : b.key = a.key /\ b.kind = a.kind /\ b.n = a.n /\ b.who = a.who \ {p} /\ b \in Asked
  <2>1. PICK a \in asked : b = [a EXCEPT !.who = @ \ {p}] BY DEF Heard
  <2>2. a \in Asked BY <1>1 DEF TypeOK
  <2>3. b.key = a.key /\ b.kind = a.kind /\ b.n = a.n /\ b.who = a.who \ {p} /\ b \in Asked BY <2>1, <2>2 DEF Asked
  <2> QED BY <2>3
<1>4. serves' \in [Signer -> SUBSET Key] /\ serves'[p] = sent /\ \A q \in Signer \ {p} : serves'[q] = serves[q]
  BY <1>1, <1>2
<1>5. asked' \subseteq Asked BY <1>2, <1>3
<1>6. \A b \in Heard(p) : AnswerTo(b, b.kind) \in Answer /\ AnswerTo(b, b.kind).key = b.key /\ AnswerTo(b, b.kind).kind = b.kind
  BY <1>3 DEF AnswerTo, Asked, Answer
<1>7. answers' \subseteq Answer
  <2>1. answers \subseteq Answer BY <1>1 DEF TypeOK
  <2> QED BY <1>2, <1>6, <2>1
<1>8. HeldInv' BY <1>1, <1>2, SameHolds
<1>9. TypeOK' BY <1>1, <1>2, <1>4, <1>5, <1>7 DEF TypeOK, above
<1>10. \A k : (Owes(k))' = Owes(k) BY <1>2 DEF Owes
<1>11. \A k : Owes(k) \subseteq Signer BY <1>1 DEF Owes, TypeOK, Machine
<1>12. ASSUME NEW b \in Heard(p), b.kind = "propagated"
       PROVE  /\ m.row[b.key].state \notin {"none", "created"}
              /\ b.key \in sent /\ \A q \in Owes(b.key) \ b.who : b.key \in serves'[q]
  <2>1. PICK a \in asked : b.key = a.key /\ b.kind = a.kind /\ b.who = a.who \ {p} BY <1>3
  <2>2. a.key \in sent /\ \A q \in Owes(a.key) \ a.who : a.key \in serves[q] BY <1>12, <2>1 DEF Inv, ServedInv, Announced
  <2>3. \A q \in Owes(b.key) \ b.who : b.key \in serves'[q] BY <1>4, <1>11, <2>1, <2>2
  <2>4. m.row[a.key].state \notin {"none", "created"} BY <1>12, <2>1 DEF Inv, ServedInv, Announced
  <2> QED BY <2>1, <2>2, <2>3, <2>4
<1>13. ASSUME NEW a \in answers'
       PROVE  a \in answers \/ \E b \in Heard(p) : b.who = {} /\ a.key = b.key /\ a.kind = b.kind
  BY <1>2, <1>6
<1>14. Announced'
  <2>1. ASSUME NEW a \in asked' \cup answers', a.kind = "propagated" PROVE m.row[a.key].state \notin {"none", "created"}
    <3>1. CASE a \in asked' BY <1>2, <1>12, <2>1, <3>1
    <3>2. CASE a \in answers BY <2>1, <3>2 DEF Inv, ServedInv, Announced
    <3>3. CASE \E b \in Heard(p) : b.who = {} /\ a.key = b.key /\ a.kind = b.kind BY <1>12, <2>1, <3>3
    <3> QED BY <1>13, <3>1, <3>2, <3>3
  <2>2. \A a \in asked' : a.kind = "propagated" => a.key \in sent /\ \A q \in Owes(a.key) \ a.who : a.key \in serves'[q]
    BY <1>2, <1>12
  <2>3. ASSUME NEW a \in answers', a.kind = "propagated", Pub(m.row[a.key].state)
        PROVE  a.key \in sent /\ \A q \in Owes(a.key) : a.key \in serves'[q]
    <3>1. CASE a \in answers
      <4>1. a.key \in sent /\ \A q \in Owes(a.key) : a.key \in serves[q] BY <2>3, <3>1 DEF Inv, ServedInv, Announced
      <4> QED BY <1>4, <1>11, <4>1
    <3>2. CASE \E b \in Heard(p) : b.who = {} /\ a.key = b.key /\ a.kind = b.kind BY <1>12, <2>3, <3>2
    <3> QED BY <1>13, <3>1, <3>2
  <2> QED BY <1>2, <1>10, <2>1, <2>2, <2>3 DEF Announced
<1>15. Confirms'
  <2> SUFFICES ASSUME NEW k \in Key
               PROVE  /\ m.row[k].state \in Accepted => \A q \in Owes(k) : k \in serves'[q] /\ k \in sent
                      /\ m.dist[k].live /\ m.row[k].state = "mpdist" => Owes(k) \subseteq m.dist[k].expected \cup m.dist[k].applied
                      /\ Pub(m.row[k].state) /\ m.dist[k].live =>
                           \A q \in Owes(k) \cap m.dist[k].applied : k \in serves'[q] /\ k \in sent
    BY <1>2, <1>10 DEF Confirms
  <2>1. \A q \in Owes(k) : k \in serves[q] /\ k \in sent => k \in serves'[q] BY <1>4, <1>11
  <2> QED BY <2>1 DEF Inv, ServedInv, Confirms
<1>16. Fresh' BY <1>2 DEF Inv, ServedInv, Fresh
<1> QED BY <1>8, <1>9, <1>14, <1>15, <1>16 DEF Inv, ServedInv

LEMMA RejectsInv == ASSUME Inv, NEW p \in Signer, PeerRejects(p) PROVE Inv'
<1>1. TypeOK /\ HeldInv BY DEF Inv
<1>2. PICK a \in asked : asked' = asked \ {a} /\ answers' = answers \cup {AnswerTo(a, "rejected")} BY DEF PeerRejects
<1>3. UNCHANGED <<m, sent, serves, joined, listed, above, line>> /\ events' = events + 1 BY DEF PeerRejects, Happens
<1>4. AnswerTo(a, "rejected") \in Answer /\ AnswerTo(a, "rejected").kind = "rejected"
  BY <1>1 DEF TypeOK, AnswerTo, Asked, Answer, Kinds
<1>5. HeldInv' BY <1>1, <1>3, SameHolds
<1>6. TypeOK' BY <1>1, <1>2, <1>3, <1>4 DEF TypeOK, above
<1>7. \A b \in answers' : b.kind = "propagated" => b \in answers BY <1>2, <1>4
<1>8. Announced' BY <1>2, <1>3, <1>7 DEF Inv, ServedInv, Announced, Owes
<1>9. Confirms' /\ Fresh' BY <1>3 DEF Inv, ServedInv, Confirms, Fresh, Owes
<1> QED BY <1>5, <1>6, <1>8, <1>9 DEF Inv, ServedInv

LEMMA NextInv == ASSUME Inv, Next PROVE Inv'
<1>1. TypeOK /\ HeldInv /\ FreshIn(m) BY DEF Inv, ServedInv, Fresh, FreshIn
<1>2. CASE Ticks BY <1>2, TicksInv
<1>3. CASE Restarts BY <1>1, <1>3, RestartsQuiet, QuietInv
<1>4. CASE Commands BY <1>1, <1>4, CommandsQuiet, QuietInv
<1>5. CASE \E k \in Key : DiesInATick(k) \/ Ages(k) BY <1>1, <1>5, DiesQuiet, QuietInv, AgesInv
<1>6. CASE \E a \in answers : HearsOf(a) BY <1>6, HearsInv
<1>7. CASE \E S \in SUBSET Signer, signs, hold \in BOOLEAN : HandOver(S, signs, hold) BY <1>7, HandOverInv
<1>8. CASE AgentDistributes BY <1>8, DistributesInv
<1>9. CASE LoseAnswer BY <1>9, LoseInv
<1>10. CASE \E p \in Signer : PeerApplies(p) \/ PeerRejects(p) BY <1>10, AppliesInv, RejectsInv
<1>11. CASE LeaderUpdates \/ ParentApplies \/ ParentGoesBack \/ TtlPasses BY <1>11, AboveInv
<1>12. CASE \E S \in SUBSET Signer : ZoneArrives(S) BY <1>1, <1>12, ZoneQuiet, QuietInv
<1>13. CASE \E p \in Signer, word \in Words : WordComes(p, word) BY <1>1, <1>13, WordQuiet, QuietInv
<1> QED BY <1>2, <1>3, <1>4, <1>5, <1>6, <1>7, <1>8, <1>9, <1>10, <1>11, <1>12, <1>13 DEF Next

LEMMA InitInv == ASSUME Init PROVE Inv
<1>1. PICK taken \in BOOLEAN :
       /\ m = [row |-> Rows(IF taken THEN "unset" ELSE "in"),
               dist |-> [k \in Key |-> NoDist(0)], push |-> {},
               present |-> [k \in Key |-> "none"], since |-> [k \in Key |-> "none"],
               gone |-> {}, left |-> {}, rolls |-> {}, alg |-> [role \in Role |-> FirstAlg], aged |-> {},
               hold |-> FALSE, known |-> {}, others |-> Signer, signs |-> TRUE, run |-> FALSE,
               said |-> [p \in Signer |-> IF taken THEN "nothing" ELSE "in"],
               foreign |-> [p \in Signer |-> IF taken THEN "none" ELSE "in"]]
       /\ listed = IF taken THEN {} ELSE Signer
       /\ parent = [own |-> IF AtParent THEN {1} ELSE {}, foreign |-> IF taken THEN {} ELSE Signer]
  BY DEF Init
<1>2. /\ sent = {1, 2} /\ asked = {} /\ answers = {}
      /\ serves = [p \in Signer |-> {1, 2}] /\ joined = [k \in Key |-> {}]
      /\ update = <<>> /\ unseen = FALSE /\ line = <<>> /\ events = 0
  BY DEF Init
<1>3. {1, 2} \subseteq Key /\ FirstAlg \in Alg BY KeyAssumption, AlgAssumption
<1> DEFINE ds == IF taken THEN "unset" ELSE "in"
<1>4. m.row = Rows(ds) /\ ds \in {"in", "unset"} BY <1>1
<1>5. Rows(ds) \in [Key -> Row]
  <2>1. FirstRow("KSK", ds) \in Row /\ FirstRow("ZSK", "out") \in Row /\ NoRow \in Row
    BY <1>3, <1>4 DEF FirstRow, NoRow, Row, State, Role
  <2> QED BY <2>1 DEF Rows
<1>6. [k \in Key |-> NoDist(0)] \in [Key -> Dist] BY DEF NoDist, Dist
<1>7. m \in Machine BY <1>1, <1>3, <1>5, <1>6, Zenon DEF Machine, Waited, Role, Words
<1>8. TypeOK
  <2>1. parent \in DsSet /\ listed \subseteq Signer BY <1>1, <1>3 DEF DsSet
  <2>2. serves \in [Signer -> SUBSET Key] /\ joined \in [Key -> SUBSET Signer] BY <1>2, <1>3
  <2>3. update \in Seq(DsSet) /\ line \in Seq([key : Key \cup {0}, set : SUBSET Key]) BY <1>2
  <2>4. sent \subseteq Key /\ asked \subseteq Asked /\ answers \subseteq Answer BY <1>2, <1>3
  <2>5. unseen \in BOOLEAN /\ events \in Nat BY <1>2
  <2> QED BY <1>7, <2>1, <2>2, <2>3, <2>4, <2>5 DEF TypeOK
<1>9. /\ m.row[1].state = "active" /\ m.row[1].role = "KSK" /\ m.row[1].ds \in {"in", "unset"}
      /\ m.row[2].state = "active" /\ m.row[2].role = "ZSK" /\ m.row[2].ds = "out"
      /\ \A k \in Key \ {1, 2} : m.row[k].state = "none" /\ m.row[k].role = "ZSK" /\ m.row[k].ds = "out"
  BY <1>3, <1>4 DEF Rows, FirstRow, NoRow
<1>10. \A k \in Key : m.present[k] = "none" /\ m.since[k] = "none" /\ m.dist[k].live = FALSE
                      /\ m.dist[k].applied = {}
  BY <1>1 DEF NoDist
<1>11. m.others = Signer BY <1>1
<1>12. Anchors(m) = {1} BY <1>3, <1>9 DEF Anchors, OfRole, Keys
<1>13. HeldInv
  <2>1. Fits(m) BY <1>9, <1>10 DEF Fits, FitsAt, Sep, Early
  <2>2. OneEach(m) BY <1>9 DEF OneEach, OfRole, Keys, Role
  <2>3. OneAnchor(m) BY <1>3, <1>12 DEF OneAnchor
  <2>4. AnchorHeld BY <1>1, <1>2, <1>12 DEF AnchorHeld
  <2>5. StandbySent /\ EarlyUnserved
    <3>1. \A k \in Keys(m, Early) : k # 1 BY <1>9 DEF Keys, Early
    <3>2. \A k \in parent.own : k = 1 BY <1>1
    <3>3. DOMAIN update = {} BY <1>2
    <3> QED BY <3>1, <3>2, <3>3 DEF StandbySent, EarlyUnserved
  <2>6. NoteHeld BY <1>10 DEF NoteHeld, OfRole, Keys
  <2>7. Clocks BY <1>2 DEF Clocks
  <2> QED BY <2>1, <2>2, <2>3, <2>4, <2>5, <2>6, <2>7 DEF HeldInv
<1>14. ServedInv
  <2>1. Announced BY <1>2 DEF Announced
  <2>2. Confirms
    <3>1. ASSUME NEW k \in Key, m.row[k].state \in Accepted PROVE k \in {1, 2} BY <1>9, <3>1 DEF Accepted
    <3>2. \A k \in Key : Owes(k) = Signer BY <1>2, <1>11 DEF Owes
    <3> QED BY <1>2, <1>10, <3>1, <3>2 DEF Confirms
  <2>3. Fresh BY <1>10 DEF Fresh
  <2> QED BY <2>1, <2>2, <2>3 DEF ServedInv
<1> QED BY <1>8, <1>13, <1>14 DEF Inv

LEMMA IdleInv == ASSUME Inv, UNCHANGED vars PROVE Inv'
<1>1. TypeOK /\ HeldInv BY DEF Inv
<1>2. UNCHANGED <<m, agent, joined, listed, above, line, events>> BY DEF vars
<1>3. HeldInv' BY <1>1, <1>2, SameHolds
<1>4. TypeOK' BY <1>1, <1>2 DEF TypeOK, agent, above
<1>5. ServedInv' BY <1>2, <1>4, IdleServed DEF agent
<1> QED BY <1>3, <1>4, <1>5 DEF Inv

\* Every tick, command, crash, answer, update and TTL keeps the invariant (the
\* driver under its lock, and what happens around it between its steps).
THEOREM Invariance == Spec => []Inv
<1>1. Inv /\ [Next]_vars => Inv' BY NextInv, IdleInv
<1> QED BY <1>1, InitInv, PTL DEF Spec

\* The rows, records and notes of the driver, the agent's questions and answers
\* and the DS sets keep their types, whatever order the steps come in.
THEOREM TypeCorrect == Spec => []TypeOK
<1>1. Inv => TypeOK BY DEF Inv
<1> QED BY <1>1, Invariance, PTL

\* Of two active keys of one role and algorithm there is one: a promotion
\* supersedes each, no tick promotes a second, and no restart, hand-over or
\* command makes one sign (the driver's T9 with T10 and T10a).
THEOREM OneSigns == Spec => []OneSignerPerAlgorithm
<1>1. Inv => OneSignerPerAlgorithm BY DEF Inv, HeldInv, OneEach, OneSignerPerAlgorithm
<1> QED BY <1>1, Invariance, PTL

\* A key signs only while every other signer serves it that was there when the
\* key was minted: T3 and the standby step wait for ConfirmAllAt, and what an
\* answer of an earlier distribution counts for is true of the later one.
THEOREM SignsServed == Spec => []SignsWhereServed
<1>1. ASSUME Inv PROVE SignsWhereServed
  <2>1. \A k \in Keys(m, {"active"}) : k \in Key /\ m.row[k].state \in Accepted BY DEF Keys, Accepted
  <2> QED BY <1>1, <2>1 DEF Inv, ServedInv, Confirms, SignsWhereServed, Owes
<1> QED BY <1>1, Invariance, PTL

\* Where the parent serves a DS of the zone at first, each DS set that it serves,
\* or a validator may still hold, names a KSK that signs: the waits for the DS
\* TTL (parentDSWaitMet, T18 with its undoing, T10b, T12) leave no gap, and a
\* parent that goes back, or a leader's late update, opens none.
THEOREM HeldSigns == AtParent => (Spec => []HeldDsSigns)
<1> SUFFICES ASSUME AtParent PROVE Spec => []HeldDsSigns OBVIOUS
<1>1. ASSUME Inv PROVE HeldDsSigns
  <2>1. PICK u \in Key : Anchors(m) = {u} BY <1>1 DEF Inv, HeldInv, OneAnchor
  <2>2. m.row[u].state = "active" BY <2>1 DEF Anchors, OfRole, Keys
  <2>3. u \in parent.own /\ \A i \in DOMAIN line : ~Lacks(line[i], u) BY <1>1, <2>1 DEF Inv, HeldInv, AnchorHeld
  <2>4. \A i \in {j \in DOMAIN line : line[j].key = 0} : u \in line[i].set BY <2>3 DEF Lacks
  <2> QED BY <2>2, <2>3, <2>4 DEF HeldDsSigns
<1> QED BY <1>1, Invariance, PTL

-----------------------------------------------------------------------------
(* The DS of another provider's key.  It leaves the parent's set by the ds   *)
(* of the key's row, and what writes that row is a zone, a word, and         *)
(* ApplyForeign, which every other operation of the driver may call.         *)

\* A key that stays has no word against it.
Settled(x, p) == x.foreign[p] = "in" => x.said[p] \notin {"out", "omitted"}
\* No word is against it, and while its provider signs its DS stays.
StaysIn(x, p) ==
  /\ x.said[p] \notin {"out", "omitted"}
  /\ x.foreign[p] = "in" \/ (x.foreign[p] # "none" /\ p \notin x.others)
Heeds(x, y) == \A p \in Signer : (Settled(x, p) => Settled(y, p)) /\ (StaysIn(x, p) => StaysIn(y, p))
\* The other providers' rows and words, and who signs, are the same.
Alike(x, y) == y.others = x.others /\ y.said = x.said /\ y.foreign = x.foreign

LEMMA AlikeHeeds == ASSUME NEW x, NEW y, Alike(x, y) PROVE Heeds(x, y)
BY DEF Alike, Heeds, Settled, StaysIn

LEMMA HeedsOn == ASSUME NEW x, NEW y, NEW z, Heeds(x, y), Heeds(y, z) PROVE Heeds(x, z)
BY DEF Heeds

LEMMA OwnAlike == ASSUME NEW x, NEW y, NEW k, OwnStep(x, y, k) PROVE Alike(x, y)
BY DEF OwnStep, Keeps, Alike

LEMMA MergedAlike == ASSUME NEW x \in Machine, NEW of PROVE Alike(x, Merged(x, of))
BY DEF Merged, Machine, Alike

LEMMA ForeignHeeds == ASSUME NEW x \in Machine PROVE Heeds(x, ApplyForeign(x))
<1> DEFINE y == ApplyForeign(x)
<1>1. /\ \A p \in Signer : /\ y.foreign[p] = IF x.foreign[p] = "none" \/ x.said[p] \in {"nothing", "undecided"} THEN x.foreign[p]
                                               ELSE IF x.said[p] = "in" /\ p \in x.others THEN "in" ELSE "out"
                           /\ y.said[p] = IF x.said[p] = "omitted" /\ x.foreign[p] = "none" THEN "nothing" ELSE x.said[p]
      /\ y.others = x.others
  BY DEF ApplyForeign, Machine
<1>2. \A p \in Signer : x.said[p] \in {"in", "out", "undecided", "omitted", "nothing"} BY DEF Machine, Words
<1> HIDE DEF y
<1>3. \A p \in Signer : Settled(y, p) BY <1>1 DEF Settled
<1>4. \A p \in Signer : StaysIn(x, p) => StaysIn(y, p) BY <1>1, <1>2 DEF StaysIn
<1>5. Heeds(x, y) BY <1>3, <1>4 DEF Heeds
<1> QED BY <1>5 DEF y

LEMMA ReloadHeeds == ASSUME NEW x \in Machine PROVE Heeds(x, Reload(x))
<1> DEFINE read == [x EXCEPT !.known = x.others,
                             !.present = [k \in Key |-> IF x.row[k].state = "standby" THEN @[k] ELSE "none"]]
           a == Adopt(read)
           y == ApplyForeign(a)
           gone == {k \in Withdrawn(y) : y.since[k] # "none"}
           z == [y EXCEPT !.gone = gone, !.since = [k \in Key |-> IF k \in gone THEN @[k] ELSE "none"]]
           u == [z EXCEPT !.run = TRUE]
           w == Merged(u, [k \in Key |-> IF k \in Key THEN Again(u, k) ELSE u])
<1>1. Reload(x) = w BY Zenon DEF Reload, ForEach
<1>2. read \in Machine /\ Alike(x, read)
  <2>1. [k \in Key |-> IF x.row[k].state = "standby" THEN x.present[k] ELSE "none"] \in [Key -> Waited]
    BY DEF Machine, Waited
  <2> QED BY <2>1 DEF Machine, Alike
<1> HIDE DEF read
<1>3. a \in Machine BY <1>2, AdoptSteps DEF Steps
<1>4. Alike(read, a) BY <1>2 DEF Adopt, Machine, Alike
<1> HIDE DEF a
<1>5. y \in Machine /\ Heeds(a, y) BY <1>3, ForeignHeeds, ForeignSteps DEF Steps
<1> HIDE DEF y
<1>6. gone \subseteq Key BY DEF Withdrawn, OfRole, Keys
<1> HIDE DEF gone
<1>7. u \in Machine /\ Alike(y, u)
  <2>1. [k \in Key |-> IF k \in gone THEN y.since[k] ELSE "none"] \in [Key -> Waited] BY <1>5 DEF Machine, Waited
  <2>2. z = [y EXCEPT !.gone = gone, !.since = [k \in Key |-> IF k \in gone THEN y.since[k] ELSE "none"]]
    BY <1>5 DEF Machine
  <2> QED BY <1>5, <1>6, <2>1, <2>2 DEF Machine, Alike
<1> HIDE DEF u
<1>8. Alike(u, w) BY <1>7, MergedAlike
<1> HIDE DEF w
<1>9. Heeds(x, a) BY <1>2, <1>4, AlikeHeeds, HeedsOn
<1>10. Heeds(x, y) BY <1>5, <1>9, HeedsOn
<1>11. Heeds(y, w) BY <1>7, <1>8, AlikeHeeds, HeedsOn
<1> QED BY <1>1, <1>10, <1>11, HeedsOn

LEMMA ForgetsAlike == ASSUME NEW x \in Machine PROVE Alike(x, Forgets(x))
BY DEF Forgets, Machine, Alike

LEMMA DriverHeeds == ASSUME NEW x \in Machine PROVE Heeds(x, Driver(x))
<1>1. Heeds(x, x) BY DEF Heeds
<1> QED BY <1>1, ReloadHeeds, ForgetsAlike, AlikeHeeds DEF Driver

LEMMA ServedAlike == ASSUME NEW x \in Machine, NEW p PROVE Alike(x, ServedAgain(x, p))
BY DEF ServedAgain, Machine, Alike

LEMMA MintAlike == ASSUME NEW x \in Machine, NEW role \in Role PROVE Alike(x, Mint(x, role))
<1>1. CASE Keys(x, {"none"}) = {} BY <1>1 DEF Mint, Alike
<1>2. CASE Keys(x, {"none"}) # {}
  <2> DEFINE k == Min(Keys(x, {"none"}))
             r == [NoRow EXCEPT !.state = "created", !.role = role, !.alg = x.alg[role]]
             y == [x EXCEPT !.row[k] = r]
             z == Distribute(y, k)
  <2>1. k \in Key
    <3>1. Keys(x, {"none"}) \subseteq Key BY DEF Keys
    <3>2. IsFiniteSet(Keys(x, {"none"})) BY <3>1, KeyAssumption, FS_Subset
    <3>3. Keys(x, {"none"}) \in SUBSET Nat BY <3>1, KeyAssumption
    <3>4. k \in Keys(x, {"none"}) BY <1>2, <3>2, <3>3, MinOf
    <3> QED BY <3>1, <3>4
  <2>2. Mint(x, role) = z BY <1>2 DEF Mint
  <2> HIDE DEF k
  <2>3. r \in Row /\ r.state = "created" BY DEF Machine, Row, NoRow, State
  <2> HIDE DEF r
  <2>4. [x.row EXCEPT ![k] = r] \in [Key -> Row] BY <2>1, <2>3 DEF Machine
  <2>5. y \in Machine /\ Alike(x, y) /\ y.row[k] = r BY <2>1, <2>4 DEF Machine, Alike
  <2> HIDE DEF y
  <2>6. KeyStep(y, z, k)
    <3>1. Stage(y.row[k].state) <= 2 BY <2>3, <2>5 DEF Stage
    <3> QED BY <2>1, <2>5, <3>1, DistributeStep
  <2> HIDE DEF z
  <2>7. Alike(y, z) BY <2>6, OwnAlike DEF KeyStep
  <2> QED BY <2>2, <2>5, <2>7 DEF Alike
<1> QED BY <1>1, <1>2

LEMMA PromoteAlike == ASSUME NEW x \in Machine, NEW k \in Key PROVE Alike(x, Promote(x, k))
<1> DEFINE w == Write(x, k, "active")
           v == Leave(w, k)
           y == [v EXCEPT !.row[k].at = 1 + Max({x.row[o].at : o \in Key}), !.aged = @ \ {k}]
           of == [o \in Key |-> IF o \in OfRole(x, {"active"}, x.row[k].role) THEN Supersede(y, o, x.row[k].alg) ELSE y]
<1>1. Promote(x, k) = Merged(y, of) BY DEF Promote, ForEach
<1>2. y \in Machine BY PromotedRow
<1>3. "active" \in State BY DEF State
<1>4. w \in Machine /\ Alike(x, w)
  <2>1. OwnStep(x, w, k) BY <1>3, WriteType
  <2> QED BY <2>1, OwnAlike DEF OwnStep
<1> HIDE DEF w
<1>5. v \in Machine /\ Alike(w, v) BY <1>4 DEF Leave, Machine, Alike, Waited
<1> HIDE DEF v
<1>6. Alike(v, y) BY <1>5 DEF Machine, Alike
<1> HIDE DEF y, of
<1>7. Alike(y, Merged(y, of)) BY <1>2, MergedAlike
<1> QED BY <1>1, <1>4, <1>5, <1>6, <1>7 DEF Alike

LEMMA TickRoleAlike ==
  ASSUME NEW x \in Machine, NEW role \in Role, NEW p
  PROVE  Alike(x, TickRole(x, role, p)) /\ TickRole(x, role, p) \in Machine
<1> DEFINE k == Successor(x, role)
           z == Promote(x, k)
           y == IF Promotes(x, role, p) THEN [z EXCEPT !.rolls = @ \ {role}] ELSE x
<1>1. TickRole(x, role, p) \in {y, Mint(y, role)} BY DEF TickRole
<1>2. TickRole(x, role, p) \in Machine BY TickRoleTurns DEF Turns
<1>3. y \in Machine /\ Alike(x, y)
  <2>1. CASE Promotes(x, role, p)
    <3> DEFINE standbys == Named(x, {"standby"}, role)
    <3>1. standbys # {} /\ ParentDSWaitMet(x, k, p) BY <2>1 DEF Promotes
    <3>2. standbys \subseteq Key /\ \A o \in standbys : x.row[o].state = "standby" BY DEF Named, OfRole, Keys
    <3>3. IsFiniteSet(standbys) /\ standbys \in SUBSET Nat BY <3>2, KeyAssumption, FS_Subset
    <3>4. k = Min(standbys) BY DEF Successor
    <3> HIDE DEF standbys, k
    <3>5. k \in standbys BY <3>1, <3>3, <3>4, MinOf
    <3>6. z \in Machine BY <3>1, <3>2, <3>5, PromoteTurns DEF Turns
    <3>7. Alike(x, z) BY <3>2, <3>5, PromoteAlike
    <3> HIDE DEF z
    <3>8. [z EXCEPT !.rolls = @ \ {role}] \in Machine /\ Alike(z, [z EXCEPT !.rolls = @ \ {role}])
      BY <3>6 DEF Machine, Alike
    <3> QED BY <2>1, <3>7, <3>8 DEF Alike
  <2>2. CASE ~Promotes(x, role, p) BY <2>2 DEF Alike
  <2> QED BY <2>1, <2>2
<1> HIDE DEF y
<1>4. Alike(y, Mint(y, role)) BY <1>3, MintAlike
<1> QED BY <1>1, <1>2, <1>3, <1>4 DEF Alike

LEMMA TickedHeeds ==
  ASSUME NEW x \in Machine, NEW known, NEW over, NEW late, NEW bad
  PROVE  Heeds(x, Ticked(x, known, over, late, bad))
<1> DEFINE p == Heeded(x, known)
           start == ApplyForeign(x)
           s == ServedAgain(start, p)
           z == Merged(s, [k \in Key |-> IF k \in Keys(start, State \ {"none"})
                                        THEN TickKey(start, s, k, p, over, late, bad) ELSE s])
           r == TickRole(z, "KSK", p)
           roles == TickRole(r, "ZSK", p)
           y == Merged(roles, [k \in Key |-> IF k \in OfRole(roles, {"active"}, "ZSK")
                                            THEN AlgSuperseded(roles, k, over) ELSE roles])
<1>1. Ticked(x, known, over, late, bad) = y BY Zenon DEF Ticked, Heeded, ForEach
<1>2. start \in Machine /\ start.row = x.row /\ Heeds(x, start) BY ForeignSteps, ForeignHeeds DEF Steps
<1> HIDE DEF p, start
<1>3. s \in Machine /\ s.row = start.row /\ Alike(start, s) BY <1>2, ServedSteps, ServedAlike DEF Steps
<1> HIDE DEF s
<1>4. z \in Machine /\ Alike(s, z)
  <2>1. z \in Machine BY <1>2, <1>3, KeysTurn
  <2> QED BY <1>3, <2>1, MergedAlike
<1> HIDE DEF z
<1>5. "KSK" \in Role /\ "ZSK" \in Role BY DEF Role
<1>6. r \in Machine /\ Alike(z, r) BY <1>4, <1>5, TickRoleAlike
<1> HIDE DEF r
<1>7. roles \in Machine /\ Alike(r, roles) BY <1>5, <1>6, TickRoleAlike
<1> HIDE DEF roles
<1>8. Alike(roles, y) BY <1>7, MergedAlike
<1> HIDE DEF y
<1>9. Alike(start, y) BY <1>3, <1>4, <1>6, <1>7, <1>8 DEF Alike
<1> QED BY <1>1, <1>2, <1>9, AlikeHeeds, HeedsOn

LEMMA SignersHeeds == ASSUME NEW x \in Machine PROVE Heeds(x, SignersChanged(x))
<1> DEFINE owed == IF x.others \subseteq x.known THEN {} ELSE {k \in Key : Owed(x, k)}
           of == [k \in Key |-> IF k \in owed THEN Resend(StartDistribution(x, k, FALSE), k) ELSE x]
           y == Merged(x, of)
           live == {k \in Key : y.dist[k].live}
           to == [k \in Key |-> IF k \in live THEN Follow(y, k) ELSE y]
           w == Merged(y, to)
           v == ApplyForeign(w)
           u == [v EXCEPT !.known = x.others]
<1>1. SignersChanged(x) = u BY Zenon DEF SignersChanged, ForEach
<1>2. owed \subseteq Key /\ \A k \in owed : Owed(x, k) OBVIOUS
<1>3. DOMAIN of = Key /\ of = [k \in Key |-> of[k]] OBVIOUS
<1>4. \A k \in Key : of[k] = IF k \in owed THEN Resend(StartDistribution(x, k, FALSE), k) ELSE x OBVIOUS
<1> HIDE DEF owed, of
<1>5. \A k \in Key : KeyStep(x, of[k], k) BY <1>2, <1>4, OwedStep, SameStep
<1>6. y \in Machine /\ Alike(x, y) BY <1>3, <1>5, MergedSteps, MergedAlike DEF Steps
<1> HIDE DEF y
<1>7. \A k \in Key : k \in live <=> y.dist[k].live OBVIOUS
<1>8. DOMAIN to = Key /\ to = [k \in Key |-> to[k]] OBVIOUS
<1>9. \A k \in Key : (k \in live => to[k] = Follow(y, k)) /\ (k \notin live => to[k] = y) OBVIOUS
<1> HIDE DEF live, to
<1>10. \A k \in Key : OwnStep(y, to[k], k) BY <1>6, <1>7, <1>9, FollowCalm, SameStep DEF CalmStep, KeyStep
<1>11. to \in [Key -> Machine]
  <2>1. \A k \in Key : to[k] \in Machine BY <1>10 DEF OwnStep
  <2> QED BY <1>8, <2>1
<1>12. w \in Machine /\ Alike(y, w) BY <1>6, <1>10, <1>11, MergedParts, MergedAlike
<1> HIDE DEF w
<1>13. v \in Machine /\ Heeds(w, v) BY <1>12, ForeignSteps, ForeignHeeds DEF Steps
<1> HIDE DEF v
<1>14. Alike(v, u) BY <1>13 DEF Machine, Alike
<1> HIDE DEF u
<1>15. Heeds(x, w) BY <1>6, <1>12, AlikeHeeds, HeedsOn
<1>16. Heeds(w, u) BY <1>13, <1>14, AlikeHeeds, HeedsOn
<1> QED BY <1>1, <1>15, <1>16, HeedsOn

Settles == \A p \in Signer : Settled(m, p)

LEMMA CommandHeeds ==
  ASSUME TypeOK, HeldInv, FreshIn(m), Commands
  PROVE  Heeds(m, m')
<1> DEFINE x == Driver(m)
<1>1. m \in Machine /\ Fits(m) BY DEF TypeOK, HeldInv
<1>2. Steps(m, x) /\ x \in Machine /\ FreshIn(x) BY <1>1, DriverSteps, FreshSteps DEF Steps
<1>3. Heeds(m, x) BY <1>1, DriverHeeds
<1>4. ASSUME NEW y, Alike(x, y), Commanded(y) PROVE Heeds(m, m')
  <2>1. m' = y BY <1>4 DEF Commanded, Becomes
  <2> QED BY <1>3, <1>4, <2>1, AlikeHeeds, HeedsOn
<1> HIDE DEF x
<1>5. ASSUME NEW role \in Role, RequestRollover(role) PROVE Heeds(m, m')
  <2>1. Commanded([x EXCEPT !.rolls = @ \cup {role}]) BY <1>5 DEF RequestRollover, x
  <2>2. Alike(x, [x EXCEPT !.rolls = @ \cup {role}]) BY <1>2 DEF Machine, Alike
  <2> QED BY <1>4, <2>1, <2>2
<1>6. ASSUME NEW role \in Role, CancelRollover(role) PROVE Heeds(m, m')
  <2> DEFINE y == [x EXCEPT !.rolls = @ \ {role}]
  <2>1. Commanded(y) \/ \E alg \in {x.row[k].alg : k \in AlgRollover(x, role)} : Commanded([y EXCEPT !.alg[role] = alg])
    BY <1>6 DEF CancelRollover, x
  <2>2. Alike(x, y) BY <1>2 DEF Machine, Alike
  <2>3. \A alg : Alike(x, [y EXCEPT !.alg[role] = alg]) BY <1>2 DEF Machine, Alike
  <2> QED BY <1>4, <2>1, <2>2, <2>3
<1>7. ASSUME NEW to \in [Role -> Alg], SetAlgorithm(to) PROVE Heeds(m, m')
  <2>1. Commanded([x EXCEPT !.alg = to]) BY <1>7 DEF SetAlgorithm, x
  <2>2. Alike(x, [x EXCEPT !.alg = to]) BY <1>2 DEF Machine, Alike
  <2> QED BY <1>4, <2>1, <2>2
<1>8. ASSUME NEW k \in Key, Retry(k) PROVE Heeds(m, m')
  <2> DEFINE y == StartDistribution(x, k, x.row[k].state = "mpremove")
             z == Resend(y, k)
  <2>1. Commanded(z) BY <1>8 DEF Retry, x
  <2>2. Alike(x, y) BY <1>2 DEF StartDistribution, Machine, Alike
  <2>3. y \in Machine BY <1>2, StartType DEF OwnStep
  <2> HIDE DEF y
  <2>4. Alike(y, z) BY <2>3, ResendType, OwnAlike
  <2> QED BY <1>4, <2>1, <2>2, <2>4 DEF Alike
<1>9. ASSUME NEW k \in Key, GiveUp(k) PROVE Heeds(m, m')
  <2>1. Commanded(Withdraw(x, k, {})) BY <1>9 DEF GiveUp, x
  <2>2. Alike(x, Withdraw(x, k, {})) BY <1>2, WithdrawStep, OwnAlike DEF KeyStep
  <2> QED BY <1>4, <2>1, <2>2
<1> QED BY <1>5, <1>6, <1>7, <1>8, <1>9 DEF Commands

LEMMA TickHeeds ==
  ASSUME TypeOK, HeldInv, Ticks
  PROVE  Heeds(m, m')
<1> DEFINE x == Driver(m)
<1>1. m \in Machine /\ Fits(m) BY DEF TypeOK, HeldInv
<1>2. x \in Machine /\ Heeds(m, x) BY <1>1, DriverSteps, DriverHeeds DEF Steps
<1>3. PICK known, over, late, bad : Becomes(Ticked(x, known, over, late, bad)) BY DEF Ticks, Tick
<1> HIDE DEF x
<1>4. m' = Ticked(x, known, over, late, bad) BY <1>3 DEF Becomes
<1> QED BY <1>2, <1>4, TickedHeeds, HeedsOn

LEMMA DiesHeeds ==
  ASSUME TypeOK, HeldInv, NEW k \in Key, DiesInATick(k)
  PROVE  Heeds(m, m')
<1> DEFINE x == Driver(m)
<1>1. m \in Machine /\ Fits(m) BY DEF TypeOK, HeldInv
<1>2. x \in Machine /\ Heeds(m, x) BY <1>1, DriverSteps, DriverHeeds DEF Steps
<1>3. PICK r : Becomes(Forgets([x EXCEPT !.row[k] = r, !.push = {}])) BY DEF DiesInATick
<1> HIDE DEF x
<1>4. m' = Forgets([x EXCEPT !.row[k] = r, !.push = {}]) BY <1>3 DEF Becomes
<1>5. Alike(x, Forgets([x EXCEPT !.row[k] = r, !.push = {}])) BY <1>2 DEF Forgets, Machine, Alike
<1> QED BY <1>2, <1>4, <1>5, AlikeHeeds, HeedsOn

LEMMA HearsHeeds ==
  ASSUME TypeOK, HeldInv, FreshIn(m), NEW a \in answers, HearsOf(a)
  PROVE  Heeds(m, m')
<1> DEFINE x == Driver(m)
<1>1. m \in Machine /\ Fits(m) /\ a \in Answer BY DEF TypeOK, HeldInv
<1>2. x \in Machine /\ FreshIn(x) /\ Heeds(m, x) BY <1>1, DriverSteps, FreshSteps, DriverHeeds DEF Steps
<1>3. PICK slow : Becomes(Confirmed(x, a, slow)) BY DEF HearsOf
<1> HIDE DEF x
<1>4. m' = Confirmed(x, a, slow) BY <1>3 DEF Becomes
<1>5. a.key \in Key BY <1>1 DEF Answer
<1>6. x.dist[a.key].live /\ x.dist[a.key].removal => x.row[a.key].state \in {"mpremove", "removed"}
  BY <1>2, <1>5, FreshStage, StageOf, RowType DEF FreshIn
<1>7. OwnStep(x, Confirmed(x, a, slow), a.key) BY <1>1, <1>2, <1>6, ConfirmedCalm DEF CalmStep
<1> QED BY <1>2, <1>4, <1>7, OwnAlike, AlikeHeeds, HeedsOn

LEMMA HeedsStays ==
  ASSUME NEW p \in Signer, Settled(m, p), m.foreign[p] = "in", Heeds(m, m')
  PROVE  m'.foreign[p] = "in" \/ p \notin m'.others
BY DEF Heeds, StaysIn, Settled

\* The hand-over may change who signs, and then heeds them.
LEMMA HandOverStays ==
  ASSUME TypeOK, HeldInv, NEW S \in SUBSET Signer, NEW signs \in BOOLEAN, NEW hold \in BOOLEAN, HandOver(S, signs, hold)
  PROVE  /\ Settles => Settles'
         /\ \A p \in Signer : Settled(m, p) /\ m.foreign[p] = "in" => m'.foreign[p] = "in" \/ p \notin m'.others
<1> DEFINE x == [m EXCEPT !.others = S, !.signs = signs, !.hold = hold]
           d == Driver(x)
           before == IF m.signs THEN m.others ELSE {}
           y == CASE ~signs -> d
                  [] signs /\ S # before -> SignersChanged(d)
                  [] OTHER -> ApplyForeign(d)
<1>1. m \in Machine /\ Fits(m) BY DEF TypeOK, HeldInv
<1>2. m' = y
  <2>1. Becomes(y) BY Zenon DEF HandOver
  <2> QED BY <2>1 DEF Becomes
<1>3. /\ x \in Machine /\ x.row = m.row /\ x.present = m.present /\ x.since = m.since
      /\ x.said = m.said /\ x.foreign = m.foreign
  BY <1>1 DEF Machine
<1> HIDE DEF x, before
<1>4. Fits(x) BY <1>1, <1>3, CalmSame, CalmFits
<1>5. d \in Machine /\ Heeds(x, d) BY <1>3, <1>4, DriverSteps, DriverHeeds DEF Steps
<1> HIDE DEF d
<1>6. Heeds(d, y)
  <2>1. Heeds(d, d) BY DEF Heeds
  <2>2. y = d \/ y = SignersChanged(d) \/ y = ApplyForeign(d) OBVIOUS
  <2> HIDE DEF y
  <2> QED BY <1>5, <2>1, <2>2, SignersHeeds, ForeignHeeds
<1> HIDE DEF y
<1>7. Heeds(x, m') BY <1>2, <1>5, <1>6, HeedsOn
<1>8. \A p \in Signer : Settled(m, p) => Settled(x, p) BY <1>3 DEF Settled
<1>9. \A p \in Signer : Settled(m, p) /\ m.foreign[p] = "in" => StaysIn(x, p) BY <1>3 DEF Settled, StaysIn
<1> QED BY <1>7, <1>8, <1>9 DEF Heeds, Settles, Settled, StaysIn

\* A row goes for good cause.
LEMMA GoesForCause ==
  ASSUME NEW x \in Machine, NEW p \in Signer, MayGo(x, p)
  PROVE  p \notin x.others \/ x.said[p] \in {"out", "omitted"}
BY DEF MayGo

LEMMA ZoneStays ==
  ASSUME TypeOK, NEW S \in SUBSET Signer, ZoneArrives(S)
  PROVE  /\ Settles => Settles'
         /\ \A p \in Signer : m.foreign[p] = "in" =>
              m'.foreign[p] = "in" \/ p \notin m'.others \/ m'.said[p] \in {"out", "omitted"}
<1> DEFINE f == [p \in Signer |-> CASE p \in S /\ m.foreign[p] = "none" -> "unset"
                                    [] p \notin S /\ MayGo(m, p) -> "none"
                                    [] OTHER -> m.foreign[p]]
<1>1. m \in Machine BY DEF TypeOK
<1>2. m' = [m EXCEPT !.foreign = f] BY DEF ZoneArrives, Becomes
<1>3. \A p \in Signer : (f[p] = "in" => m.foreign[p] = "in")
                        /\ (m.foreign[p] = "in" => f[p] = "in" \/ MayGo(m, p))
  OBVIOUS
<1> HIDE DEF f
<1>4. m'.foreign = f /\ m'.others = m.others /\ m'.said = m.said BY <1>1, <1>2 DEF Machine
<1>5. Settles => Settles' BY <1>3, <1>4 DEF Settles, Settled
<1> QED BY <1>1, <1>3, <1>4, <1>5, GoesForCause

LEMMA WordStays ==
  ASSUME TypeOK, HeldInv, NEW q \in Signer, NEW word \in Words, WordComes(q, word)
  PROVE  /\ Settles => Settles'
         /\ \A p \in Signer : Settled(m, p) /\ m.foreign[p] = "in" =>
              m'.foreign[p] = "in" \/ p \notin m'.others \/ m'.said[p] \in {"out", "omitted"}
<1> DEFINE x == Driver(m)
<1>1. m \in Machine /\ Fits(m) BY DEF TypeOK, HeldInv
<1>2. x \in Machine /\ Heeds(m, x) BY <1>1, DriverSteps, DriverHeeds DEF Steps
<1> DEFINE told == [x EXCEPT !.said = [x.said EXCEPT ![q] = word]]
           y == ApplyForeign(told)
           f == [p \in Signer |-> IF p \notin listed /\ MayGo(y, p) THEN "none" ELSE y.foreign[p]]
<1>3. m' = [y EXCEPT !.foreign = f]
  <2> HIDE DEF x
  <2>1. told = [x EXCEPT !.said[q] = word] BY <1>2 DEF Machine
  <2>2. told \in Machine BY <1>2 DEF Machine
  <2>3. y \in Machine BY <2>2, ForeignSteps DEF Steps
  <2> HIDE DEF told
  <2> QED BY <2>1, <2>3 DEF WordComes, Becomes, x, Machine
<1> HIDE DEF x
<1>4. /\ told \in Machine /\ told.others = x.others /\ told.foreign = x.foreign /\ told.said[q] = word
      /\ \A p \in Signer \ {q} : told.said[p] = x.said[p]
  BY <1>2 DEF Machine
<1> HIDE DEF told
<1>5. y \in Machine /\ Heeds(told, y) BY <1>4, ForeignSteps, ForeignHeeds DEF Steps
<1>6. \A p \in Signer : /\ Settled(y, p)
                        /\ told.foreign[p] # "none" => y.said[p] = told.said[p]
  BY <1>4 DEF y, ApplyForeign, Machine, Settled
<1> HIDE DEF y
<1>7. \A p \in Signer : (f[p] = "in" => y.foreign[p] = "in") /\ (y.foreign[p] = "in" => f[p] = "in" \/ MayGo(y, p))
  OBVIOUS
<1> HIDE DEF f
<1>8. m'.foreign = f /\ m'.others = y.others /\ m'.said = y.said BY <1>3, <1>5 DEF Machine
<1>9. Settles' BY <1>6, <1>7, <1>8 DEF Settles, Settled
<1>10. ASSUME NEW p \in Signer, Settled(m, p), m.foreign[p] = "in"
       PROVE  m'.foreign[p] = "in" \/ p \notin m'.others \/ m'.said[p] \in {"out", "omitted"}
  <2>1. StaysIn(x, p) BY <1>2, <1>10 DEF Heeds, StaysIn, Settled
  <2>2. told.foreign[p] # "none" /\ (told.foreign[p] = "in" \/ p \notin told.others) BY <1>4, <2>1 DEF StaysIn
  <2>3. CASE told.said[p] \in {"out", "omitted"} BY <1>6, <1>8, <2>2, <2>3
  <2>4. CASE told.said[p] \notin {"out", "omitted"}
    <3>1. StaysIn(y, p) BY <1>5, <2>2, <2>4 DEF Heeds, StaysIn
    <3> QED BY <1>5, <1>7, <1>8, <3>1, GoesForCause DEF StaysIn
  <2> QED BY <2>3, <2>4
<1> QED BY <1>9, <1>10

\* What any step makes of the row of a key whose DS is to stay.
LEMMA RowStays ==
  ASSUME Inv, Next
  PROVE  /\ Settles => Settles'
         /\ \A p \in Signer : Settled(m, p) /\ m.foreign[p] = "in" =>
              m'.foreign[p] = "in" \/ p \notin m'.others \/ m'.said[p] \in {"out", "omitted"}
<1>1. TypeOK /\ HeldInv /\ FreshIn(m) /\ m \in Machine BY DEF Inv, ServedInv, Fresh, FreshIn, TypeOK
<1>2. SUFFICES ASSUME ~Heeds(m, m')
               PROVE  /\ Settles => Settles'
                      /\ \A p \in Signer : Settled(m, p) /\ m.foreign[p] = "in" =>
                           m'.foreign[p] = "in" \/ p \notin m'.others \/ m'.said[p] \in {"out", "omitted"}
  BY HeedsStays DEF Heeds, Settles, Settled
<1>3. ~Alike(m, m') BY <1>2, AlikeHeeds
<1>4. ~Ticks /\ ~Commands BY <1>1, <1>2, TickHeeds, CommandHeeds
<1>5. ~Restarts
  <2>1. Alike(m, Forgets([m EXCEPT !.push = {}])) BY <1>1 DEF Forgets, Machine, Alike
  <2> QED BY <1>3, <2>1 DEF Restarts, Becomes
<1>6. ~\E k \in Key : DiesInATick(k) BY <1>1, <1>2, DiesHeeds
<1>7. ~\E k \in Key : Ages(k)
  <2>1. \A k \in Key : Alike(m, [m EXCEPT !.aged = @ \cup {k}]) BY <1>1 DEF Machine, Alike
  <2> QED BY <1>3, <2>1 DEF Ages
<1>8. ~\E a \in answers : HearsOf(a) BY <1>1, <1>2, HearsHeeds
<1>9. ~AgentDistributes
  <2>1. Alike(m, [m EXCEPT !.push = {}]) BY <1>1 DEF Machine, Alike
  <2> QED BY <1>3, <2>1 DEF AgentDistributes
<1>10. m' # m BY <1>3 DEF Alike
<1>11. ~LoseAnswer /\ ~\E p \in Signer : PeerApplies(p) \/ PeerRejects(p) BY <1>10 DEF LoseAnswer, PeerApplies, PeerRejects
<1>12. ~LeaderUpdates /\ ~ParentApplies /\ ~ParentGoesBack BY <1>10 DEF LeaderUpdates, ParentApplies, ParentGoesBack
<1>13. ~TtlPasses
  <2>1. \A k : Alike(m, [m EXCEPT !.present[k] = "over"]) /\ Alike(m, [m EXCEPT !.since[k] = "over"])
    BY <1>1 DEF Machine, Alike
  <2>2. Alike(m, m) BY DEF Alike
  <2> QED BY <1>3, <2>1, <2>2 DEF TtlPasses
<1>14. \/ \E S \in SUBSET Signer, signs, hold \in BOOLEAN : HandOver(S, signs, hold)
       \/ \E S \in SUBSET Signer : ZoneArrives(S)
       \/ \E p \in Signer, word \in Words : WordComes(p, word)
  BY <1>4, <1>5, <1>6, <1>7, <1>8, <1>9, <1>11, <1>12, <1>13 DEF Next
<1> QED BY <1>1, <1>14, HandOverStays, ZoneStays, WordStays

\* The sets above name the DS as the leader's row does.
LEMMA AboveStays ==
  ASSUME Inv, Next, NEW p \in Signer, ForeignDsStays(p)
  PROVE  \/ m'.foreign[p] # "in"
         \/ p \in parent'.foreign /\ \A i \in DOMAIN update' : p \in update'[i].foreign
<1>1. m.foreign[p] = "in" /\ p \in parent.foreign /\ \A i \in DOMAIN update : p \in update[i].foreign
  BY DEF ForeignDsStays
<1>2. update \in Seq(DsSet) /\ parent \in DsSet BY DEF Inv, TypeOK
<1>3. CASE UNCHANGED <<parent, update>> BY <1>1, <1>3
<1>4. CASE LeaderUpdates
  <2>1. update' = <<Intent(m).set>> /\ parent' = parent BY <1>4 DEF LeaderUpdates
  <2>2. Intent(m).set.foreign = {q \in Signer : m.foreign[q] = "in"} BY DEF Intent
  <2>3. \A i \in DOMAIN update' : update'[i] = Intent(m).set BY <2>1
  <2> QED BY <1>1, <2>1, <2>2, <2>3
<1>5. CASE ParentApplies
  <2>1. parent' = update[1] /\ update' = <<>> /\ update # <<>> BY <1>5 DEF ParentApplies, Serve
  <2>2. 1 \in DOMAIN update BY <1>2, <2>1
  <2> QED BY <1>1, <2>1, <2>2
<1>6. CASE ParentGoesBack
  <2>1. update' = update /\ \E own : parent' = [parent EXCEPT !.own = own] BY <1>6 DEF ParentGoesBack, Serve
  <2>2. parent'.foreign = parent.foreign BY <1>2, <2>1 DEF DsSet
  <2> QED BY <1>1, <2>1, <2>2
<1>7. UNCHANGED <<parent, update>> \/ LeaderUpdates \/ ParentApplies \/ ParentGoesBack
  BY DEF Next, Ticks, Tick, Restarts, Commands, RequestRollover, CancelRollover, SetAlgorithm, Retry, GiveUp,
         Commanded, DiesInATick, Ages, HearsOf, HandOver, AgentDistributes, LoseAnswer, PeerApplies, PeerRejects,
         TtlPasses, ZoneArrives, WordComes, above
<1> QED BY <1>3, <1>4, <1>5, <1>6, <1>7

LEMMA InitSettles == ASSUME Init PROVE Settles
BY DEF Init, Settles, Settled

LEMMA StepStays ==
  ASSUME Inv, Settles, [Next]_vars
  PROVE  /\ Settles'
         /\ \A p \in Signer : ForeignDsStays(p) =>
              ForeignDsStays(p)' \/ p \notin m'.others \/ m'.said[p] \in {"out", "omitted"}
<1>1. CASE Next
  <2>1. Settles' BY <1>1, RowStays
  <2>2. ASSUME NEW p \in Signer, ForeignDsStays(p)
        PROVE  ForeignDsStays(p)' \/ p \notin m'.others \/ m'.said[p] \in {"out", "omitted"}
    <3>1. m.foreign[p] = "in" /\ Settled(m, p) BY <2>2 DEF ForeignDsStays, Settles
    <3>2. m'.foreign[p] = "in" \/ p \notin m'.others \/ m'.said[p] \in {"out", "omitted"} BY <1>1, <3>1, RowStays
    <3>3. m'.foreign[p] = "in" => ForeignDsStays(p)' BY <1>1, <2>2, AboveStays DEF ForeignDsStays
    <3> QED BY <3>2, <3>3
  <2> QED BY <2>1, <2>2
<1>2. CASE UNCHANGED vars
  <2>1. m' = m /\ parent' = parent /\ update' = update BY <1>2 DEF vars, above
  <2> QED BY <2>1 DEF Settles, Settled, ForeignDsStays
<1> QED BY <1>1, <1>2

\* The DS of another provider's key that is to stay at the parent stays, while
\* its provider signs and says neither that it goes nor that it serves no such
\* key: no tick, restart, hand-over or zone that lacks the key writes its row's
\* ds otherwise (applyForeignLocked, foreignKeyWithdrawn), and no leader's DS
\* set is without it (DSIntent).
THEOREM ForeignStays == Spec => ForeignDsIsNotLost
<1>1. Inv /\ Settles /\ [Next]_vars => Settles' BY StepStays
<1>2. Inv /\ Settles /\ [Next]_vars =>
        [\A p \in Signer : ForeignDsStays(p) =>
           ForeignDsStays(p)' \/ p \notin m'.others \/ m'.said[p] \in {"out", "omitted"}]_vars
  BY StepStays
<1> QED BY <1>1, <1>2, Invariance, InitSettles, PTL DEF Spec, ForeignDsIsNotLost

=============================================================================
