----------------------------- MODULE PeersProofs -----------------------------
(***************************************************************************)
(* Proofs about Peers, for any objects, zones, retries, events and mixes.  *)
(* The view and the notes of an outage go by the object that the registry  *)
(* holds, and an object is used anew only when nothing refers to it: the   *)
(* invariants follow from what each goroutine reads before it writes.      *)
(***************************************************************************)
EXTENDS Peers, TLAPS

-----------------------------------------------------------------------------
(* The types *)

Objects == [zones : SUBSET Zone, unshared : {"no", "lately", "long"}]
Going == [disc : {"off", "asked", "found", "failed", "greet"} \cup Found,
          hello : {"off", "start", "loop", "sent", "beats", "beaten"},
          got : Reply, round : {"off"} \cup Reply,
          removal : {"off", "popped", "view"}, cut : BOOLEAN]
Tps == [here : BOOLEAN, mech : States, addr : BOOLEAN, top : {"needed", "known", "error"}]
Slots == 0..Retries
Looks == [hello : {"off", "due", "introduce", "old"} \cup Records, bare : BOOLEAN,
          fresh : {"off", "due"} \cup Records]
Refusals == 0..3
Books == [failing : Obj \cup {Nobody}, served : Obj \cup {Nobody}, recent : BOOLEAN,
          refused : Refusals, looked : BOOLEAN, ready : BOOLEAN]
Passes == [at : {"off", "zones", "apply", "prune"}, of : Obj \cup {Nobody} \cup Zone,
           done : SUBSET Zone, expects : BOOLEAN]

\* A transport peer is usable only once it is there and has an address.
IsTp(t) == t \in Tps /\ (~t.here => t = NoTp) /\ (t.mech # "needed" => t.addr)

IsRetry(r) ==
    /\ r \in [at : {"off", "wait", "over", "spent"} \cup Reply, of : Obj \cup {Nobody}, left : Slots]
    /\ r.at # "off" => r.of \in Obj
    /\ r.at = "wait" => r.left # 0

IsBack(b) ==
    /\ b \in [at : {"off", "send", "wait"} \cup Reply, of : Obj \cup {Nobody}, left : 0..2]
    /\ b.at # "off" => b.of \in Obj

IsPass(p) == p \in Passes /\ (p.at = "apply" => p.of \in Zone) /\ (p.at = "prune" => p.of \in Obj)

Rest ==
    /\ zone \in [Zone -> Standing] /\ diff \in [Zone -> {"none", "in", "out"}]
    /\ far \in Far /\ look \in Looks /\ IsPass(pass) /\ left \in 0..MaxEvents

Registry == stored \in Obj \cup {Nobody} /\ view \in Obj \cup {Nobody} /\ obj \in [Obj -> Objects]

Goroutines ==
    /\ reg \in Obj \cup {Nobody} /\ run \in [Obj -> Going]
    /\ IsRetry(retry) /\ IsBack(back) /\ book \in Books /\ IsTp(tp)

\* The hello retrier that is registered runs.
Runs(h, r) == \A o \in Obj : h = o => r[o].hello # "off"

\* A message of an object's goroutines is on its way.
Sends(g) == g.hello \in {"sent", "beaten"} \/ g.round # "off"

\* What is on its way was sent through a transport's peer that is dropped.
AllCut(r, rt, bk) ==
    /\ \A o \in Obj : Sends(r[o]) => r[o].cut
    /\ rt.at \in Reply => r[rt.of].cut
    /\ bk.at # "off" => r[bk.of].cut

\* What is on its way is cut off, where the transport's peer has no address.
Through(t, r, rt, bk) == t.addr \/ AllCut(r, rt, bk)

Typed == Rest /\ Registry /\ Goroutines /\ Runs(reg, run) /\ Through(tp, run, retry, back)

-----------------------------------------------------------------------------
(* What a step keeps *)

\* The object held stays or a new one comes where none was, and the view goes
\* to the one held or to none.
KeepsView ==
    /\ view' \in {view, stored', Nobody}
    /\ \/ stored' = stored /\ \A o \in Obj : run'[o].removal = run[o].removal
       \/ /\ stored = Nobody /\ stored' \in Obj /\ Free(stored') /\ view' = stored'
          /\ \A o \in Obj \ {stored'} : run'[o].removal = run[o].removal

\* An outage begins only while a retrier runs, and a retrier that runs goes on.
KeepsOutage ==
    /\ book'.failing \in {book.failing, Nobody} \/ retry'.at # "off"
    /\ book'.served = book.served
    /\ retry'.at = "off" => retry.at = "off"

\* What an object's goroutines may do beside: nothing is sent anew, nothing is
\* on its way again that was cut off, no hello retrier ends and no removal goes on.
Quietly(g, h) ==
    /\ h \in Going /\ (Sends(h) => Sends(g)) /\ h.cut = g.cut
    /\ h.removal = g.removal /\ (h.hello = "off" => g.hello = "off")

\* The runs of all objects go on quietly, but for an object that is new.
GoOn(r, s) == s \in [Obj -> Going] /\ \A o \in Obj : Quietly(r[o], s[o])

\* The registry's part of a step that finds an object or makes one, with the
\* runs s of those that were there.
Holds(s) ==
    /\ Registry' /\ view' \in {view, stored', Nobody}
    /\ \/ stored' = stored /\ run' = s
       \/ /\ stored = Nobody /\ stored' \in Obj /\ Free(stored') /\ view' = stored'
          /\ \E g \in Going : /\ ~Sends(g) /\ run' = [s EXCEPT ![stored'] = g]

LEMMA NobodyIsNone == Nobody \notin Obj
BY ObjAssumption DEF Nobody

LEMMA NextIsFree == ASSUME NEW o \in NextFree PROVE o \in Obj /\ Free(o)
BY DEF NextFree

LEMMA Quiet == ASSUME NEW g \in Going PROVE Quietly(g, g)
BY DEF Quietly

LEMMA GoOnSame == ASSUME run \in [Obj -> Going] PROVE GoOn(run, run)
BY Quiet DEF GoOn

LEMMA OneGoesOn ==
    ASSUME run \in [Obj -> Going], NEW o \in Obj, NEW g, Quietly(run[o], g)
    PROVE  GoOn(run, [run EXCEPT ![o] = g])
BY Quiet DEF GoOn, Quietly

\* What the registry does keeps the view to the object held, a registered
\* hello retrier running and what is on its way.
LEMMA HoldsKeeps ==
    ASSUME Typed, NEW s, GoOn(run, s), Holds(s)
    PROVE  /\ KeepsView /\ run' \in [Obj -> Going] /\ Runs(reg, run')
           /\ AllCut(run, retry, back) => AllCut(run', retry, back)
<1>1. CASE stored' = stored /\ run' = s
  <2>1. KeepsView
    BY <1>1 DEF Holds, GoOn, Quietly, KeepsView
  <2>2. run' \in [Obj -> Going] /\ Runs(reg, run')
    BY <1>1 DEF Typed, Runs, GoOn, Quietly
  <2>3. AllCut(run, retry, back) => AllCut(run', retry, back)
    BY <1>1 DEF Typed, Goroutines, IsRetry, IsBack, AllCut, GoOn, Quietly, Reply
  <2> QED
    BY <2>1, <2>2, <2>3
<1>2. CASE stored' # stored
  <2>1. /\ stored = Nobody /\ stored' \in Obj /\ Free(stored') /\ view' = stored'
    BY <1>2 DEF Holds
  <2>2. PICK g \in Going : ~Sends(g) /\ run' = [s EXCEPT ![stored'] = g]
    BY <1>2 DEF Holds
  <2>3. run' \in [Obj -> Going] /\ run'[stored'] = g /\ \A o \in Obj \ {stored'} : run'[o] = s[o]
    BY <2>1, <2>2 DEF GoOn
  <2>4. KeepsView
    BY <2>1, <2>3 DEF KeepsView, GoOn, Quietly
  <2>5. Runs(reg, run')
    BY <2>1, <2>3 DEF Typed, Runs, GoOn, Quietly, Free
  <2>6. AllCut(run, retry, back) => AllCut(run', retry, back)
    BY <2>1, <2>2, <2>3 DEF Typed, Goroutines, IsRetry, IsBack, AllCut, GoOn, Quietly, Free, Reply
  <2> QED
    BY <2>3, <2>4, <2>5, <2>6
<1>3. CASE stored' = stored /\ run' # s
  BY <1>3, NobodyIsNone DEF Holds
<1> QED
  BY <1>1, <1>2, <1>3

-----------------------------------------------------------------------------
(* The registry's operations *)

LEMMA NoneIsTyped ==
    /\ IsTp(NoTp) /\ IsRetry(NoRetry) /\ IsBack(NoRetry) /\ NoLook \in Looks /\ IsPass(NoPass)
    /\ Idle \in Going /\ ~Sends(Idle) /\ NoRetry.at = "off"
<1>1. 0 \in Slots
  BY RetriesAssumption DEF Slots
<1>2. IsTp(NoTp)
  BY DEF NoTp, IsTp, Tps, States
<1>3. IsRetry(NoRetry) /\ IsBack(NoRetry) /\ NoRetry.at = "off"
  BY <1>1 DEF NoRetry, IsRetry, IsBack
<1>4. NoLook \in Looks
  BY DEF NoLook, Looks
<1>5. IsPass(NoPass)
  BY DEF NoPass, IsPass, Passes
<1>6. Idle \in Going /\ ~Sends(Idle)
  BY DEF Idle, Going, Sends, Reply
<1> QED
  BY <1>2, <1>3, <1>4, <1>5, <1>6

LEMMA NewIsTyped == ASSUME NEW zones \in SUBSET Zone PROVE NewObject(zones) \in Objects
BY DEF NewObject, Objects

LEMMA Asked ==
    LET g == [Idle EXCEPT !.disc = "asked"] IN g \in Going /\ ~Sends(g)
BY NoneIsTyped DEF Idle, Going, Sends

\* Marking a peer as needed holds the object there is, or a new one.
LEMMA MarkHolds ==
    ASSUME Typed, NEW zones \in SUBSET Zone, MarkNeeded(zones)
    PROVE  Holds(run)
<1>1. CASE stored # Nobody
  <2>1. stored' = stored /\ run' = run /\ view' = stored /\ stored \in Obj
    BY <1>1 DEF Typed, Registry, MarkNeeded
  <2>2. obj' \in [Obj -> Objects]
    BY <1>1, <2>1 DEF Typed, Registry, MarkNeeded, Objects
  <2> QED
    BY <2>1, <2>2 DEF Holds, Registry
<1>2. CASE stored = Nobody
  <2>1. PICK o \in NextFree : /\ stored' = o /\ view' = o
                              /\ obj' = [obj EXCEPT ![o] = NewObject(zones)]
                              /\ run' = [run EXCEPT ![o] = [Idle EXCEPT !.disc = "asked"]]
    BY <1>2 DEF MarkNeeded
  <2>2. o \in Obj /\ Free(o)
    BY NextIsFree
  <2>3. obj' \in [Obj -> Objects]
    BY <2>1, NewIsTyped DEF Typed, Registry
  <2> QED
    BY <1>2, <2>1, <2>2, <2>3, Asked DEF Holds, Registry
<1> QED
  BY <1>1, <1>2

LEMMA UnmarkHolds ==
    ASSUME Typed, NEW z \in Zone, RemovePeerFromZone(z)
    PROVE  Holds(run)
<1>1. obj' \in [Obj -> Objects]
  BY NobodyIsNone DEF Typed, Registry, RemovePeerFromZone, Objects
<1> QED
  BY <1>1 DEF Typed, Registry, RemovePeerFromZone, Materialized, Holds

LEMMA NothingHolds ==
    ASSUME Typed, UNCHANGED <<stored, obj, view>>, NEW s, run' = s
    PROVE  Holds(s)
BY DEF Typed, Registry, Holds

\* A lookup that found the peer keeps the view to the object held, and leaves
\* a transport's peer that has an address if it had one before.
LEMMA DiscoveredHolds ==
    ASSUME Typed, NEW l \in Found \ {"none", "held"}, NEW r, PeerDiscovered(l, r)
    PROVE  Holds(r) /\ IsTp(tp') /\ far' \in Far /\ (tp.addr => tp'.addr)
<1>1. IsTp(tp') /\ (tp.addr => tp'.addr)
  BY DEF Typed, Goroutines, PeerDiscovered, Registered, IsTp, Tps, States
<1>2. far' \in Far
  BY DEF Typed, Rest, PeerDiscovered, Far
<1> DEFINE taken == Named \/ stored # Nobody
<1> DEFINE made == taken /\ view = Nobody /\ stored = Nobody
<1>3. CASE made
  <2>1. PICK o \in NextFree : /\ stored' = o /\ view' = o
                              /\ obj' = [obj EXCEPT ![o] = NewObject({})]
                              /\ run' = [r EXCEPT ![o] = Idle]
    BY <1>3 DEF PeerDiscovered
  <2>2. o \in Obj /\ Free(o)
    BY NextIsFree
  <2>3. obj' \in [Obj -> Objects]
    BY <2>1, NewIsTyped DEF Typed, Registry
  <2> QED
    BY <1>1, <1>2, <1>3, <2>1, <2>2, <2>3, NoneIsTyped DEF Holds, Registry
<1>4. CASE ~made
  <2>1. /\ view' = IF taken /\ view = Nobody THEN stored ELSE view
        /\ run' = r /\ stored' = stored /\ obj' = obj
    BY <1>4 DEF PeerDiscovered
  <2> QED
    BY <1>1, <1>2, <2>1 DEF Typed, Registry, Holds
<1> QED
  BY <1>3, <1>4

LEMMA CachedIsFar == ASSUME far \in Far, NEW f \in BOOLEAN PROVE Cached(f) \in Far /\ LooksUp(f) \in Records \cup {"old"}
BY DEF Cached, LooksUp, Far, Records

-----------------------------------------------------------------------------
(* Steps that settle: the types stay, the view goes by the object held, and *)
(* no outage loses its retries                                              *)

Settled == Typed' /\ KeepsView /\ KeepsOutage

\* What the retriers leave on its way is sent or cut.
StaysCut == AllCut(run', retry, back) => Through(tp', run', retry', back')

LEMMA Settles ==
    ASSUME Typed, NEW s, GoOn(run, s), Holds(s), Rest', reg' = reg, IsTp(tp'), tp.addr => tp'.addr,
           IsRetry(retry'), IsBack(back'), book' \in Books, KeepsOutage, StaysCut
    PROVE  Settled
<1>1. /\ KeepsView /\ run' \in [Obj -> Going] /\ Runs(reg, run')
      /\ AllCut(run, retry, back) => AllCut(run', retry, back)
  BY HoldsKeeps
<1>2. Through(tp', run', retry', back')
  BY <1>1 DEF Typed, Through, StaysCut
<1>3. Registry'
  BY DEF Holds
<1> QED
  BY <1>1, <1>2, <1>3 DEF Settled, Typed, Goroutines

\* ... where the retriers, the registration and the notes stay as they are
LEMMA SettlesSame ==
    ASSUME Typed, NEW s, GoOn(run, s), Holds(s), Rest', UNCHANGED <<reg, retry, back, book>>,
           IsTp(tp'), tp.addr => tp'.addr
    PROVE  Settled
<1>1. IsRetry(retry') /\ IsBack(back') /\ book' \in Books /\ KeepsOutage
  BY DEF Typed, Goroutines, KeepsOutage, Books
<1>2. StaysCut
  BY DEF StaysCut, Through
<1> QED
  BY <1>1, <1>2, Settles

\* ... and nothing but the zones, the lookups, the pass or the peer itself changes
LEMMA SettlesAround ==
    ASSUME Typed, UNCHANGED <<stored, obj, view, tp, reg, run, retry, back, book>>, Rest'
    PROVE  Settled
<1>1. GoOn(run, run) /\ Holds(run)
  BY GoOnSame, NothingHolds DEF Typed, Goroutines
<1>2. IsTp(tp')
  BY DEF Typed, Goroutines
<1> QED
  BY <1>1, <1>2, SettlesSame

\* ... or a message goes out or an answer is taken, with the object held as it is
LEMMA SettlesSent ==
    ASSUME Typed, Rest', UNCHANGED <<stored, obj>>, view' \in {view, stored, Nobody},
           reg' \in Obj \cup {Nobody}, run' \in [Obj -> Going], Runs(reg', run'),
           \A o \in Obj : run'[o].removal = run[o].removal,
           IsTp(tp'), IsRetry(retry'), IsBack(back'), book' \in Books, KeepsOutage,
           Through(tp', run', retry', back')
    PROVE  Settled
<1>1. Registry' /\ KeepsView
  BY DEF Typed, Registry, KeepsView
<1> QED
  BY <1>1 DEF Settled, Typed, Goroutines

LEMMA SameGoesOn == ASSUME Typed PROVE GoOn(run, run) /\ IsTp(tp) /\ book \in Books
BY GoOnSame DEF Typed, Goroutines

\* A goroutine's discovery goes on quietly.
LEMMA DiscGoesOn ==
    ASSUME Typed, NEW o \in Obj, NEW d \in {"off", "asked", "found", "failed", "greet"} \cup Found
    PROVE  GoOn(run, [run EXCEPT ![o].disc = d])
<1>1. [run[o] EXCEPT !.disc = d] \in Going /\ Quietly(run[o], [run[o] EXCEPT !.disc = d])
  BY DEF Typed, Goroutines, Going, Quietly, Sends
<1> QED
  BY <1>1, OneGoesOn DEF Typed, Goroutines

-----------------------------------------------------------------------------
(* The zones, the pass and what happens around *)

LEMMA ApplyStep == ASSUME Typed, NEW z \in Zone, ApplyHsyncDiff(z) PROVE Settled
<1>1. Rest'
  BY DEF Typed, Rest, ApplyHsyncDiff
<1>2. Holds(run)
  <2>1. CASE zone[z] = "gone"
    BY <2>1, NothingHolds DEF ApplyHsyncDiff
  <2>2. CASE zone[z] # "gone" /\ diff[z] = "in"
    <3>1. MarkNeeded({z})
      BY <2>2 DEF ApplyHsyncDiff
    <3> QED
      BY <3>1, MarkHolds
  <2>3. CASE zone[z] # "gone" /\ diff[z] # "in"
    BY <2>3, UnmarkHolds DEF ApplyHsyncDiff
  <2> QED
    BY <2>1, <2>2, <2>3
<1> QED
  BY <1>1, <1>2, SameGoesOn, SettlesSame DEF ApplyHsyncDiff

LEMMA ReadStep == ASSUME Typed, NEW z \in Zone, ReadZone(z) PROVE Settled
<1>1. Rest'
  BY DEF Typed, Rest, ReadZone, IsPass, Passes, goings
<1> QED
  BY <1>1, SettlesAround DEF ReadZone, goings

LEMMA ReconcileStep == ASSUME Typed, ReconcileZone PROVE Settled
<1>1. Rest'
  BY DEF Typed, Rest, ReconcileZone, IsPass, Passes
<1>2. pass.of \in Zone
  BY DEF Typed, Rest, IsPass, ReconcileZone
<1>3. Holds(run)
  <2>1. CASE pass.expects
    <3>1. MarkNeeded({pass.of})
      BY <2>1 DEF ReconcileZone
    <3> QED
      BY <1>2, <3>1, MarkHolds
  <2>2. CASE ~pass.expects
    BY <1>2, <2>2, UnmarkHolds DEF ReconcileZone
  <2> QED
    BY <2>1, <2>2
<1> QED
  BY <1>1, <1>3, SameGoesOn, SettlesSame DEF ReconcileZone

LEMMA UnsharedStep == ASSUME Typed, Unshared PROVE Settled
<1>1. Rest'
  BY NoneIsTyped DEF Typed, Rest, Registry, Unshared, IsPass, Passes, goings, NoPass
<1>2. Holds(run)
  <2>1. CASE stored = Nobody
    BY <2>1, NothingHolds DEF Unshared, goings
  <2>2. CASE stored # Nobody
    <3> DEFINE held == {z \in obj[stored].zones : zone[z] # "gone"}
    <3> DEFINE since == obj[stored].unshared
    <3>1. /\ obj' = [obj EXCEPT ![stored] =
                       [zones |-> held,
                        unshared |-> IF held # {} THEN "no"
                                     ELSE IF since = "no" THEN "lately" ELSE since]]
          /\ view' = stored /\ stored' = stored /\ run' = run
      BY <2>2 DEF Unshared, Materialized, goings
    <3>2. obj[stored] \in Objects
      BY <2>2 DEF Typed, Registry
    <3>3. held \in SUBSET Zone /\ since \in {"no", "lately", "long"}
      BY <3>2 DEF Objects
    <3>4. obj' \in [Obj -> Objects]
      BY <3>1, <3>3 DEF Typed, Registry, Objects
    <3> QED
      BY <2>2, <3>1, <3>4 DEF Typed, Registry, Holds
  <2> QED
    BY <2>1, <2>2
<1> QED
  BY <1>1, <1>2, SameGoesOn, SettlesSame DEF Unshared, goings

LEMMA AroundStep ==
    ASSUME Typed, \/ ReconcileTick \/ CacheExpires \/ PeerChanges
                  \/ \E z \in Zone : ZoneChanges(z) \/ ZoneLeaves(z)
    PROVE  Settled
<1>1. CASE ReconcileTick
  <2>1. Rest'
    BY <1>1, NoneIsTyped DEF Typed, Rest, ReconcileTick, IsPass, Passes, NoPass, Ticks, goings
  <2> QED
    BY <1>1, <2>1, SettlesAround DEF ReconcileTick, Ticks, goings
<1>2. CASE CacheExpires
  <2>1. Rest'
    BY <1>2 DEF Typed, Rest, CacheExpires, Far, Ticks, goings
  <2> QED
    BY <1>2, <2>1, SettlesAround DEF CacheExpires, Ticks, goings
<1>3. CASE PeerChanges
  <2>1. far' \in Far
    <3>1. far \in Far
      BY DEF Typed, Rest
    <3>2. far.cache \in {"empty", "none", "bare", "old"}
      BY <3>1 DEF Far
    <3>3. \/ far' = [far EXCEPT !.up = ~@] \/ far' = [far EXCEPT !.admits = ~@]
          \/ \E r \in Records : far' = [far EXCEPT !.records = r]
          \/ \E c \in {"empty", "none", "bare", "old"} : far' = [far EXCEPT !.key = "old", !.cache = c]
      BY <1>3, <3>2 DEF PeerChanges, Records
    <3>4. CASE far' = [far EXCEPT !.up = ~@] \/ far' = [far EXCEPT !.admits = ~@]
      BY <3>1, <3>4 DEF Far
    <3>5. CASE \E r \in Records : far' = [far EXCEPT !.records = r]
      BY <3>1, <3>5 DEF Far
    <3>6. CASE \E c \in {"empty", "none", "bare", "old"} : far' = [far EXCEPT !.key = "old", !.cache = c]
      BY <3>1, <3>6 DEF Far
    <3> QED
      BY <3>3, <3>4, <3>5, <3>6
  <2>2. left' \in 0..MaxEvents
    BY <1>3, MaxEventsAssumption DEF Typed, Rest, PeerChanges, Event
  <2>3. Rest'
    BY <1>3, <2>1, <2>2 DEF Typed, Rest, PeerChanges, Elsewhere, goings
  <2> QED
    BY <1>3, <2>3, SettlesAround DEF PeerChanges, Elsewhere, goings
<1>4. CASE \E z \in Zone : ZoneChanges(z) \/ ZoneLeaves(z)
  <2>1. left' \in 0..MaxEvents
    BY <1>4, MaxEventsAssumption DEF Typed, Rest, ZoneChanges, ZoneLeaves, Event
  <2>2. Rest'
    BY <1>4, <2>1 DEF Typed, Rest, ZoneChanges, ZoneLeaves, Standing, Elsewhere, goings
  <2> QED
    BY <1>4, <2>2, SettlesAround DEF ZoneChanges, ZoneLeaves, Elsewhere, goings
<1> QED
  BY <1>1, <1>2, <1>3, <1>4

\* Time passes, or this agent's identity is published.
LEMMA TimeStep == ASSUME Typed, HoldPasses \/ SpacingPasses \/ IntervalPasses \/ IdentityReady PROVE Settled
<1>1. Rest'
  BY DEF Typed, Rest, HoldPasses, SpacingPasses, IntervalPasses, IdentityReady, Ticks, goings
<1>2. obj' \in [Obj -> Objects]
  BY DEF Typed, Registry, HoldPasses, SpacingPasses, IntervalPasses, IdentityReady, Objects
<1>3. Holds(run)
  BY <1>2 DEF Typed, Registry, Holds, HoldPasses, SpacingPasses, IntervalPasses, IdentityReady, Ticks, goings
<1>4. book' \in Books /\ book'.failing = book.failing /\ book'.served = book.served
  BY DEF Typed, Goroutines, HoldPasses, SpacingPasses, IntervalPasses, IdentityReady, Books
<1>5. UNCHANGED <<reg, retry, back, tp>>
  BY DEF HoldPasses, SpacingPasses, IntervalPasses, IdentityReady, Ticks, goings
<1>6. IsRetry(retry') /\ IsBack(back') /\ IsTp(tp')
  BY <1>5 DEF Typed, Goroutines
<1>7. KeepsOutage /\ StaysCut
  BY <1>4, <1>5 DEF KeepsOutage, StaysCut, Through
<1> QED
  BY <1>1, <1>3, <1>4, <1>5, <1>6, <1>7, SameGoesOn, Settles

LEMMA OperatorStep == ASSUME Typed, OperatorAsks PROVE Settled
<1>1. left' \in 0..MaxEvents
  BY MaxEventsAssumption DEF Typed, Rest, OperatorAsks, Event
<1>2. Rest'
  BY <1>1 DEF Typed, Rest, OperatorAsks
<1>3. Holds(run)
  BY MarkHolds DEF OperatorAsks
<1> QED
  BY <1>2, <1>3, SameGoesOn, SettlesSame DEF OperatorAsks

LEMMA SameFields ==
    ASSUME NEW t \in Tps, NEW u \in Tps,
           t.here = u.here, t.mech = u.mech, t.addr = u.addr, t.top = u.top
    PROVE  t = u
BY DEF Tps

LEMMA ResetStep == ASSUME Typed, PeerReset PROVE Settled
<1>1. left' \in 0..MaxEvents
  BY MaxEventsAssumption DEF Typed, Rest, PeerReset, Event
<1>2. Rest'
  BY <1>1 DEF Typed, Rest, PeerReset, Far
<1>3. IsTp(tp') /\ tp'.addr = tp.addr
  <2>1. IsTp(tp) /\ tp' = [tp EXCEPT !.mech = "needed", !.top = "needed"]
    BY DEF Typed, Goroutines, PeerReset
  <2>2. CASE tp.here
    BY <2>1, <2>2 DEF IsTp, Tps, States
  <2>3. CASE ~tp.here
    <3>1. tp = NoTp
      BY <2>1, <2>3 DEF IsTp
    <3>2. /\ tp \in Tps /\ tp' \in Tps /\ tp'.here = tp.here /\ tp'.mech = tp.mech
          /\ tp'.addr = tp.addr /\ tp'.top = tp.top
      BY <2>1, <3>1 DEF IsTp, Tps, States, NoTp
    <3>3. tp' = NoTp
      BY <3>1, <3>2, SameFields
    <3> QED
      BY <3>1, <3>3, NoneIsTyped
  <2> QED
    BY <2>2, <2>3
<1> DEFINE d == IF run[stored].disc = "off" THEN "asked" ELSE run[stored].disc
<1>4. stored \in Obj /\ d \in {"off", "asked", "found", "failed", "greet"} \cup Found
  BY DEF Typed, Registry, Goroutines, PeerReset, Going
<1> DEFINE s == [run EXCEPT ![stored].disc = d]
<1>5. GoOn(run, s)
  BY <1>4, DiscGoesOn
<1>6. run' = s
  BY DEF PeerReset
<1>7. Holds(s)
  BY <1>6 DEF Typed, Registry, Holds, PeerReset
<1> QED
  BY <1>2, <1>3, <1>5, <1>7, SettlesSame DEF PeerReset

-----------------------------------------------------------------------------
(* Discovery *)

LEMMA DiscoverStep == ASSUME Typed, NEW o \in Obj, Discover(o) PROVE Settled
<1> DEFINE d == run'[o].disc
<1>1. CASE stored # o
  <2>1. run' = [run EXCEPT ![o].disc = "off"] /\ tp' = tp /\ far' = far
    BY <1>1 DEF Discover
  <2>2. Rest' /\ IsTp(tp')
    BY <2>1 DEF Typed, Rest, Goroutines, Discover
  <2>3. GoOn(run, run') /\ Holds(run')
    BY <2>1, DiscGoesOn, NothingHolds DEF Discover
  <2> QED
    BY <2>1, <2>2, <2>3, SettlesSame DEF Discover
<1>2. CASE stored = o
  <2>1. IsTp(Rearmed) /\ Rearmed.addr = tp.addr
    <3>1. CASE tp.here
      BY <3>1 DEF Typed, Goroutines, Rearmed, IsTp, Tps, States
    <3>2. CASE ~tp.here
      <4>1. tp.top = "needed"
        BY <3>2 DEF Typed, Goroutines, IsTp, NoTp
      <4> QED
        BY <4>1 DEF Typed, Goroutines, Rearmed
    <3> QED
      BY <3>1, <3>2
  <2>2. PICK e \in {"held"} \cup Records \cup {"old"} : run' = [run EXCEPT ![o].disc = e]
    BY <1>2, CachedIsFar DEF Typed, Rest, Discover
  <2>3. far' \in Far
    BY <1>2, CachedIsFar DEF Typed, Rest, Discover
  <2>4. tp' = Rearmed
    BY <1>2 DEF Discover
  <2>5. Rest'
    BY <2>3 DEF Typed, Rest, Discover
  <2>6. GoOn(run, run') /\ Holds(run')
    BY <2>2, DiscGoesOn, NothingHolds DEF Discover, Found
  <2> QED
    BY <2>1, <2>4, <2>5, <2>6, SettlesSame DEF Discover
<1> QED
  BY <1>1, <1>2

LEMMA LookedUpStep == ASSUME Typed, NEW o \in Obj, LookedUp(o) PROVE Settled
<1> DEFINE l == run[o].disc
<1> DEFINE r == [run EXCEPT ![o].disc = IF l = "none" THEN "failed" ELSE "found"]
<1>1. GoOn(run, r)
  BY DiscGoesOn
<1>2. l \in Found
  BY DEF LookedUp
<1>3. CASE l \in {"none", "held"}
  <2>1. run' = r /\ UNCHANGED <<tp, far, stored, obj, view>>
    BY <1>3 DEF LookedUp
  <2>2. Rest' /\ IsTp(tp')
    BY <2>1 DEF Typed, Rest, Goroutines, LookedUp
  <2>3. Holds(r)
    BY <2>1, NothingHolds
  <2> QED
    BY <1>1, <2>1, <2>2, <2>3, SettlesSame DEF LookedUp
<1>4. CASE l \notin {"none", "held"}
  <2>1. PeerDiscovered(l, r)
    BY <1>4 DEF LookedUp
  <2>2. Holds(r) /\ IsTp(tp') /\ far' \in Far /\ (tp.addr => tp'.addr)
    <3> HIDE DEF l, r
    <3> QED
      BY <1>2, <1>4, <2>1, DiscoveredHolds
  <2>3. Rest'
    BY <2>2 DEF Typed, Rest, LookedUp
  <2> QED
    BY <1>1, <2>2, <2>3, SettlesSame DEF LookedUp
<1> QED
  BY <1>3, <1>4

\* Dropping the transport's peer cuts off all that is on its way.
LEMMA DroppedIsCut ==
    ASSUME Typed, NEW r \in [Obj -> Going]
    PROVE  /\ Dropped(r) \in [Obj -> Going] /\ AllCut(Dropped(r), retry, back)
           /\ \A o \in Obj : Dropped(r)[o].hello = r[o].hello /\ Dropped(r)[o].removal = r[o].removal
<1>1. \A o \in Obj : [r[o] EXCEPT !.cut = TRUE] \in Going
  BY DEF Going
<1>2. Dropped(r) \in [Obj -> Going]
  BY <1>1 DEF Dropped
<1>3. \A o \in Obj : /\ Dropped(r)[o].hello = r[o].hello /\ Dropped(r)[o].removal = r[o].removal
                     /\ Dropped(r)[o].round = r[o].round
                     /\ Sends(r[o]) \/ retry.of = o \/ back.of = o => Dropped(r)[o].cut
  BY DEF Dropped, Sends, Going
<1>4. (retry.at \in Reply => retry.of \in Obj) /\ (back.at # "off" => back.of \in Obj)
  BY DEF Typed, Goroutines, IsRetry, IsBack, Reply
<1>5. AllCut(Dropped(r), retry, back)
  BY <1>3, <1>4 DEF AllCut, Sends
<1> QED
  BY <1>2, <1>3, <1>5

\* The view and the transport's peer of an object that was removed go.
LEMMA ViewRemoved ==
    ASSUME Typed, NEW o \in Obj, NEW r \in [Obj -> Going], RemovePeerView(o, r), reg' = reg,
           Runs(reg, r), \A p \in Obj : r[p].cut = run[p].cut /\ (Sends(r[p]) => Sends(run[p])),
           UNCHANGED <<retry, back>>
    PROVE  /\ run' \in [Obj -> Going] /\ IsTp(tp') /\ Runs(reg', run') /\ Through(tp', run', retry', back')
           /\ \A p \in Obj : run'[p].removal = r[p].removal
           /\ view' \in {view, Nobody} /\ (view' = Nobody \/ (view # o /\ stored \notin {Nobody, o}))
<1>1. CASE stored \notin {Nobody, o}
  <2>1. run' = r /\ tp' = tp /\ view' = IF view = o THEN Nobody ELSE view
    BY <1>1 DEF RemovePeerView
  <2>2. (retry.at \in Reply => retry.of \in Obj) /\ (back.at # "off" => back.of \in Obj)
    BY DEF Typed, Goroutines, IsRetry, IsBack, Reply
  <2>3. AllCut(run, retry, back) => AllCut(r, retry, back)
    BY <2>2 DEF AllCut
  <2> QED
    BY <1>1, <2>1, <2>3, NobodyIsNone DEF Typed, Goroutines, Through
<1>2. CASE stored \in {Nobody, o}
  <2>1. view' = Nobody /\ tp' = NoTp /\ run' = Dropped(r)
    BY <1>2 DEF RemovePeerView
  <2> QED
    BY <2>1, DroppedIsCut, NoneIsTyped DEF Runs, Through
<1> QED
  BY <1>1, <1>2

LEMMA DiscoveredStep == ASSUME Typed, NEW o \in Obj, Discovered(o) PROVE Settled
<1>1. Rest'
  BY DEF Typed, Rest, Discovered
<1> DEFINE s == [run EXCEPT ![o].disc = "off"]
<1>2. CASE stored # o
  <2>1. GoOn(run, s)
    BY DiscGoesOn
  <2>2. RemovePeerView(o, s) /\ UNCHANGED <<stored, obj, reg, retry, back, book>>
    BY <1>2 DEF Discovered
  <2>3. /\ s \in [Obj -> Going] /\ Runs(reg, s)
        /\ \A p \in Obj : s[p].cut = run[p].cut /\ (Sends(s[p]) => Sends(run[p])) /\ s[p].removal = run[p].removal
    <3> HIDE DEF s
    <3> QED
      BY <2>1 DEF GoOn, Quietly, Typed, Runs
  <2>4. /\ run' \in [Obj -> Going] /\ IsTp(tp') /\ Runs(reg', run') /\ Through(tp', run', retry', back')
        /\ \A p \in Obj : run'[p].removal = run[p].removal
        /\ view' \in {view, Nobody}
    <3> HIDE DEF s
    <3> QED
      BY <2>2, <2>3, ViewRemoved
  <2>5. IsRetry(retry') /\ IsBack(back') /\ book' \in Books /\ reg' \in Obj \cup {Nobody} /\ KeepsOutage
    BY <2>2 DEF Typed, Goroutines, KeepsOutage
  <2> QED
    BY <1>1, <2>2, <2>4, <2>5, SettlesSent
<1>3. CASE stored = o
  <2>1. IsTp(DiscoveryFailed) /\ (tp.addr => DiscoveryFailed.addr)
    <3>1. CASE tp.top = "known" \/ (tp.here /\ tp.addr)
      BY <3>1 DEF Typed, Goroutines, DiscoveryFailed
    <3>2. CASE ~(tp.top = "known" \/ (tp.here /\ tp.addr))
      BY <3>2 DEF Typed, Goroutines, DiscoveryFailed, IsTp, Tps
    <3> QED
      BY <3>1, <3>2
  <2>2. PICK d \in {"off", "greet"} : run' = [run EXCEPT ![o].disc = d]
    BY <1>3 DEF Discovered
  <2>3. IsTp(tp') /\ (tp.addr => tp'.addr)
    BY <1>3, <2>1 DEF Typed, Goroutines, Discovered
  <2>4. GoOn(run, run')
    BY <2>2, DiscGoesOn
  <2>5. Holds(run')
    BY <1>3 DEF Typed, Registry, Holds, Discovered
  <2> QED
    BY <1>1, <2>3, <2>4, <2>5, SettlesSame DEF Discovered
<1> QED
  BY <1>2, <1>3

\* A hello retrier that starts is registered, as none is.
LEMMA RetrierStarts ==
    ASSUME Typed, NEW o \in Obj, NEW r, GoOn(run, r), StartHelloRetrier(o, r)
    PROVE  /\ reg' \in Obj \cup {Nobody} /\ GoOn(run, run') /\ Runs(reg', run')
<1>1. CASE reg = Nobody /\ run[o].hello = "off"
  <2>1. reg' = o /\ run' = [r EXCEPT ![o].hello = "start"]
    BY <1>1 DEF StartHelloRetrier
  <2>2. r[o] \in Going /\ r \in [Obj -> Going] /\ Quietly(run[o], r[o])
    BY DEF GoOn
  <2>3. Quietly(run[o], [r[o] EXCEPT !.hello = "start"])
    BY <2>2 DEF Quietly, Going, Sends
  <2>4. [r[o] EXCEPT !.hello = "start"] \in Going
    BY <2>2 DEF Going
  <2>5. GoOn(run, run')
    BY <2>1, <2>2, <2>3, <2>4 DEF GoOn
  <2>6. run'[o].hello = "start"
    BY <2>1, <2>2 DEF Going
  <2> QED
    BY <2>1, <2>5, <2>6 DEF Runs
<1>2. CASE ~(reg = Nobody /\ run[o].hello = "off")
  <2>1. reg' = reg /\ run' = r
    BY <1>2 DEF StartHelloRetrier
  <2> QED
    BY <2>1 DEF Typed, Goroutines, Runs, GoOn, Quietly
<1> QED
  BY <1>1, <1>2

\* ... which settles where nothing but the runs and the registration changes.
LEMMA SettlesGreeted ==
    ASSUME Typed, UNCHANGED <<zone, diff, far, stored, obj, view, tp, retry, back, look, book, pass, left>>,
           reg' \in Obj \cup {Nobody}, GoOn(run, run'), Runs(reg', run')
    PROVE  Settled
<1>1. Rest'
  BY DEF Typed, Rest
<1>2. IsTp(tp') /\ IsRetry(retry') /\ IsBack(back') /\ book' \in Books /\ KeepsOutage
  BY DEF Typed, Goroutines, KeepsOutage
<1>3. run' \in [Obj -> Going] /\ \A o \in Obj : run'[o].removal = run[o].removal
  BY DEF GoOn, Quietly
<1>4. (retry.at \in Reply => retry.of \in Obj) /\ (back.at # "off" => back.of \in Obj)
  BY DEF Typed, Goroutines, IsRetry, IsBack, Reply
<1>5. AllCut(run, retry, back) => AllCut(run', retry, back)
  BY <1>4 DEF AllCut, GoOn, Quietly
<1>6. Through(tp', run', retry', back')
  BY <1>5 DEF Typed, Through
<1> QED
  BY <1>1, <1>2, <1>3, <1>6, SettlesSent

LEMMA GreetStep == ASSUME Typed, NEW o \in Obj, Greet(o) PROVE Settled
<1> DEFINE r == [run EXCEPT ![o].disc = "off"]
<1>1. GoOn(run, r)
  BY DiscGoesOn
<1>2. StartHelloRetrier(o, r)
  BY DEF Greet
<1>3. reg' \in Obj \cup {Nobody} /\ GoOn(run, run') /\ Runs(reg', run')
  <2> HIDE DEF r
  <2> QED
    BY <1>1, <1>2, RetrierStarts
<1> QED
  BY <1>3, SettlesGreeted DEF Greet

LEMMA RetryPendingStep == ASSUME Typed, RetryPendingDiscoveries PROVE Settled
<1>1. stored \in Obj
  BY DEF Typed, Registry, RetryPendingDiscoveries
<1>2. CASE Reading = "needed" \/ ~tp.addr
  <2>1. run' = [run EXCEPT ![stored].disc = "asked"] /\ reg' = reg
    BY <1>2 DEF RetryPendingDiscoveries
  <2>2. GoOn(run, run')
    BY <1>1, <2>1, DiscGoesOn
  <2>3. reg' \in Obj \cup {Nobody} /\ Runs(reg', run')
    BY <2>1, <2>2 DEF Typed, Goroutines, Runs, GoOn, Quietly
  <2> QED
    BY <2>2, <2>3, SettlesGreeted DEF RetryPendingDiscoveries
<1>3. CASE ~(Reading = "needed" \/ ~tp.addr)
  <2>1. StartHelloRetrier(stored, run)
    BY <1>3 DEF RetryPendingDiscoveries
  <2>2. reg' \in Obj \cup {Nobody} /\ GoOn(run, run') /\ Runs(reg', run')
    BY <1>1, <2>1, SameGoesOn, RetrierStarts
  <2> QED
    BY <2>2, SettlesGreeted DEF RetryPendingDiscoveries
<1> QED
  BY <1>2, <1>3

-----------------------------------------------------------------------------
(* The lookups that a message or a refusal asked for *)

LEMMA LooksStep == ASSUME Typed, HelloLooks \/ FreshLooks PROVE Settled
<1>1. far' \in Far /\ look' \in Looks
  <2> DEFINE fresh == look.bare /\ ~book.looked
  <2>1. fresh \in BOOLEAN /\ far \in Far /\ look \in Looks
    BY DEF Typed, Rest
  <2>2. CASE HelloLooks
    <3>1. far' = Cached(fresh) /\ look' = [look EXCEPT !.hello = LooksUp(fresh)]
      BY <2>2 DEF HelloLooks
    <3>2. Cached(fresh) \in Far /\ LooksUp(fresh) \in Records \cup {"old"}
      BY <2>1, CachedIsFar
    <3> QED
      BY <2>1, <3>1, <3>2 DEF Looks
  <2>3. CASE FreshLooks
    <3>1. far' = Cached(TRUE) /\ look' = [look EXCEPT !.fresh = far.records]
      BY <2>3 DEF FreshLooks, LooksUp
    <3>2. Cached(TRUE) \in Far /\ far.records \in Records
      BY <2>1, CachedIsFar DEF Far
    <3> QED
      BY <2>1, <3>1, <3>2 DEF Looks
  <2> QED
    BY <2>2, <2>3
<1>2. Rest'
  BY <1>1 DEF Typed, Rest, HelloLooks, FreshLooks
<1>3. book' \in Books /\ book'.failing = book.failing /\ book'.served = book.served
  BY DEF Typed, Goroutines, HelloLooks, FreshLooks, Books, Looks, Rest
<1>4. UNCHANGED <<reg, retry, back, tp, run, stored, obj, view>>
  BY DEF HelloLooks, FreshLooks
<1>5. IsRetry(retry') /\ IsBack(back') /\ IsTp(tp')
  BY <1>4 DEF Typed, Goroutines
<1>6. KeepsOutage /\ StaysCut
  BY <1>3, <1>4 DEF KeepsOutage, StaysCut, Through
<1>7. Holds(run)
  BY <1>4, NothingHolds
<1> QED
  BY <1>2, <1>3, <1>4, <1>5, <1>6, <1>7, SameGoesOn, Settles

LEMMA AnswersStep == ASSUME Typed, HelloLookedUp \/ FreshLookedUp PROVE Settled
<1>1. PICK l \in Records \cup {"old"} :
        IF l = "none" THEN UNCHANGED <<tp, far, stored, obj, view, run>> ELSE PeerDiscovered(l, run)
  BY DEF HelloLookedUp, FreshLookedUp
<1>2. look' \in Looks
  BY DEF Typed, Rest, HelloLookedUp, FreshLookedUp, Looks
<1>3. Holds(run) /\ IsTp(tp') /\ far' \in Far /\ (tp.addr => tp'.addr)
  <2>1. CASE l = "none"
    BY <1>1, <2>1, NothingHolds DEF Typed, Rest, Goroutines
  <2>2. CASE l # "none"
    <3>1. l \in Found \ {"none", "held"} /\ PeerDiscovered(l, run)
      BY <1>1, <2>2 DEF Found, Records
    <3> QED
      BY <3>1, DiscoveredHolds
  <2> QED
    BY <2>1, <2>2
<1>4. Rest' /\ UNCHANGED <<reg, retry, back, book>>
  BY <1>2, <1>3 DEF Typed, Rest, HelloLookedUp, FreshLookedUp
<1> QED
  BY <1>3, <1>4, SameGoesOn, SettlesSame

LEMMA IntroduceStep == ASSUME Typed, IntroduceByHello PROVE Settled
<1>1. IsTp(tp') /\ (tp.addr => tp'.addr)
  <2>1. CASE tp' = tp
    BY <2>1 DEF Typed, Goroutines
  <2>2. CASE tp' # tp
    <3>1. tp' = [tp EXCEPT !.mech = "introducing"] /\ tp.addr
      BY <2>2 DEF IntroduceByHello
    <3>2. tp \in Tps /\ (~tp.here => ~tp.addr)
      BY DEF Typed, Goroutines, IsTp, NoTp
    <3> QED
      BY <3>1, <3>2 DEF IsTp, Tps, States
  <2> QED
    BY <2>1, <2>2
<1>2. look' \in Looks
  BY DEF Typed, Rest, IntroduceByHello, Looks
<1>3. Rest'
  BY <1>2 DEF Typed, Rest, IntroduceByHello
<1>4. Holds(run) /\ UNCHANGED <<reg, retry, back, book>>
  BY NothingHolds DEF IntroduceByHello
<1> QED
  BY <1>1, <1>3, <1>4, SameGoesOn, SettlesSame

\* A message is sent through a transport's peer that has an address.
LEMMA ReadyHasAddress == ASSUME Typed, Ready \/ NeedsHello PROVE tp.here /\ tp.addr
BY DEF Typed, Goroutines, Ready, NeedsHello, Reading, IsTp

LEMMA SaysHelloStep == ASSUME Typed, PeerSaysHello PROVE Settled
<1>1. left' \in 0..MaxEvents
  BY MaxEventsAssumption DEF Typed, Rest, PeerSaysHello, Event
<1>2. look' \in Looks
  <2>1. CASE far.key # "right"
    BY <2>1 DEF Typed, Rest, PeerSaysHello, Looks
  <2>2. CASE far.key = "right"
    BY <2>2 DEF Typed, Rest, Goroutines, IsTp, Tps, PeerSaysHello, Looks
  <2> QED
    BY <2>1, <2>2
<1>3. Rest'
  BY <1>1, <1>2 DEF Typed, Rest, PeerSaysHello
<1>4. IsTp(tp') /\ tp'.addr = tp.addr
  <2>1. CASE far.key # "right"
    BY <2>1 DEF Typed, Goroutines, PeerSaysHello
  <2>2. CASE far.key = "right"
    <3>1. \/ tp' = [tp EXCEPT !.mech = "introducing"] /\ tp.addr
          \/ tp' = [tp EXCEPT !.here = TRUE]
      BY <2>2 DEF PeerSaysHello
    <3>2. tp \in Tps /\ (~tp.here => ~tp.addr) /\ (tp.mech # "needed" => tp.addr)
      BY DEF Typed, Goroutines, IsTp, NoTp
    <3> QED
      BY <3>1, <3>2 DEF IsTp, Tps, States
  <2> QED
    BY <2>1, <2>2
<1>5. /\ IsBack(back') /\ book' \in Books /\ book'.failing = book.failing /\ book'.served = book.served
      /\ (back' = back \/ tp.addr)
  <2>1. CASE UNCHANGED <<back, book>>
    BY <2>1 DEF Typed, Goroutines
  <2>2. CASE ~UNCHANGED <<back, book>>
    <3>1. /\ stored # Nobody /\ Ready
          /\ back' = [at |-> "send", of |-> stored, left |-> 2] /\ book' = [book EXCEPT !.recent = TRUE]
      BY <2>2 DEF PeerSaysHello, BeatPeer
    <3>2. tp.addr
      BY <3>1, ReadyHasAddress
    <3>3. stored \in Obj
      BY <3>1 DEF Typed, Registry
    <3>4. IsBack(back')
      BY <3>1, <3>3 DEF IsBack
    <3>5. book' \in Books /\ book'.failing = book.failing /\ book'.served = book.served
      BY <3>1 DEF Typed, Goroutines, Books
    <3> QED
      BY <3>2, <3>4, <3>5
  <2> QED
    BY <2>1, <2>2
<1>6. UNCHANGED <<reg, retry, run, stored, obj, view>>
  BY DEF PeerSaysHello
<1>7. IsRetry(retry') /\ KeepsOutage /\ StaysCut /\ Holds(run)
  BY <1>4, <1>5, <1>6, NothingHolds DEF Typed, Goroutines, KeepsOutage, StaysCut, Through
<1> QED
  BY <1>3, <1>4, <1>5, <1>6, <1>7, SameGoesOn, Settles

-----------------------------------------------------------------------------
(* What an answer leaves *)

LEMMA NotedIsTyped ==
    ASSUME Typed, NEW got \in Reply
    PROVE  Noted(got) \in Books /\ Noted(got).failing = book.failing /\ Noted(got).served = book.served
<1>1. book \in Books
  BY DEF Typed, Goroutines
<1>2. (book.refused \in Refusals) /\ (book.refused < 3 => book.refused + 1 \in Refusals) /\ 0 \in Refusals
  BY <1>1 DEF Books, Refusals
<1> QED
  BY <1>1, <1>2 DEF Noted, Books, LooksAgain

LEMMA FlushIsTyped ==
    ASSUME Typed, NEW got \in Reply PROVE FlushAndDiscover(look, got) \in Looks
BY DEF Typed, Rest, FlushAndDiscover, Looks

\* What the answer to a beat of an object leaves: an outage of this object's
\* ends with a success, and nothing else of the notes that count changes.
LEMMA AfterBeatIs ==
    ASSUME Typed, NEW o \in Obj, NEW got \in Reply
    PROVE  /\ AfterBeat(o, got) \in Books /\ AfterBeat(o, got).served = book.served
           /\ AfterBeat(o, got).failing \in {book.failing, Nobody}
           /\ got # "ok" => AfterBeat(o, got).failing = book.failing
BY NotedIsTyped DEF AfterBeat, Books

LEMMA BeatIs ==
    ASSUME Typed, NEW o \in Obj, NEW got \in Reply, BeatLands(o, got),
           got # "ok" \/ run[o].cut \/ tp.addr
    PROVE  IsTp(tp') /\ tp'.addr = tp.addr /\ view' \in {view, stored} /\ look' \in Looks
<1>1. IsTp(tp') /\ tp'.addr = tp.addr
  <2>1. CASE got = "ok" /\ ~run[o].cut
    BY <2>1 DEF Typed, Goroutines, BeatLands, IsTp, Tps, States, NoTp
  <2>2. CASE ~(got = "ok" /\ ~run[o].cut)
    BY <2>2 DEF Typed, Goroutines, BeatLands
  <2> QED
    BY <2>1, <2>2
<1> QED
  BY <1>1, FlushIsTyped DEF BeatLands, Materialized

-----------------------------------------------------------------------------
(* The hello retrier *)

LEMMA AnswerIsReply == Answer \in Reply
BY DEF Answer, Reply

\* An answer that can be written to the transport's peer finds an address there.
LEMMA OnItsWay ==
    ASSUME Typed
    PROVE  /\ \A o \in Obj : Sends(run[o]) => run[o].cut \/ tp.addr
           /\ retry.at \in Reply => run[retry.of].cut \/ tp.addr
           /\ back.at # "off" => run[back.of].cut \/ tp.addr
BY DEF Typed, Through, AllCut

LEMMA HelloSettles ==
    ASSUME Typed, Rest', UNCHANGED <<stored, obj, retry, back>>, view' \in {view, stored, Nobody},
           NEW o \in Obj, NEW h \in {"off", "start", "loop", "sent", "beats", "beaten"}, NEW a \in Reply,
           run' = [run EXCEPT ![o].hello = h, ![o].got = a],
           h \in {"sent", "beaten"} => tp.addr,
           reg' = IF h = "off" /\ reg = o THEN Nobody ELSE reg,
           IsTp(tp'), tp.addr => tp'.addr, book' \in Books, KeepsOutage
    PROVE  Settled
<1>1. /\ run \in [Obj -> Going] /\ run[o] \in Going /\ IsRetry(retry') /\ IsBack(back')
      /\ (retry.at \in Reply => retry.of \in Obj) /\ (back.at # "off" => back.of \in Obj)
  BY DEF Typed, Goroutines, IsRetry, IsBack, Reply
<1>2. [run[o] EXCEPT !.hello = h, !.got = a] \in Going
  BY <1>1 DEF Going
<1>3. /\ run' \in [Obj -> Going]
      /\ \A p \in Obj : /\ run'[p].removal = run[p].removal /\ run'[p].cut = run[p].cut
                        /\ run'[p].round = run[p].round
                        /\ run'[p].hello = IF p = o THEN h ELSE run[p].hello
  BY <1>1, <1>2 DEF Going
<1>4. reg' \in Obj \cup {Nobody} /\ Runs(reg', run')
  BY <1>3, NobodyIsNone DEF Typed, Goroutines, Runs
<1>5. Through(tp', run', retry', back')
  <2>1. CASE tp.addr
    BY <2>1 DEF Through
  <2>2. CASE ~tp.addr
    BY <1>1, <1>3, <2>2 DEF Typed, Through, AllCut, Sends
  <2> QED
    BY <2>1, <2>2
<1> QED
  BY <1>1, <1>3, <1>4, <1>5, SettlesSent

LEMMA SameNotes == ASSUME Typed, UNCHANGED <<book, retry>> PROVE book' \in Books /\ KeepsOutage
BY DEF Typed, Goroutines, KeepsOutage

LEMMA StartHelloStep == ASSUME Typed, NEW o \in Obj, StartHello(o) PROVE Settled
<1>1. PICK h \in {"off", "loop"} :
        /\ run' = [run EXCEPT ![o].hello = h, ![o].got = "silent"]
        /\ reg' = IF h = "off" /\ reg = o THEN Nobody ELSE reg
  <2>1. CASE EndHello(o)
    BY <2>1 DEF EndHello, Hello
  <2>2. CASE Hello(o, "loop") /\ UNCHANGED reg
    BY <2>2 DEF Hello
  <2> QED
    BY <2>1, <2>2 DEF StartHello
<1>2. Rest' /\ IsTp(tp') /\ "silent" \in Reply
  BY DEF Typed, Rest, Goroutines, StartHello, Reply
<1>3. UNCHANGED <<stored, obj, view, tp, retry, back, book>>
  BY DEF StartHello
<1> QED
  BY <1>1, <1>2, <1>3, SameNotes, HelloSettles

LEMMA SendHelloStep == ASSUME Typed, NEW o \in Obj, SendHello(o) PROVE Settled
<1>1. Rest' /\ IsTp(tp') /\ "silent" \in Reply
  BY DEF Typed, Rest, Goroutines, SendHello, Reply
<1>2. UNCHANGED <<stored, obj, tp, retry, back, book>>
  BY DEF SendHello
<1>3. CASE stored # o \/ ~NeedsHello
  <2>1. PICK h \in {"off", "beats"} :
          /\ run' = [run EXCEPT ![o].hello = h, ![o].got = "silent"]
          /\ reg' = IF h = "off" /\ reg = o THEN Nobody ELSE reg
    <3>1. CASE stored # o
      BY <3>1 DEF SendHello, EndHello, Hello
    <3>2. CASE stored = o /\ ~NeedsHello
      BY <3>2 DEF SendHello, Hello
    <3> QED
      BY <1>3, <3>1, <3>2
  <2>2. view' = view
    BY <1>3 DEF SendHello
  <2> QED
    BY <1>1, <1>2, <2>1, <2>2, SameNotes, HelloSettles
<1>4. CASE stored = o /\ NeedsHello
  <2>1. run' = [run EXCEPT ![o].hello = "sent", ![o].got = Answer] /\ reg' = reg /\ view' \in {view, stored}
    BY <1>4 DEF SendHello, Materialized
  <2>2. tp.addr
    BY <1>4, ReadyHasAddress
  <2> QED
    BY <1>1, <1>2, <2>1, <2>2, AnswerIsReply, SameNotes, HelloSettles
<1> QED
  BY <1>3, <1>4

LEMMA HelloAnsweredStep == ASSUME Typed, NEW o \in Obj, HelloAnswered(o) PROVE Settled
<1> DEFINE got == run[o].got
<1>1. got \in Reply /\ "silent" \in Reply /\ HelloLands(o, got)
  BY DEF Typed, Goroutines, Going, HelloAnswered, Reply
<1>2. Noted(got) \in Books /\ Noted(got).failing = book.failing /\ Noted(got).served = book.served
  BY <1>1, NotedIsTyped
<1>3. run[o].cut \/ tp.addr
  BY OnItsWay DEF HelloAnswered, Sends
<1>4. IsTp(tp') /\ tp'.addr = tp.addr
  <2>1. CASE tp' = tp
    BY <2>1 DEF Typed, Goroutines
  <2>2. CASE tp' # tp
    <3>1. tp' = [tp EXCEPT !.mech = "introducing"] /\ tp.addr
      BY <1>1, <1>3, <2>2 DEF HelloLands
    <3>2. tp \in Tps /\ (~tp.here => ~tp.addr)
      BY DEF Typed, Goroutines, IsTp, NoTp
    <3> QED
      BY <3>1, <3>2 DEF IsTp, Tps, States
  <2> QED
    BY <2>1, <2>2
<1>5. look' \in Looks
  BY <1>1, FlushIsTyped DEF HelloLands
<1>6. Rest'
  BY <1>5 DEF Typed, Rest, HelloAnswered
<1>7. book' \in Books /\ KeepsOutage /\ UNCHANGED <<stored, obj, view, reg, retry, back>>
  BY <1>1, <1>2 DEF HelloLands, HelloAnswered, KeepsOutage
<1>8. PICK h \in {"loop", "beats"} : run' = [run EXCEPT ![o].hello = h, ![o].got = "silent"]
  BY DEF HelloAnswered, Hello
<1> QED
  BY <1>1, <1>4, <1>6, <1>7, <1>8, HelloSettles

LEMMA FastBeatStep == ASSUME Typed, NEW o \in Obj, FastBeat(o) PROVE Settled
<1>1. Rest' /\ IsTp(tp') /\ "silent" \in Reply
  BY DEF Typed, Rest, Goroutines, FastBeat, Reply
<1>2. UNCHANGED <<stored, obj, tp, retry, back, book>>
  BY DEF FastBeat
<1>3. CASE stored = o /\ Reading = "introducing"
  <2>1. run' = [run EXCEPT ![o].hello = "beaten", ![o].got = Answer] /\ reg' = reg /\ view' \in {view, stored}
    BY <1>3 DEF FastBeat, Materialized
  <2>2. tp.addr
    BY <1>3, ReadyHasAddress DEF Ready
  <2> QED
    BY <1>1, <1>2, <2>1, <2>2, AnswerIsReply, SameNotes, HelloSettles
<1>4. CASE ~(stored = o /\ Reading = "introducing")
  <2>1. /\ run' = [run EXCEPT ![o].hello = "off", ![o].got = "silent"] /\ view' = view
        /\ reg' = IF reg = o THEN Nobody ELSE reg
    BY <1>4 DEF FastBeat, EndHello, Hello
  <2> QED
    BY <1>1, <1>2, <2>1, SameNotes, HelloSettles
<1> QED
  BY <1>3, <1>4

LEMMA FastBeatAnsweredStep == ASSUME Typed, NEW o \in Obj, FastBeatAnswered(o) PROVE Settled
<1> DEFINE got == run[o].got
<1>1. got \in Reply /\ "silent" \in Reply /\ BeatLands(o, got)
  BY DEF Typed, Goroutines, Going, FastBeatAnswered, Reply
<1>2. run[o].cut \/ tp.addr
  BY OnItsWay DEF FastBeatAnswered, Sends
<1>3. IsTp(tp') /\ tp'.addr = tp.addr /\ view' \in {view, stored} /\ look' \in Looks
  BY <1>1, <1>2, BeatIs
<1>4. Rest'
  BY <1>3 DEF Typed, Rest, FastBeatAnswered
<1>5. book' = AfterBeat(o, got) /\ UNCHANGED <<stored, obj, retry, back>>
  BY DEF FastBeatAnswered
<1>6. book' \in Books /\ KeepsOutage
  BY <1>1, <1>5, AfterBeatIs DEF KeepsOutage
<1>7. PICK h \in {"beats", "off"} :
        /\ run' = [run EXCEPT ![o].hello = h, ![o].got = "silent"]
        /\ reg' = IF h = "off" /\ reg = o THEN Nobody ELSE reg
  BY DEF FastBeatAnswered, EndHello, Hello
<1> QED
  BY <1>1, <1>3, <1>4, <1>5, <1>6, <1>7, HelloSettles

-----------------------------------------------------------------------------
(* The beats: of the rounds, of the retrier, and back *)

\* A beat or its answer: the registration stays, no hello and no removal goes on.
LEMMA BeatSettles ==
    ASSUME Typed, Rest', UNCHANGED <<stored, obj, reg>>, view' \in {view, stored, Nobody},
           run' \in [Obj -> Going],
           \A o \in Obj : run'[o].hello = run[o].hello /\ run'[o].removal = run[o].removal,
           IsTp(tp'), IsRetry(retry'), IsBack(back'), book' \in Books, KeepsOutage,
           Through(tp', run', retry', back')
    PROVE  Settled
<1>1. reg' \in Obj \cup {Nobody} /\ Runs(reg', run')
  BY DEF Typed, Goroutines, Runs
<1> QED
  BY <1>1, SettlesSent

LEMMA RoundStep == ASSUME Typed, Round PROVE Settled
<1>1. stored \in Obj /\ tp.addr
  BY ReadyHasAddress DEF Typed, Registry, Round
<1>2. UNCHANGED <<stored, obj, tp, reg, retry, back, book>> /\ view' = stored
  BY DEF Round, Materialized
<1>3. Rest'
  BY DEF Typed, Rest, Round
<1>4. [run[stored] EXCEPT !.round = Answer] \in Going
  BY <1>1, AnswerIsReply DEF Typed, Goroutines, Going
<1>5. /\ run' \in [Obj -> Going]
      /\ \A o \in Obj : run'[o].hello = run[o].hello /\ run'[o].removal = run[o].removal
  BY <1>1, <1>4 DEF Typed, Goroutines, Round, Going
<1>6. IsTp(tp') /\ IsRetry(retry') /\ IsBack(back')
  BY <1>2 DEF Typed, Goroutines
<1>7. Through(tp', run', retry', back')
  BY <1>1, <1>2 DEF Through
<1> QED
  BY <1>2, <1>3, <1>5, <1>6, <1>7, SameNotes, BeatSettles

\* The failure of a beat begins an outage only of the object held, and has the
\* retrier started or finds it running.
LEMMA FailureIs ==
    ASSUME Typed, NEW o \in Obj, NEW got \in Reply, got # "ok",
           book' = NoteBeatFailed(o, AfterBeat(o, got)),
           retry' = IF StartsRetrier(o) THEN Retrier(o) ELSE retry
    PROVE  book' \in Books /\ KeepsOutage /\ IsRetry(retry') /\ (retry'.at \in Reply => retry' = retry)
<1>1. /\ AfterBeat(o, got) \in Books /\ AfterBeat(o, got).served = book.served
      /\ AfterBeat(o, got).failing = book.failing
  BY AfterBeatIs
<1>2. Retries \in Slots /\ Retries # 0
  BY RetriesAssumption DEF Slots
<1>3. IsRetry(Retrier(o)) /\ Retrier(o).at = "wait"
  BY <1>2 DEF IsRetry, Retrier
<1>4. IsRetry(retry') /\ (retry'.at \in Reply => retry' = retry) /\ (retry'.at = "off" => retry.at = "off")
  BY <1>3 DEF Typed, Goroutines, Reply
<1>5. book' \in Books /\ book'.served = book.served
  BY <1>1 DEF NoteBeatFailed, Books
<1>6. book'.failing = book.failing \/ (book.failing = Nobody /\ stored = o)
  BY <1>1 DEF NoteBeatFailed, Books
<1>7. book.failing = Nobody /\ stored = o => retry'.at # "off"
  BY <1>3 DEF StartsRetrier, Failing
<1> QED
  BY <1>4, <1>5, <1>6, <1>7 DEF KeepsOutage

LEMMA SuccessIs ==
    ASSUME Typed, NEW o \in Obj, NEW got \in Reply,
           book' = AfterBeat(o, got), retry' = retry
    PROVE  book' \in Books /\ KeepsOutage /\ IsRetry(retry') /\ (retry'.at \in Reply => retry' = retry)
BY AfterBeatIs DEF Typed, Goroutines, KeepsOutage

LEMMA RoundAnsweredStep == ASSUME Typed, NEW o \in Obj, RoundAnswered(o) PROVE Settled
<1> DEFINE got == run[o].round
<1>1. got \in Reply /\ got # "off" /\ BeatLands(o, got)
  BY DEF Typed, Goroutines, Going, RoundAnswered, Reply
<1>2. run[o].cut \/ tp.addr
  BY <1>1, OnItsWay DEF Sends
<1>3. IsTp(tp') /\ tp'.addr = tp.addr /\ view' \in {view, stored} /\ look' \in Looks
  BY <1>1, <1>2, BeatIs
<1>4. Rest'
  BY <1>3 DEF Typed, Rest, RoundAnswered
<1>5. UNCHANGED <<stored, obj, reg, back>> /\ IsBack(back')
  BY DEF Typed, Goroutines, RoundAnswered
<1>6. book' \in Books /\ KeepsOutage /\ IsRetry(retry') /\ (retry'.at \in Reply => retry' = retry)
  <2>1. CASE got = "ok"
    BY <1>1, <2>1, SuccessIs DEF RoundAnswered
  <2>2. CASE got # "ok"
    BY <1>1, <2>2, FailureIs DEF RoundAnswered
  <2> QED
    BY <2>1, <2>2
<1>7. [run[o] EXCEPT !.round = "off"] \in Going
  BY DEF Typed, Goroutines, Going
<1>8. /\ run' \in [Obj -> Going]
      /\ \A p \in Obj : /\ run'[p].hello = run[p].hello /\ run'[p].removal = run[p].removal
                        /\ run'[p].cut = run[p].cut /\ (Sends(run'[p]) => Sends(run[p]))
  BY <1>7 DEF Typed, Goroutines, RoundAnswered, Going, Sends
<1>9. Through(tp', run', retry', back')
  <2>1. (retry.at \in Reply => retry.of \in Obj) /\ (back.at # "off" => back.of \in Obj)
    BY DEF Typed, Goroutines, IsRetry, IsBack, Reply
  <2> QED
    BY <1>3, <1>5, <1>6, <1>8, <2>1 DEF Typed, Through, AllCut
<1> QED
  BY <1>3, <1>4, <1>5, <1>6, <1>8, <1>9, BeatSettles

LEMMA RetryStep == ASSUME Typed, Retry PROVE Settled
<1>1. UNCHANGED <<stored, obj, tp, reg, run, back, book>> /\ Rest' /\ IsTp(tp') /\ IsBack(back')
  BY DEF Typed, Rest, Goroutines, Retry
<1>2. IsRetry(retry) /\ retry.at = "wait" /\ retry.of \in Obj
  BY DEF Typed, Goroutines, Retry, IsRetry
<1>3. retry.left \in Slots /\ retry.left - 1 \in Slots
  BY <1>2, RetriesAssumption DEF IsRetry, Slots
<1>4. \/ retry' = [retry EXCEPT !.at = "over"] \/ retry' = [retry EXCEPT !.at = "spent"]
      \/ retry' = [retry EXCEPT !.at = Answer, !.left = @ - 1] /\ Ready
  BY DEF Retry
<1>5. IsRetry(retry') /\ retry'.at # "off" /\ (retry'.at \in Reply => tp.addr)
  BY <1>2, <1>3, <1>4, AnswerIsReply, ReadyHasAddress DEF IsRetry, Reply
<1>6. view' \in {view, stored, Nobody}
  BY DEF Retry, Materialized
<1>7. book' \in Books /\ KeepsOutage
  BY <1>1, <1>5 DEF Typed, Goroutines, KeepsOutage
<1>8. Through(tp', run', retry', back')
  BY <1>1, <1>5 DEF Typed, Through, AllCut
<1>9. run' \in [Obj -> Going] /\ \A o \in Obj : run'[o].hello = run[o].hello /\ run'[o].removal = run[o].removal
  BY <1>1 DEF Typed, Goroutines
<1> QED
  BY <1>1, <1>5, <1>6, <1>7, <1>8, <1>9, BeatSettles

LEMMA RetryAnsweredStep == ASSUME Typed, RetryAnswered PROVE Settled
<1> DEFINE o == retry.of
<1>1. IsRetry(retry) /\ retry.at \in Reply /\ o \in Obj /\ BeatLands(o, retry.at) /\ (run[o].cut \/ tp.addr)
  BY OnItsWay DEF Typed, Goroutines, RetryAnswered, IsRetry, Reply
<1>2. IsTp(tp') /\ tp'.addr = tp.addr /\ view' \in {view, stored} /\ look' \in Looks
  <2> HIDE DEF o
  <2> QED
    BY <1>1, BeatIs
<1>3. Rest'
  BY <1>2 DEF Typed, Rest, RetryAnswered
<1>4. UNCHANGED <<stored, obj, reg, run, back>> /\ IsBack(back') /\ book' = AfterBeat(o, retry.at)
  BY DEF Typed, Goroutines, RetryAnswered
<1>5. PICK at \in {"over", "spent", "wait"} :
        retry' = [retry EXCEPT !.at = at] /\ (at = "wait" => retry.left # 0)
  BY DEF RetryAnswered
<1>6. IsRetry(retry') /\ retry'.at \in {"over", "spent", "wait"}
  BY <1>1, <1>5 DEF IsRetry
<1>7. book' \in Books /\ KeepsOutage
  BY <1>1, <1>4, <1>6, AfterBeatIs DEF KeepsOutage
<1>8. Through(tp', run', retry', back')
  BY <1>2, <1>4, <1>6 DEF Typed, Through, AllCut, Reply
<1>9. run' \in [Obj -> Going] /\ \A p \in Obj : run'[p].hello = run[p].hello /\ run'[p].removal = run[p].removal
  BY <1>4 DEF Typed, Goroutines
<1> QED
  BY <1>2, <1>3, <1>4, <1>6, <1>7, <1>8, <1>9, BeatSettles

LEMMA BeatBackStep == ASSUME Typed, BeatBack PROVE Settled
<1>1. UNCHANGED <<stored, obj, tp, reg, run, retry, book>> /\ Rest' /\ IsTp(tp') /\ IsRetry(retry')
  BY DEF Typed, Rest, Goroutines, BeatBack
<1>2. IsBack(back) /\ back.at # "off"
  BY DEF Typed, Goroutines, BeatBack
<1>3. back' = NoRetry \/ back' = [back EXCEPT !.at = Answer]
  BY DEF BeatBack
<1>4. IsBack(back') /\ (back'.at # "off" => back'.of = back.of)
  BY <1>2, <1>3, AnswerIsReply, NoneIsTyped DEF IsBack, Reply
<1>5. view' \in {view, stored, Nobody}
  BY DEF BeatBack, Materialized
<1>6. Through(tp', run', retry', back')
  BY <1>1, <1>2, <1>4 DEF Typed, Through, AllCut
<1>7. run' \in [Obj -> Going] /\ \A o \in Obj : run'[o].hello = run[o].hello /\ run'[o].removal = run[o].removal
  BY <1>1 DEF Typed, Goroutines
<1> QED
  BY <1>1, <1>4, <1>5, <1>6, <1>7, SameNotes, BeatSettles

LEMMA BeatBackAnsweredStep == ASSUME Typed, BeatBackAnswered PROVE Settled
<1> DEFINE o == back.of
<1>1. IsBack(back) /\ back.at \in Reply /\ o \in Obj /\ BeatLands(o, back.at) /\ (run[o].cut \/ tp.addr)
  BY OnItsWay DEF Typed, Goroutines, BeatBackAnswered, IsBack, Reply
<1>2. IsTp(tp') /\ tp'.addr = tp.addr /\ view' \in {view, stored} /\ look' \in Looks
  <2> HIDE DEF o
  <2> QED
    BY <1>1, BeatIs
<1>3. Rest'
  BY <1>2 DEF Typed, Rest, BeatBackAnswered
<1>4. UNCHANGED <<stored, obj, reg, run>>
  BY DEF BeatBackAnswered
<1>5. book' \in Books /\ KeepsOutage /\ IsRetry(retry') /\ (retry'.at \in Reply => retry' = retry)
  <2>1. CASE back.at = "ok"
    <3>1. book' = AfterBeat(o, back.at) /\ retry' = retry
      BY <2>1 DEF BeatBackAnswered
    <3> HIDE DEF o
    <3> QED
      BY <1>1, <3>1, SuccessIs
  <2>2. CASE back.at # "ok"
    <3>1. /\ book' = NoteBeatFailed(o, AfterBeat(o, back.at))
          /\ retry' = IF StartsRetrier(o) THEN Retrier(o) ELSE retry
      BY <2>2 DEF BeatBackAnswered
    <3> HIDE DEF o
    <3> QED
      BY <1>1, <2>2, <3>1, FailureIs
  <2> QED
    BY <2>1, <2>2
<1>6. back' = NoRetry \/ (back' = [back EXCEPT !.at = "wait", !.left = @ - 1] /\ back.left # 0)
  BY DEF BeatBackAnswered
<1>7. IsBack(back') /\ (back'.at # "off" => back'.of = back.of)
  <2>1. CASE back' = NoRetry
    BY <2>1, NoneIsTyped
  <2>2. CASE back' # NoRetry
    <3>1. back.left \in 0..2 /\ back.left - 1 \in 0..2
      BY <1>1, <1>6, <2>2 DEF IsBack
    <3> QED
      BY <1>1, <1>6, <2>2, <3>1 DEF IsBack
  <2> QED
    BY <2>1, <2>2
<1>8. back.at # "off"
  BY <1>1 DEF Reply
<1>9. Through(tp', run', retry', back')
  BY <1>2, <1>4, <1>5, <1>7, <1>8 DEF Typed, Through, AllCut
<1>10. run' \in [Obj -> Going] /\ \A p \in Obj : run'[p].hello = run[p].hello /\ run'[p].removal = run[p].removal
  BY <1>4 DEF Typed, Goroutines
<1> QED
  BY <1>2, <1>3, <1>4, <1>5, <1>7, <1>9, <1>10, BeatSettles

-----------------------------------------------------------------------------
(* The steps that end something: a removal, and the beat retrier *)

Promises == ViewIsOfTheStored /\ OutageIsRetried

LEMMA SettledPromises == ASSUME Typed, Promises, Settled PROVE Promises'
<1>1. stored' # stored => stored' \in Obj /\ Free(stored') /\ view' = stored'
  BY DEF Settled, KeepsView
<1>2. ViewIsOfTheStored'
  BY <1>1 DEF Typed, Registry, Promises, Settled, KeepsView, ViewIsOfTheStored
<1>3. OutageIsRetried'
  BY <1>1, NobodyIsNone DEF Promises, Settled, KeepsOutage, OutageIsRetried, Free
<1> QED
  BY <1>2, <1>3 DEF Promises

LEMMA PruneStep == ASSUME Typed, Promises, Prune PROVE Typed' /\ Promises'
<1> DEFINE o == pass.of
<1>1. CASE ~(stored = o /\ obj[o].zones = {})
  <2>1. UNCHANGED <<stored, obj, view, tp, reg, run, retry, back, book>> /\ pass' = NoPass
    BY <1>1 DEF Prune
  <2>2. Rest'
    BY <2>1, NoneIsTyped DEF Typed, Rest, Prune
  <2> QED
    BY <2>1, <2>2, SettlesAround, SettledPromises DEF Settled
<1>2. CASE stored = o /\ obj[o].zones = {}
  <2>1. /\ o \in Obj /\ run[o] \in Going /\ run \in [Obj -> Going]
        /\ stored' = Nobody /\ run' = [run EXCEPT ![o].removal = "popped"]
        /\ book' = [book EXCEPT !.served = Nobody] /\ pass' = NoPass
        /\ UNCHANGED <<obj, view, tp, reg, retry, back>>
    BY <1>2 DEF Typed, Rest, IsPass, Goroutines, Prune
  <2>2. [run[o] EXCEPT !.removal = "popped"] \in Going
    BY <2>1 DEF Going
  <2>3. /\ run' \in [Obj -> Going] /\ run'[o].removal = "popped"
        /\ \A p \in Obj : /\ run'[p].hello = run[p].hello /\ run'[p].round = run[p].round
                          /\ run'[p].cut = run[p].cut /\ (p # o => run'[p].removal = run[p].removal)
    <3> HIDE DEF o
    <3> QED
      BY <2>1, <2>2 DEF Going
  <2>4. Rest' /\ Registry'
    BY <2>1, NoneIsTyped DEF Typed, Rest, Registry, Prune
  <2>5. Goroutines'
    BY <2>1, <2>3 DEF Typed, Goroutines, Books
  <2>6. (retry.at \in Reply => retry.of \in Obj) /\ (back.at # "off" => back.of \in Obj)
    BY DEF Typed, Goroutines, IsRetry, IsBack, Reply
  <2>7. Runs(reg', run') /\ Through(tp', run', retry', back')
    BY <2>1, <2>3, <2>6 DEF Typed, Runs, Through, AllCut, Sends
  <2>8. ViewIsOfTheStored'
    BY <1>2, <2>1, <2>3 DEF Typed, Registry, Promises, ViewIsOfTheStored
  <2>9. OutageIsRetried'
    BY <2>1 DEF OutageIsRetried
  <2> QED
    BY <2>4, <2>5, <2>7, <2>8, <2>9 DEF Typed, Promises
<1> QED
  BY <1>1, <1>2

LEMMA AfterRemovalStep == ASSUME Typed, Promises, NEW o \in Obj, AfterRemoval(o) PROVE Typed' /\ Promises'
<1>1. /\ run[o] \in Going /\ run \in [Obj -> Going] /\ run[o].removal = "popped"
      /\ run' = [run EXCEPT ![o].removal = "view"]
      /\ reg' = IF reg = o THEN Nobody ELSE reg
      /\ UNCHANGED <<stored, obj, view, tp, retry, back>>
  BY DEF Typed, Goroutines, AfterRemoval
<1>2. [run[o] EXCEPT !.removal = "view"] \in Going
  BY <1>1 DEF Going
<1>3. /\ run' \in [Obj -> Going] /\ run'[o].removal = "view"
      /\ \A p \in Obj : /\ run'[p].hello = run[p].hello /\ run'[p].round = run[p].round
                        /\ run'[p].cut = run[p].cut /\ (p # o => run'[p].removal = run[p].removal)
  BY <1>1, <1>2 DEF Going
<1>4. Rest' /\ Registry'
  BY DEF Typed, Rest, Registry, AfterRemoval
<1>5. /\ book' \in Books /\ book'.served = book.served
      /\ book'.failing = IF stored = Nobody THEN Nobody ELSE book.failing
  BY DEF Typed, Goroutines, AfterRemoval, Books
<1>6. Goroutines'
  BY <1>1, <1>3, <1>5 DEF Typed, Goroutines
<1>7. (retry.at \in Reply => retry.of \in Obj) /\ (back.at # "off" => back.of \in Obj)
  BY DEF Typed, Goroutines, IsRetry, IsBack, Reply
<1>8. Runs(reg', run')
  BY <1>1, <1>3, NobodyIsNone DEF Typed, Runs
<1>9. Through(tp', run', retry', back')
  BY <1>1, <1>3, <1>7 DEF Typed, Through, AllCut, Sends
<1>10. ViewIsOfTheStored'
  BY <1>1, <1>3 DEF Typed, Registry, Promises, ViewIsOfTheStored
<1>11. OutageIsRetried'
  BY <1>1, <1>5 DEF Promises, OutageIsRetried
<1> QED
  BY <1>4, <1>6, <1>8, <1>9, <1>10, <1>11 DEF Typed, Promises

LEMMA OnPeerRemovedStep == ASSUME Typed, Promises, NEW o \in Obj, OnPeerRemoved(o) PROVE Typed' /\ Promises'
<1> DEFINE r == [run EXCEPT ![o].removal = "off"]
<1>1. run[o] \in Going /\ run \in [Obj -> Going]
  BY DEF Typed, Goroutines
<1>2. [run[o] EXCEPT !.removal = "off"] \in Going
  BY <1>1 DEF Going
<1>3. /\ r \in [Obj -> Going]
      /\ \A p \in Obj : /\ r[p].hello = run[p].hello /\ r[p].round = run[p].round
                        /\ r[p].cut = run[p].cut /\ (p # o => r[p].removal = run[p].removal)
  BY <1>1, <1>2 DEF Going
<1>4. RemovePeerView(o, r) /\ UNCHANGED <<stored, obj, reg, retry, back, book>>
  BY DEF OnPeerRemoved
<1> HIDE DEF r
<1>5. Runs(reg, r) /\ \A p \in Obj : r[p].cut = run[p].cut /\ (Sends(r[p]) => Sends(run[p]))
  BY <1>3 DEF Typed, Runs, Sends
<1>6. /\ run' \in [Obj -> Going] /\ IsTp(tp') /\ Runs(reg', run') /\ Through(tp', run', retry', back')
      /\ \A p \in Obj : run'[p].removal = r[p].removal
      /\ view' \in {view, Nobody} /\ (view' = Nobody \/ (view # o /\ stored \notin {Nobody, o}))
  BY <1>3, <1>4, <1>5, ViewRemoved
<1>7. Rest' /\ Registry' /\ Goroutines'
  BY <1>4, <1>6 DEF Typed, Rest, Registry, Goroutines, OnPeerRemoved
<1>8. ViewIsOfTheStored'
  BY <1>3, <1>4, <1>6 DEF Typed, Registry, Promises, ViewIsOfTheStored
<1>9. OutageIsRetried'
  BY <1>4 DEF Promises, OutageIsRetried
<1> QED
  BY <1>6, <1>7, <1>8, <1>9 DEF Typed, Promises

\* A retrier that ends leaves no outage of the object held without retries:
\* either none goes on, or its slots were used up for this object.
LEMMA EndBeatRetrierStep == ASSUME Typed, Promises, EndBeatRetrier PROVE Typed' /\ Promises'
<1>1. UNCHANGED <<stored, obj, view, tp, reg, run, back>>
  BY DEF EndBeatRetrier
<1>2. Rest' /\ Registry'
  BY DEF Typed, Rest, Registry, EndBeatRetrier
<1>3. /\ book' \in Books /\ book'.failing = book.failing
      /\ book'.served = IF retry.at = "spent" THEN retry.of ELSE book.served
  BY DEF Typed, Goroutines, EndBeatRetrier, IsRetry, Books
<1>4. Retries \in Slots /\ Retries # 0
  BY RetriesAssumption DEF Slots
<1>5. \/ retry' = NoRetry /\ ~RetriesAgain(retry.at = "over")
      \/ retry' = Retrier(stored) /\ stored # Nobody
  BY DEF EndBeatRetrier, RetriesAgain
<1>6. IsRetry(retry') /\ retry'.at \in {"off", "wait"}
  BY <1>4, <1>5, NoneIsTyped DEF Typed, Registry, IsRetry, Retrier
<1>7. retry'.at = "off" => ~RetriesAgain(retry.at = "over")
  BY <1>5 DEF Retrier
<1>8. Goroutines' /\ Runs(reg', run')
  BY <1>1, <1>3, <1>6 DEF Typed, Goroutines
<1>9. Through(tp', run', retry', back')
  BY <1>1, <1>6 DEF Typed, Through, AllCut, Reply
<1>10. ViewIsOfTheStored'
  BY <1>1 DEF Promises, ViewIsOfTheStored
<1>11. OutageIsRetried'
  BY <1>1, <1>3, <1>7 DEF OutageIsRetried, RetriesAgain, Failing, EndBeatRetrier
<1> QED
  BY <1>2, <1>8, <1>9, <1>10, <1>11 DEF Typed, Promises

-----------------------------------------------------------------------------
(* Every step *)

\* The steps that neither end a removal's part nor the beat retrier.
LEMMA ManyStep ==
    ASSUME Typed,
           \/ \E z \in Zone : ApplyHsyncDiff(z) \/ ZoneChanges(z) \/ ZoneLeaves(z) \/ ReadZone(z)
           \/ \E o \in Obj : Discovering(o) \/ Greeting(o) \/ RoundAnswered(o)
           \/ RetryPendingDiscoveries \/ Round \/ Retry \/ RetryAnswered \/ BeatingBack
           \/ PeerSaysHello \/ Lookups \/ ReconcileTick \/ ReconcileZone \/ Unshared
           \/ IdentityReady \/ TimePasses \/ PeerChanges \/ PeerReset \/ OperatorAsks
    PROVE  Settled
<1>1. CASE \E z \in Zone : ApplyHsyncDiff(z) \/ ZoneChanges(z) \/ ZoneLeaves(z) \/ ReadZone(z)
  BY <1>1, ApplyStep, AroundStep, ReadStep
<1>2. CASE \E o \in Obj : Discovering(o)
  BY <1>2, DiscoverStep, LookedUpStep, DiscoveredStep, GreetStep DEF Discovering
<1>3. CASE \E o \in Obj : Greeting(o)
  BY <1>3, StartHelloStep, SendHelloStep, HelloAnsweredStep, FastBeatStep, FastBeatAnsweredStep DEF Greeting
<1>4. CASE (\E o \in Obj : RoundAnswered(o)) \/ Round \/ Retry \/ RetryAnswered \/ BeatingBack
  BY <1>4, RoundAnsweredStep, RoundStep, RetryStep, RetryAnsweredStep, BeatBackStep, BeatBackAnsweredStep
     DEF BeatingBack
<1>5. CASE RetryPendingDiscoveries \/ PeerSaysHello \/ PeerReset \/ OperatorAsks
  BY <1>5, RetryPendingStep, SaysHelloStep, ResetStep, OperatorStep
<1>6. CASE Lookups
  BY <1>6, LooksStep, AnswersStep, IntroduceStep DEF Lookups
<1>7. CASE ReconcileTick \/ ReconcileZone \/ Unshared
  BY <1>7, AroundStep, ReconcileStep, UnsharedStep
<1>8. CASE IdentityReady \/ TimePasses \/ PeerChanges
  BY <1>8, TimeStep, AroundStep DEF TimePasses
<1> QED
  BY <1>1, <1>2, <1>3, <1>4, <1>5, <1>6, <1>7, <1>8

LEMMA EveryStep == ASSUME Typed, Promises, Next PROVE Typed' /\ Promises'
<1>1. CASE Prune
  BY <1>1, PruneStep
<1>2. CASE \E o \in Obj : Removing(o)
  BY <1>2, AfterRemovalStep, OnPeerRemovedStep DEF Removing
<1>3. CASE EndBeatRetrier
  BY <1>3, EndBeatRetrierStep
<1>4. CASE ~(Prune \/ (\E o \in Obj : Removing(o)) \/ EndBeatRetrier)
  <2>1. Settled
    BY <1>4, ManyStep DEF Next, Pass, Retrying
  <2> QED
    BY <2>1, SettledPromises DEF Settled
<1> QED
  BY <1>1, <1>2, <1>3, <1>4

LEMMA EveryStepOrNone == ASSUME Typed, Promises, [Next]_vars PROVE Typed' /\ Promises'
<1>1. CASE UNCHANGED vars
  <2>1. UNCHANGED <<zone, diff, far, stored, obj, view, tp, reg, run, retry, back, look, book, pass, left>>
    BY <1>1 DEF vars, goings
  <2>2. Typed'
    BY <2>1 DEF Typed, Rest, Registry, Goroutines
  <2>3. Promises'
    BY <2>1 DEF Promises, ViewIsOfTheStored, OutageIsRetried
  <2> QED
    BY <2>2, <2>3
<1> QED
  BY <1>1, EveryStep

LEMMA AtFirst == ASSUME Init PROVE Typed /\ Promises
<1>1. PICK m \in Mixes : Start(m.named, m.far, m.left) /\ mix = m.events
  BY DEF Init
<1>2. m.named \in Standing /\ m.far \in Far /\ m.left \in 0..MaxEvents
  BY MixesAssumption
<1>3. Rest
  BY <1>1, <1>2, NoneIsTyped DEF Start, Rest
<1>4. Registry
  BY <1>1, NewIsTyped DEF Start, Registry
<1>5. /\ run = [o \in Obj |-> Idle] /\ reg = Nobody /\ retry = NoRetry /\ back = NoRetry /\ tp = NoTp
      /\ stored = Nobody /\ view = Nobody
  BY <1>1 DEF Start
<1>6. book \in Books
  BY <1>1 DEF Start, Books, Refusals
<1>7. Goroutines
  BY <1>5, <1>6, NoneIsTyped DEF Goroutines
<1>8. Runs(reg, run) /\ Through(tp, run, retry, back)
  BY <1>5, NoneIsTyped, NobodyIsNone DEF Runs, Through, AllCut, Reply
<1>9. Promises
  BY <1>5 DEF Promises, ViewIsOfTheStored, OutageIsRetried
<1> QED
  BY <1>3, <1>4, <1>7, <1>8, <1>9 DEF Typed

-----------------------------------------------------------------------------
(* What is proved *)

\* The types, one hello retrier for an object that is registered, and a
\* transport's peer that is usable only once it is there and has an address,
\* though answers to messages of a peer that was dropped still come in: they
\* are written to the object that was dropped with it.
THEOREM TypeCorrect == Spec => []TypeOK
<1>1. Typed => TypeOK
  BY DEF Typed, Rest, Registry, Goroutines, Runs, TypeOK, Objects, Going, Tps, Slots, Looks,
         Refusals, Books, IsTp, IsRetry, IsBack
<1> QED
  BY <1>1, AtFirst, EveryStepOrNone, PTL DEF Spec

\* The agent's view wraps the object that the registry holds, or none, but for
\* the moment in which a removal is on its way (materializeAgentView,
\* removePeerView, attemptDiscovery).
THEOREM ViewFollowsTheStored == Spec => []ViewIsOfTheStored
BY AtFirst, EveryStepOrNone, PTL DEF Spec, Promises

\* No order of rounds, beats back, retries and removals leaves an outage of
\* the object held without retries, unless a retrier has used its slots up for
\* this object (noteBeatFailed, beatRetrier, endBeatRetrier, beatBack).
THEOREM OutagesAreRetried == Spec => []OutageIsRetried
BY AtFirst, EveryStepOrNone, PTL DEF Spec, Promises

=============================================================================
