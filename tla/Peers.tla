------------------------------- MODULE Peers -------------------------------
(***************************************************************************)
(* The peers of one agent: the engine of v2/hsync with the bridge that     *)
(* sends for it.  One identity is followed, the peer, from the zones that  *)
(* name it over its discovery and its hello to its beats, and to its       *)
(* removal once no zone has named it for the hold time.  An identity that  *)
(* is named again after that is a new peer object, while goroutines of the *)
(* old one may still be on their way: each of them holds the object it was *)
(* started for.                                                            *)
(*                                                                         *)
(* Of the two mechanisms one is modelled: the engine treats each alike.    *)
(* The paces of rounds, retries and hellos are left out, so each may come  *)
(* at any time.                                                            *)
(***************************************************************************)
EXTENDS Integers, FiniteSets

CONSTANTS Obj,        \* the peer objects, numbered from 1
          Zone,       \* the zones of the agent
          Retries,    \* how many slots a beat retrier has
          MaxEvents,  \* how many events a behaviour has
          Mixes       \* the scenarios: what is at the start, and which events may come

ASSUME ObjAssumption == Obj \subseteq Nat \ {0}
ASSUME RetriesAssumption == Retries \in Nat \ {0}
ASSUME MaxEventsAssumption == MaxEvents \in Nat

Nobody == 0
Events == {"named", "unnamed", "outside", "gone", "up", "admits", "publish", "key", "reset", "ask", "hello"}
Standing == {"named", "unnamed", "outside", "gone"}
States == {"needed", "known", "introducing", "operational"}
Records == {"none", "bare", "full"}     \* what the peer's names hold
Found == Records \cup {"old", "held"}   \* ... and what a lookup brings
Reply == {"ok", "refused", "silent"}

VARIABLES
  zone,    \* what each zone's active instructions say of the peer
  diff,    \* a zone's change that is not applied to the registry yet
  far,     \* the peer itself, and what the resolver keeps of it
  stored,  \* the object the registry holds under the identity
  obj,     \* each object's zones, and since when it is unshared
  view,    \* the object that the agent's view wraps
  tp,      \* the transport's peer
  reg,     \* the object whose hello retrier is registered
  run,     \* each object's goroutines
  retry,   \* the beat retrier
  back,    \* the beat back
  book,    \* what is noted of the identity
  look,    \* the lookups that a message or a refusal asked for
  pass,    \* the reconcile pass
  left,    \* the events that may come yet
  mix      \* the kinds of events of this behaviour

goings == <<reg, run, retry, back, look>>
vars == <<zone, diff, far, stored, obj, view, tp, goings, book, pass, left, mix>>

\* what is known of the peer itself: a key or a lookup of an older key too
Far == [up : BOOLEAN, admits : BOOLEAN, records : Records, key : {"none", "right", "old"},
        cache : {"empty", "none", "bare", "old"}]
ASSUME MixesAssumption ==
  Mixes \subseteq [named : Standing, far : Far, events : SUBSET Events, left : 0..MaxEvents]

----------------------------------------------------------------------------
NoTp == [here |-> FALSE, mech |-> "needed", addr |-> FALSE, top |-> "needed"]

NewObject(zones) == [zones |-> zones, unshared |-> "no"]

Idle == [disc |-> "off", hello |-> "off", got |-> "silent", round |-> "off",
         removal |-> "off", cut |-> FALSE]

NoRetry == [at |-> "off", of |-> Nobody, left |-> 0]
NoLook == [hello |-> "off", bare |-> FALSE, fresh |-> "off"]
NoPass == [at |-> "off", of |-> Nobody, done |-> {}, expects |-> FALSE]

Start(named, there, events) ==
  /\ zone = [z \in Zone |-> named]
  /\ diff = [z \in Zone |-> IF named = "named" THEN "in" ELSE "none"]
  /\ far = there
  /\ stored = Nobody
  /\ obj = [o \in Obj |-> NewObject({})]
  /\ view = Nobody
  /\ tp = NoTp
  /\ reg = Nobody
  /\ run = [o \in Obj |-> Idle]
  /\ retry = NoRetry
  /\ back = NoRetry
  /\ book = [failing |-> Nobody, served |-> Nobody, recent |-> FALSE, refused |-> 0, looked |-> FALSE, ready |-> FALSE]
  /\ look = NoLook
  /\ pass = NoPass
  /\ left = events

Init == \E m \in Mixes : Start(m.named, m.far, m.left) /\ mix = m.events

----------------------------------------------------------------------------
Event(e) == left > 0 /\ e \in mix /\ left' = left - 1

\* What is read of the peer

\* the zones that name the peer, by the test that a reconciliation makes
Named == \E z \in Zone : zone[z] = "named"

Reading == IF tp.here THEN tp.mech ELSE "needed"
Ready == Reading \in {"introducing", "operational"}
NeedsHello == Reading = "known"

\* an outage is noted; the note names the object whose beat began it
Failing == book.failing # Nobody
Below(s, t) == LET rank == [needed |-> 0, known |-> 1, introducing |-> 2, operational |-> 3]
               IN rank[s] < rank[t]

\* the peer's answer to a message of ours
Answer == IF ~far.up THEN "silent" ELSE IF far.admits /\ far.key = "right" THEN "ok" ELSE "refused"

\* what a lookup brings, past the resolver's cache or through it
LooksUp(fresh) == IF fresh \/ far.cache = "empty" THEN far.records ELSE far.cache
Cached(fresh) ==
  IF fresh \/ far.cache = "empty"
    THEN [far EXCEPT !.cache = IF far.records = "full" THEN "empty" ELSE far.records]
    ELSE far

\* an object that nothing refers to any more may be used for a new peer
Free(o) ==
  /\ o \notin {stored, view, reg, retry.of, back.of, book.failing}
  /\ run[o].disc = "off" /\ run[o].hello = "off" /\ run[o].round = "off" /\ run[o].removal = "off"
NextFree == {o \in Obj : Free(o) /\ \A p \in Obj : Free(p) => o <= p}

MaterializedAny(o) == o

\* the view of an object that the registry holds, and of no other
Materialized(o) == IF stored = o THEN o ELSE view

\* the transport's peer is dropped: what is on its way was sent through it
Dropped(r) ==
  [o \in Obj |-> IF \/ r[o].hello \in {"sent", "beaten"} \/ r[o].round # "off"
                    \/ retry.of = o \/ back.of = o
                   THEN [r[o] EXCEPT !.cut = TRUE] ELSE r[o]]

----------------------------------------------------------------------------
\* A peer is needed

\* the zones are added to the object held, or to a new one, which is discovered
MarkNeeded(zones) ==
  IF stored # Nobody
    THEN /\ obj' = [obj EXCEPT ![stored].zones = @ \cup zones]
         /\ view' = stored
         /\ UNCHANGED <<stored, run>>
    ELSE \E o \in NextFree :
         /\ stored' = o
         /\ obj' = [obj EXCEPT ![o] = NewObject(zones)]
         /\ view' = o
         /\ run' = [run EXCEPT ![o] = [Idle EXCEPT !.disc = "asked"]]

RemovePeerFromZone(z) ==
  /\ obj' = IF stored = Nobody THEN obj ELSE [obj EXCEPT ![stored].zones = @ \ {z}]
  /\ view' = Materialized(stored)
  /\ UNCHANGED <<stored, run>>

\* the records of a zone whose instructions have changed are applied
ApplyHsyncDiff(z) ==
  /\ diff[z] # "none"
  /\ diff' = [diff EXCEPT ![z] = "none"]
  /\ IF zone[z] = "gone" THEN UNCHANGED <<obj, view, stored, run>>
     ELSE IF diff[z] = "in" THEN MarkNeeded({z}) ELSE RemovePeerFromZone(z)
  /\ UNCHANGED <<zone, far, tp, reg, retry, back, look, book, pass, left, mix>>

----------------------------------------------------------------------------
\* Discovery

\* the transport's peer after a lookup: usable once it has an address
Registered(l) ==
  LET addr == tp.addr \/ l \in {"full", "old"}
  IN [here |-> TRUE, addr |-> addr,
      mech |-> IF addr /\ Below(tp.mech, "known") THEN "known" ELSE tp.mech,
      top |-> IF addr /\ tp.top = "needed" THEN "known" ELSE tp.top]

\* a lookup has found the peer: the transport registers it, and the agent
\* takes it where a zone names it or the engine holds it
PeerDiscovered(l, r) ==
  LET taken == Named \/ stored # Nobody
      made == taken /\ view = Nobody /\ stored = Nobody
  IN /\ tp' = Registered(l)
     /\ far' = [far EXCEPT !.key = IF l = "old" THEN "old" ELSE "right"]
     /\ IF made
          THEN \E o \in NextFree : /\ stored' = o /\ view' = o
                                   /\ obj' = [obj EXCEPT ![o] = NewObject({})]
                                   /\ run' = [r EXCEPT ![o] = Idle]
          ELSE /\ view' = IF taken /\ view = Nobody THEN stored ELSE view
               /\ run' = r
               /\ UNCHANGED <<stored, obj>>

\* a failed discovery leaves a peer that is established as it is
DiscoveryFailed ==
  IF tp.top = "known" \/ (tp.here /\ tp.addr) THEN tp
  ELSE [tp EXCEPT !.here = TRUE, !.top = "error"]

RearmedNever == tp

\* a peer that could not be found is put back to be looked for again
Rearmed == IF tp.top = "error" /\ ~tp.addr THEN [tp EXCEPT !.top = "needed"] ELSE tp

\* a discovery for an object begins: nothing is looked up for one not held,
\* and a peer that the transport knows is taken as it is
Discover(o) ==
  /\ run[o].disc = "asked"
  /\ IF stored # o
       THEN run' = [run EXCEPT ![o].disc = "off"] /\ UNCHANGED <<tp, far>>
       ELSE /\ tp' = Rearmed
            /\ IF Rearmed.top # "needed"
                 THEN run' = [run EXCEPT ![o].disc = "held"] /\ UNCHANGED far
                 ELSE /\ run' = [run EXCEPT ![o].disc = LooksUp(FALSE)]
                      /\ far' = Cached(FALSE)
  /\ UNCHANGED <<zone, diff, stored, obj, view, reg, retry, back, look, book, pass, left, mix>>

\* the lookup's answer comes in
LookedUp(o) ==
  /\ run[o].disc \in Found
  /\ LET l == run[o].disc
         r == [run EXCEPT ![o].disc = IF l = "none" THEN "failed" ELSE "found"] IN
     IF l \in {"none", "held"} THEN run' = r /\ UNCHANGED <<tp, far, stored, obj, view>>
                               ELSE PeerDiscovered(l, r)
  /\ UNCHANGED <<zone, diff, reg, retry, back, look, book, pass, left, mix>>

RemovePeerViewOnly(o, r) ==
  /\ view' = IF view = o THEN Nobody ELSE view
  /\ run' = r /\ UNCHANGED tp

\* the view and the transport's peer go with the object that was removed,
\* unless a new object is held under the identity
RemovePeerView(o, r) ==
  IF stored \notin {Nobody, o}
    THEN /\ view' = IF view = o THEN Nobody ELSE view
         /\ run' = r /\ UNCHANGED tp
    ELSE /\ view' = Nobody /\ tp' = NoTp
         /\ run' = Dropped(r)

\* what the lookup left is dropped again where the object is gone; else its
\* failure is noted, or the peer is to be greeted
Discovered(o) ==
  /\ run[o].disc \in {"found", "failed"}
  /\ IF stored # o
       THEN RemovePeerView(o, [run EXCEPT ![o].disc = "off"])
       ELSE IF run[o].disc = "failed"
       THEN /\ tp' = IF view # Nobody THEN DiscoveryFailed ELSE tp
            /\ run' = [run EXCEPT ![o].disc = "off"]
            /\ UNCHANGED view
       ELSE /\ view' = o
            /\ run' = [run EXCEPT ![o].disc = IF NeedsHello THEN "greet" ELSE "off"]
            /\ UNCHANGED tp
  /\ UNCHANGED <<zone, diff, far, stored, obj, reg, retry, back, look, book, pass, left, mix>>

\* one hello retrier is registered under the identity
StartHelloRetrier(o, r) ==
  IF reg = Nobody /\ run[o].hello = "off"
    THEN reg' = o /\ run' = [r EXCEPT ![o].hello = "start"]
    ELSE run' = r /\ UNCHANGED reg

Greet(o) ==
  /\ run[o].disc = "greet"
  /\ StartHelloRetrier(o, [run EXCEPT ![o].disc = "off"])
  /\ UNCHANGED <<zone, diff, far, stored, obj, view, tp, retry, back, look, book, pass, left, mix>>

\* the periodic retry: a peer with nothing to send to is discovered again, and
\* one that was found without the engine is greeted
RetryPendingDiscoveries ==
  /\ stored # Nobody
  /\ IF Reading = "needed" \/ ~tp.addr
       THEN /\ run[stored].disc = "off"
            /\ run' = [run EXCEPT ![stored].disc = "asked"] /\ UNCHANGED reg
       ELSE NeedsHello /\ reg = Nobody /\ StartHelloRetrier(stored, run)
  /\ UNCHANGED <<zone, diff, far, stored, obj, view, tp, retry, back, look, book, pass, left, mix>>

----------------------------------------------------------------------------
\* What an answer to a hello or a beat leaves

\* three refusals in a row have the peer looked up past the cache, once an
\* interval, and only while a zone names it
LooksAgain(got) ==
  /\ got = "refused"
  /\ book.refused >= 2
  /\ ~book.looked /\ Named

Noted(got) ==
  [book EXCEPT !.refused = IF got = "ok" THEN 0
                           ELSE IF got = "refused" /\ @ < 3 THEN @ + 1 ELSE @,
               !.looked = @ \/ LooksAgain(got)]

FlushAndDiscover(l, got) == IF LooksAgain(got) THEN [l EXCEPT !.fresh = "due"] ELSE l

\* the answer to a hello of the object's retrier
HelloLands(o, got) ==
  /\ tp' = IF got = "ok" /\ ~run[o].cut /\ Below(tp.mech, "introducing")
             THEN [tp EXCEPT !.mech = "introducing"] ELSE tp
  /\ book' = Noted(got)
  /\ look' = FlushAndDiscover(look, got)

\* a beat's answer: the mechanism works, and the catch-up hears of it; a
\* success ends the outage of the object that is held
BeatLands(o, got) ==
  /\ tp' = IF got = "ok" /\ ~run[o].cut THEN [tp EXCEPT !.mech = "operational"] ELSE tp
  /\ view' = Materialized(o)
  /\ look' = FlushAndDiscover(look, got)

AfterBeat(o, got) ==
  [Noted(got) EXCEPT !.failing = IF got = "ok" /\ stored = o THEN Nobody ELSE @]

\* the first failed beat after a success starts the retrier
StartsRetrier(o) == stored = o /\ ~Failing /\ retry.at = "off"

NoteBeatFailed(o, b) == [b EXCEPT !.failing = IF @ = Nobody /\ stored = o THEN o ELSE @]

Retrier(o) == [at |-> "wait", of |-> o, left |-> Retries]

----------------------------------------------------------------------------
\* The hello retrier of an object

Hello(o, at) == run' = [run EXCEPT ![o].hello = at, ![o].got = "silent"]

\* it ends, and takes its own registration off
EndHello(o) ==
  /\ Hello(o, "off")
  /\ reg' = IF reg = o THEN Nobody ELSE reg

\* not before this agent can be found itself
StartHello(o) ==
  /\ run[o].hello = "start"
  /\ IF stored # o \/ ~NeedsHello THEN EndHello(o)
     ELSE book.ready /\ Hello(o, "loop") /\ UNCHANGED reg
  /\ UNCHANGED <<zone, diff, far, stored, obj, view, tp, retry, back, book, look, pass, left, mix>>

SendHello(o) ==
  /\ run[o].hello = "loop"
  /\ IF stored # o THEN EndHello(o) /\ UNCHANGED view
     ELSE IF ~NeedsHello THEN Hello(o, "beats") /\ UNCHANGED <<reg, view>>
     ELSE /\ run' = [run EXCEPT ![o].hello = "sent", ![o].got = Answer]
          /\ view' = Materialized(o)
          /\ UNCHANGED reg
  /\ UNCHANGED <<zone, diff, far, stored, obj, tp, retry, back, book, look, pass, left, mix>>

HelloAnswered(o) ==
  /\ run[o].hello = "sent"
  /\ HelloLands(o, run[o].got)
  /\ Hello(o, IF tp'.mech = "known" THEN "loop" ELSE "beats")
  /\ UNCHANGED <<zone, diff, far, stored, obj, view, reg, retry, back, pass, left, mix>>

\* a few beats follow at once, until the mechanism works
FastBeat(o) ==
  /\ run[o].hello = "beats"
  /\ IF stored = o /\ Reading = "introducing"
       THEN /\ run' = [run EXCEPT ![o].hello = "beaten", ![o].got = Answer]
            /\ view' = Materialized(o)
            /\ UNCHANGED reg
       ELSE EndHello(o) /\ UNCHANGED view
  /\ UNCHANGED <<zone, diff, far, stored, obj, tp, retry, back, book, look, pass, left, mix>>

FastBeatAnswered(o) ==
  /\ run[o].hello = "beaten"
  /\ BeatLands(o, run[o].got)
  /\ book' = AfterBeat(o, run[o].got)
  /\ \/ Hello(o, "beats") /\ UNCHANGED reg
     \/ EndHello(o)
  /\ UNCHANGED <<zone, diff, far, stored, obj, retry, back, pass, left, mix>>

----------------------------------------------------------------------------
\* The beats of the rounds

\* (a beat that finds everything as it is, with nothing left to happen, is
\* left out)
Round ==
  /\ stored # Nobody /\ Ready
  /\ left > 0 \/ ~Named \/ Answer # "ok" \/ tp.mech # "operational" \/ Failing \/ book.refused > 0
  /\ run[stored].round = "off"
  /\ run' = [run EXCEPT ![stored].round = Answer]
  /\ view' = Materialized(stored)
  /\ UNCHANGED <<zone, diff, far, stored, obj, tp, reg, retry, back, book, look, pass, left, mix>>

RoundAnswered(o) ==
  LET got == run[o].round IN
  /\ got # "off"
  /\ BeatLands(o, got)
  /\ run' = [run EXCEPT ![o].round = "off"]
  /\ book' = IF got = "ok" THEN AfterBeat(o, got) ELSE NoteBeatFailed(o, AfterBeat(o, got))
  /\ retry' = IF got # "ok" /\ StartsRetrier(o) THEN Retrier(o) ELSE retry
  /\ UNCHANGED <<zone, diff, far, stored, obj, reg, back, pass, left, mix>>

----------------------------------------------------------------------------
\* The beat retrier

\* its wait is over
Retry ==
  /\ retry.at = "wait"
  /\ retry' = IF ~Failing THEN [retry EXCEPT !.at = "over"]
              ELSE IF stored # retry.of \/ ~Ready THEN [retry EXCEPT !.at = "spent"]
              ELSE [retry EXCEPT !.at = Answer, !.left = @ - 1]
  /\ view' = IF retry'.at \in Reply THEN Materialized(retry.of) ELSE view
  /\ UNCHANGED <<zone, diff, far, stored, obj, tp, reg, run, back, book, look, pass, left, mix>>

RetryAnswered ==
  /\ retry.at \in Reply
  /\ BeatLands(retry.of, retry.at)
  /\ book' = AfterBeat(retry.of, retry.at)
  /\ retry' = [retry EXCEPT !.at = IF retry.at = "ok" THEN "over"
                                   ELSE IF retry.left = 0 THEN "spent" ELSE "wait"]
  /\ UNCHANGED <<zone, diff, far, stored, obj, reg, run, back, pass, left, mix>>

RetriesOnce(over) == FALSE

\* a new outage that found the retrier still running has its retries started
RetriesAgain(over) == stored # Nobody /\ (over \/ stored # retry.of) /\ Failing

EndBeatRetrier ==
  /\ retry.at \in {"over", "spent"}
  /\ retry' = IF RetriesAgain(retry.at = "over") THEN Retrier(stored) ELSE NoRetry
  /\ book' = [book EXCEPT !.served = IF retry.at = "spent" THEN retry.of ELSE @]
  /\ UNCHANGED <<zone, diff, far, stored, obj, view, tp, reg, run, back, look, pass, left, mix>>

----------------------------------------------------------------------------
\* The beat back to a peer that introduces itself again

BeatPeer ==
  IF stored # Nobody /\ Ready /\ back.at = "off" /\ ~book.recent
    THEN /\ back' = [at |-> "send", of |-> stored, left |-> 2]
         /\ book' = [book EXCEPT !.recent = TRUE]
    ELSE UNCHANGED <<back, book>>

\* a beat goes out to the object that is held; a wait ends when a beat has
\* succeeded meanwhile
BeatBack ==
  /\ back.at \in {"send", "wait"}
  /\ back' = IF stored # back.of \/ (back.at = "wait" /\ (~Failing \/ ~Ready))
               THEN NoRetry ELSE [back EXCEPT !.at = Answer]
  /\ view' = IF back'.at \in Reply THEN Materialized(back.of) ELSE view
  /\ UNCHANGED <<zone, diff, far, stored, obj, tp, reg, run, retry, book, look, pass, left, mix>>

\* it does not retry beside a retrier that its own failure starts
BeatBackAnswered ==
  LET o == back.of
      failed == back.at # "ok" IN
  /\ back.at \in Reply
  /\ BeatLands(o, back.at)
  /\ book' = IF failed THEN NoteBeatFailed(o, AfterBeat(o, back.at)) ELSE AfterBeat(o, back.at)
  /\ retry' = IF failed /\ StartsRetrier(o) THEN Retrier(o) ELSE retry
  /\ back' = IF ~failed \/ StartsRetrier(o) \/ back.left = 0 THEN NoRetry
             ELSE [back EXCEPT !.at = "wait", !.left = @ - 1]
  /\ UNCHANGED <<zone, diff, far, stored, obj, reg, run, pass, left, mix>>

----------------------------------------------------------------------------
\* A hello that the peer sends, and the lookups a message asks for

\* a hello from a peer whose key is not held starts a lookup past the cache
\* and is not read further; another is taken where a zone names the sender.
\* It moves a mechanism that has an address, and asks for a discovery of a
\* sender that has none or that the agent does not know.
PeerSaysHello ==
  /\ Event("hello")
  /\ far.up /\ far.records = "full" /\ Named
  /\ IF far.key # "right"
       THEN /\ look' = [look EXCEPT !.fresh = IF far.key = "none" /\ @ = "off" THEN "due" ELSE @]
            /\ UNCHANGED <<tp, back, book>>
       ELSE LET moves == Below(Reading, "introducing") IN
            /\ tp' = IF moves /\ tp.addr THEN [tp EXCEPT !.mech = "introducing"]
                     ELSE [tp EXCEPT !.here = TRUE]
            /\ IF ~moves THEN BeatPeer ELSE UNCHANGED <<back, book>>
            /\ look' = IF look.hello = "off" /\ (view = Nobody \/ (moves /\ ~tp.addr))
                         THEN [look EXCEPT !.hello = "due", !.bare = moves /\ ~tp.addr]
                         ELSE look
  /\ UNCHANGED <<zone, diff, far, stored, obj, view, reg, run, retry, pass, mix>>

\* the lookup for a sender with no address goes past the cache once an interval
HelloLooks ==
  LET fresh == look.bare /\ ~book.looked IN
  /\ look.hello = "due"
  /\ look' = [look EXCEPT !.hello = LooksUp(fresh)]
  /\ far' = Cached(fresh)
  /\ book' = [book EXCEPT !.looked = @ \/ fresh]
  /\ UNCHANGED <<zone, diff, stored, obj, view, tp, reg, run, retry, back, pass, left, mix>>

\* its answer introduces the mechanism, where the peer has an address now
HelloLookedUp ==
  /\ look.hello \in Records \cup {"old"}
  /\ look' = [look EXCEPT !.hello = IF look.bare THEN "introduce" ELSE "off"]
  /\ IF look.hello = "none" THEN UNCHANGED <<tp, far, stored, obj, view, run>>
                            ELSE PeerDiscovered(look.hello, run)
  /\ UNCHANGED <<zone, diff, reg, retry, back, book, pass, left, mix>>

IntroduceByHello ==
  /\ look.hello = "introduce"
  /\ look' = [look EXCEPT !.hello = "off", !.bare = FALSE]
  /\ tp' = IF tp.addr /\ Below(tp.mech, "introducing")
             THEN [tp EXCEPT !.mech = "introducing"] ELSE tp
  /\ UNCHANGED <<zone, diff, far, stored, obj, view, reg, run, retry, back, book, pass, left, mix>>

FreshLooks ==
  /\ look.fresh = "due"
  /\ look' = [look EXCEPT !.fresh = LooksUp(TRUE)]
  /\ far' = Cached(TRUE)
  /\ UNCHANGED <<zone, diff, stored, obj, view, tp, reg, run, retry, back, book, pass, left, mix>>

FreshLookedUp ==
  /\ look.fresh \in Records
  /\ look' = [look EXCEPT !.fresh = "off"]
  /\ IF look.fresh = "none" THEN UNCHANGED <<tp, far, stored, obj, view, run>>
                            ELSE PeerDiscovered(look.fresh, run)
  /\ UNCHANGED <<zone, diff, reg, retry, back, book, pass, left, mix>>

----------------------------------------------------------------------------
\* The reconcile pass

\* what a zone expects is read first, and applied to the registry after that
ReadZone(z) ==
  /\ pass.at = "zones" /\ z \notin pass.done /\ zone[z] # "gone"
  /\ pass' = [at |-> "apply", of |-> z, done |-> pass.done \cup {z}, expects |-> zone[z] = "named"]
  /\ UNCHANGED <<zone, diff, far, stored, obj, view, tp, goings, book, left, mix>>

ReconcileZone ==
  /\ pass.at = "apply"
  /\ pass' = [pass EXCEPT !.at = "zones", !.of = Nobody]
  /\ IF pass.expects THEN MarkNeeded({pass.of}) ELSE RemovePeerFromZone(pass.of)
  /\ UNCHANGED <<zone, diff, far, tp, reg, retry, back, look, book, left, mix>>

\* the zones that the agent holds no longer are taken off, and the object is
\* marked as unshared from now on, or as shared again
Unshared ==
  /\ pass.at = "zones" /\ \A z \in Zone : z \in pass.done \/ zone[z] = "gone"
  /\ IF stored = Nobody THEN pass' = NoPass /\ UNCHANGED <<obj, view>>
     ELSE LET held == {z \in obj[stored].zones : zone[z] # "gone"}
              since == obj[stored].unshared IN
          /\ obj' = [obj EXCEPT ![stored] =
                       [zones |-> held,
                        unshared |-> IF held # {} THEN "no"
                                     ELSE IF since = "no" THEN "lately" ELSE since]]
          /\ view' = Materialized(stored)
          /\ pass' = IF held = {} /\ since = "long"
                       THEN [NoPass EXCEPT !.at = "prune", !.of = stored] ELSE NoPass
  /\ UNCHANGED <<zone, diff, far, stored, tp, goings, book, left, mix>>

\* the hold time is over: the object goes, unless a zone has been added to it
Prune ==
  LET o == pass.of
      goes == stored = o /\ obj[o].zones = {} IN
  /\ pass.at = "prune"
  /\ pass' = NoPass
  /\ IF goes
       THEN /\ stored' = Nobody
            /\ run' = [run EXCEPT ![o].removal = "popped"]
            /\ book' = [book EXCEPT !.served = Nobody]
       ELSE UNCHANGED <<stored, run, book>>
  /\ UNCHANGED <<zone, diff, far, obj, view, tp, reg, retry, back, look, left, mix>>

\* what follows a removal: the object's hello retrier is stopped, and the
\* notes of its beats are dropped unless a new object may have made them
AfterRemoval(o) ==
  /\ run[o].removal = "popped"
  /\ run' = [run EXCEPT ![o].removal = "view"]
  /\ reg' = IF reg = o THEN Nobody ELSE reg
  /\ book' = IF stored = Nobody THEN [book EXCEPT !.failing = Nobody, !.recent = FALSE] ELSE book
  /\ UNCHANGED <<zone, diff, far, stored, obj, view, tp, retry, back, look, pass, left, mix>>

OnPeerRemoved(o) ==
  /\ run[o].removal = "view"
  /\ RemovePeerView(o, [run EXCEPT ![o].removal = "off"])
  /\ UNCHANGED <<zone, diff, far, stored, obj, reg, retry, back, look, book, pass, left, mix>>

----------------------------------------------------------------------------
\* Time, and what happens to the peer and to the zones

Ticks == UNCHANGED <<zone, diff, stored, view, tp, goings, left, mix>>

\* this agent's identity is published
IdentityReady ==
  /\ ~book.ready
  /\ book' = [book EXCEPT !.ready = TRUE]
  /\ Ticks /\ UNCHANGED <<far, obj, pass>>

\* (a pass that finds everything as it is, with nothing left to happen, is
\* left out)
ReconcileTick ==
  /\ pass.at = "off"
  /\ left > 0 \/ (\E z \in Zone : diff[z] # "none")
       \/ (stored = Nobody /\ Named)
       \/ (stored # Nobody /\ (\/ obj[stored].unshared # "no" \/ obj[stored].zones = {}
                               \/ obj[stored].zones # {z \in Zone : zone[z] = "named"}))
  /\ pass' = [NoPass EXCEPT !.at = "zones"]
  /\ Ticks /\ UNCHANGED <<far, obj, book>>

\* the hold time is over
HoldPasses ==
  /\ stored # Nobody /\ obj[stored].unshared = "lately"
  /\ obj' = [obj EXCEPT ![stored].unshared = "long"]
  /\ Ticks /\ UNCHANGED <<far, book, pass>>

SpacingPasses ==
  /\ book.recent
  /\ book' = [book EXCEPT !.recent = FALSE]
  /\ Ticks /\ UNCHANGED <<far, obj, pass>>

\* the interval is longer than a lookup takes
IntervalPasses ==
  /\ book.looked /\ look.fresh = "off" /\ look.hello = "off"
  /\ book' = [book EXCEPT !.looked = FALSE]
  /\ Ticks /\ UNCHANGED <<far, obj, pass>>

CacheExpires ==
  /\ far.cache # "empty"
  /\ far' = [far EXCEPT !.cache = "empty"]
  /\ Ticks /\ UNCHANGED <<obj, book, pass>>

Elsewhere == UNCHANGED <<stored, obj, view, tp, goings, book, pass, mix>>

\* a zone's active instructions change: the peer enters or leaves them, or
\* this agent does
ZoneChanges(z) ==
  \E to \in Standing \ {zone[z], "gone"} :
    /\ zone[z] # "gone" /\ diff[z] = "none"
    /\ Event(to)
    /\ zone' = [zone EXCEPT ![z] = to]
    /\ diff' = [diff EXCEPT ![z] = IF to = "unnamed" THEN "out"
                                   ELSE IF zone[z] = "unnamed" /\ to = "named" THEN "in" ELSE "none"]
    /\ UNCHANGED far /\ Elsewhere

\* a zone leaves the agent's configuration
ZoneLeaves(z) ==
  /\ Event("gone") /\ zone[z] # "gone"
  /\ zone' = [zone EXCEPT ![z] = "gone"]
  /\ UNCHANGED <<diff, far>> /\ Elsewhere

\* the peer goes down or comes back, admits this agent or does not any more,
\* publishes its names, or takes a new key
PeerChanges ==
  /\ \/ Event("up") /\ far' = [far EXCEPT !.up = ~@]
     \/ Event("admits") /\ far' = [far EXCEPT !.admits = ~@]
     \/ /\ Event("publish") /\ far.records # "full"
        /\ \E r \in {"bare", "full"} \ {far.records} : far' = [far EXCEPT !.records = r]
     \/ /\ Event("key") /\ far.records = "full"
        /\ \E c \in {far.cache, "old"} : far' = [far EXCEPT !.key = "old", !.cache = c]
  /\ UNCHANGED <<zone, diff>> /\ Elsewhere

\* the operator resets the peer: its state goes back, and it is discovered again
PeerReset ==
  /\ Event("reset") /\ view # Nobody /\ stored # Nobody
  /\ tp' = [tp EXCEPT !.mech = "needed", !.top = "needed"]
  /\ far' = [far EXCEPT !.cache = "empty"]
  /\ run' = [run EXCEPT ![stored].disc = IF @ = "off" THEN "asked" ELSE @]
  /\ UNCHANGED <<zone, diff, stored, obj, view, reg, retry, back, look, book, pass, mix>>

\* the operator has the identity discovered, whether a zone names it or not
OperatorAsks ==
  /\ Event("ask")
  /\ MarkNeeded({})
  /\ UNCHANGED <<zone, diff, far, tp, reg, retry, back, look, book, pass, mix>>

----------------------------------------------------------------------------
Lookups == HelloLooks \/ HelloLookedUp \/ IntroduceByHello \/ FreshLooks \/ FreshLookedUp

Discovering(o) == Discover(o) \/ LookedUp(o) \/ Discovered(o) \/ Greet(o)
Greeting(o) == StartHello(o) \/ SendHello(o) \/ HelloAnswered(o) \/ FastBeat(o) \/ FastBeatAnswered(o)
Retrying == Retry \/ RetryAnswered \/ EndBeatRetrier
BeatingBack == BeatBack \/ BeatBackAnswered
Removing(o) == AfterRemoval(o) \/ OnPeerRemoved(o)
Pass == ReconcileTick \/ (\E z \in Zone : ReadZone(z)) \/ ReconcileZone \/ Unshared \/ Prune
TimePasses == HoldPasses \/ SpacingPasses \/ IntervalPasses \/ CacheExpires

Next ==
  \/ \E z \in Zone : ApplyHsyncDiff(z) \/ ZoneChanges(z) \/ ZoneLeaves(z)
  \/ \E o \in Obj : Discovering(o) \/ Greeting(o) \/ RoundAnswered(o) \/ Removing(o)
  \/ RetryPendingDiscoveries \/ Round \/ Retrying \/ BeatingBack
  \/ PeerSaysHello \/ Lookups \/ Pass \/ IdentityReady \/ TimePasses
  \/ PeerChanges \/ PeerReset \/ OperatorAsks

\* every goroutine goes on, the timers and the tickers come, and time passes
Fairness ==
  /\ \A z \in Zone : WF_vars(ApplyHsyncDiff(z))
  /\ \A o \in Obj : /\ WF_vars(Discovering(o)) /\ WF_vars(Greeting(o))
                    /\ WF_vars(RoundAnswered(o)) /\ WF_vars(Removing(o))
  /\ WF_vars(RetryPendingDiscoveries) /\ WF_vars(Round) /\ WF_vars(Retrying)
  /\ WF_vars(BeatingBack) /\ WF_vars(Lookups) /\ WF_vars(Pass)
  /\ WF_vars(IdentityReady) /\ WF_vars(HoldPasses) /\ WF_vars(IntervalPasses)
  /\ WF_vars(CacheExpires)

Spec == Init /\ [][Next]_vars
FairSpec == Spec /\ Fairness

----------------------------------------------------------------------------
\* Properties

\* The variables' types, one hello retrier for an object, and a transport peer
\* that is usable only once it is there and has an address (registerHello,
\* startHelloRetrier, RegisterDiscoveredPeer).
TypeOK ==
  /\ zone \in [Zone -> Standing] /\ diff \in [Zone -> {"none", "in", "out"}]
  /\ far \in Far
  /\ {stored, view, reg} \subseteq Obj \cup {Nobody}
  /\ obj \in [Obj -> [zones : SUBSET Zone, unshared : {"no", "lately", "long"}]]
  /\ tp \in [here : BOOLEAN, mech : States, addr : BOOLEAN, top : {"needed", "known", "error"}]
  /\ run \in [Obj -> [disc : {"off", "asked", "found", "failed", "greet"} \cup Found,
                      hello : {"off", "start", "loop", "sent", "beats", "beaten"},
                      got : Reply, round : {"off"} \cup Reply,
                      removal : {"off", "popped", "view"}, cut : BOOLEAN]]
  /\ retry \in [at : {"off", "wait", "over", "spent"} \cup Reply, of : Obj \cup {Nobody}, left : 0..Retries]
  /\ back \in [at : {"off", "send", "wait"} \cup Reply, of : Obj \cup {Nobody}, left : 0..2]
  /\ look \in [hello : {"off", "due", "introduce", "old"} \cup Records, bare : BOOLEAN,
               fresh : {"off", "due"} \cup Records]
  /\ {book.failing, book.served} \subseteq Obj \cup {Nobody} /\ book.refused \in 0..3 /\ left \in 0..MaxEvents
  /\ \A o \in Obj : reg = o => run[o].hello # "off"
  /\ ~tp.here => tp = NoTp
  /\ tp.mech # "needed" => tp.addr

\* The agent's view never wraps an object that the registry dropped, but for
\* the moment between the removal and what follows it: what a lookup, a hello
\* or a beat of an old goroutine writes goes to the object that is held
\* (materializeAgentView, agentViewForIdentity, removePeerView).
ViewIsOfTheStored ==
  view \notin {stored, Nobody} => run[view].removal \in {"popped", "view"}

\* An outage that a beat of the held object began is either over, or its
\* retrier runs, or the retrier has used its slots up for this object: no
\* order of rounds, beats back and retries leaves an outage without retries
\* (noteBeatFailed, beatRetrier, endBeatRetrier, beatBack).  A note that the
\* object before it left is no outage of this one.
OutageIsRetried ==
  stored # Nobody /\ book.failing = stored /\ retry.at = "off" => book.served = stored

\* a zone names the peer, which is up, admits this agent and publishes its names
Reachable == Named /\ far.up /\ far.admits /\ far.records = "full"
Works == tp.mech = "operational" /\ far.key = "right" /\ ~Failing /\ stored # Nobody

\* A peer that stays reachable is operational in the end, with its present
\* key, whatever happened to it before: failed discoveries are repeated,
\* refused hellos go on, a stale key is looked up past the cache, and the
\* registration of a hello retrier never keeps the next one from starting
\* (retryPendingDiscoveries, helloRetrierNG, noteRefused, runReconcile).
ReachableWorks == <>[]Reachable => <>[]Works

\* nothing of the peer is left; a transport peer made by a message or a lookup
\* of its own is not the engine's to remove
Gone ==
  /\ stored = Nobody /\ view = Nobody /\ reg = Nobody
  /\ tp.here => mix \cap {"hello", "key", "admits"} # {}

\* A peer that no zone names any more is removed in the end, with its view,
\* its hello retrier and the transport's peer, though goroutines that were
\* started for it write to them until they see that it is gone
\* (pruneUnsharedPeers, afterRemoval, attemptDiscovery, removePeerView).
UnnamedIsGone == <>[](~Named) => <>[]Gone

=============================================================================
