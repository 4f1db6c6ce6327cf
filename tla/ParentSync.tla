----------------------------- MODULE ParentSync -----------------------------
(***************************************************************************)
(* The leader's sync of a zone with its parent, at one agent: the          *)
(* syncher's loop (delegation_sync.go), the zone's chain of asks, checks   *)
(* and held NOTIFYs (mp_s5_leader_sync.go), the CSYNC the leader makes     *)
(* (mp_s5_leader_csync.go), the DS set it takes to the parent              *)
(* (mp_s5_computed_ds.go), the owed syncs (catchup.go) and what ends or    *)
(* cancels the work: the owner's takeover, the loss of the lead, the       *)
(* thaw's turn.                                                            *)
(*                                                                         *)
(* The syncher is one goroutine and a sync is several of its steps; the    *)
(* refreshes, the election's callbacks, the timers and the providers run   *)
(* beside it.  The chain's timers carry numbers in the code so that one    *)
(* left behind does nothing: here the chain has its live timer only.       *)
(* The specification's own names begin with Sync, so that a module may     *)
(* extend this one and InstructionTransition, whose freeze holds the sync. *)
(***************************************************************************)
EXTENDS Integers, FiniteSets, SequencesExt

CONSTANTS
  Voter,       \* the recipients of the CSYNC that are waited for: the voting providers' combiners
  NoRole,      \* the recipients with no role, waited for until a time-out
  Foreign,     \* the other signing providers
  Scheme,      \* what the parents of the behaviours take: "UPDATE", "NOTIFY"
  Wait,        \* whether a NOTIFY has a wait: the zone's largest propagation delay is not 0
  Owned,       \* whether this agent's signer owns the zone's keys
  QueueSize,   \* the room of the syncher's queue
  MaxFailures, \* the delays of the failure chain
  MaxChecks,   \* the delays of the checks after a NOTIFY
  Scenarios    \* bound: the inputs and faults of a behaviour, s[e] times e

Event == {"ns", "inventory", "said", "lead", "invalid", "owner", "leave", "behind", "key",
          "freeze", "turn", "refused", "lost", "rejected", "untaken", "down"}

ASSUME ConstantsAssumption ==
  /\ Voter # {} /\ Voter \intersect NoRole = {}
  /\ "us" \notin Foreign
  /\ Scheme \subseteq {"UPDATE", "NOTIFY"} /\ Wait \subseteq BOOLEAN /\ Owned \subseteq BOOLEAN
  /\ {QueueSize, MaxFailures, MaxChecks} \subseteq Nat \ {0}
  /\ Scenarios \subseteq [Event -> Nat]

VARIABLES
  zone,    \* the zone as this agent reads it, and what holds its sync
  keys,    \* what the signers said of their keys, and the own signer's inventory
  lead,    \* who leads the zone, and this agent's hold of the lead
  my,      \* the queue, the chain, the CSYNC made and the owed mark
  run,     \* the sync the syncher is at
  todo,    \* callbacks started and not yet run
  served,  \* what the providers serve: the NS set, and who holds which CSYNC
  parent,  \* the delegation, and the NOTIFYs it has not acted on
  left     \* left[e]: how many of each event are left
syncVars == <<zone, keys, lead, my, run, todo, served, parent, left>>

Signer == Foreign \union {"us"}
Recipient == Voter \union NoRole
Word == {"silent", "empty", "undecided", "no", "yes"}
NoHold == [types |-> {}, diff |-> <<>>, retimed |-> FALSE, awaiting |-> FALSE, current |-> FALSE]
NoChain == [here |-> FALSE, failures |-> 0, rechecks |-> 0, notified |-> {}, timer |-> "none", hold |-> NoHold]
NoCsync == [here |-> FALSE, diff |-> <<>>, awaited |-> {}, failed |-> FALSE]
NoOwed == [here |-> FALSE, room |-> FALSE, key |-> FALSE, frozen |-> FALSE]
NoDiff == [ns |-> <<>>, ds |-> <<>>]
NoRun == [at |-> "idle", arm |-> "explicit", diff |-> NoDiff, hold |-> 0, cancelled |-> "no",
          untaken |-> FALSE, frozen |-> FALSE]

(***************************************************************************)
(* The DS set.  Computed from every signing provider's word, or, where the *)
(* own signer owns the keys, its inventory unless another provider's word  *)
(* holds that back.                                                        *)
(***************************************************************************)
Unknown == [known |-> FALSE, set |-> {}]
Spoken(k, s) == k.word[s] \notin {"silent", "undecided"}
Computed(k) ==
  IF (\A s \in Signer : Spoken(k, s)) /\ (\E s \in Signer : k.word[s] \in {"no", "yes"})
  THEN [known |-> TRUE, set |-> {s \in Signer : k.word[s] = "yes"}]
  ELSE Unknown
Withheld(k) == k.owned /\ \E f \in Foreign \ k.inv : k.word[f] = "yes"
Inventoried(k) ==
  IF Spoken(k, "us") /\ (k.word["us"] # "empty" \/ k.inv # {}) /\ ~Withheld(k)
  THEN [known |-> TRUE, set |-> {s \in {"us"} : k.word[s] = "yes"} \union k.inv]
  ELSE Unknown
DSIntent(k) == IF k.owned THEN Inventoried(k) ELSE Computed(k)
DSChanged(k, l) == DSIntent(l).known /\ DSIntent(l) # DSIntent(k)

(***************************************************************************)
(* What a sync finds.                                                      *)
(***************************************************************************)
Difference ==
  [ns |-> IF zone.ns = parent.ns THEN <<>> ELSE <<parent.ns, zone.ns>>,
   ds |-> IF DSIntent(keys).known /\ DSIntent(keys).set # parent.ds THEN <<parent.ds, DSIntent(keys).set>> ELSE <<>>]
Types(d) == {t \in {"CSYNC", "CDS"} : (IF t = "CSYNC" THEN d.ns ELSE d.ds) # <<>>}
LeadsZone == lead.who = "us"
(***************************************************************************)
(* The chain, the CSYNC and the owed mark.                                 *)
(***************************************************************************)
Scheduled(ch, timer) == [ch EXCEPT !.here = TRUE, !.timer = timer]
Unheld(ch) == IF ch.hold = NoHold THEN ch ELSE [ch EXCEPT !.hold = NoHold, !.timer = "none"]
Owe(m, why) == [m EXCEPT !.owed.here = TRUE, !.owed[why] = TRUE]

\* requestDelegationSync: whether it was queued or owed, and what it does
MayAsk == zone.option /\ LeadsZone
Requested(m) ==
  IF ~MayAsk THEN m
  ELSE IF Len(m.queue) < QueueSize
  THEN [m EXCEPT !.queue = Append(@, [arm |-> "explicit", diff |-> NoDiff]), !.gaveUp = FALSE]
  ELSE Owe(m, "room")

\* askOwed, where the mark holds nothing back any more
AskedOwed(m, mayAsk, caughtUp) ==
  IF ~m.owed.here THEN m
  ELSE IF ~mayAsk THEN [m EXCEPT !.owed = NoOwed]
  ELSE IF m.owed.key \/ m.owed.frozen \/ ~caughtUp THEN m
  ELSE IF Len(m.queue) < QueueSize
  THEN [m EXCEPT !.queue = Append(@, [arm |-> "explicit", diff |-> NoDiff]), !.owed = NoOwed, !.gaveUp = FALSE]
  ELSE Owe(m, "room")

\* endChainLocked; with the owed mark, endDelegationSyncChain
ChainEnded(m) == [m EXCEPT !.chain = NoChain, !.csync = NoCsync]
WorkEnded(m) == [ChainEnded(m) EXCEPT !.owed = NoOwed]
Succeeded(m) ==
  LET ch == Unheld(m.chain) IN
    IF ch.timer = "none" THEN [m EXCEPT !.chain = NoChain]
    ELSE [m EXCEPT !.chain = [ch EXCEPT !.failures = 0, !.rechecks = 0, !.notified = {}]]
FailedOnce(m) ==
  LET ch == m.chain IN
    IF ch.timer # "none" THEN m
    ELSE IF ch.failures >= MaxFailures THEN [m EXCEPT !.chain = NoChain, !.gaveUp = TRUE]
    ELSE [m EXCEPT !.chain = Scheduled([ch EXCEPT !.failures = @ + 1], "ask")]

\* notifyLeft: the check that follows a NOTIFY, or the bound
Left(m, ch, types, retimed) ==
  LET again == retimed /\ ch.rechecks > 0 IN
    IF ~again /\ ch.rechecks >= MaxChecks THEN [m EXCEPT !.chain = NoChain, !.gaveUp = TRUE]
    ELSE [m EXCEPT !.chain =
            Scheduled([ch EXCEPT !.hold = NoHold, !.notified = types,
                                 !.rechecks = IF again THEN @ ELSE @ + 1], "ask")]
Leaving(frozen, types) == IF frozen THEN types \intersect {"CDS"} ELSE types
Forgotten(ch) == [ch EXCEPT !.hold = NoHold, !.timer = "none", !.notified = {}, !.rechecks = 0]
LetGo(m, ch, types, frozen, retimed) ==
  LET leave == Leaving(frozen, types)
      gone == IF leave = {} THEN [m EXCEPT !.chain = Forgotten(ch)] ELSE Left(m, ch, leave, retimed)
  IN  IF leave = types THEN gone ELSE Owe(gone, "frozen")
Notified(types) == parent' = [parent EXCEPT !.told = @ \union types]

SyncInit ==
  /\ left \in Scenarios
  /\ zone = [ns |-> 1, option |-> TRUE, roles |-> TRUE, caughtUp |-> TRUE, key |-> TRUE, frozen |-> FALSE]
  /\ \E o \in Owned : keys = [word |-> [s \in Signer |-> "yes"], inv |-> Foreign, owned |-> o]
  /\ lead = [who |-> "us", hold |-> 1, holds |-> 1]
  /\ my = [queue |-> <<>>, chain |-> NoChain, csync |-> NoCsync, owed |-> NoOwed, gaveUp |-> FALSE]
  /\ run = NoRun /\ todo = {}
  /\ served = [ns |-> 1, csync |-> 1, by |-> Recipient]
  /\ \E s \in Scheme, w \in Wait : parent = [ns |-> 1, ds |-> Signer, told |-> {}, scheme |-> s, wait |-> w]

Spend(e) == left[e] > 0 /\ left' = [left EXCEPT ![e] = @ - 1]
Free(e) == left' = [left EXCEPT ![e] = @]

(***************************************************************************)
(* The refreshes, the inventories and the key states of the providers.     *)
(***************************************************************************)

\* a refresh finds NS or glue changed; it waits for room in the queue
NsChanges ==
  /\ Spend("ns")
  /\ zone' = [zone EXCEPT !.ns = @ + 1]
  /\ \/ /\ zone.option
        /\ Len(my.queue) < QueueSize
        /\ my' = [my EXCEPT !.gaveUp = FALSE, !.queue = Append(@,
                    [arm |-> "implicit", diff |-> [ns |-> <<zone.ns, zone.ns + 1>>, ds |-> <<>>]])]
     \/ ~zone.option /\ my' = my
  /\ UNCHANGED <<keys, lead, run, todo, served, parent>>

KeysSaid(k, ask) ==
  /\ keys' = k
  /\ my' = IF ask THEN Requested(my) ELSE my
  /\ UNCHANGED <<zone, lead, run, todo, served, parent>>

Inventory ==
  /\ Spend("inventory")
  /\ \E w \in Word, inv \in SUBSET Foreign :
       LET k == [keys EXCEPT !.word["us"] = w, !.inv = inv]
       IN  k # keys /\ KeysSaid(k, DSChanged(keys, k))

Said ==
  /\ Spend("said")
  /\ \E f \in Foreign, w \in Word \ {"silent"} :
       LET k == [keys EXCEPT !.word[f] = w]
       IN  k # keys /\ KeysSaid(k, (~keys.owned /\ DSChanged(keys, k)) \/ (Withheld(keys) /\ ~Withheld(k)))

\* followParentSyncParam: the option goes off first, the work ends after it
OwnerTakes ==
  /\ zone.option /\ Spend("owner")
  /\ zone' = [zone EXCEPT !.option = FALSE]
  /\ todo' = todo \union {<<"ownerSyncs", 0>>}
  /\ UNCHANGED <<keys, lead, my, run, served, parent>>

GivenBack ==
  /\ ~zone.option /\ <<"ownerSyncs", 0>> \notin todo
  /\ zone' = [zone EXCEPT !.option = TRUE]
  /\ todo' = IF LeadsZone THEN todo \union {<<"setup", 0>>} ELSE todo
  /\ UNCHANGED <<keys, lead, my, run, served, parent, left>>

\* the records no longer give this agent a role; its group is worked out again after that
Leave ==
  /\ zone.roles /\ Spend("leave")
  /\ zone' = [zone EXCEPT !.roles = FALSE]
  /\ todo' = todo \union {<<"endWork", 0>>}
  /\ UNCHANGED <<keys, lead, my, run, served, parent>>

GroupLeft ==
  /\ ~zone.roles /\ lead.who # "other"
  /\ lead' = [lead EXCEPT !.who = "other", !.hold = 0]
  /\ todo' = todo \union {<<"endWork", 0>>}
  /\ UNCHANGED <<zone, keys, my, run, served, parent, left>>

Return ==
  /\ ~zone.roles /\ lead.who = "other" /\ <<"endWork", 0>> \notin todo
  /\ zone' = [zone EXCEPT !.roles = TRUE]
  /\ UNCHANGED <<keys, lead, my, run, todo, served, parent, left>>

(***************************************************************************)
(* What holds the sync, and what lets it go.                               *)
(***************************************************************************)
HoldComes ==
  /\ \E hold \in {"caughtUp", "key"} :
       /\ zone[hold] /\ zone' = [zone EXCEPT ![hold] = FALSE]
       /\ Spend(IF hold = "key" THEN "key" ELSE "behind")
  /\ UNCHANGED <<keys, lead, my, run, todo, served, parent>>

CaughtUpAgain ==
  /\ ~zone.caughtUp
  /\ zone' = [zone EXCEPT !.caughtUp = TRUE]
  /\ my' = AskedOwed(my, MayAsk, TRUE)
  /\ UNCHANGED <<keys, lead, run, todo, served, parent, left>>

KeyReady ==
  /\ ~zone.key
  /\ zone' = [zone EXCEPT !.key = TRUE]
  /\ UNCHANGED <<keys, lead, my, run, todo, served, parent, left>>

Freeze ==
  /\ ~zone.frozen /\ Spend("freeze")
  /\ zone' = [zone EXCEPT !.frozen = TRUE]
  /\ UNCHANGED <<keys, lead, my, run, todo, served, parent>>

Unfreeze ==
  /\ zone.frozen
  /\ zone' = [zone EXCEPT !.frozen = FALSE]
  /\ todo' = todo \union {<<"setup", 0>>}
  /\ UNCHANGED <<keys, lead, my, run, served, parent, left>>

ReleaseOwedAtThaw ==
  /\ \E why \in {"frozen"} :
       /\ my.owed[why] /\ (IF why = "key" THEN zone.key ELSE ~zone.frozen)
       /\ my' = AskedOwed([my EXCEPT !.owed[why] = FALSE], MayAsk, zone.caughtUp)
  /\ Free("ns") /\ UNCHANGED <<zone, keys, lead, run, todo, served, parent>>

\* releaseKeyHold, or instrDone: from the event or from a ticker
ReleaseOwed ==
  /\ \E why \in {"key", "frozen"} :
       /\ my.owed[why] /\ (IF why = "key" THEN zone.key ELSE ~zone.frozen)
       /\ my' = AskedOwed([my EXCEPT !.owed[why] = FALSE], MayAsk, zone.caughtUp)
  /\ Free("ns") /\ UNCHANGED <<zone, keys, lead, run, todo, served, parent>>

\* askAllOwed: the tickers, every 30 s, and within seconds while the queue is full
OwedTick ==
  /\ my' = AskedOwed(my, MayAsk, zone.caughtUp) /\ my' # my
  /\ Free("ns") /\ UNCHANGED <<zone, keys, lead, run, todo, served, parent>>

(***************************************************************************)
(* The lead.  A loss and a take are told by callbacks of their own.        *)
(***************************************************************************)
Listed == run.at \in {"look", "send", "hand"}
Cancelled(cause) == IF Listed /\ run.cancelled = "no" THEN [run EXCEPT !.cancelled = cause] ELSE run

LeadLost ==
  /\ \/ LeadsZone /\ Spend("lead")
     \/ lead.who = "none" /\ lead.hold # 0 /\ Free("lead")
  /\ lead' = [lead EXCEPT !.who = "other", !.hold = 0]
  /\ todo' = todo \union {<<"lost", lead.hold>>}
  /\ UNCHANGED <<zone, keys, my, run, served, parent>>

Invalidated ==
  /\ LeadsZone /\ Spend("invalid")
  /\ lead' = [lead EXCEPT !.who = "none"]
  /\ my' = ChainEnded(my) /\ run' = Cancelled("thaw")
  /\ UNCHANGED <<zone, keys, todo, served, parent>>

Elected ==
  /\ ~LeadsZone /\ zone.roles
  /\ lead' = [who |-> "us", hold |-> IF lead.hold = 0 THEN lead.holds + 1 ELSE lead.hold,
              holds |-> IF lead.hold = 0 THEN lead.holds + 1 ELSE lead.holds]
  /\ todo' = todo \union {<<"setup", 0>>}
  /\ UNCHANGED <<zone, keys, my, run, served, parent, left>>

\* the other leader brings the parent in line, with a CSYNC of its own
OtherSyncs ==
  /\ lead.who = "other" /\ Difference # NoDiff
  /\ parent' = [parent EXCEPT !.ns = zone.ns, !.ds = IF DSIntent(keys).known THEN DSIntent(keys).set ELSE @]
  /\ served' = [ns |-> zone.ns, csync |-> zone.ns, by |-> Recipient]
  /\ UNCHANGED <<zone, keys, lead, my, run, todo, left>>

\* a callback runs: the work of a former standing ends, or the set-up asks
Callback ==
  /\ \E c \in todo :
       /\ todo' = todo \ {c}
       /\ CASE c[1] = "setup" -> my' = Requested(my) /\ run' = run
            [] c[1] = "lost" -> my' = my /\ run' = (IF run.hold = c[2] THEN Cancelled("ended") ELSE run)
            [] OTHER -> my' = WorkEnded(my) /\ run' = Cancelled("ended")
  /\ UNCHANGED <<zone, keys, lead, served, parent, left>>

ThawTurn ==
  /\ zone.frozen /\ LeadsZone /\ (my.chain.here \/ Listed) /\ Spend("turn")
  /\ my' = ChainEnded(my) /\ run' = Cancelled("thaw")
  /\ UNCHANGED <<zone, keys, lead, todo, served, parent>>

(***************************************************************************)
(* The syncher.                                                            *)
(***************************************************************************)
Own == my.chain.timer = "none" /\ my.chain.notified # {}
UsesKey == parent.scheme = "UPDATE"

\* a request is taken from the queue, and what forbids or holds it looked at, in the code's order
Take ==
  /\ run.at = "idle" /\ my.queue # <<>>
  /\ LET r == Head(my.queue)
         m == [my EXCEPT !.queue = Tail(@)]
         forbidden == ~zone.roles \/ ~MayAsk
         keyHeld == UsesKey /\ ~zone.key
         frozen == r.arm = "implicit" /\ zone.frozen
     IN \/ /\ forbidden
           /\ my' = WorkEnded(m) /\ run' = run
        \/ /\ ~forbidden /\ ~zone.caughtUp
           /\ my' = Owe([m EXCEPT !.chain.notified = {}, !.chain.rechecks = 0], "here") /\ run' = run
        \/ /\ ~forbidden /\ zone.caughtUp /\ keyHeld
           /\ my' = Owe(m, "key") /\ run' = run
        \/ /\ ~forbidden /\ zone.caughtUp /\ ~keyHeld /\ frozen
           /\ my' = Owe(m, "frozen") /\ run' = run
        \/ /\ ~forbidden /\ zone.caughtUp /\ ~keyHeld /\ ~frozen
           /\ my' = m
           /\ run' = [NoRun EXCEPT !.at = IF r.arm = "explicit" THEN "analyse" ELSE "hold",
                                   !.arm = r.arm, !.diff = r.diff]
  /\ UNCHANGED <<zone, keys, lead, todo, served, parent, left>>

Analyse ==
  /\ run.at = "analyse"
  /\ \/ /\ Spend("down")
        /\ my' = IF zone.option /\ zone.roles THEN Owe(my, "here") ELSE my
        /\ run' = NoRun
     \/ /\ Difference = NoDiff /\ Free("down")
        /\ my' = [Succeeded(my) EXCEPT !.csync = NoCsync, !.gaveUp = FALSE]
        /\ run' = NoRun
     \/ /\ Difference # NoDiff /\ zone.frozen /\ Difference.ds = <<>> /\ Free("down")
        /\ my' = Owe(my, "frozen") /\ run' = NoRun
     \/ /\ Difference # NoDiff /\ ~(zone.frozen /\ Difference.ds = <<>>) /\ Free("down")
        /\ my' = my /\ run' = [run EXCEPT !.at = "hold", !.diff = Difference]
  /\ UNCHANGED <<zone, keys, lead, todo, served, parent>>

\* delegationSyncRun: the hold is read, the run listed, and the hold looked at again
HoldNow == IF LeadsZone THEN lead.hold ELSE 0
ReadHold ==
  /\ run.at = "hold"
  /\ run' = [run EXCEPT !.at = "list", !.hold = HoldNow]
  /\ UNCHANGED <<zone, keys, lead, my, todo, served, parent, left>>

ListUnchecked ==
  /\ run.at = "list"
  /\ run' = [run EXCEPT !.at = "look", !.cancelled = "no"]
  /\ UNCHANGED <<zone, keys, lead, my, todo, served, parent, left>>

List ==
  /\ run.at = "list"
  /\ run' = [run EXCEPT !.at = "look", !.cancelled = IF run.hold # 0 /\ run.hold # HoldNow THEN "ended" ELSE "no"]
  /\ UNCHANGED <<zone, keys, lead, my, todo, served, parent, left>>

\* a sync of the arm's that failed: owed at the thaw's turn, or asked again
AfterError(m) ==
  IF run.cancelled = "thaw" THEN (IF zone.frozen THEN Owe(m, "frozen") ELSE m)
  ELSE IF MayAsk /\ zone.roles THEN FailedOnce(m) ELSE m

\* the option is read, and the zone's CSYNC made where one is needed
CsyncStands == Own \/ (my.csync.here /\ my.csync.diff = run.diff.ns /\ ~my.csync.failed)
Look ==
  /\ run.at = "look"
  /\ \/ /\ ~zone.option
        /\ my' = AfterError(my) /\ run' = NoRun /\ served' = served /\ Free("untaken")
     \/ /\ zone.option /\ (zone.frozen \/ run.diff.ns = <<>> \/ CsyncStands)
        /\ my' = IF Own /\ my.csync.here /\ ~zone.frozen /\ run.diff.ns # <<>>
                 THEN [my EXCEPT !.csync.diff = run.diff.ns] ELSE my
        /\ run' = [run EXCEPT !.at = "send"] /\ served' = served /\ Free("untaken")
     \/ /\ zone.option /\ ~zone.frozen /\ run.diff.ns # <<>> /\ ~CsyncStands
        /\ \/ /\ Free("untaken")
              /\ my' = [my EXCEPT !.csync = [here |-> TRUE, diff |-> run.diff.ns, awaited |-> Recipient, failed |-> FALSE],
                                  !.chain.hold.current = FALSE]
              /\ served' = [served EXCEPT !.csync = run.diff.ns[2], !.by = {}]
              /\ run' = [run EXCEPT !.at = "send"]
           \/ \* the data engine does not take it: it is forgotten
              /\ Spend("untaken")
              /\ my' = [my EXCEPT !.csync = NoCsync] /\ served' = served
              /\ run' = [run EXCEPT !.at = "send", !.untaken = TRUE]
  /\ UNCHANGED <<zone, keys, lead, todo, parent>>

Updated(p) ==
  [p EXCEPT !.ns = IF run.diff.ns = <<>> THEN @ ELSE run.diff.ns[2], !.ds = IF run.diff.ds = <<>> THEN @ ELSE run.diff.ds[2]]
SendUpdate ==
  /\ run.at = "send" /\ parent.scheme = "UPDATE"
  /\ \/ /\ run.cancelled = "no" /\ Free("refused")
        /\ parent' = Updated(parent)
        /\ my' = IF run.arm = "explicit" THEN Succeeded(my) ELSE my
     \/ /\ run.cancelled # "no" /\ Free("refused")
        /\ parent' = parent /\ my' = AfterError(my)
     \/ \* refused, or the answer is lost
        \E e \in {"refused", "lost"} :
          /\ run.cancelled = "no" /\ Spend(e)
          /\ parent' = (IF e = "lost" THEN Updated(parent) ELSE parent) /\ my' = AfterError(my)
  /\ run' = NoRun /\ UNCHANGED <<zone, keys, lead, todo, served>>

\* the NOTIFYs come on a queue of the sync's own; the freeze is read before the lock
SendNotify ==
  /\ run.at = "send" /\ parent.scheme = "NOTIFY"
  /\ \/ /\ zone.option /\ Free("refused")
        /\ my' = my /\ run' = [run EXCEPT !.at = "hand", !.frozen = zone.frozen]
     \/ /\ (run.cancelled # "no" \/ ~zone.option) /\ Free("refused")
        /\ my' = AfterError(my) /\ run' = NoRun
     \/ /\ run.cancelled = "no" /\ Spend("refused")
        /\ my' = AfterError(my) /\ run' = NoRun
  /\ UNCHANGED <<zone, keys, lead, todo, served, parent>>

\* delegationSyncNotifiedWith, under the chains' lock
HandOver ==
  LET ch == my.chain
      types == Types(run.diff) \union ch.hold.types
      retimed == IF ch.hold # NoHold THEN ch.hold.retimed ELSE ch.timer # "none" /\ ch.rechecks > 0
      cur == my.csync
      forCsync == cur.here /\ ~Own /\ "CSYNC" \in types
      stopped == run.cancelled # "no"
      failed == run.untaken \/ (forCsync /\ cur.failed)
      waits == ~stopped /\ ~failed /\ forCsync /\ cur.awaited # {}
      held == ~stopped /\ ~failed /\ ~waits /\ ~Own /\ parent.wait
      hold == [types |-> types, diff |-> <<run.diff>>, retimed |-> retimed, awaiting |-> waits, current |-> waits]
      after == [ch EXCEPT !.hold = NoHold, !.failures = 0]
  IN
  /\ run.at = "hand" /\ run' = NoRun
  /\ \/ /\ stopped
        /\ my' = AfterError(my) /\ parent' = parent
     \/ /\ ~stopped /\ failed
        /\ LET m == IF run.untaken THEN my ELSE [my EXCEPT !.csync = NoCsync, !.chain = Unheld(ch)]
           IN  my' = IF zone.option THEN FailedOnce(m) ELSE m
        /\ parent' = parent
     \/ /\ waits
        /\ my' = [my EXCEPT !.chain = Scheduled([ch EXCEPT !.hold = hold],
                                                IF ch.hold.awaiting /\ ch.hold.current THEN ch.timer ELSE "awaited")]
        /\ parent' = parent
     \/ /\ held
        /\ my' = [my EXCEPT !.chain = Scheduled([ch EXCEPT !.hold = hold, !.failures = 0],
                                                IF ch.hold # NoHold /\ ch.hold.diff = hold.diff THEN ch.timer ELSE "release")]
        /\ parent' = parent
     \/ /\ ~stopped /\ ~failed /\ ~waits /\ ~held
        /\ my' = LetGo(my, after, types, run.frozen, retimed)
        /\ Notified(Leaving(run.frozen, types))
  /\ UNCHANGED <<zone, keys, lead, todo, served, left>>

(***************************************************************************)
(* The chain's timers, the providers' confirmations and the parent.        *)
(***************************************************************************)
AskDue ==
  /\ my.chain.timer = "ask"
  /\ LET m == [my EXCEPT !.chain.timer = "none"] IN my' = IF MayAsk THEN Requested(m) ELSE Succeeded(m)
  /\ Free("ns") /\ UNCHANGED <<zone, keys, lead, run, todo, served, parent>>

ReleaseDue ==
  /\ my.chain.timer = "release"
  /\ LET ch == my.chain
         released == [ch EXCEPT !.hold = NoHold, !.timer = "none"]
     IN \/ /\ ~LeadsZone
           /\ my' = WorkEnded(my) /\ parent' = parent
        \/ /\ LeadsZone /\ ~zone.caughtUp
           /\ my' = Owe([my EXCEPT !.chain = Forgotten(ch)], "here") /\ parent' = parent
        \/ /\ LeadsZone /\ zone.caughtUp
           /\ my' = LetGo(my, released, ch.hold.types, zone.frozen, ch.hold.retimed)
           /\ Notified(Leaving(zone.frozen, ch.hold.types))
  /\ UNCHANGED <<zone, keys, lead, run, todo, served, left>>

\* the word that a NOTIFY still waits comes again and again while it does; it ends with
\* the hold it speaks of, and the chain is then marked as waiting with nothing to wait for
AwaitedDue ==
  /\ my.chain.timer = "awaited"
  /\ \/ /\ my.chain.hold.awaiting /\ my.csync.here /\ ~LeadsZone
        /\ my' = WorkEnded(my)
     \/ /\ ~(my.chain.hold.awaiting /\ my.csync.here)
        /\ my' = [my EXCEPT !.chain.timer = "dead"]
  /\ Free("ns") /\ UNCHANGED <<zone, keys, lead, run, todo, served, parent>>

\* delegationCsyncProgress: the recipients still awaited, the last of them, and a rejection
Awaits == my.csync.here /\ my.csync.awaited # {} /\ ~my.csync.failed
Progress(m, awaited) ==
  LET csync == [m.csync EXCEPT !.awaited = awaited]
  IN  IF awaited = {} /\ m.chain.hold.awaiting
      THEN [m EXCEPT !.csync = csync,
                     !.chain = Scheduled([@ EXCEPT !.hold.awaiting = FALSE, !.failures = 0], "release")]
      ELSE [m EXCEPT !.csync = csync]

Confirmed ==
  /\ Awaits
  /\ \E r \in my.csync.awaited :
       /\ my' = Progress(my, my.csync.awaited \ {r})
       /\ served' = [served EXCEPT !.by = @ \union {r}]
  /\ UNCHANGED <<zone, keys, lead, run, todo, parent, left>>

NoRoleTimedOut ==
  /\ Awaits /\ my.csync.awaited \subseteq NoRole
  /\ my' = Progress(my, {})
  /\ UNCHANGED <<zone, keys, lead, run, todo, served, parent, left>>

Rejected ==
  /\ Awaits /\ Spend("rejected")
  /\ my' = IF my.chain.hold.awaiting
           THEN FailedOnce([my EXCEPT !.csync = NoCsync, !.chain = Unheld(@)])
           ELSE [my EXCEPT !.csync.failed = TRUE]
  /\ UNCHANGED <<zone, keys, lead, run, todo, served, parent>>

NameserversServe ==
  /\ served.ns # zone.ns
  /\ served' = [served EXCEPT !.ns = zone.ns]
  /\ UNCHANGED <<zone, keys, lead, my, run, todo, parent, left>>

\* the parent scans what the NOTIFY names: the CDS, or the NS set where every
\* provider serves the one CSYNC
ParentScans ==
  /\ \E t \in parent.told :
       parent' = [parent EXCEPT !.told = @ \ {t},
                                !.ds = IF t = "CDS" /\ DSIntent(keys).known THEN DSIntent(keys).set ELSE @,
                                !.ns = IF t = "CSYNC" /\ Voter \subseteq served.by THEN served.ns ELSE @]
  /\ UNCHANGED <<zone, keys, lead, my, run, todo, served, left>>

NotifyLost ==
  /\ Spend("lost")
  /\ \E t \in parent.told : parent' = [parent EXCEPT !.told = @ \ {t}]
  /\ UNCHANGED <<zone, keys, lead, my, run, todo, served>>

Syncher == Take \/ Analyse \/ ReadHold \/ List \/ Look \/ SendUpdate \/ SendNotify \/ HandOver
Timers == AskDue \/ ReleaseDue \/ AwaitedDue
Beside ==
  \/ NsChanges \/ Inventory \/ Said \/ OwnerTakes \/ GivenBack \/ Leave \/ GroupLeft \/ Return
  \/ HoldComes \/ CaughtUpAgain \/ KeyReady \/ Freeze \/ Unfreeze \/ ThawTurn
  \/ LeadLost \/ Invalidated \/ Elected \/ OtherSyncs
Elsewhere == Confirmed \/ NoRoleTimedOut \/ Rejected \/ NameserversServe \/ ParentScans \/ NotifyLost
SyncNext == Beside \/ Syncher \/ Timers \/ Elsewhere \/ Callback \/ ReleaseOwed \/ OwedTick
SyncSpec == SyncInit /\ [][SyncNext]_syncVars

-----------------------------------------------------------------------------
\* The variables' types, and the chain's own shape: failures and checks within
\* their bounds, a hold with something in it and a timer that ends it, marks
\* that come with the mark itself (delegationSyncChain, NotYet's owed).
SyncTypeOK ==
  /\ zone \in [ns : Nat, option : BOOLEAN, roles : BOOLEAN, caughtUp : BOOLEAN, key : BOOLEAN, frozen : BOOLEAN]
  /\ keys \in [word : [Signer -> Word], inv : SUBSET Foreign, owned : BOOLEAN]
  /\ lead \in [who : {"us", "other", "none"}, hold : Nat, holds : Nat]
  /\ Len(my.queue) <= QueueSize
  /\ my.chain.failures \in 0..MaxFailures /\ my.chain.rechecks \in 0..MaxChecks
  /\ my.chain.timer \in {"none", "ask", "release", "awaited", "dead"}
  /\ (my.chain.hold # NoHold) => my.chain.hold.types # {} /\ my.chain.timer \in {"release", "awaited", "dead"}
  /\ (my.chain # NoChain) => my.chain.here
  /\ my.csync.awaited \subseteq Recipient
  /\ (my.owed # NoOwed) => my.owed.here
  /\ run.at \in {"idle", "analyse", "hold", "list", "look", "send", "hand"}

\* What ended stays ended.  Once the owner has the sync and what that started
\* has run, no sync under way can still reach the parent and no NOTIFY is held;
\* and a sync under way goes on only in the hold of the lead it began in, though
\* the option and the lead move between any two of its steps (delegationSyncRun,
\* delegationSyncOwnerSyncs, stopRunsOfLostLead).
EndedWorkIsStopped ==
  LET goes == run.at \in {"send", "hand"} /\ run.cancelled = "no"
      ended == {c \in todo : c[1] # "setup"}
  IN /\ ~zone.option /\ ended = {} => ~goes /\ my.chain.hold = NoHold
     /\ goes /\ run.hold # 0 /\ ended = {} => run.hold = lead.hold

\* The goroutines run, the timers fire, the started callbacks run and the tickers
\* tick; the providers confirm or the time-out of those with no role passes; the
\* nameservers come to serve the zone and the parent acts on a NOTIFY it has.
Fairness ==
  /\ WF_syncVars(Syncher) /\ WF_syncVars(Timers) /\ WF_syncVars(Callback) /\ WF_syncVars(ReleaseOwed \/ OwedTick)
  /\ WF_syncVars(Confirmed \/ NoRoleTimedOut) /\ WF_syncVars(NameserversServe) /\ WF_syncVars(ParentScans)
FairSpec == SyncSpec /\ Fairness
Able == MayAsk /\ zone.roles /\ zone.caughtUp /\ zone.key /\ ~zone.frozen
\* Again and again the parent has the zone's NS and DS sets, or the sync is held
\* back or given up, or this agent does not lead: no order of hold, freeze, loss
\* of the lead, lost answer and confirmation leaves the leader waiting for ever.
ParentFollows == []<>(~Able \/ Difference = NoDiff \/ my.gaveUp)
=============================================================================
