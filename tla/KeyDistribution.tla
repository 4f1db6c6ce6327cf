--------------------------- MODULE KeyDistribution ---------------------------
(***************************************************************************)
(* How one provider's DNSKEY set reaches the combiners of the others, and  *)
(* what its signer is told of each key.                                    *)
(*                                                                         *)
(* The provider's agent (the sender) distributes its whole set under a     *)
(* numbered distribution, tracks each key's propagation (hsync_transport), *)
(* and answers a peer's request for the zone's state.  A peer's agent      *)
(* keeps the set in its repo (syncheddataengine), hands it to its combiner *)
(* under a forward of its own, and confirms it by the combiner's word.     *)
(* The reliable queues resend what is not settled, in any order; messages, *)
(* words and confirmations are delayed, overtaken and lost.                *)
(*                                                                         *)
(* One zone and one record type: an update is then fresh or stale as a     *)
(* whole.  A distribution's number is its origin (time and identifier),    *)
(* a forward's number is its place in the agent's queue to its combiner.   *)
(***************************************************************************)
EXTENDS Naturals, Sequences, FiniteSets, FiniteSetsExt

CONSTANTS Key,       \* the sender's keys
          Peer,      \* the agents of the other providers
          Role,      \* the roles they start with: "signs", "serves", "none"
          MaxDist,   \* bound: distributions and answers
          MaxFwd,    \* bound: forwards of one peer to its combiner
          Event,     \* the faults and changes that happen
          MaxEvents  \* bound: how many of them

ASSUME RoleAssumption == Role \subseteq {"signs", "serves", "none"}
ASSUME BoundAssumption == MaxDist \in Nat \ {0} /\ MaxFwd \in Nat \ {0} /\ MaxEvents \in Nat

VARIABLES
  role,      \* each peer's role, by the sender's copy of the zone
  dists,     \* the sender's distributions, in the order it made them
  open,      \* those it tracks (pendingDnskeyPropagations)
  result,    \* each tracked peer's answer per key
  alias,     \* a tracking a resend took over: the resend (supersededBy)
  answer,    \* the latest answer to each peer (answersSent, answerTo)
  queue,     \* the sender's reliable queue: distribution, peer
  told,      \* what the signer was told (KEYSTATE)
  net,       \* delayed copies on their way to the peers
  confs,     \* confirmations on their way to the sender
  repo,      \* a peer's copy of the sender's set (ZoneDataRepo)
  last,      \* the newest origin it has taken, on disk (lastReplace)
  track,     \* the state of each key, and the forward that set it pending
  note,      \* the last hand-over to its combiner (setNote)
  forwards,  \* the hand-overs it has made
  handing,   \* those its queue still sends
  prc,       \* hand-overs whose word is relayed (PendingRemoteConfirms)
  waits,     \* stale replaces that wait for a hand-over's word (staleWaits)
  words,     \* the combiner's words on their way to the peer's agent
  own,       \* the agent's read of its combiner's contributions (own_read)
  holds,     \* the set a peer's combiner has stored for the sender
  served,    \* the part of it that its zone serves
  newest,    \* the newest forward it has taken, in memory
  takes,     \* what it does with the sender's keys
  lost,      \* what a peer has lost: a part's memory, a publishing (history)
  events     \* faults and changes so far

sender == <<role, dists, open, result, alias, answer, queue, told>>
agent == <<repo, last, track, note, forwards, handing, prc, waits>>
combiner == <<holds, served, newest, takes, lost>>
vars == <<sender, net, confs, agent, words, own, combiner, events>>

Dist == 1..MaxDist
Result == {"", "applied", "ignored", "rejected", "timed out"}
Status == {"ok", "partial", "ignored", "failed"}
Everyone == "everyone"

\* A distribution: the whole set, the keys it is about, those of them it
\* removes, whom it is for, and the peers whose confirmations its keys need.
Distribution == [keys : SUBSET Key, tags : SUBSET Key, gone : SUBSET Key,
                 to : Peer \cup {Everyone}, signing : SUBSET Peer]
Confirmation == [dist : Dist, peer : Peer, status : Status,
                 done : SUBSET Key, ignored : SUBSET Key, rejected : SUBSET Key]
Word == [fwd : 1..MaxFwd, status : Status, applied : SUBSET Key, removed : SUBSET Key,
         ignored : SUBSET Key, rejected : SUBSET Key]
NoResult == [p \in Peer |-> [k \in Key |-> ""]]
NoNote == [fwd |-> 0, state |-> "none"]
NotRead == [state |-> "none", keys |-> {}, fit |-> FALSE]

TypeOK ==
  /\ role \in [Peer -> Role \cup {"none"}]
  /\ dists \in Seq(Distribution) /\ Len(dists) <= MaxDist
  /\ open \subseteq 1..Len(dists)
  /\ result \in [Dist -> [Peer -> [Key -> Result]]]
  /\ alias \in [Dist -> 0..MaxDist]
  /\ answer \in [Peer -> 0..MaxDist]
  /\ queue \subseteq Dist \X Peer /\ net \subseteq Dist \X Peer
  /\ told \subseteq [kind : {"propagated", "removed", "rejected"}, key : Key, dist : Dist]
  /\ confs \subseteq Confirmation
  /\ repo \in [Peer -> SUBSET Key] /\ holds \in [Peer -> SUBSET Key] /\ served \in [Peer -> SUBSET Key]
  /\ last \in [Peer -> 0..MaxDist]
  /\ track \in [Peer -> [Key -> [state : {"none", "pending", "accepted", "ignored", "rejected"},
                                 fwd : 0..MaxFwd]]]
  /\ note \in [Peer -> [fwd : 0..MaxFwd, state : {"none", "sent", "confirmed", "failed", "ignored"}]]
  /\ forwards \in [Peer -> Seq([keys : SUBSET Key, dist : Dist])]
  /\ \A p \in Peer : Len(forwards[p]) <= MaxFwd
  /\ handing \in [Peer -> SUBSET (1..MaxFwd)]
  /\ prc \in [Peer -> SUBSET ((1..MaxFwd) \X Dist)]
  /\ waits \in [Peer -> SUBSET ((1..MaxFwd) \X Dist)]
  /\ words \in [Peer -> SUBSET Word]
  /\ own \in [Peer -> [state : {"none", "asked", "answered", "read"}, keys : SUBSET Key, fit : BOOLEAN]]
  /\ newest \in [Peer -> 0..MaxFwd]
  /\ takes \in [Peer -> {"apply", "reject", "ignore"}]
  /\ lost \in [Peer -> SUBSET {"agent", "combiner", "publish"}]
  /\ events \in 0..MaxEvents

\* The zone starts with nothing of the sender's; every agent has read its
\* combiner.
Init ==
  /\ role \in [Peer -> Role]
  /\ dists = <<>> /\ open = {} /\ result = [d \in Dist |-> NoResult]
  /\ alias = [d \in Dist |-> 0] /\ answer = [p \in Peer |-> 0]
  /\ queue = {} /\ told = {} /\ net = {} /\ confs = {}
  /\ repo = [p \in Peer |-> {}] /\ holds = [p \in Peer |-> {}] /\ served = [p \in Peer |-> {}]
  /\ last = [p \in Peer |-> 0]
  /\ track = [p \in Peer |-> [k \in Key |-> [state |-> "none", fwd |-> 0]]]
  /\ note = [p \in Peer |-> NoNote]
  /\ forwards = [p \in Peer |-> <<>>] /\ handing = [p \in Peer |-> {}]
  /\ prc = [p \in Peer |-> {}] /\ waits = [p \in Peer |-> {}] /\ words = [p \in Peer |-> {}]
  /\ own = [p \in Peer |-> [NotRead EXCEPT !.state = "read"]]
  /\ newest = [p \in Peer |-> 0]
  /\ takes = [p \in Peer |-> IF role[p] = "signs" THEN "apply" ELSE "ignore"]
  /\ lost = [p \in Peer |-> {}] /\ events = 0

Happens(e) == e \in Event /\ events < MaxEvents /\ events' = events + 1

-----------------------------------------------------------------------------
(* The sender: its distributions and their tracking. *)

\* The set the sender has sent last, which is its signer's inventory.
Mine == IF dists = <<>> THEN {} ELSE dists[Len(dists)].keys

\* One distribution more, to all peers or, an answer, to the one that asked.
Distribute(keys, tags, gone, to) ==
  /\ Len(dists) < MaxDist
  /\ dists' = Append(dists, [keys |-> keys, tags |-> tags, gone |-> gone, to |-> to,
                             signing |-> {p \in Peer : role[p] = "signs"}])
  /\ UNCHANGED role

Copies(to) == {Len(dists) + 1} \X to

\* Mutant: an answer is awaited for keys the distribution is not about.
AllKeysAnswered(d, res) == \A p \in Peer : \A k \in Key : res[d][p][k] # ""

\* Whether every peer has answered for every key of a distribution.
AllAnswered(d, res) == \A p \in Peer : \A k \in dists'[d].tags : res[d][p][k] # ""

\* What the signer is told of a key: a signing provider that ignores it
\* counts as one that rejects it (outcome).
Outcome(d, k, res) ==
  [kind |-> IF \E p \in Peer : \/ res[d][p][k] = "rejected"
                               \/ res[d][p][k] = "ignored" /\ p \in dists'[d].signing
            THEN "rejected"
            ELSE IF k \in dists'[d].gone THEN "removed" ELSE "propagated",
   key |-> k, dist |-> d]

\* Of the trackings in tracked, those every peer has answered end; the
\* signer is told of each of their keys, and aliases to them are dropped.
FinishDnskeyPropagation(tracked, res, al) ==
  LET ended == {d \in tracked : AllAnswered(d, res)}
      left == tracked \ ended
  IN  /\ open' = left
      /\ told' = told \cup UNION {{Outcome(d, k, res) : k \in dists'[d].tags} : d \in ended}
      /\ result' = [d \in Dist |-> IF d \in left THEN res[d] ELSE NoResult]
      /\ alias' = [d \in Dist |-> IF al[d] \in left THEN al[d] ELSE 0]

\* The signer's set changes: a key comes, or goes.
ApplyLocalUpdate(k) ==
  LET gone == Mine \cap {k}
  IN  /\ Distribute((Mine \cup {k}) \ gone, {k}, gone, Everyone)
      /\ queue' = queue \cup Copies(Peer)
      /\ FinishDnskeyPropagation(open \cup {Len(dists) + 1}, result, alias)
      /\ UNCHANGED <<answer, net, confs, agent, words, own, combiner, events>>

\* The trackings a resend of k takes over: the same keys, removing the same.
SameDistribution(k) ==
  {d \in open : dists[d].tags = {k} /\ dists[d].gone = {k} \ Mine}

\* foldIntoResend: what was applied, ignored or timed out goes to the resend.
Carried(k, new) ==
  [result EXCEPT ![new] = [p \in Peer |-> [j \in Key |->
     IF \E d \in SameDistribution(k) : result[d][p][j] \in {"applied", "ignored", "timed out"}
     THEN CHOOSE r \in {"applied", "ignored", "timed out"} :
            \E d \in SameDistribution(k) : result[d][p][j] = r
     ELSE ""]]]

\* The signer sends the distribution of k again (its resend timer).
Resend(k) ==
  LET new == Len(dists) + 1
      old == SameDistribution(k)
  IN  /\ \E d \in 1..Len(dists) : k \in dists[d].tags
      /\ Distribute(Mine, {k}, {k} \ Mine, Everyone)
      /\ queue' = queue \cup Copies(Peer)
      /\ FinishDnskeyPropagation((open \ old) \cup {new}, Carried(k, new),
           [d \in Dist |-> IF d \in old \/ alias[d] \in old THEN new ELSE alias[d]])
      /\ Happens("resend")
      /\ UNCHANGED <<answer, net, confs, agent, words, own, combiner>>

\* An answer to p's request for the zone's state: the whole set, not
\* tracked. An older answer still queued is withdrawn.
CatchUpAnswer(p) ==
  /\ Distribute(Mine, {}, {}, p)
  /\ queue' = (queue \ {<<answer[p], p>>}) \cup Copies({p})
  /\ answer' = [answer EXCEPT ![p] = Len(dists) + 1]
  /\ Happens("answer")
  /\ UNCHANGED <<open, result, alias, told, net, confs, agent, words, own, combiner>>

\* A copy of what the queue sends stays behind in the network.
CopyIsDelayed(d, p) ==
  /\ <<d, p>> \in queue /\ Happens("copy")
  /\ net' = net \cup {<<d, p>>}
  /\ UNCHANGED <<sender, confs, agent, words, own, combiner>>

\* What a confirmation of a tracked distribution says of its key k.
\* A late one, of a tracking a resend took over, counts only for what was
\* applied or ignored.
SaidOf(c, k, late) ==
  IF k \in c.rejected \/ (c.status = "failed" /\ c.rejected # {} /\ k \notin c.done)
  THEN IF late THEN "" ELSE "rejected"
  ELSE IF k \in c.done \/ c.status = "ok" THEN "applied"
  ELSE IF (c.status = "ignored" /\ c.rejected = {}) \/ k \in c.ignored THEN "ignored"
  ELSE ""

\* What a confirmation of an answer with the set keys says of key k of a
\* tracking made before it (creditFromAnswerLocked).
CreditedOf(c, k, keys, gone) ==
  LET covered == (k \in keys) # (k \in gone)
  IN  IF k \in c.rejected THEN "rejected"
      ELSE IF c.status = "ok" /\ covered THEN "applied"
      ELSE IF ((c.status = "ignored" /\ c.rejected = {}) \/ k \in c.ignored) /\ covered THEN "ignored"
      ELSE ""

\* A key's first answer from a peer stands.
First(old, new) == IF old # "" THEN old ELSE new

Scored(c, d, late) ==
  [result EXCEPT ![d][c.peer] =
     [k \in Key |-> IF k \in dists[d].tags THEN First(@[k], SaidOf(c, k, late)) ELSE ""]]

CreditFromAnswer(c) ==
  [d \in Dist |-> IF d \in open /\ d < c.dist
                  THEN [result[d] EXCEPT ![c.peer] =
                          [k \in Key |-> IF k \in dists[d].tags
                             THEN First(@[k], CreditedOf(c, k, dists[c.dist].keys, dists[d].gone))
                             ELSE ""]]
                  ELSE result[d]]

\* A final confirmation arrives: the queue's entry is settled, and the
\* tracking, the resend that took it over, or those the answer overtook,
\* take the peer's word.
ProcessDnskeyConfirmation(c) ==
  /\ c \in confs
  /\ confs' = confs \ {c}
  /\ queue' = queue \ {<<c.dist, c.peer>>}
  /\ UNCHANGED <<role, dists>>
  /\ FinishDnskeyPropagation(open,
       IF c.dist \in open THEN Scored(c, c.dist, FALSE)
       ELSE IF alias[c.dist] \in open THEN Scored(c, alias[c.dist], TRUE)
       ELSE IF answer[c.peer] = c.dist THEN CreditFromAnswer(c)
       ELSE result, alias)
  /\ UNCHANGED <<answer, net, agent, words, own, combiner, events>>

LoseConfirmation(c) ==
  /\ c \in confs /\ Happens("lose")
  /\ confs' = confs \ {c}
  /\ UNCHANGED <<sender, net, agent, words, own, combiner>>

\* A member with no role that has not answered in time is not waited for.
DnskeyNoRoleTimedOut(d) ==
  /\ d \in open
  /\ \E p \in Peer : role[p] = "none" /\ \E k \in dists[d].tags : result[d][p][k] = ""
  /\ UNCHANGED <<role, dists>>
  /\ FinishDnskeyPropagation(open,
       [result EXCEPT ![d] = [p \in Peer |-> [k \in Key |->
          IF role[p] = "none" /\ k \in dists[d].tags THEN First(@[p][k], "timed out") ELSE @[p][k]]]], alias)
  /\ UNCHANGED <<answer, queue, net, confs, agent, words, own, combiner, events>>

\* The sender restarts: its tracking and its queue are in memory.
SenderRestarts ==
  /\ Happens("senderRestart")
  /\ open' = {} /\ result' = [d \in Dist |-> NoResult] /\ alias' = [d \in Dist |-> 0]
  /\ answer' = [p \in Peer |-> 0] /\ queue' = {}
  /\ UNCHANGED <<role, dists, told, net, confs, agent, words, own, combiner>>

\* The owner takes a peer's role in the zone.
RoleEnds(p) ==
  /\ role[p] # "none" /\ Happens("role")
  /\ role' = [role EXCEPT ![p] = "none"]
  /\ UNCHANGED <<dists, open, result, alias, answer, queue, told, net, confs, agent, words, own, combiner>>

-----------------------------------------------------------------------------
(* A peer's agent: its copy of the set, and the hand-over to its combiner. *)

IsAnswer(d) == dists[d].to # Everyone

\* The keys of a set that the repo holds, rejected ones left out (inRepo),
\* by a track tr of p.
Held(p, keys, tr) == {k \in keys \cap repo[p] : tr[k].state # "rejected"}

\* Those that only an answer's forward brought, which the combiner has not
\* confirmed (dnskeyAwaitingAnswer).
AwaitingAnswer(p, keys, tr) ==
  {k \in keys : /\ tr[k].state = "pending"
                /\ \E r \in prc[p] : r[1] = tr[k].fwd /\ IsAnswer(r[2])}

NotHandedOver(n) == n.state \in {"failed", "ignored"}
InFlight(n) == n.state = "sent"
ForwardOfAnswer(p, f) == \E r \in prc[p] : r[1] = f /\ IsAnswer(r[2])

Confirm(d, p, status, done, ignored, rejected) ==
  [dist |-> d, peer |-> p, status |-> status, done |-> done, ignored |-> ignored, rejected |-> rejected]

\* heldSuccess: a success covers every key of the set, so one whose keys
\* are not all held is partial, and names those that are.
HeldSuccess(p, keys, tr, status) ==
  IF status = "ok" /\ Held(p, keys, tr) # keys THEN "partial" ELSE status

\* The confirmation of an update that changes nothing here: what is held.
NoOpConfirmation(p, d) ==
  LET keys == dists[d].keys
      stale == d < last[p]
      waiting == IF stale THEN AwaitingAnswer(p, Held(p, keys, track[p]), track[p]) ELSE {}
      held == Held(p, keys, track[p]) \ waiting
      ofAnswer == stale /\ InFlight(note[p])
      whole == HeldSuccess(p, keys, track[p], "ok") = "ok" /\ waiting = {} /\ note[p].state # "failed" /\ ~ofAnswer
  IN  Confirm(d, p,
        IF ~whole THEN "partial" ELSE IF note[p].state = "ignored" THEN "ignored" ELSE "ok",
        IF NotHandedOver(note[p]) \/ ofAnswer THEN {} ELSE held,
        IF note[p].state = "ignored" THEN held ELSE {}, {})

\* waitForCombiner: a distribution that waits already adds nothing.
WaitForCombiner(w, f, d) == IF \E x \in w : x[2] = d THEN w ELSE w \cup {<<f, d>>}

\* Mutant: a stale replace is confirmed while the hand-over is under way.
ProcessStaleAtOnce(p, d) ==
  /\ d < last[p]
  /\ confs' = confs \cup {Confirm(d, p, "ok", Held(p, dists[d].keys, track[p]), {}, {})}
  /\ UNCHANGED <<waits, repo, last, track, note, forwards, handing, prc, own>>

\* A replace that is older than the newest taken is stale: it changes
\* nothing and is not handed over.
ProcessStale(p, d) ==
  /\ d < last[p]
  /\ IF InFlight(note[p]) /\ ~ForwardOfAnswer(p, note[p].fwd)
     THEN waits' = [waits EXCEPT ![p] = WaitForCombiner(@, note[p].fwd, d)] /\ UNCHANGED confs
     ELSE confs' = confs \cup {NoOpConfirmation(p, d)} /\ UNCHANGED waits
  /\ UNCHANGED <<repo, last, track, note, forwards, handing, prc, own>>

\* A fresh replace is a change when the set differs or the combiner rejected
\* one of its keys; an unchanged one is handed over again while the last
\* hand-over failed or is not confirmed.
Changes(p, keys) == keys # repo[p] \/ \E k \in keys : track[p][k].state = "rejected"
\* Mutant: an unchanged set is never handed over again.
GoesOnWhenChanged(p, d) == Changes(p, dists[d].keys)

GoesOn(p, d) == Changes(p, dists[d].keys) \/ NotHandedOver(note[p]) \/ InFlight(note[p])

\* The repo takes the set; the keys that left it are no longer tracked.
Kept(p, keys) == [k \in Key |-> IF k \in repo[p] \ keys THEN [state |-> "none", fwd |-> 0] ELSE track[p][k]]

HandOver(p, d) ==
  LET keys == dists[d].keys
      f == Len(forwards[p]) + 1
  IN  /\ f <= MaxFwd
      /\ forwards' = [forwards EXCEPT ![p] = Append(@, [keys |-> keys, dist |-> d])]
      /\ handing' = [handing EXCEPT ![p] = @ \cup {f}]
      /\ prc' = [prc EXCEPT ![p] = @ \cup {<<f, d>>}]
      /\ note' = [note EXCEPT ![p] = [fwd |-> f, state |-> "sent"]]
      /\ track' = [track EXCEPT ![p] = [k \in Key |->
           IF k \in keys /\ Kept(p, keys)[k].state # "accepted"
           THEN [state |-> "pending", fwd |-> f] ELSE Kept(p, keys)[k]]]
      /\ UNCHANGED events

\* The queue to the combiner takes nothing: no confirmation is sent, and
\* what the combiner has no send of is marked not held.
HandOverFails(p, d) ==
  LET keys == dists[d].keys
  IN  /\ Happens("full")
      /\ note' = [note EXCEPT ![p] = [fwd |-> 0, state |-> "failed"]]
      /\ track' = [track EXCEPT ![p] = [k \in Key |->
           IF k \in keys /\ Kept(p, keys)[k].state \notin {"accepted", "pending"}
           THEN [Kept(p, keys)[k] EXCEPT !.state = "rejected"] ELSE Kept(p, keys)[k]]]
      /\ UNCHANGED <<forwards, handing, prc>>

ProcessFresh(p, d) ==
  /\ d >= last[p]
  /\ last' = [last EXCEPT ![p] = d]
  /\ IF GoesOn(p, d)
     THEN /\ repo' = [repo EXCEPT ![p] = dists[d].keys]
          /\ own' = [own EXCEPT ![p].fit = FALSE]
          /\ HandOver(p, d) \/ HandOverFails(p, d)
          /\ UNCHANGED confs
     ELSE /\ confs' = confs \cup {NoOpConfirmation(p, d)}
          /\ UNCHANGED <<repo, own, track, note, forwards, handing, prc, events>>
  /\ UNCHANGED waits

\* The peer is at work on distribution d, or its confirmation is on its way.
Busy(p, d) ==
  \/ \E c \in confs : c.dist = d /\ c.peer = p
  \/ \E r \in prc[p] \cup waits[p] : r[2] = d /\ (r[1] \in handing[p] \/ \E w \in words[p] : w.fwd = r[1])

\* The reliable queue sends what is not settled, and sends it again when no
\* final word comes. A delayed copy, a resend to a peer at work included,
\* may come at any time.
DeliverGenericMessage(p, d) ==
  \/ <<d, p>> \in queue /\ ~Busy(p, d) /\ UNCHANGED net
  \/ <<d, p>> \in net /\ net' = net \ {<<d, p>>}

\* A distribution reaches the peer's data engine.
ApplyRemoteUpdate(p, d) ==
  /\ DeliverGenericMessage(p, d)
  /\ \/ ProcessFresh(p, d)
     \/ ProcessStale(p, d) /\ UNCHANGED events
  /\ UNCHANGED <<sender, words, combiner>>

\* A mutant: the word's status is kept as it came.
NoteAfterRaw(p, w) == IF note[p].fwd # w.fwd THEN note[p] ELSE [note[p] EXCEPT !.state = w.status]

\* The note on the last hand-over, after the combiner's word on forward f.
NoteAfter(p, w) ==
  IF note[p].fwd # w.fwd THEN note[p]
  ELSE IF w.status = "ok" THEN [note[p] EXCEPT !.state = "confirmed"]
  ELSE [fwd |-> 0, state |-> IF w.ignored # {} /\ w.applied \cup w.removed = {} THEN "ignored" ELSE "failed"]

\* The tracked keys of forward f, after the combiner's word on it.
TrackAfter(p, w) ==
  [k \in Key |->
     IF track[p][k].state # "pending" \/ track[p][k].fwd # w.fwd THEN track[p][k]
     ELSE IF k \in w.applied THEN [track[p][k] EXCEPT !.state = "accepted"]
     ELSE IF k \in w.ignored THEN [track[p][k] EXCEPT !.state = "ignored"]
     ELSE IF k \in w.rejected THEN [track[p][k] EXCEPT !.state = "rejected"]
     ELSE track[p][k]]

\* The confirmation that relays the combiner's word to the sender.
Relayed(p, w, d, tr) ==
  LET applied == IF w.status = "ok" /\ w.applied = {} THEN repo[p] ELSE w.applied
      status == HeldSuccess(p, dists[d].keys, tr, w.status)
      missing == IF w.status = "ok" THEN dists[d].keys \ Held(p, dists[d].keys, tr) ELSE {}
  IN  Confirm(d, p, status, (applied \ missing) \cup w.removed, w.ignored, w.rejected)

\* The final confirmation of a stale replace that waited for the word w.
Released(p, w, d, tr, n) ==
  LET keys == dists[d].keys
      waiting == AwaitingAnswer(p, Held(p, keys, tr), tr)
      held == Held(p, keys, tr) \ waiting
      whole == w.status = "ok" /\ Held(p, keys, tr) = keys /\ waiting = {} /\ ~NotHandedOver(n)
  IN  IF w.status = "ignored" THEN Confirm(d, p, "ignored", {}, held, {})
      ELSE Confirm(d, p, IF whole THEN "ok" ELSE "partial",
             IF NotHandedOver(n) THEN {} ELSE IF w.status = "ok" THEN held ELSE held \cap w.applied,
             IF n.state = "ignored" THEN held ELSE {}, {})

\* The combiner's word reaches the data engine: the note, the tracked keys,
\* the relay to the sender, and the stale replaces that waited for it. One
\* whose set has been handed over again since waits for that in turn.
ProcessConfirmation(p, w) ==
  LET tr == TrackAfter(p, w)
      n == NoteAfter(p, w)
      relays == {r \in prc[p] : r[1] = w.fwd}
      still == {x \in waits[p] : \A r \in relays : r[2] # x[2]}
      mine == {x \in still : x[1] = w.fwd}
      again == InFlight(n) /\ n.fwd # w.fwd
  IN  /\ w \in words[p]
      /\ words' = [words EXCEPT ![p] = @ \ {w}]
      /\ handing' = [handing EXCEPT ![p] = @ \ {w.fwd}]
      /\ note' = [note EXCEPT ![p] = n]
      /\ track' = [track EXCEPT ![p] = tr]
      /\ prc' = [prc EXCEPT ![p] = @ \ relays]
      /\ waits' = [waits EXCEPT ![p] = (still \ mine) \cup IF again THEN {<<n.fwd, x[2]>> : x \in mine} ELSE {}]
      /\ confs' = confs \cup {Relayed(p, w, r[2], tr) : r \in relays}
                        \cup IF again THEN {} ELSE {Released(p, w, x[2], tr, n) : x \in mine}
      /\ own' = [own EXCEPT ![p].fit = @ /\ note[p].fwd # w.fwd]
      /\ UNCHANGED <<sender, net, repo, last, forwards, combiner, events>>

\* The word is lost: the queue to the combiner sends the forward again.
LoseWord(p, w) ==
  /\ w \in words[p] /\ Happens("lose")
  /\ words' = [words EXCEPT ![p] = @ \ {w}]
  /\ UNCHANGED <<sender, net, confs, agent, own, combiner>>

\* The channel to the data engine is full: the queue's entry is settled, the
\* word is gone.
DropWord(p, w) ==
  /\ w \in words[p] /\ Happens("drop")
  /\ words' = [words EXCEPT ![p] = @ \ {w}]
  /\ handing' = [handing EXCEPT ![p] = @ \ {w.fwd}]
  /\ UNCHANGED <<sender, net, confs, repo, last, track, note, forwards, prc, waits, own, combiner>>

\* The peer's agent restarts: the newest origin is on disk, all else is in
\* memory; it reads its combiner before anything else, or later.
AgentRestarts(p) ==
  /\ Happens("agentRestart")
  /\ repo' = [repo EXCEPT ![p] = {}]
  /\ track' = [track EXCEPT ![p] = [k \in Key |-> [state |-> "none", fwd |-> 0]]]
  /\ note' = [note EXCEPT ![p] = NoNote]
  /\ handing' = [handing EXCEPT ![p] = {}]
  /\ prc' = [prc EXCEPT ![p] = {}] /\ waits' = [waits EXCEPT ![p] = {}]
  /\ own' = [own EXCEPT ![p] = NotRead]
  /\ lost' = [lost EXCEPT ![p] = @ \cup {"agent"}]
  /\ UNCHANGED <<sender, net, confs, last, forwards, words, holds, served, newest, takes>>

\* The own read: the request, the combiner's answer, and its use. A set the
\* engine changed, or whose change the combiner confirmed, since the request
\* was sent is left alone (mayApplyOwnRead).
AskOwn(p) ==
  /\ own[p].state = "none"
  /\ own' = [own EXCEPT ![p] = [state |-> "asked", keys |-> {}, fit |-> note[p].state \in {"none", "confirmed"}]]
  /\ UNCHANGED <<sender, net, confs, agent, words, combiner, events>>

EditsAnswer(p) ==
  /\ own[p].state = "asked"
  /\ own' = [own EXCEPT ![p].state = "answered", ![p].keys = holds[p]]
  /\ UNCHANGED <<sender, net, confs, agent, words, combiner, events>>

\* The records read are taken as accepted; those not read go, unless they
\* are pending.
ApplyOwnRead(p) ==
  LET stays == {k \in repo[p] : track[p][k].state = "pending"}
      keys == own[p].keys
  IN  /\ own[p].state = "answered"
      /\ own' = [own EXCEPT ![p] = [NotRead EXCEPT !.state = "read"]]
      /\ IF own[p].fit
         THEN /\ repo' = [repo EXCEPT ![p] = keys \cup stays]
              /\ track' = [track EXCEPT ![p] = [k \in Key |->
                   IF k \in keys \ repo[p] THEN [state |-> "accepted", fwd |-> 0]
                   ELSE IF k \in repo[p] \ (keys \cup stays) THEN [state |-> "none", fwd |-> 0]
                   ELSE track[p][k]]]
         ELSE UNCHANGED <<repo, track>>
      /\ UNCHANGED <<sender, net, confs, last, note, forwards, handing, prc, waits, words, combiner, events>>

-----------------------------------------------------------------------------
(* A peer's combiner. *)

\* Its word on a forward of the set keys, where it had old.
WordOn(f, keys, old, taken, published) ==
  LET named == IF keys \ old # {} THEN keys \ old ELSE keys
      none == [fwd |-> f, status |-> "ok", applied |-> {}, removed |-> {}, ignored |-> {}, rejected |-> {}]
  IN  CASE taken = "reject" -> [none EXCEPT !.status = "failed", !.rejected = keys]
        [] taken = "stale" -> none
        [] taken = "ignore" -> [none EXCEPT !.status = IF named = {} THEN "ok" ELSE "ignored", !.ignored = named]
        [] OTHER -> [none EXCEPT !.status = IF published THEN "ok" ELSE "partial",
                                 !.applied = named, !.removed = old \ keys]

\* Mutant: a forward that comes after a newer one is taken.
TakenInAnyOrder(p, f) ==
  IF takes[p] = "reject" /\ forwards[p][f].keys # {} THEN "reject"
  ELSE IF takes[p] = "ignore" THEN "ignore" ELSE "apply"

\* What the combiner does with a forward: rejected where it holds the sender
\* for no signer (a removal is not judged), stale where a newer one was taken.
TakenAs(p, f) ==
  IF takes[p] = "reject" /\ forwards[p][f].keys # {} THEN "reject"
  ELSE IF newest[p] > f THEN "stale"
  ELSE IF takes[p] = "ignore" THEN "ignore" ELSE "apply"

\* A forward reaches the combiner: left alone, or stored, and served where its
\* policy applies the type. The publishing may fail: stored, not served.
CombinerProcessOperations(p, f) ==
  LET keys == forwards[p][f].keys
      taken == TakenAs(p, f)
  IN  /\ f \in handing[p] /\ \A w \in words[p] : w.fwd # f
      /\ \E published \in BOOLEAN :
           /\ IF published THEN UNCHANGED events ELSE taken = "apply" /\ keys # holds[p] /\ Happens("publish")
           /\ lost' = [lost EXCEPT ![p] = IF published THEN @ ELSE @ \cup {"publish"}]
           /\ words' = [words EXCEPT ![p] = @ \cup {WordOn(f, keys, holds[p], taken, published)}]
           /\ IF taken \in {"apply", "ignore"}
              THEN /\ holds' = [holds EXCEPT ![p] = keys]
                   /\ newest' = [newest EXCEPT ![p] = f]
                   /\ served' = [served EXCEPT ![p] = IF taken = "apply" /\ published THEN keys ELSE @]
              ELSE UNCHANGED <<holds, newest, served>>
      /\ UNCHANGED <<sender, net, confs, agent, own, takes>>

\* The combiner restarts: what it stored is on disk, the newest forward it
\* took is not.
CombinerRestarts(p) ==
  /\ Happens("combinerRestart")
  /\ newest' = [newest EXCEPT ![p] = 0]
  /\ served' = [served EXCEPT ![p] = IF takes[p] = "apply" THEN holds[p] ELSE {}]
  /\ lost' = [lost EXCEPT ![p] = @ \cup {"combiner"}]
  /\ UNCHANGED <<sender, net, confs, agent, words, own, holds, takes>>

\* The owner's zone changes who signs, by the combiner's copy of it.
PolicyChanges(p) ==
  /\ Happens("policy")
  /\ \E t \in {"apply", "reject", "ignore"} \ {takes[p]} :
       /\ takes' = [takes EXCEPT ![p] = t]
       /\ served' = [served EXCEPT ![p] = IF t = "apply" THEN holds[p] ELSE {}]
  /\ UNCHANGED <<sender, net, confs, agent, words, own, holds, newest, lost>>

-----------------------------------------------------------------------------
SenderNext ==
  \/ \E k \in Key : ApplyLocalUpdate(k) \/ Resend(k)
  \/ \E p \in Peer : CatchUpAnswer(p) \/ RoleEnds(p)
  \/ \E d \in Dist, p \in Peer : CopyIsDelayed(d, p)
  \/ \E c \in confs : ProcessDnskeyConfirmation(c) \/ LoseConfirmation(c)
  \/ \E d \in Dist : DnskeyNoRoleTimedOut(d)
  \/ SenderRestarts

AgentNext(p) ==
  \/ \E d \in Dist : ApplyRemoteUpdate(p, d)
  \/ \E w \in words[p] : ProcessConfirmation(p, w) \/ LoseWord(p, w) \/ DropWord(p, w)
  \/ AgentRestarts(p)
  \/ AskOwn(p)
  \/ EditsAnswer(p)
  \/ ApplyOwnRead(p)

CombinerNext(p) ==
  \/ \E f \in 1..MaxFwd : CombinerProcessOperations(p, f)
  \/ CombinerRestarts(p)
  \/ PolicyChanges(p)

Next == SenderNext \/ \E p \in Peer : AgentNext(p) \/ CombinerNext(p)

Spec == Init /\ [][Next]_vars

\* What the queues, the engines and the timers do in the end: every step
\* that is neither a change, nor a fault, nor a delayed copy.
Progress ==
  \/ \E c \in confs : ProcessDnskeyConfirmation(c)
  \/ \E d \in Dist : DnskeyNoRoleTimedOut(d)
  \/ \E p \in Peer :
       \/ \E d \in Dist : <<d, p>> \in queue /\ ApplyRemoteUpdate(p, d)
       \/ \E w \in words[p] : ProcessConfirmation(p, w)
       \/ AskOwn(p) \/ EditsAnswer(p) \/ ApplyOwnRead(p)
       \/ \E f \in 1..MaxFwd : CombinerProcessOperations(p, f)

FairSpec == Spec /\ WF_vars(Progress)

-----------------------------------------------------------------------------
(* Properties. *)

\* The signing providers a word to the signer speaks for, those that the
\* owner has not taken out of the zone since.
Confirmers(t) == {p \in dists[t.dist].signing : role[p] = "signs"}

\* The sender has sent a set without, or with, k since distribution d.
GoneSince(k, d) == \E e \in (d + 1)..Len(dists) : k \notin dists[e].keys
BackSince(k, d) == \E e \in (d + 1)..Len(dists) : k \in dists[e].keys

\* The distributions whose answers count for d: itself and, when it sends the
\* same keys again, the same ones before it, of which late answers count.
Resent(d) == d > 1 /\ dists[d].keys = dists[d - 1].keys
Sent(d) == {d} \cup {e \in 1..(d - 1) : Resent(d) /\ dists[e].tags = dists[d].tags /\ dists[e].gone = dists[d].gone}

\* When the signer is told that a key is propagated, which lets it sign with
\* it, every signing provider's combiner holds the key, unless the sender has
\* removed it again since it sent it: whatever resends, late and stale
\* confirmations, answers and restarts of the agents came in between.  A
\* combiner that restarted is left out: see the README.
PropagatedMeansHeld ==
  [][\A t \in told' \ told : t.kind = "propagated" =>
       \A p \in Confirmers(t)' :
         "combiner" \in lost[p] \/ t.key \in holds[p] \/ \E d \in Sent(t.dist)' : GoneSince(t.key, d)']_vars

\* When the signer is told that a key is removed, which lets it forget the
\* key, no signing provider's combiner holds it, unless the sender has sent
\* it again.  A peer whose agent or combiner restarted is left out here.
RemovedMeansGone ==
  [][\A t \in told' \ told : t.kind = "removed" =>
       \A p \in Confirmers(t)' :
         \/ lost[p] \cap {"agent", "combiner"} # {} \/ t.key \notin holds[p]
         \/ \E d \in Sent(t.dist)' : BackSince(t.key, d)']_vars

\* Nothing is under way at p.
Quiet(p) == handing[p] = {} /\ words[p] = {} /\ own[p].state = "read" /\ note[p].state \in {"none", "confirmed"}

\* The detail implements the promise: each combiner holds one whole set that
\* was sent and goes to newer ones only, though the agents' queues deliver in
\* any order, twice, and across the agents' restarts.
Store == INSTANCE KeyStore WITH
  sets <- [d \in 1..Len(dists) |-> dists[d].keys],
  version <- [p \in Peer |-> IF newest[p] = 0 THEN 0 ELSE forwards[p][newest[p]].dist],
  held <- holds
ImplementsKeyStore == Store!Spec

\* The tracking of a set that no later one replaces ends: the signer is told
\* of each of its keys, though confirmations and words are lost, queues are
\* full, and the parts restart.  A publishing that failed is left out: its
\* answer is PARTIAL and only the signer's next resend ends the tracking.
LatestPropagationEnds ==
  \A d \in Dist :
    <>[](d \in open => \/ \E e \in (d + 1)..Len(dists) : dists[e].to = Everyone
                       \/ \E p \in Peer : "publish" \in lost[p] \/ Len(forwards[p]) = MaxFwd)
=============================================================================
