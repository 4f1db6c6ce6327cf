------------------------------ MODULE Combiner ------------------------------
(***************************************************************************)
(* The combiner of one multi-provider zone: what the agents contribute,    *)
(* what is kept of it on disk, and what the zone serves.                   *)
(*                                                                         *)
(* The contributions are kept per sender and merged; a combine projects    *)
(* the merge, the upstream's apex and the clean-ups that are due onto the  *)
(* served zone.  The message loop and the management API change the        *)
(* contributions under the zone's lock, and combine after they have let    *)
(* it go: a combine copies the merge first, and takes the clean-ups and    *)
(* writes the zone after.  combineMu lets one combine at a time through.   *)
(*                                                                         *)
(* A record type's contributions are sets of small numbers; a CSYNC's      *)
(* number is its serial.  The age of an update (staleCombinerReplace) is   *)
(* in module KeyDistribution: here updates arrive in the order made.       *)
(***************************************************************************)
EXTENDS Naturals, FiniteSets, FiniteSetsExt

CONSTANTS Agent,      \* the agents that contribute
          Mine,       \* the combiner's own agent, one of them
          Self,       \* the combiner's identity, the sender of an old build's CSYNC
          Type,       \* the record types
          RecordOf,   \* the records of each type
          Single,     \* the types an update carries one record of at most
          SerialMod,  \* CSYNC serials count modulo this (2^32)
          Upstreams,  \* what the upstream's apex may have, of each type
          Standing,   \* by the serial handed: "signer", "unsigned", "bystander"
          Signers,    \* by the serial handed: the senders whose keys are taken
          Manual,     \* whether edits may wait for an operator
          Event,      \* the operations and faults that happen
          MaxEvents   \* bound: how many of them

ASSUME TypeAssumption == Type \subseteq {"NS", "DNSKEY", "CDS", "KEY", "CSYNC"}
ASSUME AgentAssumption == Mine \in Agent /\ {Self, "local"} \cap Agent = {} /\ Self # "local"
ASSUME UpstreamAssumption ==
    Upstreams # {} /\ \A u \in Upstreams : u = [t \in Type |-> u[t]] /\ ("NS" \in Type => u["NS"] # {})
ASSUME StandingAssumption ==
    0 \in DOMAIN Standing /\ Standing \in [DOMAIN Standing -> {"signer", "unsigned", "bystander"}]
ASSUME ManualAssumption == Manual \subseteq BOOLEAN
ASSUME BoundAssumption == MaxEvents \in Nat /\ SerialMod \in Nat \ {0}

VARIABLES
  contrib,   \* each sender's contribution of each type (AgentContributions)
  merged,    \* the merge of them (CombinerData)
  disk,      \* the stored contributions (CombinerContributions)
  loaded,    \* they were read since the start (ContributionsRead)
  upstream,  \* the upstream's apex (UpstreamData)
  served,    \* the zone as served
  cleanups,  \* types whose last contribution may be gone (pendingCleanups)
  at,        \* where the loop and the API are
  copy,      \* what a combine under way has copied (combineInput)
  handed,    \* the serial the combiner acts by, 0 for its own copy
  owed,      \* whether the hand-over's combine is under way or to be made again
  manual,    \* the zone's edits wait for an operator (OptMPManualApproval)
  edits,     \* the edits that wait, and those approved
  said,      \* what a sender was last told is applied (history)
  past,      \* of it, the CSYNCs another has taken the place of (history)
  unsaved,   \* contributions a failed save or an unread store left off disk (history)
  missed,    \* types whose clean-up no combine makes any more (history)
  behind,    \* a merge no combine is to be made of (history)
  events

memory == <<contrib, merged, loaded>>
history == <<said, past, unsaved, missed, behind>>
vars == <<memory, disk, upstream, served, cleanups, at, copy, handed, owed, manual, edits,
          history, events>>

Sender == Agent \cup {Self, "local"}
Proc == {"loop", "api"}
Record == (UNION {RecordOf[t] : t \in Type}) \cup (UNION {u[t] : u \in Upstreams, t \in Type})
Serial == DOMAIN Standing
RRsets == [Type -> SUBSET Record]
Edit == [sender : Agent, type : Type, records : SUBSET Record]
Empty == [t \in Type |-> {}]
NoCopy == [merged |-> Empty, upstream |-> Empty, applies |-> {}]

TypeOK ==
    /\ contrib \in [Sender -> RRsets] /\ disk \in [Sender -> RRsets]
    /\ merged \in RRsets /\ served \in RRsets /\ upstream \in RRsets
    /\ loaded \in BOOLEAN /\ cleanups \subseteq Type
    /\ at \in [Proc -> {"idle", "combine", "stage"}]
    /\ \A p \in Proc : at[p] # "stage" => copy[p] = NoCopy
    /\ Cardinality({p \in Proc : at[p] = "stage"}) <= 1
    /\ handed \in Serial /\ owed \in {"no", "now", "again"}
    /\ manual \in BOOLEAN /\ DOMAIN edits = {"pending", "approved"}
    /\ edits["pending"] \cup edits["approved"] \subseteq Edit
    /\ \A w \in said \cup past : w[1] \in Sender /\ w[2] \in Type /\ w[3] \subseteq Record
    /\ unsaved \subseteq Sender \X Type /\ missed \subseteq Type /\ behind \in BOOLEAN
    /\ events \in 0..MaxEvents

-----------------------------------------------------------------------------
(***************************************************************************)
(* What the combiner may apply, and the merge.                             *)
(***************************************************************************)

\* The types the edit policy lets the combiner apply (canApply).
AppliesBy(standing) ==
    CASE standing = "signer" -> Type
      [] standing = "unsigned" -> Type \ {"DNSKEY", "CDS", "CSYNC"}
      [] standing = "bystander" -> {}

Applies == AppliesBy(Standing[handed])

\* The combiner edits the zone at all (combinerShouldApplyEdits, allow-edits).
Edits(standing) == standing # "bystander"

\* By the sets handed the zone may carry s's records of type t; with nothing
\* handed nothing is judged.
HandedOrigin(h, s, t) == h # 0 /\ t \in {"DNSKEY", "CDS"} => s \in Signers[h]

\* RFC 1982.
SerialNewer(a, b) == a # b /\ 2 * ((a + SerialMod - b) % SerialMod) < SerialMod

\* A CSYNC and its sender supersede another: the combiner's own is the oldest.
Supersedes(x, y) ==
    IF (x.sender = Self) # (y.sender = Self) THEN y.sender = Self
    ELSE SerialNewer(x.serial, y.serial)

CsyncsHeld(c) ==
    UNION {{[sender |-> s, serial |-> n] : n \in c[s]["CSYNC"]} : s \in Sender}

\* The one served: none supersedes it, and of two that do not supersede each
\* other the choice is the same at every pass.
CsyncToServe(c) ==
    LET held == CsyncsHeld(c)
        best == {x \in held : \A y \in held : ~Supersedes(y, x)}
    IN CHOOSE x \in held : best # {} => x \in best

\* The merge of the contributions c, by the hand-over h.
RebuildCombinerData(c, h) ==
    [t \in Type |->
       IF t = "CSYNC"
       THEN IF CsyncsHeld(c) = {} THEN {} ELSE {CsyncToServe(c).serial}
       ELSE UNION {c[s][t] : s \in {x \in Sender : HandedOrigin(h, x, t)}}]

\* The types of which it leaves a contribution out, noted for a clean-up.
LeftOut(c, h) == {t \in Type : \E s \in Sender : c[s][t] # {} /\ ~HandedOrigin(h, s, t)}

\* The upstream's zone u with the merge on it, as a combiner that edits
\* serves it.
OnDraft(u, m, h) ==
    IF ~Edits(Standing[h]) THEN u
    ELSE [t \in Type |-> IF m[t] # {} /\ t \in AppliesBy(Standing[h])
                         THEN m[t] \cup (IF t = "NS" THEN u[t] ELSE {})
                         ELSE u[t]]

Init ==
    \E u \in Upstreams, legacy \in SUBSET RecordOf["CSYNC"] :
      /\ Cardinality(legacy) <= 1
      /\ contrib = [s \in Sender |-> IF s = Self THEN [Empty EXCEPT !["CSYNC"] = legacy] ELSE Empty]
      /\ disk = contrib /\ loaded = TRUE
      /\ merged = RebuildCombinerData(contrib, 0)
      /\ upstream = u
      /\ served = OnDraft(u, merged, 0)
      /\ cleanups = {} /\ at = [p \in Proc |-> "idle"] /\ copy = [p \in Proc |-> NoCopy]
      /\ handed = 0 /\ owed = "no"
      /\ manual \in Manual /\ edits = [pending |-> {}, approved |-> {}]
      /\ said = {} /\ past = {} /\ unsaved = {} /\ missed = {} /\ behind = FALSE
      /\ events = 0

Happens(e) == e \in Event /\ events < MaxEvents /\ events' = events + 1

-----------------------------------------------------------------------------
(***************************************************************************)
(* A change of the contributions: in memory and merged, then on disk for   *)
(* each sender it touches, whole (SaveContributions); the save fails for   *)
(* the senders that are not among ok.                                      *)
(***************************************************************************)

Touched(c) == {s \in Sender : c[s] # contrib[s]}

SavedChangedOnly(c, ok) ==
    [s \in Sender |-> IF s \in Touched(c) \cap ok
                      THEN [t \in Type |-> IF c[s][t] # contrib[s][t] THEN c[s][t] ELSE {}]
                      ELSE disk[s]]

SavedBy(c, ok) == [s \in Sender |-> IF s \in Touched(c) \cap ok THEN c[s] ELSE disk[s]]

Change(c, ok) ==
    /\ contrib' = c
    /\ merged' = RebuildCombinerData(c, handed)
    /\ disk' = SavedBy(c, ok)

\* What the disk does not have as memory has it, or as a sender was told: after
\* a save that failed, or because the store was not read.
OffDisk(s, t) == disk'[s][t] # contrib'[s][t] \/ \E w \in said' : w[1] = s /\ w[2] = t /\ w[3] # disk'[s][t]
Excused(ok) ==
    unsaved' = {p \in Sender \X Type : OffDisk(p[1], p[2]) /\ (p \in unsaved \/ p[1] \notin ok \/ ~loaded)}

\* The types a change takes records of from a sender.
Changed(c) == {t \in Type : \E s \in Sender : c[s][t] # contrib[s][t]}

\* The change's clean-ups: noted, or lost with the error of its save.
NoteCleanups(c, noted) ==
    /\ cleanups' = cleanups \cup noted \cup LeftOut(c, handed)
    /\ missed' = missed \cup {t \in Changed(c) \ cleanups' : merged'[t] = {} /\ merged[t] # {}}

\* The caller combines next, or leaves the merge as it is.
ThenCombine(p, combines) ==
    /\ at' = [at EXCEPT ![p] = IF combines THEN "combine" ELSE "idle"]
    /\ behind' = (behind \/ (~combines /\ merged' # merged))

\* The answer to s: R is applied, or not; the words that others have of
\* CSYNCs dropped for it are past, until a holder gives its own another serial.
Answer(s, t, words, dropped) ==
    /\ said' = {w \in said : ~(w[2] = t /\ w[1] \in dropped \cup {s})} \cup words
    /\ past' = IF t # "CSYNC" THEN past
               ELSE (IF contrib[s][t] # {} THEN {} ELSE past) \cup {w \in said : w[2] = t /\ w[1] \in dropped}

Told(s, t, R) == Answer(s, t, {<<s, t, R>>}, {})
NotTold(s, t) == Answer(s, t, {}, {})

NothingChanges == UNCHANGED <<contrib, merged, disk, cleanups, missed, behind, at>>

With(s, t, R) == [contrib EXCEPT ![s][t] = R]

\* The other sender whose contribution of the type is looked at, any one of
\* those that have one (findExistingContribution), and Nobody if none has.
Nobody == "nobody"
Existing(s, t) ==
    LET others == {o \in Sender \ {s} : contrib[o][t] # {}}
    IN IF t \in {"KEY", "CDS"} /\ others # {} THEN others ELSE {Nobody}

SameAs(o, t, R) == o # Nobody /\ R # {} /\ contrib[o][t] = R

\* The loop takes an update's REPLACE of s's records of type t.  A KEY or a
\* CDS that the combiner's own agent holds is not held for another too: the
\* other's goes, and comes back when that cannot be stored.
Duplicate(s, t, R, ok) ==
    LET c == With(s, t, {})
    IN \/ /\ s \in ok \/ contrib[s][t] = {}
          /\ Change(c, ok)
          /\ NoteCleanups(c, Changed(c))
          /\ ThenCombine("loop", Changed(c) # {} /\ t \in Applies)
          /\ NotTold(s, t)
       \/ /\ s \notin ok /\ contrib[s][t] # {}
          /\ cleanups' = cleanups \cup {t} \cup LeftOut(contrib, handed)
          /\ NotTold(s, t)
          /\ UNCHANGED <<contrib, merged, disk, missed, behind, at>>

CsyncNeverRefused(s, t, R) == FALSE

\* A CSYNC that another sender's supersedes is refused.
CsyncRefused(s, t, R) ==
    t = "CSYNC" /\ \E x \in CsyncsHeld(contrib), n \in R :
                      x.sender # s /\ Supersedes(x, [sender |-> s, serial |-> n])

\* The senders whose contribution goes with the REPLACE: those of the CSYNCs
\* that a stored one supersedes, and o's of the own agent's same CDS.
Dropped(s, o, t, R, saved) ==
    CASE t = "CSYNC" /\ R # {} /\ saved -> {x.sender : x \in CsyncsHeld(contrib)} \ {s}
      [] t # "CSYNC" /\ s = Mine /\ SameAs(o, t, R) -> {o}
      [] OTHER -> {}

\* The REPLACE changed the zone's data as the loop counts it: the sender's own
\* contribution, or a superseded CSYNC that was also taken off the disk.
DropsOrTakes(s, t, R, drop, ok) ==
    contrib[s][t] # R \/ (t = "CSYNC" /\ drop \cap ok # {})

\* A REPLACE that changes nothing of the sender's is confirmed as it is; one
\* whose save fails stays in memory, with nobody to combine it.
Replace(s, o, t, R, ok) ==
    LET saved == s \in ok \/ contrib[s][t] = R
        drop == Dropped(s, o, t, R, saved)
        c == [x \in Sender |-> IF x = s THEN [contrib[s] EXCEPT ![t] = R]
                               ELSE IF x \in drop THEN [contrib[x] EXCEPT ![t] = {}]
                               ELSE contrib[x]]
    IN /\ Change(c, ok)
       /\ NoteCleanups(c, Changed(c))
       /\ ThenCombine("loop", saved /\ t \in Applies /\ DropsOrTakes(s, t, R, drop, ok))
       /\ Answer(s, t, IF saved THEN {<<s, t, R>>} ELSE {}, drop)

TakeReplace(s, t, R, ok) ==
    \E o \in Existing(s, t) :
      \/ /\ o = Mine /\ SameAs(o, t, R)
         /\ Duplicate(s, t, R, ok)
      \/ /\ ~(o = Mine /\ SameAs(o, t, R)) /\ CsyncRefused(s, t, R)
         /\ NotTold(s, t) /\ NothingChanges
      \/ /\ ~(o = Mine /\ SameAs(o, t, R)) /\ ~CsyncRefused(s, t, R)
         /\ Replace(s, o, t, R, ok)

\* An ADD puts records beside those held; a DELETE takes them away, and notes
\* no clean-up when its save fails.
Add(p, s, t, R, ok) ==
    LET c == With(s, t, contrib[s][t] \cup R)
    IN /\ Change(c, ok) /\ NoteCleanups(c, {})
       /\ ThenCombine(p, c # contrib /\ s \in ok /\ (p = "api" \/ t \in Applies))
       /\ IF s \in ok \/ c = contrib THEN Told(s, t, c[s][t]) ELSE NotTold(s, t)

Delete(s, t, R, ok) ==
    LET c == With(s, t, contrib[s][t] \ R)
    IN /\ Change(c, ok)
       /\ NoteCleanups(c, IF s \in ok THEN Changed(c) ELSE {})
       /\ ThenCombine("loop", c # contrib /\ s \in ok /\ t \in Applies)
       /\ IF s \in ok \/ c = contrib THEN Told(s, t, c[s][t]) ELSE NotTold(s, t)

-----------------------------------------------------------------------------
(***************************************************************************)
(* The message loop.                                                       *)
(***************************************************************************)

\* A provider that does not sign contributes no DNSKEY (checkDNSKEYPolicy).
KeyRefused(s, t, R) == t = "DNSKEY" /\ R # {} /\ t \in Applies /\ handed # 0 /\ s \notin Signers[handed]

\* An operation that would change nothing (IsNoOpOperations): a REPLACE by the
\* sender's own contribution, the others by what is served or merged.
NoOp(s, t, op, R) ==
    CASE op = "replace" -> contrib[s][t] = R
      [] op = "add" -> R \subseteq served[t] \cup merged[t]
      [] op = "delete" -> R \cap (served[t] \cup merged[t]) = {}

\* CombinerProcessUpdate with one operation, stored by the senders among ok.
CombinerProcessUpdate(s, t, op, R, ok) ==
    /\ \/ /\ KeyRefused(s, t, R) /\ op # "delete"
          /\ NotTold(s, t) /\ NothingChanges
       \/ /\ ~(KeyRefused(s, t, R) /\ op # "delete")
          /\ \/ op = "replace" /\ TakeReplace(s, t, R, ok)
             \/ op = "add" /\ Add("loop", s, t, R, ok)
             \/ op = "delete" /\ Delete(s, t, R, ok)
    /\ Excused(ok)
    /\ UNCHANGED edits

\* On a zone with manual approval the edit waits for the operator, unless it
\* would change nothing; what is kept of it is its records.
AwaitsApproval(s, t, op, R) ==
    /\ IF NoOp(s, t, op, R)
       THEN UNCHANGED <<said, past, edits>>
       ELSE /\ edits' = [edits EXCEPT !["pending"] = @ \cup {[sender |-> s, type |-> t, records |-> R]}]
            /\ NotTold(s, t)
    /\ NothingChanges /\ UNCHANGED unsaved

\* The senders whose contributions can be saved at a step: all, none, or the
\* first of several saves and not the next.
Saves == {Sender} \cup (IF "saveFails" \in Event THEN {{}, {Mine}} ELSE {})

\* CombinerMsgHandler, an update of an agent's.
TakeUpdate(s, t, op, R) ==
    /\ at["loop"] = "idle" /\ Happens(op)
    /\ IF manual THEN AwaitsApproval(s, t, op, R)
       ELSE \E ok \in Saves : CombinerProcessUpdate(s, t, op, R, ok)
    /\ UNCHANGED <<loaded, upstream, served, copy, handed, owed, manual>>

\* A hand-over of the own agent's (combinerTakeHandover): an older one is
\* refused, the same one acts again only if its combine is owed.  The merge
\* is made again by the sets handed.
TakeHandover(h) ==
    /\ at["loop"] = "idle" /\ Happens("handover")
    /\ h = 0 \/ h >= handed
    /\ h # handed \/ owed = "again"
    /\ handed' = h
    /\ merged' = RebuildCombinerData(contrib, h)
    /\ cleanups' = cleanups \cup LeftOut(contrib, h)
    /\ owed' = IF Edits(Standing[h]) THEN "now" ELSE "no"
    /\ at' = [at EXCEPT !["loop"] = IF Edits(Standing[h]) THEN "combine" ELSE "idle"]
    /\ missed' = missed \cup {t \in Type : merged[t] # {} /\ merged'[t] = {} /\ t \notin cleanups'}
    /\ behind' = (behind \/ ~Edits(Standing[h]))
    /\ UNCHANGED <<contrib, loaded, disk, upstream, served, copy, manual, edits, said, past, unsaved>>

-----------------------------------------------------------------------------
(***************************************************************************)
(* The combine.                                                            *)
(***************************************************************************)

CopyStateUnlocked(p) ==
    /\ at[p] = "combine" /\ Edits(Standing[handed])
    /\ copy' = [copy EXCEPT ![p] = [merged |-> merged, upstream |-> upstream, applies |-> Applies]]
    /\ at' = [at EXCEPT ![p] = "stage"]
    /\ UNCHANGED <<memory, disk, upstream, served, cleanups, handed, owed, manual, edits, history, events>>

\* combineAndPublish begins: a combiner that does not edit drops the
\* clean-ups; one that does copies the merge, once combineMu is free.
CopyState(p) ==
    /\ at[p] = "combine"
    /\ \/ /\ ~Edits(Standing[handed])
          /\ cleanups' = {}
          /\ missed' = missed \cup cleanups
          /\ behind' = TRUE
          /\ at' = [at EXCEPT ![p] = "idle"]
          /\ owed' = IF p = "loop" /\ owed = "now" THEN "no" ELSE owed
          /\ UNCHANGED copy
       \/ /\ Edits(Standing[handed])
          /\ \A q \in Proc : at[q] # "stage"
          /\ copy' = [copy EXCEPT ![p] = [merged |-> merged, upstream |-> upstream, applies |-> Applies]]
          /\ at' = [at EXCEPT ![p] = "stage"]
          /\ UNCHANGED <<cleanups, missed, behind, owed>>
    /\ UNCHANGED <<memory, disk, upstream, served, handed, manual, edits, said, past, unsaved, events>>

AsUpstreamGone(in, t) == IF t = "NS" THEN served[t] ELSE {}

\* What the zone serves of type t after the combine in (combineInto,
\* servedAsUpstream, cleanupInto): the NS is never deleted.
AsUpstream(in, t) == IF t = "NS" /\ in.upstream[t] = {} THEN served[t] ELSE in.upstream[t]

Combined(in, due) ==
    [t \in Type |->
       IF in.merged[t] # {} /\ t \in in.applies
       THEN in.merged[t] \cup (IF t = "NS" THEN in.upstream[t] ELSE {})
       ELSE IF in.merged[t] # {} \/ t \in due THEN AsUpstream(in, t)
       ELSE served[t]]

\* The clean-ups a combine takes and does not make, since its copy still has
\* a contribution that is gone by now.
Overlooked(in) == {t \in cleanups : in.merged[t] # {} /\ merged[t] = {}}

\* The types it leaves as the merge has them.
Settled(in) ==
    {t \in Type : IF in.merged[t] = {} THEN t \in cleanups ELSE merged[t] # {}}

\* The clean-ups are taken and the zone is written in one batch, which is
\* published; when that fails they are put back.
Stage(p) ==
    /\ at[p] = "stage"
    /\ at' = [at EXCEPT ![p] = "idle"] /\ copy' = [copy EXCEPT ![p] = NoCopy]
    /\ \/ /\ served' = Combined(copy[p], cleanups)
          /\ cleanups' = {}
          /\ missed' = (missed \ Settled(copy[p])) \cup Overlooked(copy[p])
          /\ behind' = (behind /\ copy[p].merged # merged)
          /\ owed' = IF p = "loop" /\ owed = "now" THEN "no" ELSE owed
          /\ UNCHANGED events
       \/ /\ Happens("publishFails")
          /\ behind' = TRUE
          /\ owed' = IF p = "loop" /\ owed = "now" THEN "again" ELSE owed
          /\ UNCHANGED <<served, cleanups, missed>>
    /\ UNCHANGED <<memory, disk, upstream, handed, manual, edits, said, past, unsaved>>

-----------------------------------------------------------------------------
(***************************************************************************)
(* The management API, the refresh and the restart.                        *)
(***************************************************************************)

ApiAdd(t, R) ==
    /\ at["api"] = "idle" /\ Happens("apiAdd")
    /\ \E ok \in Saves : Add("api", "local", t, R, ok) /\ Excused(ok)
    /\ UNCHANGED <<loaded, upstream, served, copy, handed, owed, manual, edits>>

\* PurgeContributionsForOrigin, and its combine.
Purge(s) ==
    LET c == [contrib EXCEPT ![s] = Empty]
    IN /\ at["api"] = "idle" /\ Happens("purge")
       /\ contrib[s] # Empty
       /\ \E ok \in Saves :
            /\ Change(c, ok)
            /\ NoteCleanups(c, IF s \in ok THEN Changed(c) ELSE {})
            /\ ThenCombine("api", s \in ok)
            /\ said' = {w \in said : w[1] # s} /\ past' = {}
            /\ Excused(ok)
       /\ UNCHANGED <<loaded, upstream, served, copy, handed, owed, manual, edits>>

\* The stored contributions are deleted, then those in memory; the zone goes
\* on serving them, with no clean-up noted.
ClearContributions ==
    LET none == [s \in Sender |-> Empty]
    IN /\ at["api"] = "idle" /\ Happens("clear")
       /\ disk' = none /\ contrib' = none
       /\ merged' = RebuildCombinerData(none, handed)
       /\ missed' = missed \cup {t \in Type : merged[t] # {}}
       /\ behind' = TRUE
       /\ said' = {} /\ past' = {} /\ unsaved' = {}
       /\ edits' = [pending |-> {}, approved |-> {}]
       /\ UNCHANGED <<loaded, upstream, served, cleanups, at, copy, handed, owed, manual>>

\* CombinerReapplyContributions, by the operator or for an agent's RFI EDITS
\* after a start that could not read the store: memory is as on disk again.
Reapply ==
    /\ at["api"] = "idle"
    /\ Happens("reapply") \/ (~loaded /\ UNCHANGED events)
    /\ loaded' = TRUE
    /\ contrib' = disk
    /\ merged' = RebuildCombinerData(disk, handed)
    /\ cleanups' = cleanups \cup LeftOut(disk, handed)
    /\ missed' = missed \cup {t \in Type \ cleanups' : merged[t] # {} /\ merged'[t] = {}}
    /\ at' = [at EXCEPT !["api"] = "combine"]
    /\ UNCHANGED <<disk, upstream, served, copy, handed, owed, manual, edits, said, past, unsaved, behind>>

ApprovePendingEdit(e) == [pending |-> edits["pending"] \ {e}, approved |-> edits["approved"] \cup {e}]
RejectPendingEdit(e) == [edits EXCEPT !["pending"] = @ \ {e}]

\* An approved edit is handed to CombinerProcessUpdate with the records kept
\* of it, which are no operations: it is refused, and its sender told so.
Approve(e) ==
    /\ at["api"] = "idle" /\ e \in edits["pending"]
    /\ edits' = ApprovePendingEdit(e)
    /\ NotTold(e.sender, e.type)
    /\ UNCHANGED <<memory, disk, upstream, served, cleanups, at, copy, handed, owed, manual, unsaved,
                   missed, behind, events>>

Reject(e) ==
    /\ at["api"] = "idle" /\ e \in edits["pending"]
    /\ edits' = RejectPendingEdit(e)
    /\ NotTold(e.sender, e.type)
    /\ UNCHANGED <<memory, disk, upstream, served, cleanups, at, copy, handed, owed, manual, unsaved,
                   missed, behind, events>>

\* A refresh: the upstream's apex is kept, the merge goes onto the incoming
\* zone (MPPreRefresh), which is then the zone served.
Refresh(u) ==
    /\ Happens("refresh")
    /\ \A q \in Proc : at[q] # "stage"
    /\ upstream' = u
    /\ served' = OnDraft(u, merged, handed)
    /\ IF Edits(Standing[handed])
       THEN cleanups' = {} /\ missed' = {} /\ behind' = FALSE
       ELSE UNCHANGED <<cleanups, behind>> /\ missed' = {}
    /\ UNCHANGED <<memory, disk, at, copy, handed, owed, manual, edits, said, past, unsaved>>

\* A restart: the contributions are restored before the first load, unless
\* the store cannot be read; the first load combines them.
Restart(reads) ==
    LET c == IF reads THEN disk ELSE [s \in Sender |-> Empty]
    IN /\ Happens("restart")
       /\ reads \/ "unread" \in Event
       /\ contrib' = c /\ loaded' = reads
       /\ merged' = RebuildCombinerData(c, handed)
       /\ served' = OnDraft(upstream, merged', handed)
       /\ cleanups' = {} /\ missed' = {} /\ behind' = FALSE
       /\ at' = [p \in Proc |-> "idle"] /\ copy' = [p \in Proc |-> NoCopy]
       /\ owed' = "no"
       /\ UNCHANGED <<disk, upstream, handed, manual, edits, said, past, unsaved>>

Updates(t) == {R \in SUBSET RecordOf[t] : t \in Single => Cardinality(R) <= 1}

Next ==
    \/ \E s \in Agent, t \in Type, op \in {"replace", "add", "delete"} :
         \E R \in Updates(t) : (op # "replace" => R # {}) /\ TakeUpdate(s, t, op, R)
    \/ \E h \in Serial : TakeHandover(h)
    \/ \E p \in Proc : CopyState(p) \/ Stage(p)
    \/ \E t \in Type : \E R \in Updates(t) \ {{}} : ApiAdd(t, R)
    \/ \E s \in Sender : Purge(s)
    \/ ClearContributions
    \/ Reapply
    \/ \E e \in edits["pending"] : Approve(e) \/ Reject(e)
    \/ \E u \in Upstreams : Refresh(u)
    \/ \E reads \in BOOLEAN : Restart(reads)

Spec == Init /\ [][Next]_vars

-----------------------------------------------------------------------------
(***************************************************************************)
(* What holds.                                                             *)
(***************************************************************************)

Quiet == \A p \in Proc : at[p] = "idle"

\* What the zone is to serve of type t.
Wanted(t) ==
    IF merged[t] # {} /\ t \in Applies
    THEN merged[t] \cup (IF t = "NS" THEN upstream[t] ELSE {})
    ELSE upstream[t]

\* When nobody is combining, the zone serves the merge of the contributions
\* where the policy lets the combiner apply it and the upstream's records
\* elsewhere (CombineWithLocalChanges), whatever combines, hand-overs,
\* refreshes and API calls overlapped.  Not claimed: a merge whose save or
\* publishing failed, and a type whose clean-up was lost.
ServedIsCombined ==
    Quiet /\ ~behind /\ Edits(Standing[handed])
      => \A t \in Type \ missed : served[t] = Wanted(t)

\* What a sender was told is applied is on disk (SaveContributions): a restart
\* brings it back.  Not claimed of a contribution whose save failed, or whose
\* store could not be read.
ConfirmedIsStored ==
    \A w \in said : <<w[1], w[2]>> \notin unsaved => disk[w[1]][w[2]] = w[3]

\* The zone's CSYNC is never older than one its agent was told is applied and
\* has not replaced since (csyncVerdict, csyncToServe): none of an agent that
\* led before comes back over it, whatever falls away, and across the wrap
\* too.  A holder may give its own CSYNC an older serial: it is not compared.
CsyncIsNewest ==
    \A w \in said \cup past :
      w[2] = "CSYNC" /\ w[1] \in Agent /\ loaded /\ unsaved = {} /\ contrib[Self]["CSYNC"] = {}
        => \A n \in w[3], m \in merged["CSYNC"] : ~SerialNewer(n, m)

=============================================================================
