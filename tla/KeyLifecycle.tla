---------------------------- MODULE KeyLifecycle ----------------------------
(***************************************************************************)
(* The key lifecycle of one multi-provider zone at one provider's signer:  *)
(* the transition table (mp_key_lifecycle.go), the driver that applies it  *)
(* to the key rows (mp_key_lifecycle_driver.go), the engine that runs the  *)
(* driver (mp_key_lifecycle_engine.go), the ds of the other providers'     *)
(* keys (mp_key_lifecycle_foreign.go), and the DS set the columns give     *)
(* (mp_key_lifecycle_owner.go).                                            *)
(*                                                                         *)
(* Around it, by how the code uses them: the agent that distributes the    *)
(* keys and aggregates the confirmations (KeyDistribution has its inside), *)
(* the other signers, the parent that takes the DS set a leader sends it,  *)
(* and the validators, which hold a DS set for its TTL.                    *)
(*                                                                         *)
(* A record m is the machine: the rows and the driver's notes.  An         *)
(* operator takes m to what one step of the driver makes of it, so a tick  *)
(* is one action, as it is under the driver's lock.  A tick finds some of  *)
(* the waits over; those of one DS TTL are over in the order they began.   *)
(***************************************************************************)
EXTENDS Naturals, Sequences, FiniteSets, FiniteSetsExt, SequencesExt

CONSTANTS Key,       \* key tags; 1 and 2 are the KSK and the ZSK the zone starts with
          Signer,    \* the other providers that may sign the zone
          Alg,       \* the algorithms the owner may name
          FirstAlg,  \* the one it starts with
          Standby,   \* the policy's standby count of each role
          AtParent,  \* the parent serves the first KSK's DS
          Dying,     \* the states a key may be written to as the signer dies
          Event,     \* the faults and changes that happen
          MaxLine,   \* bound: DS TTLs running at once
          MaxEvents  \* bound: how many of them and of the operator's commands

Role == {"KSK", "ZSK"}

ASSUME KeyAssumption == {1, 2} \subseteq Key /\ Key \subseteq Nat \ {0} /\ IsFiniteSet(Key)
ASSUME AlgAssumption == FirstAlg \in Alg
ASSUME StandbyAssumption == Standby \in [Role -> Nat]
ASSUME BoundAssumption == AtParent \in BOOLEAN /\ MaxLine \in Nat \ {0} /\ MaxEvents \in Nat
\* Between the rows of a promotion the signer does not die.
ASSUME DyingAssumption == Dying \subseteq {"created", "mpdist", "published", "standby", "mpremove", "removed"}

VARIABLES
  m,        \* the signer's machine for the zone
  sent,     \* the key set its agent has distributed last
  asked,    \* what the agent waits to hear of a key, and from whom
  answers,  \* the aggregated signals on their way to the signer
  serves,   \* the keys of this provider each other signer serves
  joined,   \* the signers that joined since a key was minted (history)
  listed,   \* the signers whose KSK the incoming zone carries
  parent,   \* the DS set the parent serves
  update,   \* the one a leader has sent it
  unseen,   \* the parent went back, and no tick has seen it yet
  line,     \* the DS TTLs that run, the oldest first
  events    \* events and commands so far

agent == <<sent, asked, answers, serves>>
above == <<parent, update, unseen>>
vars == <<m, agent, joined, listed, above, line, events>>

-----------------------------------------------------------------------------
(* The table's columns and what the rows say. *)

State == {"none", "created", "mpdist", "published", "standby", "active", "retired", "mpremove", "removed"}
OnItsWay == {"created", "mpdist", "published", "standby"}
Pub(state) == state \in {"mpdist", "published", "standby", "active", "retired"}
DsOf(state, role, withdrawn) ==
  IF role = "KSK" /\ (state = "standby" \/ (state \in {"active", "retired"} /\ ~withdrawn)) THEN "in" ELSE "out"

Keys(x, S) == {k \in Key : x.row[k].state \in S}
OfRole(x, S, role) == {k \in Keys(x, S) : x.row[k].role = role}
Published(x) == {k \in Key : Pub(x.row[k].state)}
Sep(x, k) == x.row[k].role = "KSK"

\* The active KSKs whose DS withdrawal is written.
Withdrawn(x) == {k \in OfRole(x, {"active"}, "KSK") : x.row[k].ds = "out"}

NoRow == [state |-> "none", role |-> "ZSK", alg |-> FirstAlg, ds |-> "out", at |-> 0]
NoDist(n) == [live |-> FALSE, n |-> n, removal |-> FALSE, expected |-> {}, applied |-> {}, rejected |-> FALSE]

\* A distribution misses a signer; it is not done with.
Outstanding(d) == d.live /\ ~d.rejected /\ ~(d.expected \subseteq d.applied)
Incomplete(d) == d.live /\ (d.rejected \/ ~(d.expected \subseteq d.applied))

\* Op for each key of S: what it changes of a record is its own key's.
Merged(x, of) ==
  [x EXCEPT !.row = [k \in Key |-> of[k].row[k]], !.dist = [k \in Key |-> of[k].dist[k]],
            !.present = [k \in Key |-> of[k].present[k]], !.since = [k \in Key |-> of[k].since[k]],
            !.push = {k \in Key : k \in of[k].push}, !.gone = {k \in Key : k \in of[k].gone},
            !.left = {a \in Alg : IF a \in @ THEN \A k \in Key : a \in of[k].left
                                              ELSE \E k \in Key : a \in of[k].left}]
ForEach(Op(_, _), x, S) == Merged(x, [k \in Key |-> IF k \in S THEN Op(x, k) ELSE x])

-----------------------------------------------------------------------------
(* The table's rows, and what the driver does with them (applyLocked). *)

Write(x, k, state) ==
  [x EXCEPT !.row[k].state = state, !.row[k].ds = DsOf(state, x.row[k].role, state = "retired")]

\* Mutant: the push is not marked, and the agent finds nothing changed.
ResendUnmarked(x, k) == x

\* The push of an unchanged set carries the keys it sends again.
Resend(x, k) == IF x.dist[k].live THEN [x EXCEPT !.push = @ \cup {k}] ELSE x

StartDistribution(x, k, removal) ==
  [x EXCEPT !.dist[k] = [live |-> TRUE, n |-> @.n + 1, removal |-> removal,
                         expected |-> x.others, applied |-> {}, rejected |-> FALSE]]

Drop(x, k) == [x EXCEPT !.dist[k] = NoDist(@.n)]

\* A record a joiner has yet to confirm stays.
Done(x, k) == IF Incomplete(x.dist[k]) THEN x ELSE Drop(x, k)

\* T3, T3': accepted.
Accept(x, k) == Done(Write(x, k, "published"), k)
\* Mutant: no wait for the other signers.
DistributeUnconfirmed(x, k) == Drop(Accept(Write(x, k, "mpdist"), k), k)

\* T2, and T3' when there is nobody to wait for.
Distribute(x, k) ==
  LET y == StartDistribution(Write(x, k, "mpdist"), k, FALSE)
  IN IF x.others = {} THEN Accept(y, k) ELSE y

\* T8: the DNSKEY RRset has propagated.
Propagated(x, k, over) == IF k \in over THEN Done(Write(x, k, "standby"), k) ELSE x

\* The parent wait is standby's.
Leave(x, k) == [x EXCEPT !.present[k] = "none"]

\* T7, T12 to the removal's distribution, and T13' with nobody to wait for.
\* The strip of the key's signatures comes first and may fail.
StartRemoval(x, k, bad) ==
  IF k \in bad THEN x
  ELSE LET y == StartDistribution([Leave(Write(x, k, "mpremove"), k) EXCEPT !.gone = @ \ {k}], k, TRUE)
       IN IF x.others = {} THEN Drop(Write(y, k, "removed"), k) ELSE y
Withdraw(x, k, bad) == IF x.row[k].state \in {"mpdist", "published", "standby"} THEN StartRemoval(x, k, bad) ELSE x

\* Mutant: the predecessor signs on.
SupersedeNone(x, k, alg) == x

\* T10: a key of the successor's algorithm retires.  T10a: a KSK of another
\* signs on, its DS withdrawn.  A ZSK of another waits for T19.
Supersede(x, k, alg) ==
  CASE x.row[k].alg = alg -> Write(x, k, "retired")
    [] x.row[k].alg # alg /\ Sep(x, k) -> [x EXCEPT !.row[k].ds = "out"]
    [] OTHER -> x

\* T9, with the rows the promotion retires.
Promote(x, k) ==
  LET others == OfRole(x, {"active"}, x.row[k].role)
      first == [Leave(Write(x, k, "active"), k) EXCEPT
                  !.row[k].at = 1 + Max({x.row[o].at : o \in Key}), !.aged = @ \ {k}]
  IN ForEach(LAMBDA y, o : Supersede(y, o, x.row[k].alg), first, others)

\* T10b.  A ZSK of its algorithm that the policy no longer names is this
\* roll's, and T19 may retire it now.
Expire(x, k) ==
  LET rolled == \E o \in OfRole(x, {"active"}, "ZSK") : x.row[o].alg = x.row[k].alg /\ x.row[o].alg # x.alg["ZSK"]
  IN [Write(x, k, "retired") EXCEPT !.since[k] = "none", !.left = IF rolled THEN @ \cup {x.row[k].alg} ELSE @]

\* T12: the margin has passed, and for a KSK the parent has let its DS go.
Margin(x, k, over, bad) == IF (~Sep(x, k) \/ k \in x.gone) /\ k \in over THEN StartRemoval(x, k, bad) ELSE x

\* Mutant: no wait for the DS TTL.
ParentDSSeen(x, k, p) == ~Sep(x, k) \/ (p.known /\ (p.empty \/ x.present[k] # "none"))

\* T9's wait for the parent, whose answer is p.
ParentDSWaitMet(x, k, p) == ~Sep(x, k) \/ (p.known /\ (p.empty \/ x.present[k] = "over"))

\* T19: the old algorithm's ZSK leaves last.
OldAlgKSKLeaving(x, k) ==
  x.row[k].alg \in x.left /\ \E o \in OfRole(x, {"retired", "mpremove"}, "KSK") : x.row[o].alg = x.row[k].alg
SignsInThisRoll(x, k, o) ==
  /\ x.row[o].alg = x.alg["ZSK"] /\ x.row[o].at > 0
  /\ x.row[o].state = "active" \/ (x.row[o].state \in {"retired", "mpremove", "removed"} /\ x.row[o].at > x.row[k].at)
AlgSuperseded(x, k, over) ==
  LET zsks == OfRole(x, State, "ZSK")
      roll == {o \in zsks : SignsInThisRoll(x, k, o)}
      drained == roll # {} /\ \A o \in roll : (\A q \in roll : x.row[o].at <= x.row[q].at) => o \in over
      done == /\ x.row[k].alg # x.alg["ZSK"]
              /\ \E o \in OfRole(x, {"active"}, "ZSK") : x.row[o].alg = x.alg["ZSK"]
              /\ \A o \in OfRole(x, {"active"}, "KSK") : x.row[o].alg = x.alg["KSK"]
              /\ OldAlgKSKLeaving(x, k) \/ drained
  IN IF done THEN [Write(x, k, "retired") EXCEPT !.left = @ \ {x.row[k].alg}] ELSE x

\* The ds of a foreign KSK: its provider signs, and said it belongs there.
\* Undecided it is left as it is.  An omitted key whose row is gone is done.
ApplyForeign(x) ==
  [x EXCEPT !.foreign = [p \in Signer |->
                IF @[p] = "none" \/ x.said[p] \in {"nothing", "undecided"} THEN @[p]
                ELSE IF x.said[p] = "in" /\ p \in x.others THEN "in" ELSE "out"],
            !.said = [p \in Signer |-> IF @[p] = "omitted" /\ x.foreign[p] = "none" THEN "nothing" ELSE @[p]]]

-----------------------------------------------------------------------------
(* The tick. *)

\* The parent is asked while a SEP key waits on it.
AsksParent(x) ==
  OfRole(x, {"published", "standby"}, "KSK") \cup (OfRole(x, {"retired"}, "KSK") \ x.gone) \cup Withdrawn(x) # {}

\* A DS served again after it was seen gone: its key's wait starts afresh.
ServedAgain(x, p) ==
  LET back == IF p.known THEN Withdrawn(x) \cap p.own \cap x.gone ELSE {}
  IN [x EXCEPT !.gone = @ \ back, !.since = [k \in Key |-> IF k \in back THEN "none" ELSE @[k]]]

\* T18 and its undoing; T11a, then T10b; T11.
NotePresent(x, k, p) ==
  CASE p.known /\ k \in p.own /\ x.present[k] = "none" -> [x EXCEPT !.present[k] = "noted"]
    [] p.known /\ k \notin p.own -> Leave(x, k)
    [] OTHER -> x
NoteWithdrawn(x, k, p) ==
  IF ~p.known \/ k \in p.own THEN x
  ELSE IF k \notin x.gone THEN [x EXCEPT !.gone = @ \cup {k}, !.since[k] = "noted"]
  ELSE IF x.since[k] = "over" THEN Expire(x, k)
  ELSE x
NoteGone(x, k, p) == IF Sep(x, k) /\ p.known /\ k \notin p.own THEN [x EXCEPT !.gone = @ \cup {k}] ELSE x

\* One key's step, by its state when the tick began.  A key on its way of an
\* algorithm the policy no longer names is given up on.
TickKey(start, x, k, p, over, late, bad) ==
  LET row == start.row[k]
      y == IF k \in late /\ Outstanding(x.dist[k]) THEN Resend(x, k) ELSE x
      z == CASE row.state = "created" -> Distribute(y, k)
             [] row.state = "published" -> Propagated(y, k, over)
             [] row.state = "standby" /\ row.role = "KSK" -> NotePresent(y, k, p)
             [] row.state = "active" /\ k \in Withdrawn(start) -> NoteWithdrawn(y, k, p)
             [] row.state = "retired" -> Margin(NoteGone(y, k, p), k, over, bad)
             [] OTHER -> y
  IN IF row.state \in {"mpdist", "published", "standby"} /\ row.alg # start.alg[row.role]
     THEN Withdraw(z, k, bad) ELSE z

\* T1, and its first step T2 at once.
Mint(x, role) ==
  LET k == Min(Keys(x, {"none"}))
  IN IF Keys(x, {"none"}) = {} THEN x
     ELSE Distribute([x EXCEPT !.row[k] = [NoRow EXCEPT !.state = "created", !.role = role, !.alg = x.alg[role]]], k)

\* One role: promote for a rollover requested or due, for a role with no
\* active key, or once for an algorithm rollover; mint what is missing.
Named(x, S, role) == {k \in OfRole(x, S, role) : x.row[k].alg = x.alg[role]}
AlgPending(x, role) == OfRole(x, {"active"}, role) # Named(x, {"active"}, role)
Due(x, role) == Named(x, {"active"}, role) \cap x.aged # {}
Successor(x, role) == Min(Named(x, {"standby"}, role))
Promotes(x, role, p) ==
  /\ \/ OfRole(x, {"active"}, role) = {} \/ role \in x.rolls
     \/ Due(x, role) /\ (x.hold => Standby[role] = 0)
     \/ AlgPending(x, role) /\ Named(x, {"active"}, role) = {}
  /\ Named(x, {"standby"}, role) # {}
  /\ ~Incomplete(x.dist[Successor(x, role)]) /\ ParentDSWaitMet(x, Successor(x, role), p)
TickRole(x, role, p) ==
  LET promoted == Promotes(x, role, p)
      y == IF promoted THEN [Promote(x, Successor(x, role)) EXCEPT !.rolls = @ \ {role}] ELSE x
      pipeline == Named(x, OnItsWay, role)
      left == IF promoted THEN pipeline \ {Successor(x, role)} ELSE pipeline
      missing == \/ ~x.hold /\ Cardinality(left) < Standby[role]
                 \/ ~x.hold /\ AlgPending(x, role) /\ pipeline \cup Named(x, {"active"}, role) = {}
                 \/ left = {} /\ (OfRole(x, {"active"}, role) = {} /\ ~promoted)
                 \/ left = {} /\ ~x.hold /\ Due(x, role) /\ ~promoted
                 \/ left = {} /\ role \in y.rolls
  IN IF missing THEN Mint(y, role) ELSE y

Ticked(x, known, over, late, bad) ==
  LET p == [known |-> known /\ AsksParent(x), own |-> parent.own,
            empty |-> parent.own = {} /\ parent.foreign = {}]
      start == ApplyForeign(x)
      keys == ForEach(LAMBDA y, k : TickKey(start, y, k, p, over, late, bad), ServedAgain(start, p),
                      Keys(start, State \ {"none"}))
      roles == TickRole(TickRole(keys, "KSK", p), "ZSK", p)
  IN ForEach(LAMBDA y, k : AlgSuperseded(y, k, over), roles, OfRole(roles, {"active"}, "ZSK"))

-----------------------------------------------------------------------------
(* What else the driver does. *)

\* The aggregated confirmation (ConfirmAllAt), for every signer expected.  It
\* answers the record in flight if it names its kind, or none, and is not of
\* an older one; "slow" is an older one within the tolerance.
Counts(d, a, slow) ==
  /\ d.live
  /\ a.kind = "rejected" \/ d.removal = (a.kind = "removed")
  /\ a.n = d.n \/ slow
Applied(x, k) ==
  LET y == [x EXCEPT !.dist[k].applied = @ \cup x.dist[k].expected]
      d == y.dist[k]
  IN CASE d.rejected \/ (d.removal /\ x.row[k].state # "mpremove") -> y
       [] ~d.rejected /\ d.removal /\ x.row[k].state = "mpremove" -> Drop(Write(y, k, "removed"), k)
       [] ~d.rejected /\ ~d.removal /\ x.row[k].state = "mpdist" -> Accept(y, k)
       [] OTHER -> Drop(y, k)
NobodyToWaitFor(x, k) ==
  CASE x.row[k].state = "mpdist" -> Accept(x, k)
    [] x.row[k].state = "mpremove" -> Drop(Write(x, k, "removed"), k)
    [] OTHER -> x
Confirmed(x, a, slow) ==
  LET d == x.dist[a.key]
  IN CASE ~Counts(d, a, slow) -> x
       [] Counts(d, a, slow) /\ d.expected = {} -> NobodyToWaitFor(x, a.key)
       [] Counts(d, a, slow) /\ d.expected # {} /\ a.kind = "rejected" -> [x EXCEPT !.dist[a.key].rejected = TRUE]
       [] OTHER -> Applied(x, a.key)

\* The signers changed: those that joined are owed the served keys, and every
\* distribution in flight expects the signers there are.
Owed(x, k) == ~x.dist[k].live /\ x.row[k].state \in {"published", "standby", "active", "retired"}
Follow(x, k) ==
  LET d == x.dist[k]
      added == x.others \ (d.expected \cup d.applied)
      y == [x EXCEPT !.dist[k].expected = (@ \cap x.others) \cup added]
      z == IF added # {} THEN Resend(y, k) ELSE y
      met == ~z.dist[k].rejected /\ z.dist[k].expected \subseteq z.dist[k].applied
  IN CASE met /\ x.row[k].state = "mpdist" -> Accept(z, k)
       [] met /\ x.row[k].state = "mpremove" /\ d.removal -> Drop(Write(z, k, "removed"), k)
       [] OTHER -> z
SignersChanged(x) ==
  LET owed == IF x.others \subseteq x.known THEN {} ELSE {k \in Key : Owed(x, k)}
      y == ForEach(LAMBDA z, k : Resend(StartDistribution(z, k, FALSE), k), x, owed)
      w == ForEach(Follow, y, {k \in Key : y.dist[k].live})
  IN [ApplyForeign(w) EXCEPT !.known = x.others]

\* A row tdns minted gets the ds its state prescribes (adopt).
Adopt(x) ==
  LET Prescribed(row) == IF row.ds = "unset" THEN [row EXCEPT !.ds = DsOf(row.state, row.role, FALSE)] ELSE row
  IN [x EXCEPT !.row = [k \in Key |-> Prescribed(@[k])]]

\* What is only in memory is lost with the driver, and a new one reads the
\* rest.  A key in flight whose record is not there gets a new one.
Forgets(x) == [x EXCEPT !.run = FALSE, !.rolls = {}, !.gone = {}, !.left = {}, !.known = {}]
Again(x, k) ==
  CASE x.row[k].state \in {"mpdist", "mpremove"} /\ ~x.dist[k].live ->
         Resend(StartDistribution(x, k, x.row[k].state = "mpremove"), k)
    [] x.row[k].state \in {"mpdist", "mpremove"} /\ x.dist[k].live /\ ~x.dist[k].rejected -> Resend(x, k)
    [] OTHER -> x
Reload(x) ==
  LET read == [x EXCEPT !.known = x.others,
                        !.present = [k \in Key |-> IF x.row[k].state = "standby" THEN @[k] ELSE "none"]]
      y == ApplyForeign(Adopt(read))
      gone == {k \in Withdrawn(y) : y.since[k] # "none"}
      noted == [y EXCEPT !.gone = gone, !.since = [k \in Key |-> IF k \in gone THEN @[k] ELSE "none"]]
  IN ForEach(Again, [noted EXCEPT !.run = TRUE], Key)

\* The zone's driver, if this provider signs it (driverState).
Driver(x) == CASE ~x.signs -> Forgets(x)
               [] x.signs /\ x.run -> x
               [] OTHER -> Reload(x)

\* The rows of a zone a rollover is under way in (rolloverUnderWay).
AlgRollover(x, role) ==
  {k \in OfRole(x, {"active", "retired", "mpremove"}, role) : x.row[k].alg # x.alg[role] /\ x.row[k].at > 0}
UnderWay(x) ==
  \/ x.rolls # {} \/ Withdrawn(x) # {}
  \/ \E role \in Role : AlgRollover(x, role) # {}
  \/ \E k \in Key : Outstanding(x.dist[k])
  \/ Keys(x, {"mpdist", "published", "retired", "mpremove"}) # {}

\* The DS set the columns give; unknown while a row does not say (DSIntent).
Intent(x) ==
  [known |-> /\ \A k \in OfRole(x, State \ {"none"}, "KSK") : x.row[k].ds # "unset"
             /\ \A p \in Signer : x.foreign[p] # "unset",
   set |-> [own |-> {k \in Key : x.row[k].ds = "in"}, foreign |-> {p \in Signer : x.foreign[p] = "in"}]]

-----------------------------------------------------------------------------
(* The signer. *)

Happens(e) == e \in Event /\ events < MaxEvents /\ events' = events + 1
NothingHappens == UNCHANGED events

\* The clocks that run follow the notes.
Runs(x, e) == e.key # 0 => x.present[e.key] = "noted" \/ x.since[e.key] = "noted"
Noted(x) == {k \in Key : x.present[k] = "noted" \/ x.since[k] = "noted"}
ClockOf(k) == [key |-> k, set |-> {}]
\* The part of s at the places I.
Subsequence(s, I) ==
  LET first[n \in 0..Len(s)] ==
        IF n = 0 THEN <<>> ELSE IF n \in I THEN Append(first[n - 1], s[n]) ELSE first[n - 1]
  IN first[Len(s)]
LineOf(x) ==
  LET kept == Subsequence(line, {i \in DOMAIN line : Runs(x, line[i])})
      new == {k \in Noted(x) : \A i \in DOMAIN kept : kept[i].key # k}
      clocks == SetToSeq(new)
  IN kept \o [i \in DOMAIN clocks |-> ClockOf(clocks[i])]
Becomes(x) == m' = x /\ line' = LineOf(x)

\* Its tick, which may find the parent silent, and waits over.
Tick(known, over, late, bad) ==
  /\ m.signs
  /\ Becomes(Ticked(Driver(m), known, over, late, bad))
  /\ unseen' = (unseen /\ ~known /\ AsksParent(m))
  /\ UNCHANGED <<agent, joined, listed, parent, update>>
RunsOut(k) == \/ m.row[k].state \in {"published", "retired"}
              \/ m.row[k].state = "active" /\ ~Sep(m, k) /\ m.row[k].alg = m.alg["ZSK"] /\ AlgRollover(m, "ZSK") # {}
Waiting == {k \in Key : RunsOut(k)}
\* The resend timer runs out on an answer that is lost; on a slow one it is
\* an event.
Overdue == {k \in Key : Outstanding(m.dist[k])}
Lost == IF asked = {} /\ answers = {} THEN Overdue ELSE {}
Ticks ==
  \E known \in {FALSE, AsksParent(m)}, over \in SUBSET Waiting :
     \/ \E late \in {{}, Lost} : Tick(known, over, late, {}) /\ NothingHappens
     \/ Happens("slow") /\ Overdue # {} /\ Tick(known, over, Overdue, {})
     \/ Happens("strip") /\ Tick(known, over, {}, Key)

\* It dies as a tick has written a key's row, and before what goes with it.
DiesInATick(k) ==
  /\ Happens("dies") /\ m.signs
  /\ \E over \in SUBSET Waiting :
       LET x == Driver(m)
           row == Ticked(x, TRUE, over, {}, {}).row[k]
           minted == [row EXCEPT !.state = "created", !.ds = "out"]
       IN \E r \in IF x.row[k].state = "none" THEN {row, minted} ELSE {row} :
            /\ r.state \in Dying \ {x.row[k].state}
            /\ Becomes(Forgets([x EXCEPT !.row[k] = r, !.push = {}]))
  /\ UNCHANGED <<agent, joined, listed, above>>
Restarts == /\ Happens("restart") /\ Becomes(Forgets([m EXCEPT !.push = {}]))
            /\ UNCHANGED <<agent, joined, listed, above>>

\* A signal of its agent.
HearsOf(a) ==
  /\ a \in answers /\ m.signs
  /\ \E slow \in {FALSE, a.n < m.dist[a.key].n} : Becomes(Confirmed(Driver(m), a, slow))
  /\ answers' = answers \ {a}
  /\ UNCHANGED <<sent, asked, serves, joined, listed, above, events>>

\* The hand-over: the other signers, whether this provider signs, and the hold.
HandOver(S, signs, hold) ==
  /\ Happens("hand-over")
  /\ <<S, signs, hold>> # <<m.others, m.signs, m.hold>>
  /\ LET before == IF m.signs THEN m.others ELSE {}
         x == Driver([m EXCEPT !.others = S, !.signs = signs, !.hold = hold])
     IN Becomes(CASE ~signs -> x
                  [] signs /\ S # before -> SignersChanged(x)
                  [] OTHER -> ApplyForeign(x))
  /\ joined' = [k \in Key |-> IF m.row[k].state = "none" THEN {}
                               ELSE joined[k] \cup (S \ (IF m.signs THEN m.others ELSE {}))]
  /\ UNCHANGED <<agent, listed, above>>

-----------------------------------------------------------------------------
(* The operator. *)

Ordered == events < MaxEvents /\ events' = events + 1
Commanded(x) == Ordered /\ m.signs /\ Becomes(x) /\ UNCHANGED <<agent, joined, listed, above>>

RequestRollover(role) == Commanded([Driver(m) EXCEPT !.rolls = @ \cup {role}])

\* The role's request goes, and its algorithm rollover if nothing of the new
\* algorithm signs; what is of it on its way is withdrawn by the next tick.
CancelRollover(role) ==
  LET x == Driver(m)
      y == [x EXCEPT !.rolls = @ \ {role}]
      back == {x.row[k].alg : k \in AlgRollover(x, role)}
      signing == \E k \in OfRole(x, {"active"}, role) : x.row[k].alg = x.alg[role]
  IN \/ /\ back = {} \/ signing
        /\ role \in x.rolls /\ Commanded(y)
     \/ ~signing /\ \E alg \in back : Commanded([y EXCEPT !.alg[role] = alg])

\* One command sets either role's, or both.
SetAlgorithm(to) ==
  to # m.alg /\ Commanded([Driver(m) EXCEPT !.alg = to])

\* T6.
Retry(k) ==
  LET x == Driver(m)
  IN /\ x.dist[k].live
     /\ Commanded(Resend(StartDistribution(x, k, x.row[k].state = "mpremove"), k))
GiveUp(k) == /\ m.row[k].state \in {"mpdist", "published", "standby"}
             /\ Commanded(Withdraw(Driver(m), k, {}))

\* A key's lifetime ends.
Ages(k) ==
  /\ Ordered /\ m.row[k].state = "active" /\ m' = [m EXCEPT !.aged = @ \cup {k}]
  /\ UNCHANGED <<agent, joined, listed, above, line>>

-----------------------------------------------------------------------------
(* The agent, the other signers, the parent and the validators. *)

\* The agent has the signer's inventory: what changed in the set goes out to
\* the other signers, and what the signer sends again.
AgentDistributes ==
  LET set == Published(m)
      changed == (set \ sent) \cup (sent \ set) \cup m.push
      to == [k \in changed |-> [key |-> k, kind |-> IF k \in set THEN "propagated" ELSE "removed",
                                n |-> m.dist[k].n, who |-> m.others]]
  IN /\ m.signs /\ changed # {}
     /\ sent' = set
     /\ asked' = {a \in asked : a.key \notin changed} \cup (IF m.others = {} THEN {} ELSE {to[k] : k \in changed})
     /\ m' = [m EXCEPT !.push = {}]
     /\ UNCHANGED <<answers, serves, joined, listed, above, line, events>>

\* Another signer serves the set.  The last one's answer goes to the signer.
Heard(p) == {[a EXCEPT !.who = @ \ {p}] : a \in asked}
AnswerTo(a, kind) == [key |-> a.key, kind |-> kind, n |-> a.n]
PeerApplies(p) ==
  /\ p \in m.others
  /\ \E a \in asked : p \in a.who
  /\ serves' = [serves EXCEPT ![p] = sent]
  /\ asked' = {a \in Heard(p) : a.who # {}}
  /\ answers' = answers \cup {AnswerTo(a, a.kind) : a \in {b \in Heard(p) : b.who = {}}}
  /\ UNCHANGED <<m, sent, joined, listed, above, line, events>>
PeerRejects(p) ==
  /\ Happens("reject")
  /\ \E a \in asked : /\ p \in a.who
                      /\ asked' = asked \ {a}
                      /\ answers' = answers \cup {AnswerTo(a, "rejected")}
  /\ UNCHANGED <<m, sent, serves, joined, listed, above, line>>
LoseAnswer ==
  /\ Happens("lose") /\ \E a \in answers : answers' = answers \ {a}
  /\ UNCHANGED <<m, sent, asked, serves, joined, listed, above, line>>

\* A leader sends the parent the DS set it computes, one update at a time.
LeaderUpdates ==
  /\ m.signs /\ update = <<>> /\ Intent(m).known /\ Intent(m).set # parent
  /\ update' = <<Intent(m).set>>
  /\ UNCHANGED <<m, agent, joined, listed, parent, unseen, line, events>>

\* Validators hold what the parent served before for its TTL.
Serve(set) == /\ Len(line) < MaxLine
              /\ parent' = set /\ line' = Append(line, [key |-> 0, set |-> parent.own])
ParentApplies == /\ update # <<>> /\ ~unseen /\ Serve(update[1]) /\ update' = <<>>
                 /\ UNCHANGED <<m, agent, joined, listed, unseen, events>>
\* It serves a set without the newest DS or with the oldest, for longer than a
\* tick takes to see it.
ParentGoesBack ==
  /\ Happens("back") /\ unseen' = TRUE
  /\ \E k \in Key :
       \/ m.row[k].state = "standby" /\ k \in parent.own /\ Serve([parent EXCEPT !.own = @ \ {k}])
       \/ k \in Withdrawn(m) \ parent.own /\ Serve([parent EXCEPT !.own = @ \cup {k}])
  /\ UNCHANGED <<m, agent, joined, listed, update>>

\* The oldest of the DS TTLs that run is over.
TtlPasses ==
  /\ line # <<>> /\ line' = Tail(line)
  /\ LET k == Head(line).key
     IN m' = CASE k = 0 -> m
               [] k # 0 /\ m.present[k] = "noted" -> [m EXCEPT !.present[k] = "over"]
               [] OTHER -> [m EXCEPT !.since[k] = "over"]
  /\ UNCHANGED <<agent, joined, listed, above, events>>

-----------------------------------------------------------------------------
(* The other providers' keys. *)

\* Mutant: one copy of the zone without the key is enough.
MayGoAtOnce(x, p) == TRUE

\* Whether the row of a key the zone lacks may go (foreignKeyWithdrawn).
MayGo(x, p) == CASE x.others = {} -> TRUE
                 [] x.others # {} /\ x.said[p] = "nothing" -> \A q \in x.others : x.said[q] # "nothing"
                 [] OTHER -> x.said[p] = "omitted" \/ p \notin x.others

\* The incoming zone has the KSKs of S (syncForeignDNSKEYs).  A new row does
\* not say whether its DS belongs at the parent.
ZoneArrives(S) ==
  /\ Happens("zone") /\ m.signs /\ S # listed
  /\ listed' = S
  /\ Becomes([m EXCEPT !.foreign = [p \in Signer |->
                 CASE p \in S /\ @[p] = "none" -> "unset"
                   [] p \notin S /\ MayGo(m, p) -> "none"
                   [] OTHER -> @[p]]])
  /\ UNCHANGED <<agent, joined, above>>

\* The agent relays what a provider says of its KSK: that its DS belongs at
\* the parent, or not, or that it serves no such key, or it does not say.
\* The rows kept for want of that word are looked at again.
Words == {"in", "out", "undecided", "omitted"}
WordComes(p, word) ==
  /\ Happens("word") /\ m.signs /\ word # m.said[p] /\ (word = "omitted" => m.said[p] # "nothing")
  /\ LET x == Driver(m)
         y == ApplyForeign([x EXCEPT !.said[p] = word])
     IN Becomes([y EXCEPT !.foreign = [q \in Signer |-> IF q \notin listed /\ MayGo(y, q) THEN "none" ELSE @[q]]])
  /\ UNCHANGED <<agent, joined, listed, above>>

-----------------------------------------------------------------------------
(* A multi-provider zone with a KSK and a ZSK, which tdns minted and the driver *)
(* takes now, or which it ran before the signer restarted.                     *)

FirstRow(role, ds) == [state |-> "active", role |-> role, alg |-> FirstAlg, ds |-> ds, at |-> 1]
Rows(ds) == [k \in Key |-> CASE k = 1 -> FirstRow("KSK", ds) [] k = 2 -> FirstRow("ZSK", "out") [] OTHER -> NoRow]

Init ==
  /\ \E taken \in BOOLEAN :
       /\ m = [row |-> Rows(IF taken THEN "unset" ELSE "in"),
               dist |-> [k \in Key |-> NoDist(0)], push |-> {},
               present |-> [k \in Key |-> "none"], since |-> [k \in Key |-> "none"],
               gone |-> {}, left |-> {}, rolls |-> {}, alg |-> [role \in Role |-> FirstAlg], aged |-> {},
               hold |-> FALSE, known |-> {}, others |-> Signer, signs |-> TRUE, run |-> FALSE,
               said |-> [p \in Signer |-> IF taken THEN "nothing" ELSE "in"],
               foreign |-> [p \in Signer |-> IF taken THEN "none" ELSE "in"]]
       /\ listed = IF taken THEN {} ELSE Signer
       /\ parent = [own |-> IF AtParent THEN {1} ELSE {}, foreign |-> IF taken THEN {} ELSE Signer]
  /\ sent = {1, 2} /\ asked = {} /\ answers = {}
  /\ serves = [p \in Signer |-> {1, 2}] /\ joined = [k \in Key |-> {}]
  /\ update = <<>> /\ unseen = FALSE
  /\ line = <<>> /\ events = 0

Commands ==
  \/ \E role \in Role : RequestRollover(role) \/ CancelRollover(role)
  \/ \E to \in [Role -> Alg] : SetAlgorithm(to)
  \/ \E k \in Key : Retry(k) \/ GiveUp(k)

Next ==
  \/ Ticks \/ Restarts \/ Commands
  \/ \E k \in Key : DiesInATick(k) \/ Ages(k)
  \/ \E a \in answers : HearsOf(a)
  \/ \E S \in SUBSET Signer, signs, hold \in BOOLEAN : HandOver(S, signs, hold)
  \/ AgentDistributes \/ LoseAnswer
  \/ \E p \in Signer : PeerApplies(p) \/ PeerRejects(p)
  \/ LeaderUpdates \/ ParentApplies \/ ParentGoesBack \/ TtlPasses
  \/ \E S \in SUBSET Signer : ZoneArrives(S)
  \/ \E p \in Signer, word \in Words : WordComes(p, word)

Spec == Init /\ [][Next]_vars

\* The driver ticks and every wait ends, the agent and the signers exchange
\* the keys, a leader updates the parent, and the parent answers.
FullTicked == Ticked(Driver(m), AsksParent(m), Waiting, Lost, {})
FullTick == Tick(AsksParent(m), Waiting, Lost, {}) /\ NothingHappens
FullTickIsIdle == ~m.signs \/ (~unseen /\ FullTicked = m)

FairSpec == /\ Spec /\ WF_vars(AgentDistributes) /\ WF_vars(\E p \in Signer : PeerApplies(p))
            /\ WF_vars(LeaderUpdates) /\ WF_vars(ParentApplies) /\ WF_vars(TtlPasses)
            \* weak fairness of the two actions that run the driver, with what enables them
            /\ []<>FullTickIsIdle \/ []<><<FullTick>>_vars
            /\ []<>(answers = {} \/ ~m.signs) \/ []<><<\E a \in answers : HearsOf(a)>>_vars

-----------------------------------------------------------------------------
(* Properties. *)

Waited == {"none", "noted", "over"}
Kinds == {"propagated", "removed", "rejected"}
Row == [state : State, role : Role, alg : Alg, ds : {"in", "out", "unset"}, at : Nat]
Dist == [live : BOOLEAN, n : Nat, removal : BOOLEAN, expected : SUBSET Signer,
         applied : SUBSET Signer, rejected : BOOLEAN]
Machine ==
  [row : [Key -> Row], dist : [Key -> Dist], push : SUBSET Key,
   present : [Key -> Waited], since : [Key -> Waited], gone : SUBSET Key, left : SUBSET Alg,
   rolls : SUBSET Role, alg : [Role -> Alg], aged : SUBSET Key, hold : BOOLEAN,
   known : SUBSET Signer, others : SUBSET Signer, signs : BOOLEAN, run : BOOLEAN,
   said : [Signer -> Words \cup {"nothing"}], foreign : [Signer -> {"none", "unset", "in", "out"}]]
DsSet == [own : SUBSET Key, foreign : SUBSET Signer]
Asked == [key : Key, kind : Kinds, n : Nat, who : SUBSET Signer]
Answer == [key : Key, kind : Kinds, n : Nat]

\* The types: of the rows, the distributions and the driver's notes, of what
\* the agent asked and hears, of the DS sets, and of the DS TTLs that run.
TypeOK ==
  /\ m \in Machine
  /\ sent \subseteq Key /\ asked \subseteq Asked /\ answers \subseteq Answer
  /\ serves \in [Signer -> SUBSET Key] /\ joined \in [Key -> SUBSET Signer] /\ listed \subseteq Signer
  /\ parent \in DsSet /\ update \in Seq(DsSet) /\ unseen \in BOOLEAN
  /\ line \in Seq([key : Key \cup {0}, set : SUBSET Key]) /\ events \in Nat

\* Whatever DS set a validator may still hold, a key it names signs the
\* DNSKEY RRset (parentDSWaitMet, T10, T10a, T10b, T12).
HeldDsSigns ==
  \A S \in {parent.own} \cup {line[i].set : i \in {j \in DOMAIN line : line[j].key = 0}} :
     S # {} \/ AtParent => \E k \in S : m.row[k].state = "active"

\* A key that signs is in the set every other signer serves, but for the
\* signers that joined since it was minted (P1).
SignsWhereServed ==
  \A k \in Keys(m, {"active"}) : \A p \in m.others \ joined[k] : k \in serves[p]

\* One key of an algorithm signs in a role (P5).
OneSignerPerAlgorithm ==
  \A role \in Role : \A a, b \in OfRole(m, {"active"}, role) : m.row[a].alg = m.row[b].alg => a = b

\* The DS of a provider's key is to stay at the parent, and nothing takes it away.
ForeignDsStays(p) ==
  m.foreign[p] = "in" /\ p \in parent.foreign /\ \A i \in DOMAIN update : p \in update[i].foreign
\* It stays so while the provider signs, unless its latest word is that the DS
\* goes or that it serves no such key: whatever zone arrives without the key, and
\* whatever a restart, a hand-over or a word not yet heard leaves undecided
\* (applyForeignLocked, foreignKeyWithdrawn, DSIntent).
ForeignDsIsNotLost ==
  [][\A p \in Signer : ForeignDsStays(p) =>
       ForeignDsStays(p)' \/ p \notin m'.others \/ m'.said[p] \in {"out", "omitted"}]_vars

\* A rollover ends, or waits for the operator, for a hold to be let go, for
\* another provider's word, or for a signer that has left unnoticed (P4, P6).
Waits == \/ ~m.signs \/ m.hold \/ ~Intent(m).known
         \/ \E k \in Key : m.dist[k].rejected
         \/ Keys(m, {"none"}) = {}
WaysOut == []<>(~UnderWay(m) \/ Waits \/ \E k \in Key : ~(m.dist[k].expected \subseteq m.others))

=============================================================================
