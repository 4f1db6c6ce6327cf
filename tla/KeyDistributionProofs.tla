------------------------ MODULE KeyDistributionProofs ------------------------
(***************************************************************************)
(* The detailed distribution of a key set implements its promise           *)
(* (KeyStore), proved for any number of keys, peers, distributions and     *)
(* forwards, step by step: each step of the queues, the agents and the     *)
(* combiners is a sending, a taking of a set no older than the one held,   *)
(* a forgetting, or nothing at all.                                        *)
(*                                                                         *)
(* What makes it true is the order in which a peer's agent hands over: its *)
(* forwards are of sets that were sent, each as it was sent, and no later  *)
(* one is of an older distribution, because the newest origin taken is on  *)
(* disk and outlives the agent (Ordered).                                  *)
(*                                                                         *)
(* And what the signer is told of a key is so: the invariant (Truthful)    *)
(* says what a confirmation under way means (Shown), what the peer's parts *)
(* hold when they make one (PeerFacts), and what an answer that a tracking *)
(* keeps rests on (Applied).                                               *)
(***************************************************************************)
EXTENDS KeyDistribution, SequenceTheorems, TLAPS

-----------------------------------------------------------------------------
(* Types *)

Results == [Dist -> [Peer -> [Key -> Result]]]
Telling == [kind : {"propagated", "removed", "rejected"}, key : Key, dist : Dist]
Tracks == [Key -> [state : {"none", "pending", "accepted", "ignored", "rejected"}, fwd : 0..MaxFwd]]
Note == [fwd : 0..MaxFwd, state : {"none", "sent", "confirmed", "failed", "ignored"}]
Forward == [keys : SUBSET Key, dist : Dist]
Read == [state : {"none", "asked", "answered", "read"}, keys : SUBSET Key, fit : BOOLEAN]

SenderTypes ==
    /\ role \in [Peer -> Role \cup {"none"}]
    /\ dists \in Seq(Distribution) /\ Len(dists) <= MaxDist
    /\ open \subseteq 1..Len(dists)
    /\ result \in Results
    /\ alias \in [Dist -> 0..MaxDist] /\ answer \in [Peer -> 0..MaxDist]
    /\ queue \subseteq Dist \X Peer /\ told \subseteq Telling

\* A hand-over under way has its number.
Numbered(n) == InFlight(n) => n.fwd \in 1..MaxFwd

AgentTypes ==
    /\ repo \in [Peer -> SUBSET Key] /\ last \in [Peer -> 0..MaxDist]
    /\ track \in [Peer -> Tracks] /\ note \in [Peer -> Note] /\ \A p \in Peer : Numbered(note[p])
    /\ forwards \in [Peer -> Seq(Forward)] /\ \A p \in Peer : Len(forwards[p]) <= MaxFwd
    /\ handing \in [Peer -> SUBSET (1..MaxFwd)] /\ \A p \in Peer : handing[p] \subseteq 1..Len(forwards[p])
    /\ prc \in [Peer -> SUBSET ((1..MaxFwd) \X Dist)]
    /\ waits \in [Peer -> SUBSET ((1..MaxFwd) \X Dist)]

CombinerTypes ==
    /\ holds \in [Peer -> SUBSET Key] /\ served \in [Peer -> SUBSET Key]
    /\ newest \in [Peer -> 0..MaxFwd]
    /\ takes \in [Peer -> {"apply", "reject", "ignore"}]
    /\ lost \in [Peer -> SUBSET {"agent", "combiner", "publish"}]

WireTypes ==
    /\ net \subseteq Dist \X Peer /\ confs \subseteq Confirmation
    /\ words \in [Peer -> SUBSET Word] /\ own \in [Peer -> Read]
    /\ events \in 0..MaxEvents

\* What the queue and the network carry was sent.
Carry == queue \subseteq (1..Len(dists)) \X Peer /\ net \subseteq (1..Len(dists)) \X Peer

Types == SenderTypes /\ AgentTypes /\ CombinerTypes /\ WireTypes /\ Carry

LEMMA TypesSuffice == Types => TypeOK
BY DEF Types, TypeOK, SenderTypes, AgentTypes, CombinerTypes, WireTypes, Results, Telling, Tracks, Note, Forward, Read

LEMMA UnchangedTypes ==
    /\ SenderTypes /\ UNCHANGED sender => SenderTypes'
    /\ AgentTypes /\ UNCHANGED agent => AgentTypes'
    /\ CombinerTypes /\ UNCHANGED combiner => CombinerTypes'
<1>1. SenderTypes /\ UNCHANGED sender => SenderTypes'
  BY DEF SenderTypes, sender
<1>2. AgentTypes /\ UNCHANGED agent => AgentTypes'
  BY DEF AgentTypes, agent
<1>3. CombinerTypes /\ UNCHANGED combiner => CombinerTypes'
  BY DEF CombinerTypes, combiner
<1> QED
  BY <1>1, <1>2, <1>3

LEMMA HappensType == ASSUME WireTypes, NEW e, Happens(e) PROVE events' \in 0..MaxEvents
BY BoundAssumption DEF WireTypes, Happens

LEMMA TypeInit == Init => Types
<1> SUFFICES ASSUME Init PROVE Types
  OBVIOUS
<1>1. MaxDist \in Nat /\ MaxFwd \in Nat /\ MaxEvents \in Nat
  BY BoundAssumption
<1>2. SenderTypes
  <2>1. NoResult \in [Peer -> [Key -> Result]]
    BY DEF NoResult, Result
  <2>2. dists \in Seq(Distribution) /\ Len(dists) = 0
    BY EmptySeq DEF Init
  <2> QED
    BY <1>1, <2>1, <2>2 DEF Init, SenderTypes, Results, Dist, Telling
<1>3. AgentTypes
  <2>1. <<>> \in Seq(Forward) /\ Len(<<>>) = 0
    BY EmptySeq
  <2>2. [k \in Key |-> [state |-> "none", fwd |-> 0]] \in Tracks /\ NoNote \in Note
    BY <1>1 DEF Tracks, Note, NoNote
  <2>3. Len(<<>>) <= MaxFwd
    BY <1>1, <2>1
  <2>4. forwards = [p \in Peer |-> <<>>] /\ note = [p \in Peer |-> NoNote]
        /\ track = [p \in Peer |-> [k \in Key |-> [state |-> "none", fwd |-> 0]]]
    BY DEF Init
  <2>5. forwards \in [Peer -> Seq(Forward)] /\ \A p \in Peer : Len(forwards[p]) <= MaxFwd
    BY <2>1, <2>3, <2>4
  <2>6. track \in [Peer -> Tracks] /\ note \in [Peer -> Note] /\ \A p \in Peer : Numbered(note[p])
    BY <2>2, <2>4 DEF Numbered, InFlight, NoNote
  <2>7. /\ repo \in [Peer -> SUBSET Key] /\ last \in [Peer -> 0..MaxDist]
        /\ handing \in [Peer -> SUBSET (1..MaxFwd)] /\ \A p \in Peer : handing[p] \subseteq 1..Len(forwards[p])
        /\ prc \in [Peer -> SUBSET ((1..MaxFwd) \X Dist)]
        /\ waits \in [Peer -> SUBSET ((1..MaxFwd) \X Dist)]
    BY <1>1 DEF Init
  <2> QED
    BY <2>5, <2>6, <2>7 DEF AgentTypes
<1>4. CombinerTypes
  BY <1>1 DEF Init, CombinerTypes
<1>5. WireTypes
  <2>1. [NotRead EXCEPT !.state = "read"] \in Read
    BY DEF NotRead, Read
  <2> QED
    BY <1>1, <2>1 DEF Init, WireTypes
<1>6. Carry
  BY DEF Init, Carry
<1> QED
  BY <1>2, <1>3, <1>4, <1>5, <1>6 DEF Types

\* The sets the sender has sent, one more sent.
LEMMA DistributeTypes ==
    ASSUME SenderTypes, NEW keys \in SUBSET Key, NEW tags \in SUBSET Key, NEW gone \in SUBSET Key,
           NEW to \in Peer \cup {Everyone}, Distribute(keys, tags, gone, to)
    PROVE  /\ dists' \in Seq(Distribution) /\ Len(dists') = Len(dists) + 1 /\ Len(dists') <= MaxDist
           /\ Len(dists) + 1 \in Dist /\ Len(dists) \in Nat
           /\ dists'[Len(dists) + 1].keys = keys
           /\ \A d \in 1..Len(dists) : dists'[d] = dists[d]
           /\ UNCHANGED role
<1> DEFINE x == [keys |-> keys, tags |-> tags, gone |-> gone, to |-> to,
                 signing |-> {p \in Peer : role[p] = "signs"}]
<1>1. x \in Distribution /\ x.keys = keys
  BY DEF Distribution
<1>2. dists' = Append(dists, x) /\ Len(dists) < MaxDist /\ UNCHANGED role
  BY DEF Distribute
<1>3. dists \in Seq(Distribution)
  BY DEF SenderTypes
<1> HIDE DEF x
<1>4. /\ dists' \in Seq(Distribution) /\ Len(dists') = Len(dists) + 1 /\ Len(dists) \in Nat
      /\ dists'[Len(dists) + 1] = x
      /\ \A d \in 1..Len(dists) : dists'[d] = dists[d]
  BY <1>1, <1>2, <1>3, AppendProperties, LenProperties
<1> QED
  BY <1>1, <1>2, <1>4, BoundAssumption DEF Dist

LEMMA DistFacts ==
    ASSUME SenderTypes, NEW d \in 1..Len(dists)
    PROVE  /\ dists[d] \in Distribution /\ d \in Dist
           /\ dists[d].keys \subseteq Key /\ dists[d].tags \subseteq Key /\ dists[d].gone \subseteq Key
<1>1. dists[d] \in Distribution
  BY ElementOfSeq DEF SenderTypes
<1>2. d \in Dist
  BY LenProperties, BoundAssumption DEF SenderTypes, Dist
<1> QED
  BY <1>1, <1>2 DEF Distribution

LEMMA MineType == ASSUME SenderTypes PROVE Mine \subseteq Key
<1>1. dists # <<>> => Len(dists) \in 1..Len(dists)
  BY EmptySeq DEF SenderTypes
<1> QED
  BY <1>1, DistFacts DEF Mine

\* The trackings that end, and what the signer is told.
LEMMA FinishTypes ==
    ASSUME told \subseteq Telling, dists' \in Seq(Distribution), Len(dists') <= MaxDist,
           NEW tracked \in SUBSET (1..Len(dists')), NEW res \in Results, NEW al \in [Dist -> 0..MaxDist],
           FinishDnskeyPropagation(tracked, res, al)
    PROVE  /\ open' \subseteq 1..Len(dists') /\ result' \in Results
           /\ alias' \in [Dist -> 0..MaxDist] /\ told' \subseteq Telling
<1> DEFINE ended == {d \in tracked : AllAnswered(d, res)}
           left == tracked \ ended
<1>1. /\ open' = left
      /\ told' = told \cup UNION {{Outcome(d, k, res) : k \in dists'[d].tags} : d \in ended}
      /\ result' = [d \in Dist |-> IF d \in left THEN res[d] ELSE NoResult]
      /\ alias' = [d \in Dist |-> IF al[d] \in left THEN al[d] ELSE 0]
  BY DEF FinishDnskeyPropagation
<1>2. ASSUME NEW d \in tracked PROVE d \in Dist /\ dists'[d].tags \subseteq Key
  <2>1. d \in 1..Len(dists') /\ Len(dists') \in Nat
    BY LenProperties
  <2>2. dists'[d] \in Distribution
    BY <2>1, ElementOfSeq
  <2> QED
    BY <2>1, <2>2, BoundAssumption DEF Dist, Distribution
<1>3. NoResult \in [Peer -> [Key -> Result]]
  BY DEF NoResult, Result
<1>4. \A d \in Dist, k \in Key : Outcome(d, k, res) \in Telling
  BY DEF Outcome, Telling
<1> HIDE DEF ended
<1>5. ended \subseteq tracked
  BY DEF ended
<1>6. told' \subseteq Telling
  BY <1>1, <1>2, <1>4, <1>5
<1>7. result' \in Results
  BY <1>1, <1>3 DEF Results
<1>8. alias' \in [Dist -> 0..MaxDist]
  BY <1>1, BoundAssumption
<1> QED
  BY <1>1, <1>6, <1>7, <1>8

\* The sender's steps.
LEMMA LocalUpdateTypes ==
    ASSUME SenderTypes, NEW k \in Key, ApplyLocalUpdate(k)
    PROVE  SenderTypes'
<1> DEFINE gone == Mine \cap {k}
           keys == (Mine \cup {k}) \ gone
<1>1. keys \in SUBSET Key /\ gone \in SUBSET Key /\ {k} \in SUBSET Key
  BY MineType
<1>2. Distribute(keys, {k}, gone, Everyone)
  BY DEF ApplyLocalUpdate
<1>3. FinishDnskeyPropagation(open \cup {Len(dists) + 1}, result, alias) /\ queue' = queue \cup Copies(Peer) /\ answer' = answer
  BY DEF ApplyLocalUpdate
<1> HIDE DEF gone, keys
<1>4. /\ dists' \in Seq(Distribution) /\ Len(dists') = Len(dists) + 1 /\ Len(dists') <= MaxDist
      /\ Len(dists) + 1 \in Dist /\ Len(dists) \in Nat /\ role' = role
  BY <1>1, <1>2, DistributeTypes
<1>5. open \cup {Len(dists) + 1} \in SUBSET (1..Len(dists'))
  <2>1. \A d \in open : d \in 1..Len(dists)
    BY DEF SenderTypes
  <2>2. \A d \in 1..Len(dists) : d \in 1..Len(dists')
    BY <1>4
  <2>3. Len(dists) + 1 \in 1..Len(dists')
    BY <1>4
  <2> QED
    BY <2>1, <2>2, <2>3
<1>6. /\ open' \subseteq 1..Len(dists') /\ result' \in Results
      /\ alias' \in [Dist -> 0..MaxDist] /\ told' \subseteq Telling
  BY <1>3, <1>4, <1>5, FinishTypes DEF SenderTypes
<1>7. queue' \subseteq Dist \X Peer
  BY <1>3, <1>4 DEF SenderTypes, Copies
<1> QED
  BY <1>3, <1>4, <1>6, <1>7 DEF SenderTypes

LEMMA CarriedType == ASSUME result \in Results, NEW k \in Key, NEW new \in Dist PROVE Carried(k, new) \in Results
<1> DEFINE carry(p, j) ==
             IF \E d \in SameDistribution(k) : result[d][p][j] \in {"applied", "ignored", "timed out"}
             THEN CHOOSE r \in {"applied", "ignored", "timed out"} :
                    \E d \in SameDistribution(k) : result[d][p][j] = r
             ELSE ""
           all == [p \in Peer |-> [j \in Key |-> carry(p, j)]]
<1>1. ASSUME NEW p \in Peer, NEW j \in Key PROVE carry(p, j) \in Result
  <2>1. CASE \E d \in SameDistribution(k) : result[d][p][j] \in {"applied", "ignored", "timed out"}
    <3>1. \E r \in {"applied", "ignored", "timed out"} : \E d \in SameDistribution(k) : result[d][p][j] = r
      BY <2>1
    <3>2. (CHOOSE r \in {"applied", "ignored", "timed out"} :
             \E d \in SameDistribution(k) : result[d][p][j] = r) \in {"applied", "ignored", "timed out"}
      BY <3>1, Zenon
    <3> QED
      BY <2>1, <3>2 DEF Result
  <2>2. CASE ~\E d \in SameDistribution(k) : result[d][p][j] \in {"applied", "ignored", "timed out"}
    BY <2>2 DEF Result
  <2> QED
    BY <2>1, <2>2
<1>2. Carried(k, new) = [result EXCEPT ![new] = all]
  BY DEF Carried
<1> HIDE DEF carry
<1>3. all \in [Peer -> [Key -> Result]]
  BY <1>1
<1> QED
  BY <1>2, <1>3 DEF Results

LEMMA ResendTypes ==
    ASSUME SenderTypes, NEW k \in Key, Resend(k)
    PROVE  SenderTypes'
<1> DEFINE gone == {k} \ Mine
           new == Len(dists) + 1
           old == SameDistribution(k)
           al == [d \in Dist |-> IF d \in old \/ alias[d] \in old THEN new ELSE alias[d]]
<1>1. Mine \in SUBSET Key /\ gone \in SUBSET Key /\ {k} \in SUBSET Key
  BY MineType
<1>2. Distribute(Mine, {k}, gone, Everyone)
  BY DEF Resend
<1>3. /\ FinishDnskeyPropagation((open \ old) \cup {new}, Carried(k, new), al)
      /\ queue' = queue \cup Copies(Peer) /\ answer' = answer
  BY DEF Resend
<1> HIDE DEF gone, old
<1>4. /\ dists' \in Seq(Distribution) /\ Len(dists') = new /\ Len(dists') <= MaxDist
      /\ new \in Dist /\ Len(dists) \in Nat /\ role' = role
  BY <1>1, <1>2, DistributeTypes
<1>5. (open \ old) \cup {new} \in SUBSET (1..Len(dists'))
  <2>1. \A d \in open : d \in 1..Len(dists)
    BY DEF SenderTypes
  <2>2. \A d \in 1..Len(dists) : d \in 1..Len(dists')
    BY <1>4
  <2>3. new \in 1..Len(dists')
    BY <1>4
  <2> QED
    BY <2>1, <2>2, <2>3
<1>6. al \in [Dist -> 0..MaxDist]
  BY <1>4, BoundAssumption DEF SenderTypes, Dist
<1>7. Carried(k, new) \in Results
  BY <1>4, CarriedType DEF SenderTypes
<1> HIDE DEF al, new
<1>8. /\ open' \subseteq 1..Len(dists') /\ result' \in Results
      /\ alias' \in [Dist -> 0..MaxDist] /\ told' \subseteq Telling
  BY <1>3, <1>4, <1>5, <1>6, <1>7, FinishTypes DEF SenderTypes
<1>9. queue' \subseteq Dist \X Peer
  BY <1>3, <1>4 DEF SenderTypes, Copies, new
<1> QED
  BY <1>3, <1>4, <1>8, <1>9 DEF SenderTypes

LEMMA AnswerTypes ==
    ASSUME SenderTypes, NEW p \in Peer, CatchUpAnswer(p)
    PROVE  SenderTypes'
<1>1. Mine \in SUBSET Key /\ {} \in SUBSET Key
  BY MineType
<1>2. /\ Distribute(Mine, {}, {}, p) /\ queue' = (queue \ {<<answer[p], p>>}) \cup Copies({p})
      /\ answer' = [answer EXCEPT ![p] = Len(dists) + 1]
      /\ UNCHANGED <<open, result, alias, told>>
  BY DEF CatchUpAnswer
<1>3. /\ dists' \in Seq(Distribution) /\ Len(dists') = Len(dists) + 1 /\ Len(dists') <= MaxDist
      /\ Len(dists) + 1 \in Dist /\ Len(dists) \in Nat /\ role' = role
  BY <1>1, <1>2, DistributeTypes
<1>4. open' \subseteq 1..Len(dists')
  BY <1>2, <1>3 DEF SenderTypes
<1>5. answer' \in [Peer -> 0..MaxDist] /\ queue' \subseteq Dist \X Peer
  BY <1>2, <1>3, BoundAssumption DEF SenderTypes, Copies, Dist
<1> QED
  BY <1>2, <1>3, <1>4, <1>5 DEF SenderTypes

LEMMA FirstType == \A old, new \in Result : First(old, new) \in Result
BY DEF First

\* The words of a confirmation, as the sender takes them.
LEMMA ScoredType ==
    ASSUME SenderTypes, NEW c \in Confirmation, NEW d \in Dist, NEW late \in BOOLEAN
    PROVE  Scored(c, d, late) \in Results
<1> DEFINE s == [k \in Key |-> IF k \in dists[d].tags THEN First(result[d][c.peer][k], SaidOf(c, k, late)) ELSE ""]
<1>1. \A k \in Key : SaidOf(c, k, late) \in Result
  BY DEF SaidOf, Result
<1>2. c.peer \in Peer /\ result \in Results
  BY DEF Confirmation, SenderTypes
<1>3. s \in [Key -> Result]
  <2>1. result[d] \in [Peer -> [Key -> Result]]
    BY <1>2 DEF Results
  <2>2. result[d][c.peer] \in [Key -> Result]
    BY <1>2, <2>1
  <2>3. "" \in Result /\ \A k \in Key : result[d][c.peer][k] \in Result
    BY <2>2 DEF Result
  <2>4. \A k \in Key : First(result[d][c.peer][k], SaidOf(c, k, late)) \in Result
    BY <1>1, <2>3, FirstType
  <2> QED
    BY <2>3, <2>4
<1>4. Scored(c, d, late) = [result EXCEPT ![d] = [result[d] EXCEPT ![c.peer] = s]]
  BY <1>2 DEF Scored
<1> HIDE DEF s
<1> QED
  BY <1>2, <1>3, <1>4 DEF Results

LEMMA CreditType ==
    ASSUME SenderTypes, NEW c \in Confirmation
    PROVE  CreditFromAnswer(c) \in Results
<1> DEFINE s(d) == [k \in Key |-> IF k \in dists[d].tags
                             THEN First(result[d][c.peer][k], CreditedOf(c, k, dists[c.dist].keys, dists[d].gone))
                             ELSE ""]
<1>1. \A k \in Key : \A keys, gone : CreditedOf(c, k, keys, gone) \in Result
  BY DEF CreditedOf, Result
<1>2. c.peer \in Peer /\ result \in Results
  BY DEF Confirmation, SenderTypes
<1>3. ASSUME NEW d \in Dist PROVE s(d) \in [Key -> Result]
  <2>1. result[d] \in [Peer -> [Key -> Result]]
    BY <1>2 DEF Results
  <2>2. result[d][c.peer] \in [Key -> Result]
    BY <1>2, <2>1
  <2>3. "" \in Result /\ \A k \in Key : result[d][c.peer][k] \in Result
    BY <2>2 DEF Result
  <2>4. \A k \in Key : First(result[d][c.peer][k], CreditedOf(c, k, dists[c.dist].keys, dists[d].gone)) \in Result
    BY <1>1, <2>3, FirstType
  <2> QED
    BY <2>3, <2>4
<1>4. CreditFromAnswer(c) = [d \in Dist |-> IF d \in open /\ d < c.dist THEN [result[d] EXCEPT ![c.peer] = s(d)] ELSE result[d]]
  BY DEF CreditFromAnswer
<1> HIDE DEF s
<1> QED
  BY <1>2, <1>3, <1>4 DEF Results

LEMMA ConfirmationTypes ==
    ASSUME SenderTypes, NEW c \in Confirmation, ProcessDnskeyConfirmation(c)
    PROVE  SenderTypes'
<1> DEFINE res == IF c.dist \in open THEN Scored(c, c.dist, FALSE)
                  ELSE IF alias[c.dist] \in open THEN Scored(c, alias[c.dist], TRUE)
                  ELSE IF answer[c.peer] = c.dist THEN CreditFromAnswer(c)
                  ELSE result
<1>1. c.dist \in Dist /\ open \subseteq Dist
  BY DistFacts DEF Confirmation, SenderTypes
<1>2. res \in Results
  BY <1>1, ScoredType, CreditType DEF SenderTypes
<1>3. /\ FinishDnskeyPropagation(open, res, alias) /\ UNCHANGED <<role, dists, answer>>
      /\ queue' = queue \ {<<c.dist, c.peer>>}
  BY DEF ProcessDnskeyConfirmation
<1> HIDE DEF res
<1>4. /\ open' \subseteq 1..Len(dists') /\ result' \in Results
      /\ alias' \in [Dist -> 0..MaxDist] /\ told' \subseteq Telling
  BY <1>2, <1>3, FinishTypes DEF SenderTypes
<1> QED
  BY <1>3, <1>4 DEF SenderTypes

LEMMA TimedOutTypes ==
    ASSUME SenderTypes, NEW d \in Dist, DnskeyNoRoleTimedOut(d)
    PROVE  SenderTypes'
<1> DEFINE s == [p \in Peer |-> [k \in Key |->
                   IF role[p] = "none" /\ k \in dists[d].tags THEN First(result[d][p][k], "timed out") ELSE result[d][p][k]]]
           res == [result EXCEPT ![d] = s]
<1>1. s \in [Peer -> [Key -> Result]]
  <2>1. result[d] \in [Peer -> [Key -> Result]]
    BY DEF SenderTypes, Results
  <2>2. "timed out" \in Result
    BY DEF Result
  <2>3. \A p \in Peer : \A k \in Key : result[d][p][k] \in Result
    BY <2>1
  <2>4. \A p \in Peer : \A k \in Key : First(result[d][p][k], "timed out") \in Result
    BY <2>2, <2>3, FirstType
  <2> QED
    BY <2>3, <2>4
<1>2. FinishDnskeyPropagation(open, res, alias) /\ UNCHANGED <<role, dists, answer, queue>>
  BY DEF DnskeyNoRoleTimedOut, SenderTypes, Results
<1> HIDE DEF s
<1>3. res \in Results
  BY <1>1 DEF SenderTypes, Results
<1> HIDE DEF res
<1>4. /\ open' \subseteq 1..Len(dists') /\ result' \in Results
      /\ alias' \in [Dist -> 0..MaxDist] /\ told' \subseteq Telling
  BY <1>2, <1>3, FinishTypes DEF SenderTypes
<1> QED
  BY <1>2, <1>4 DEF SenderTypes

LEMMA RestartTypes == ASSUME SenderTypes, SenderRestarts PROVE SenderTypes'
<1>1. NoResult \in [Peer -> [Key -> Result]]
  BY DEF NoResult, Result
<1>2. result' \in Results
  BY <1>1 DEF SenderRestarts, Results
<1> QED
  BY <1>2, BoundAssumption DEF SenderTypes, SenderRestarts

LEMMA RoleEndsTypes == ASSUME SenderTypes, NEW p \in Peer, RoleEnds(p) PROVE SenderTypes'
BY DEF SenderTypes, RoleEnds

LEMMA SenderStep == ASSUME SenderTypes, WireTypes, [Next]_vars PROVE SenderTypes'
<1>1. ASSUME NEW k \in Key, ApplyLocalUpdate(k) \/ Resend(k) PROVE SenderTypes'
  BY <1>1, LocalUpdateTypes, ResendTypes
<1>2. ASSUME NEW p \in Peer, CatchUpAnswer(p) \/ RoleEnds(p) PROVE SenderTypes'
  BY <1>2, AnswerTypes, RoleEndsTypes
<1>3. ASSUME NEW d \in Dist, NEW p \in Peer, CopyIsDelayed(d, p) PROVE SenderTypes'
  BY <1>3, UnchangedTypes DEF CopyIsDelayed
<1>4. ASSUME NEW c \in confs, ProcessDnskeyConfirmation(c) \/ LoseConfirmation(c) PROVE SenderTypes'
  <2>1. c \in Confirmation
    BY DEF WireTypes
  <2>2. CASE ProcessDnskeyConfirmation(c)
    BY <2>1, <2>2, ConfirmationTypes
  <2>3. CASE LoseConfirmation(c)
    BY <2>3, UnchangedTypes DEF LoseConfirmation
  <2> QED
    BY <1>4, <2>2, <2>3
<1>5. ASSUME NEW d \in Dist, DnskeyNoRoleTimedOut(d) PROVE SenderTypes'
  BY <1>5, TimedOutTypes
<1>6. ASSUME NEW p \in Peer, AgentNext(p) PROVE SenderTypes'
  <2>1. UNCHANGED sender
    BY <1>6 DEF AgentNext, ApplyRemoteUpdate, ProcessConfirmation, LoseWord, DropWord, AgentRestarts,
                AskOwn, EditsAnswer, ApplyOwnRead
  <2> QED
    BY <2>1, UnchangedTypes
<1>7. ASSUME NEW p \in Peer, CombinerNext(p) PROVE SenderTypes'
  <2>1. UNCHANGED sender
    BY <1>7 DEF CombinerNext, CombinerProcessOperations, CombinerRestarts, PolicyChanges
  <2> QED
    BY <2>1, UnchangedTypes
<1>8. CASE UNCHANGED vars
  BY <1>8, UnchangedTypes DEF vars
<1> QED
  BY <1>1, <1>2, <1>3, <1>4, <1>5, <1>6, <1>7, <1>8, RestartTypes DEF Next, SenderNext

-----------------------------------------------------------------------------
(* The agents' types *)

LEMMA KeptType ==
    ASSUME AgentTypes, NEW p \in Peer, NEW keys PROVE Kept(p, keys) \in Tracks
<1>1. track[p] \in Tracks
  BY DEF AgentTypes
<1>2. [state |-> "none", fwd |-> 0] \in [state : {"none", "pending", "accepted", "ignored", "rejected"}, fwd : 0..MaxFwd]
  BY BoundAssumption
<1> QED
  BY <1>1, <1>2 DEF Tracks, Kept

\* What a distribution that was sent brings, and where its forward goes.
LEMMA HandOverTypes ==
    ASSUME SenderTypes, AgentTypes, NEW p \in Peer, NEW d \in 1..Len(dists), HandOver(p, d)
    PROVE  /\ forwards' \in [Peer -> Seq(Forward)] /\ \A q \in Peer : Len(forwards'[q]) <= MaxFwd
           /\ handing' \in [Peer -> SUBSET (1..MaxFwd)] /\ (\A q \in Peer : handing'[q] \subseteq 1..Len(forwards'[q]))
           /\ prc' \in [Peer -> SUBSET ((1..MaxFwd) \X Dist)]
           /\ note' \in [Peer -> Note] /\ (\A q \in Peer : Numbered(note'[q])) /\ track' \in [Peer -> Tracks]
<1> DEFINE keys == dists[d].keys
           f == Len(forwards[p]) + 1
           x == [keys |-> keys, dist |-> d]
           kept == Kept(p, keys)
           t == [k \in Key |-> IF k \in keys /\ kept[k].state # "accepted" THEN [state |-> "pending", fwd |-> f] ELSE kept[k]]
<1>1. keys \subseteq Key /\ d \in Dist
  BY DistFacts
<1>2. x \in Forward
  BY <1>1 DEF Forward
<1>3. forwards[p] \in Seq(Forward) /\ Len(forwards[p]) \in Nat
  BY LenProperties DEF AgentTypes
<1>4. kept \in Tracks
  BY KeptType
<1>5. /\ f <= MaxFwd
      /\ forwards' = [forwards EXCEPT ![p] = Append(forwards[p], x)]
      /\ handing' = [handing EXCEPT ![p] = handing[p] \cup {f}]
      /\ prc' = [prc EXCEPT ![p] = prc[p] \cup {<<f, d>>}]
      /\ note' = [note EXCEPT ![p] = [fwd |-> f, state |-> "sent"]]
      /\ track' = [track EXCEPT ![p] = t]
  BY DEF HandOver
<1>6. f \in 1..MaxFwd
  BY <1>3, <1>5, BoundAssumption
<1> HIDE DEF x, kept, keys
<1>7. Append(forwards[p], x) \in Seq(Forward) /\ Len(Append(forwards[p], x)) = f
  BY <1>2, <1>3, AppendProperties
<1>8. t \in Tracks
  BY <1>4, <1>6 DEF Tracks
<1>9. [fwd |-> f, state |-> "sent"] \in Note /\ Numbered([fwd |-> f, state |-> "sent"])
  BY <1>6 DEF Note, Numbered
<1> HIDE DEF f, t
<1>10. forwards' \in [Peer -> Seq(Forward)] /\ \A q \in Peer : Len(forwards'[q]) <= MaxFwd
  BY <1>5, <1>7 DEF AgentTypes
<1>11. handing' \in [Peer -> SUBSET (1..MaxFwd)] /\ prc' \in [Peer -> SUBSET ((1..MaxFwd) \X Dist)]
  BY <1>1, <1>5, <1>6 DEF AgentTypes
<1>12. note' \in [Peer -> Note] /\ (\A q \in Peer : Numbered(note'[q])) /\ track' \in [Peer -> Tracks]
  BY <1>5, <1>8, <1>9 DEF AgentTypes
<1>13. \A q \in Peer : handing'[q] \subseteq 1..Len(forwards'[q])
  <2> SUFFICES ASSUME NEW q \in Peer, NEW g \in handing'[q] PROVE g \in 1..Len(forwards'[q])
    OBVIOUS
  <2>1. handing[q] \subseteq 1..Len(forwards[q])
    BY DEF AgentTypes
  <2>2. CASE q = p
    <3>1. g \in handing[p] \cup {f} /\ Len(forwards'[p]) = f
      BY <1>5, <1>7, <2>2 DEF AgentTypes
    <3>2. f = Len(forwards[p]) + 1
      BY DEF f
    <3> QED
      BY <1>3, <2>1, <2>2, <3>1, <3>2
  <2>3. CASE q # p
    BY <1>5, <2>1, <2>3 DEF AgentTypes
  <2> QED
    BY <2>2, <2>3
<1> QED
  BY <1>10, <1>11, <1>12, <1>13

LEMMA HandOverFailsTypes ==
    ASSUME AgentTypes, NEW p \in Peer, NEW d, HandOverFails(p, d)
    PROVE  /\ note' \in [Peer -> Note] /\ (\A q \in Peer : Numbered(note'[q])) /\ track' \in [Peer -> Tracks]
<1> DEFINE keys == dists[d].keys
           kept == Kept(p, keys)
           t == [k \in Key |-> IF k \in keys /\ kept[k].state \notin {"accepted", "pending"}
                               THEN [kept[k] EXCEPT !.state = "rejected"] ELSE kept[k]]
<1>1. kept \in Tracks
  BY KeptType
<1>2. /\ note' = [note EXCEPT ![p] = [fwd |-> 0, state |-> "failed"]]
      /\ track' = [track EXCEPT ![p] = t]
  BY DEF HandOverFails
<1> HIDE DEF kept, keys
<1>3. t \in Tracks
  BY <1>1 DEF Tracks
<1>4. [fwd |-> 0, state |-> "failed"] \in Note /\ Numbered([fwd |-> 0, state |-> "failed"])
  BY BoundAssumption DEF Note, Numbered, InFlight
<1> HIDE DEF t
<1> QED
  BY <1>2, <1>3, <1>4 DEF AgentTypes

LEMMA FreshTypes ==
    ASSUME SenderTypes, AgentTypes, NEW p \in Peer, NEW d \in 1..Len(dists), ProcessFresh(p, d)
    PROVE  AgentTypes'
<1>1. dists[d].keys \subseteq Key /\ d \in Dist
  BY DistFacts
<1>2. last' \in [Peer -> 0..MaxDist] /\ waits' = waits
  BY <1>1, BoundAssumption DEF AgentTypes, ProcessFresh, Dist
<1>3. CASE GoesOn(p, d)
  <2>1. repo' \in [Peer -> SUBSET Key]
    BY <1>1, <1>3 DEF AgentTypes, ProcessFresh
  <2>2. CASE HandOver(p, d)
    BY <1>2, <2>1, <2>2, HandOverTypes DEF AgentTypes
  <2>3. CASE HandOverFails(p, d)
    <3>1. UNCHANGED <<forwards, handing, prc>>
      BY <2>3 DEF HandOverFails
    <3> QED
      BY <1>2, <2>1, <2>3, <3>1, HandOverFailsTypes DEF AgentTypes
  <2> QED
    BY <1>3, <2>2, <2>3 DEF ProcessFresh
<1>4. CASE ~GoesOn(p, d)
  <2>1. UNCHANGED <<repo, track, note, forwards, handing, prc>>
    BY <1>4 DEF ProcessFresh
  <2> QED
    BY <1>2, <2>1 DEF AgentTypes
<1> QED
  BY <1>3, <1>4

LEMMA StaleTypes ==
    ASSUME AgentTypes, NEW p \in Peer, NEW d \in Dist, ProcessStale(p, d)
    PROVE  AgentTypes'
<1>1. UNCHANGED <<repo, last, track, note, forwards, handing, prc>>
  BY DEF ProcessStale
<1>2. CASE InFlight(note[p]) /\ ~ForwardOfAnswer(p, note[p].fwd)
  <2>1. waits' = [waits EXCEPT ![p] = WaitForCombiner(waits[p], note[p].fwd, d)]
    BY <1>2 DEF ProcessStale
  <2>2. \/ WaitForCombiner(waits[p], note[p].fwd, d) = waits[p]
        \/ WaitForCombiner(waits[p], note[p].fwd, d) = waits[p] \cup {<<note[p].fwd, d>>}
    BY DEF WaitForCombiner
  <2>3. <<note[p].fwd, d>> \in (1..MaxFwd) \X Dist
    BY <1>2 DEF AgentTypes, Numbered
  <2> QED
    BY <1>1, <2>1, <2>2, <2>3 DEF AgentTypes
<1>3. CASE ~(InFlight(note[p]) /\ ~ForwardOfAnswer(p, note[p].fwd))
  BY <1>1, <1>3 DEF ProcessStale, AgentTypes
<1> QED
  BY <1>2, <1>3

LEMMA AfterTypes ==
    ASSUME AgentTypes, NEW p \in Peer, NEW w \in Word
    PROVE  NoteAfter(p, w) \in Note /\ Numbered(NoteAfter(p, w)) /\ TrackAfter(p, w) \in Tracks
<1>1. note[p] \in Note /\ Numbered(note[p]) /\ track[p] \in Tracks
  BY DEF AgentTypes
<1>2. NoteAfter(p, w) \in Note /\ Numbered(NoteAfter(p, w))
  <2>1. CASE note[p].fwd # w.fwd
    BY <1>1, <2>1 DEF NoteAfter
  <2>2. CASE note[p].fwd = w.fwd /\ w.status = "ok"
    <3>1. NoteAfter(p, w) = [note[p] EXCEPT !.state = "confirmed"]
      BY <2>2 DEF NoteAfter
    <3>2. NoteAfter(p, w) \in Note /\ NoteAfter(p, w).state = "confirmed"
      BY <1>1, <3>1 DEF Note
    <3> QED
      BY <3>2 DEF Numbered, InFlight
  <2>3. CASE note[p].fwd = w.fwd /\ w.status # "ok"
    BY <2>3, BoundAssumption DEF NoteAfter, Note, Numbered, InFlight
  <2> QED
    BY <2>1, <2>2, <2>3
<1>3. TrackAfter(p, w) \in Tracks
  <2> SUFFICES ASSUME NEW k \in Key
               PROVE  TrackAfter(p, w)[k] \in [state : {"none", "pending", "accepted", "ignored", "rejected"}, fwd : 0..MaxFwd]
    BY DEF TrackAfter, Tracks
  <2>1. track[p][k] \in [state : {"none", "pending", "accepted", "ignored", "rejected"}, fwd : 0..MaxFwd]
    BY <1>1 DEF Tracks
  <2>2. TrackAfter(p, w)[k] \in {track[p][k], [track[p][k] EXCEPT !.state = "accepted"],
           [track[p][k] EXCEPT !.state = "ignored"], [track[p][k] EXCEPT !.state = "rejected"]}
    BY DEF TrackAfter
  <2> QED
    BY <2>1, <2>2
<1> QED
  BY <1>2, <1>3

LEMMA WordTypes ==
    ASSUME AgentTypes, WireTypes, NEW p \in Peer, NEW w \in words[p], ProcessConfirmation(p, w)
    PROVE  AgentTypes'
<1> DEFINE tr == TrackAfter(p, w)
           n == NoteAfter(p, w)
           relays == {r \in prc[p] : r[1] = w.fwd}
           still == {x \in waits[p] : \A r \in relays : r[2] # x[2]}
           mine == {x \in still : x[1] = w.fwd}
           again == InFlight(n) /\ n.fwd # w.fwd
           moved == IF again THEN {<<n.fwd, x[2]>> : x \in mine} ELSE {}
<1>1. w \in Word
  BY DEF WireTypes
<1>2. n \in Note /\ Numbered(n) /\ tr \in Tracks
  BY <1>1, AfterTypes
<1>3. /\ handing' = [handing EXCEPT ![p] = handing[p] \ {w.fwd}]
      /\ note' = [note EXCEPT ![p] = n]
      /\ track' = [track EXCEPT ![p] = tr]
      /\ prc' = [prc EXCEPT ![p] = prc[p] \ relays]
      /\ waits' = [waits EXCEPT ![p] = (still \ mine) \cup moved]
      /\ UNCHANGED <<repo, last, forwards>>
  BY DEF ProcessConfirmation
<1> HIDE DEF tr, n
<1>4. still \subseteq waits[p] /\ mine \subseteq waits[p] /\ waits[p] \subseteq (1..MaxFwd) \X Dist
  BY DEF AgentTypes
<1> HIDE DEF still, mine, relays
<1>5. moved \subseteq (1..MaxFwd) \X Dist
  BY <1>2, <1>4 DEF Numbered
<1> HIDE DEF moved
<1>6. waits' \in [Peer -> SUBSET ((1..MaxFwd) \X Dist)] /\ prc' \in [Peer -> SUBSET ((1..MaxFwd) \X Dist)]
      /\ handing' \in [Peer -> SUBSET (1..MaxFwd)] /\ \A q \in Peer : handing'[q] \subseteq 1..Len(forwards'[q])
  BY <1>3, <1>4, <1>5 DEF AgentTypes
<1>7. track' \in [Peer -> Tracks] /\ note' \in [Peer -> Note] /\ \A q \in Peer : Numbered(note'[q])
  BY <1>2, <1>3 DEF AgentTypes
<1> QED
  BY <1>3, <1>6, <1>7 DEF AgentTypes

LEMMA AgentRestartTypes == ASSUME AgentTypes, NEW p \in Peer, AgentRestarts(p) PROVE AgentTypes'
<1>1. [k \in Key |-> [state |-> "none", fwd |-> 0]] \in Tracks /\ NoNote \in Note /\ Numbered(NoNote)
  BY BoundAssumption DEF Tracks, Note, NoNote, Numbered, InFlight
<1>2. /\ repo' = [repo EXCEPT ![p] = {}]
      /\ track' = [track EXCEPT ![p] = [k \in Key |-> [state |-> "none", fwd |-> 0]]]
      /\ note' = [note EXCEPT ![p] = NoNote]
      /\ handing' = [handing EXCEPT ![p] = {}]
      /\ prc' = [prc EXCEPT ![p] = {}] /\ waits' = [waits EXCEPT ![p] = {}]
      /\ UNCHANGED <<last, forwards>>
  BY DEF AgentRestarts
<1>3. track' \in [Peer -> Tracks] /\ note' \in [Peer -> Note] /\ \A q \in Peer : Numbered(note'[q])
  BY <1>1, <1>2 DEF AgentTypes
<1> QED
  BY <1>2, <1>3 DEF AgentTypes

LEMMA OwnReadTypes == ASSUME AgentTypes, WireTypes, NEW p \in Peer, ApplyOwnRead(p) PROVE AgentTypes'
<1> DEFINE stays == {k \in repo[p] : track[p][k].state = "pending"}
           keys == own[p].keys
           t == [k \in Key |->
                   IF k \in keys \ repo[p] THEN [state |-> "accepted", fwd |-> 0]
                   ELSE IF k \in repo[p] \ (keys \cup stays) THEN [state |-> "none", fwd |-> 0]
                   ELSE track[p][k]]
<1>1. UNCHANGED <<last, note, forwards, handing, prc, waits>>
  BY DEF ApplyOwnRead
<1>2. CASE own[p].fit
  <2>1. repo' = [repo EXCEPT ![p] = keys \cup stays] /\ track' = [track EXCEPT ![p] = t]
    BY <1>2 DEF ApplyOwnRead
  <2>2. keys \subseteq Key
    BY DEF WireTypes, Read
  <2>3. track[p] \in Tracks /\ stays \subseteq Key
    BY DEF AgentTypes
  <2> HIDE DEF stays, keys
  <2>4. t \in Tracks
    BY <2>3, BoundAssumption DEF Tracks
  <2> HIDE DEF t
  <2> QED
    BY <1>1, <2>1, <2>2, <2>3, <2>4 DEF AgentTypes
<1>3. CASE ~own[p].fit
  BY <1>1, <1>3 DEF ApplyOwnRead, AgentTypes
<1> QED
  BY <1>2, <1>3

\* A distribution that reaches a peer was sent.
LEMMA DeliveredWasSent ==
    ASSUME SenderTypes, Carry, NEW p, NEW d, DeliverGenericMessage(p, d)
    PROVE  d \in 1..Len(dists)
BY DEF Carry, DeliverGenericMessage

LEMMA AgentStep == ASSUME SenderTypes, AgentTypes, WireTypes, Carry, [Next]_vars PROVE AgentTypes'
<1>1. CASE SenderNext
  <2>1. UNCHANGED agent
    BY <1>1 DEF SenderNext, ApplyLocalUpdate, Resend, CatchUpAnswer, RoleEnds, CopyIsDelayed,
                ProcessDnskeyConfirmation, LoseConfirmation, DnskeyNoRoleTimedOut, SenderRestarts
  <2> QED
    BY <2>1, UnchangedTypes
<1>2. ASSUME NEW p \in Peer, AgentNext(p) PROVE AgentTypes'
  <2>1. ASSUME NEW d \in Dist, ApplyRemoteUpdate(p, d) PROVE AgentTypes'
    <3>1. d \in 1..Len(dists)
      BY <2>1, DeliveredWasSent DEF ApplyRemoteUpdate
    <3> QED
      BY <2>1, <3>1, FreshTypes, StaleTypes DEF ApplyRemoteUpdate
  <2>2. ASSUME NEW w \in words[p], ProcessConfirmation(p, w) PROVE AgentTypes'
    BY <2>2, WordTypes
  <2>3. ASSUME NEW w \in words[p], LoseWord(p, w) PROVE AgentTypes'
    BY <2>3, UnchangedTypes DEF LoseWord
  <2>4. ASSUME NEW w \in words[p], DropWord(p, w) PROVE AgentTypes'
    BY <2>4 DEF DropWord, AgentTypes
  <2>5. CASE AskOwn(p) \/ EditsAnswer(p)
    BY <2>5, UnchangedTypes DEF AskOwn, EditsAnswer
  <2> QED
    BY <1>2, <2>1, <2>2, <2>3, <2>4, <2>5, AgentRestartTypes, OwnReadTypes DEF AgentNext
<1>3. ASSUME NEW p \in Peer, CombinerNext(p) PROVE AgentTypes'
  <2>1. UNCHANGED agent
    BY <1>3 DEF CombinerNext, CombinerProcessOperations, CombinerRestarts, PolicyChanges
  <2> QED
    BY <2>1, UnchangedTypes
<1>4. CASE UNCHANGED vars
  BY <1>4, UnchangedTypes DEF vars
<1> QED
  BY <1>1, <1>2, <1>3, <1>4 DEF Next

-----------------------------------------------------------------------------
(* The combiners' types *)

LEMMA CombinerStep == ASSUME AgentTypes, CombinerTypes, [Next]_vars PROVE CombinerTypes'
<1>1. CASE SenderNext
  <2>1. UNCHANGED combiner
    BY <1>1 DEF SenderNext, ApplyLocalUpdate, Resend, CatchUpAnswer, RoleEnds, CopyIsDelayed,
                ProcessDnskeyConfirmation, LoseConfirmation, DnskeyNoRoleTimedOut, SenderRestarts
  <2> QED
    BY <2>1, UnchangedTypes
<1>2. ASSUME NEW p \in Peer, AgentNext(p) PROVE CombinerTypes'
  <2>1. CASE AgentRestarts(p)
    BY <2>1 DEF AgentRestarts, CombinerTypes
  <2>2. CASE ~AgentRestarts(p)
    <3>1. UNCHANGED combiner
      BY <1>2, <2>2 DEF AgentNext, ApplyRemoteUpdate, ProcessConfirmation, LoseWord, DropWord,
                  AskOwn, EditsAnswer, ApplyOwnRead
    <3> QED
      BY <3>1, UnchangedTypes
  <2> QED
    BY <2>1, <2>2
<1>3. ASSUME NEW p \in Peer, NEW f \in 1..MaxFwd, CombinerProcessOperations(p, f)
      PROVE  CombinerTypes'
  <2>1. forwards[p][f].keys \subseteq Key
    <3>1. f \in 1..Len(forwards[p])
      BY <1>3 DEF AgentTypes, CombinerProcessOperations
    <3>2. forwards[p][f] \in Forward
      BY <3>1, ElementOfSeq DEF AgentTypes
    <3> QED
      BY <3>2 DEF Forward
  <2>2. takes' = takes /\ lost' \in [Peer -> SUBSET {"agent", "combiner", "publish"}]
    BY <1>3 DEF CombinerProcessOperations, CombinerTypes
  <2>3. CASE TakenAs(p, f) \in {"apply", "ignore"}
    <3>1. holds' = [holds EXCEPT ![p] = forwards[p][f].keys] /\ newest' = [newest EXCEPT ![p] = f]
          /\ (served' = [served EXCEPT ![p] = forwards[p][f].keys] \/ served' = [served EXCEPT ![p] = served[p]])
      BY <1>3, <2>3 DEF CombinerProcessOperations
    <3> QED
      BY <2>1, <2>2, <3>1 DEF CombinerTypes
  <2>4. CASE TakenAs(p, f) \notin {"apply", "ignore"}
    BY <1>3, <2>2, <2>4 DEF CombinerProcessOperations, CombinerTypes
  <2> QED
    BY <2>3, <2>4
<1>4. ASSUME NEW p \in Peer, CombinerRestarts(p) PROVE CombinerTypes'
  BY <1>4, BoundAssumption DEF CombinerRestarts, CombinerTypes
<1>5. ASSUME NEW p \in Peer, PolicyChanges(p) PROVE CombinerTypes'
  BY <1>5 DEF PolicyChanges, CombinerTypes
<1>6. CASE UNCHANGED vars
  BY <1>6, UnchangedTypes DEF vars
<1> QED
  BY <1>1, <1>2, <1>3, <1>4, <1>5, <1>6 DEF Next, CombinerNext

-----------------------------------------------------------------------------
(* The types of what is under way *)

LEMMA ConfirmType ==
    ASSUME NEW d \in Dist, NEW p \in Peer, NEW status \in Status,
           NEW done \in SUBSET Key, NEW ignored \in SUBSET Key, NEW rejected \in SUBSET Key
    PROVE  Confirm(d, p, status, done, ignored, rejected) \in Confirmation
BY DEF Confirm, Confirmation

LEMMA HeldType == ASSUME AgentTypes, NEW p \in Peer, NEW keys, NEW tr PROVE Held(p, keys, tr) \subseteq Key
BY DEF Held, AgentTypes

LEMMA NoOpType ==
    ASSUME AgentTypes, NEW p \in Peer, NEW d \in Dist PROVE NoOpConfirmation(p, d) \in Confirmation
<1> DEFINE keys == dists[d].keys
           stale == d < last[p]
           waiting == IF stale THEN AwaitingAnswer(p, Held(p, keys, track[p]), track[p]) ELSE {}
           held == Held(p, keys, track[p]) \ waiting
           ofAnswer == stale /\ InFlight(note[p])
           whole == HeldSuccess(p, keys, track[p], "ok") = "ok" /\ waiting = {} /\ note[p].state # "failed" /\ ~ofAnswer
           status == IF ~whole THEN "partial" ELSE IF note[p].state = "ignored" THEN "ignored" ELSE "ok"
           done == IF NotHandedOver(note[p]) \/ ofAnswer THEN {} ELSE held
           ignored == IF note[p].state = "ignored" THEN held ELSE {}
<1>1. held \subseteq Key
  BY HeldType
<1>2. NoOpConfirmation(p, d) = Confirm(d, p, status, done, ignored, {})
  BY DEF NoOpConfirmation
<1> HIDE DEF held, whole, ofAnswer
<1>3. done \in SUBSET Key /\ ignored \in SUBSET Key
  BY <1>1
<1>4. status \in Status
  BY DEF Status
<1> HIDE DEF status, done, ignored
<1> QED
  BY <1>2, <1>3, <1>4, ConfirmType

LEMMA RelayedType ==
    ASSUME AgentTypes, NEW p \in Peer, NEW w \in Word, NEW d \in Dist, NEW tr
    PROVE  Relayed(p, w, d, tr) \in Confirmation
<1> DEFINE applied == IF w.status = "ok" /\ w.applied = {} THEN repo[p] ELSE w.applied
           status == HeldSuccess(p, dists[d].keys, tr, w.status)
           missing == IF w.status = "ok" THEN dists[d].keys \ Held(p, dists[d].keys, tr) ELSE {}
           done == (applied \ missing) \cup w.removed
<1>1. /\ w.applied \subseteq Key /\ w.removed \subseteq Key /\ w.ignored \subseteq Key /\ w.rejected \subseteq Key
      /\ w.status \in Status
  BY DEF Word
<1>2. repo[p] \subseteq Key
  BY DEF AgentTypes
<1>3. Relayed(p, w, d, tr) = Confirm(d, p, status, done, w.ignored, w.rejected)
  BY DEF Relayed
<1>4. status \in Status
  BY <1>1 DEF HeldSuccess, Status
<1> HIDE DEF missing
<1>5. done \in SUBSET Key
  BY <1>1, <1>2
<1> HIDE DEF status, done
<1> QED
  BY <1>1, <1>3, <1>4, <1>5, ConfirmType

LEMMA ReleasedType ==
    ASSUME AgentTypes, NEW p \in Peer, NEW w \in Word, NEW d \in Dist, NEW tr, NEW n
    PROVE  Released(p, w, d, tr, n) \in Confirmation
<1> DEFINE keys == dists[d].keys
           waiting == AwaitingAnswer(p, Held(p, keys, tr), tr)
           held == Held(p, keys, tr) \ waiting
           whole == w.status = "ok" /\ Held(p, keys, tr) = keys /\ waiting = {} /\ ~NotHandedOver(n)
           status == IF whole THEN "ok" ELSE "partial"
           done == IF NotHandedOver(n) THEN {} ELSE IF w.status = "ok" THEN held ELSE held \cap w.applied
           ignored == IF n.state = "ignored" THEN held ELSE {}
<1>1. held \subseteq Key
  BY HeldType
<1>2. Released(p, w, d, tr, n) = IF w.status = "ignored" THEN Confirm(d, p, "ignored", {}, held, {})
                                 ELSE Confirm(d, p, status, done, ignored, {})
  BY DEF Released
<1> HIDE DEF held, whole
<1>3. status \in Status /\ "ignored" \in Status
  BY DEF Status
<1>4. done \in SUBSET Key /\ ignored \in SUBSET Key /\ held \in SUBSET Key /\ {} \in SUBSET Key
  BY <1>1
<1> HIDE DEF status, done, ignored
<1> QED
  BY <1>2, <1>3, <1>4, ConfirmType

LEMMA WordOnType ==
    ASSUME NEW f \in 1..MaxFwd, NEW keys \in SUBSET Key, NEW old \in SUBSET Key, NEW taken, NEW published
    PROVE  WordOn(f, keys, old, taken, published) \in Word
<1> DEFINE named == IF keys \ old # {} THEN keys \ old ELSE keys
           none == [fwd |-> f, status |-> "ok", applied |-> {}, removed |-> {}, ignored |-> {}, rejected |-> {}]
<1>1. named \subseteq Key /\ old \ keys \subseteq Key
  OBVIOUS
<1>2. none \in Word
  BY DEF Word, Status
<1>3. CASE taken = "reject"
  BY <1>2, <1>3 DEF WordOn, Word, Status
<1>4. CASE taken = "stale"
  BY <1>2, <1>4 DEF WordOn, Word, Status
<1>5. CASE taken = "ignore"
  <2>1. WordOn(f, keys, old, taken, published) =
          [none EXCEPT !.status = IF named = {} THEN "ok" ELSE "ignored", !.ignored = named]
    BY <1>5 DEF WordOn
  <2> HIDE DEF named, none
  <2> QED
    BY <1>1, <1>2, <2>1 DEF Word, Status
<1>6. CASE taken \notin {"reject", "stale", "ignore"}
  <2>1. WordOn(f, keys, old, taken, published) =
          [none EXCEPT !.status = IF published THEN "ok" ELSE "partial", !.applied = named, !.removed = old \ keys]
    BY <1>6 DEF WordOn
  <2> HIDE DEF named, none
  <2> QED
    BY <1>1, <1>2, <2>1 DEF Word, Status
<1> QED
  BY <1>3, <1>4, <1>5, <1>6

LEMMA UnchangedWire ==
    WireTypes /\ UNCHANGED <<net, confs, words, own, events>> => WireTypes'
BY DEF WireTypes

\* The own read's record, after each use of it.
LEMMA OwnTypes ==
    ASSUME WireTypes, CombinerTypes, NEW p \in Peer
    PROVE  /\ NotRead \in Read /\ [NotRead EXCEPT !.state = "read"] \in Read
           /\ \A b \in BOOLEAN : [own EXCEPT ![p].fit = b] \in [Peer -> Read]
           /\ AskOwn(p) \/ EditsAnswer(p) \/ ApplyOwnRead(p) => own' \in [Peer -> Read]
<1>1. own[p] \in Read
  BY DEF WireTypes
<1>2. NotRead \in Read /\ [NotRead EXCEPT !.state = "read"] \in Read
  BY DEF NotRead, Read
<1>3. ASSUME NEW b \in BOOLEAN PROVE [own EXCEPT ![p].fit = b] \in [Peer -> Read]
  <2>1. [own[p] EXCEPT !.fit = b] \in Read
    BY <1>1 DEF Read
  <2>2. [own EXCEPT ![p].fit = b] = [own EXCEPT ![p] = [own[p] EXCEPT !.fit = b]]
    OBVIOUS
  <2> HIDE DEF Read
  <2> QED
    BY <2>1, <2>2 DEF WireTypes
<1>4. ASSUME AskOwn(p) PROVE own' \in [Peer -> Read]
  <2> DEFINE x == [state |-> "asked", keys |-> {}, fit |-> note[p].state \in {"none", "confirmed"}]
  <2>1. x \in Read
    BY DEF Read
  <2>2. own' = [own EXCEPT ![p] = x]
    BY <1>4 DEF AskOwn
  <2> HIDE DEF x
  <2> QED
    BY <2>1, <2>2 DEF WireTypes
<1>5. ASSUME EditsAnswer(p) PROVE own' \in [Peer -> Read]
  <2> DEFINE x == [own[p] EXCEPT !.state = "answered", !.keys = holds[p]]
  <2>1. holds[p] \subseteq Key
    BY DEF CombinerTypes
  <2>2. x \in Read
    BY <1>1, <2>1 DEF Read
  <2>3. own' = [own EXCEPT ![p] = x]
    BY <1>5 DEF EditsAnswer
  <2> HIDE DEF x
  <2> QED
    BY <2>2, <2>3 DEF WireTypes
<1>6. ASSUME ApplyOwnRead(p) PROVE own' \in [Peer -> Read]
  <2>1. own' = [own EXCEPT ![p] = [NotRead EXCEPT !.state = "read"]]
    BY <1>6 DEF ApplyOwnRead
  <2> QED
    BY <1>2, <2>1 DEF WireTypes
<1> QED
  BY <1>2, <1>3, <1>4, <1>5, <1>6

LEMMA RemoteUpdateWire ==
    ASSUME SenderTypes, AgentTypes, WireTypes, CombinerTypes, NEW p \in Peer, NEW d \in Dist, ApplyRemoteUpdate(p, d)
    PROVE  WireTypes'
<1>1. net' \subseteq Dist \X Peer /\ words' = words
  BY DEF ApplyRemoteUpdate, DeliverGenericMessage, WireTypes
<1>2. NoOpConfirmation(p, d) \in Confirmation
  BY NoOpType
<1>3. CASE ProcessFresh(p, d)
  <2>1. CASE GoesOn(p, d)
    <3>1. own' = [own EXCEPT ![p].fit = FALSE] /\ confs' = confs /\ (HandOver(p, d) \/ HandOverFails(p, d))
      BY <1>3, <2>1 DEF ProcessFresh
    <3>2. own' \in [Peer -> Read]
      BY <3>1, OwnTypes
    <3>3. events' \in 0..MaxEvents
      BY <3>1, HappensType DEF HandOver, HandOverFails, WireTypes
    <3> QED
      BY <1>1, <3>1, <3>2, <3>3 DEF WireTypes
  <2>2. CASE ~GoesOn(p, d)
    BY <1>1, <1>2, <1>3, <2>2 DEF ProcessFresh, WireTypes
  <2> QED
    BY <2>1, <2>2
<1>4. CASE ProcessStale(p, d) /\ UNCHANGED events
  <2>1. own' = own /\ events' = events /\ (confs' = confs \/ confs' = confs \cup {NoOpConfirmation(p, d)})
    BY <1>4 DEF ProcessStale
  <2> QED
    BY <1>1, <1>2, <2>1 DEF WireTypes
<1> QED
  BY <1>3, <1>4 DEF ApplyRemoteUpdate

LEMMA WordWire ==
    ASSUME AgentTypes, WireTypes, CombinerTypes, NEW p \in Peer, NEW w \in words[p], ProcessConfirmation(p, w)
    PROVE  WireTypes'
<1> DEFINE tr == TrackAfter(p, w)
           n == NoteAfter(p, w)
           relays == {r \in prc[p] : r[1] = w.fwd}
           still == {x \in waits[p] : \A r \in relays : r[2] # x[2]}
           mine == {x \in still : x[1] = w.fwd}
           again == InFlight(n) /\ n.fwd # w.fwd
           relayed == {Relayed(p, w, r[2], tr) : r \in relays}
           released == IF again THEN {} ELSE {Released(p, w, x[2], tr, n) : x \in mine}
<1>1. w \in Word
  BY DEF WireTypes
<1>2. /\ words' = [words EXCEPT ![p] = words[p] \ {w}]
      /\ confs' = confs \cup relayed \cup released
      /\ own' = [own EXCEPT ![p].fit = own[p].fit /\ note[p].fwd # w.fwd]
      /\ UNCHANGED <<net, events>>
  BY DEF ProcessConfirmation
<1>3. relays \subseteq prc[p] /\ mine \subseteq waits[p]
  OBVIOUS
<1>4. (\A r \in prc[p] : r[2] \in Dist) /\ (\A x \in waits[p] : x[2] \in Dist)
  BY DEF AgentTypes
<1> HIDE DEF tr, n, relays, still, mine, again
<1>5. relayed \subseteq Confirmation
  BY <1>1, <1>3, <1>4, RelayedType
<1>6. released \subseteq Confirmation
  BY <1>1, <1>3, <1>4, ReleasedType
<1>7. own' \in [Peer -> Read]
  <2>1. own[p].fit \in BOOLEAN
    BY DEF WireTypes, Read
  <2> DEFINE b == own[p].fit /\ note[p].fwd # w.fwd
  <2>2. b \in BOOLEAN
    OBVIOUS
  <2>3. own' = [own EXCEPT ![p].fit = b]
    BY <1>2
  <2> HIDE DEF b
  <2> QED
    BY <2>2, <2>3, OwnTypes
<1> HIDE DEF relayed, released
<1>8. words' \in [Peer -> SUBSET Word] /\ confs' \subseteq Confirmation
  BY <1>2, <1>5, <1>6 DEF WireTypes
<1> QED
  BY <1>2, <1>7, <1>8 DEF WireTypes

LEMMA OperationsWire ==
    ASSUME AgentTypes, WireTypes, CombinerTypes, NEW p \in Peer, NEW f \in 1..MaxFwd, CombinerProcessOperations(p, f)
    PROVE  WireTypes'
<1> DEFINE keys == forwards[p][f].keys
           taken == TakenAs(p, f)
<1>1. keys \subseteq Key
  <2>1. f \in 1..Len(forwards[p])
    BY DEF AgentTypes, CombinerProcessOperations
  <2>2. forwards[p][f] \in Forward
    BY <2>1, ElementOfSeq DEF AgentTypes
  <2> QED
    BY <2>2 DEF Forward
<1>2. holds[p] \subseteq Key
  BY DEF CombinerTypes
<1>3. PICK published \in BOOLEAN :
        /\ IF published THEN UNCHANGED events ELSE taken = "apply" /\ keys # holds[p] /\ Happens("publish")
        /\ words' = [words EXCEPT ![p] = words[p] \cup {WordOn(f, keys, holds[p], taken, published)}]
  BY DEF CombinerProcessOperations
<1>4. UNCHANGED <<net, confs, own>>
  BY DEF CombinerProcessOperations, agent
<1> HIDE DEF keys, taken
<1>5. WordOn(f, keys, holds[p], taken, published) \in Word
  BY <1>1, <1>2, WordOnType
<1>6. words' \in [Peer -> SUBSET Word]
  BY <1>3, <1>5 DEF WireTypes
<1>7. events' \in 0..MaxEvents
  BY <1>3, HappensType DEF WireTypes
<1> QED
  BY <1>4, <1>6, <1>7 DEF WireTypes

LEMMA WireStep == ASSUME SenderTypes, AgentTypes, CombinerTypes, WireTypes, [Next]_vars PROVE WireTypes'
<1>1. ASSUME NEW k \in Key, ApplyLocalUpdate(k) \/ Resend(k) PROVE WireTypes'
  BY <1>1, HappensType DEF WireTypes, ApplyLocalUpdate, Resend
<1>2. ASSUME NEW p \in Peer, CatchUpAnswer(p) \/ RoleEnds(p) PROVE WireTypes'
  BY <1>2, HappensType DEF WireTypes, CatchUpAnswer, RoleEnds
<1>3. ASSUME NEW d \in Dist, NEW p \in Peer, CopyIsDelayed(d, p) PROVE WireTypes'
  BY <1>3, HappensType DEF WireTypes, SenderTypes, CopyIsDelayed
<1>4. ASSUME NEW c \in confs, ProcessDnskeyConfirmation(c) \/ LoseConfirmation(c) PROVE WireTypes'
  BY <1>4, HappensType DEF WireTypes, ProcessDnskeyConfirmation, LoseConfirmation
<1>5. ASSUME NEW d \in Dist, DnskeyNoRoleTimedOut(d) PROVE WireTypes'
  BY <1>5 DEF WireTypes, DnskeyNoRoleTimedOut
<1>6. CASE SenderRestarts
  BY <1>6, HappensType DEF WireTypes, SenderRestarts
<1>7. ASSUME NEW p \in Peer, AgentNext(p) PROVE WireTypes'
  <2>1. ASSUME NEW w \in words[p], LoseWord(p, w) \/ DropWord(p, w) PROVE WireTypes'
    BY <2>1, HappensType DEF WireTypes, LoseWord, DropWord
  <2>2. CASE AgentRestarts(p)
    <3>1. own' = [own EXCEPT ![p] = NotRead] /\ NotRead \in Read
      BY <2>2, OwnTypes DEF AgentRestarts
    <3>2. UNCHANGED <<net, confs, words>> /\ events' \in 0..MaxEvents
      BY <2>2, HappensType DEF AgentRestarts
    <3> QED
      BY <3>1, <3>2 DEF WireTypes
  <2>3. CASE AskOwn(p) \/ EditsAnswer(p) \/ ApplyOwnRead(p)
    <3>1. UNCHANGED <<net, confs, words, events>>
      BY <2>3 DEF AskOwn, EditsAnswer, ApplyOwnRead
    <3> QED
      BY <2>3, <3>1, OwnTypes DEF WireTypes
  <2> QED
    BY <1>7, <2>1, <2>2, <2>3, RemoteUpdateWire, WordWire DEF AgentNext
<1>8. ASSUME NEW p \in Peer, CombinerNext(p) PROVE WireTypes'
  <2>1. CASE CombinerRestarts(p) \/ PolicyChanges(p)
    BY <2>1, HappensType DEF WireTypes, CombinerRestarts, PolicyChanges
  <2> QED
    BY <1>8, <2>1, OperationsWire DEF CombinerNext
<1>9. CASE UNCHANGED vars
  BY <1>9, UnchangedWire DEF vars
<1> QED
  BY <1>1, <1>2, <1>3, <1>4, <1>5, <1>6, <1>7, <1>8, <1>9 DEF Next, SenderNext

\* What is queued or copied was sent, and stays so.
LEMMA CarryStep == ASSUME SenderTypes, Carry, [Next]_vars PROVE Carry'
<1>1. ASSUME NEW keys \in SUBSET Key, NEW tags \in SUBSET Key, NEW gone \in SUBSET Key,
             NEW to \in Peer \cup {Everyone}, Distribute(keys, tags, gone, to), net' = net,
             NEW ps \in SUBSET Peer, \A x \in queue' : x \in queue \/ x \in Copies(ps)
      PROVE  Carry'
  <2>1. Len(dists') = Len(dists) + 1 /\ Len(dists) \in Nat
    BY <1>1, DistributeTypes
  <2>2. \A d \in 1..Len(dists) : d \in 1..Len(dists')
    BY <2>1
  <2>3. Len(dists) + 1 \in 1..Len(dists')
    BY <2>1
  <2> QED
    BY <1>1, <2>2, <2>3 DEF Carry, Copies
<1>2. ASSUME NEW k \in Key, ApplyLocalUpdate(k) \/ Resend(k) PROVE Carry'
  <2>1. Mine \subseteq Key
    BY MineType
  <2> DEFINE gone == Mine \cap {k}
             keys == (Mine \cup {k}) \ gone
             left == {k} \ Mine
  <2>2. keys \in SUBSET Key /\ gone \in SUBSET Key /\ {k} \in SUBSET Key /\ Mine \in SUBSET Key /\ left \in SUBSET Key
    BY <2>1
  <2>3. Distribute(keys, {k}, gone, Everyone) \/ Distribute(Mine, {k}, left, Everyone)
    BY <1>2 DEF ApplyLocalUpdate, Resend
  <2>4. net' = net /\ queue' = queue \cup Copies(Peer)
    BY <1>2 DEF ApplyLocalUpdate, Resend
  <2> HIDE DEF gone, keys, left
  <2> QED
    BY <1>1, <2>2, <2>3, <2>4
<1>3. ASSUME NEW p \in Peer, CatchUpAnswer(p) PROVE Carry'
  <2>1. Mine \in SUBSET Key /\ {} \in SUBSET Key /\ {p} \in SUBSET Peer
    BY MineType
  <2>2. Distribute(Mine, {}, {}, p) /\ net' = net /\ queue' = (queue \ {<<answer[p], p>>}) \cup Copies({p})
    BY <1>3 DEF CatchUpAnswer
  <2> QED
    BY <1>1, <2>1, <2>2
<1>4. CASE UNCHANGED dists /\ queue' \subseteq queue /\ net' \subseteq net \cup queue
  BY <1>4 DEF Carry
<1>5. ASSUME NEW p \in Peer, RoleEnds(p) PROVE Carry'
  BY <1>4, <1>5 DEF RoleEnds
<1>6. ASSUME NEW d \in Dist, NEW p \in Peer, CopyIsDelayed(d, p) PROVE Carry'
  BY <1>4, <1>6 DEF CopyIsDelayed, sender
<1>7. ASSUME NEW c \in confs, ProcessDnskeyConfirmation(c) \/ LoseConfirmation(c) PROVE Carry'
  BY <1>4, <1>7 DEF ProcessDnskeyConfirmation, LoseConfirmation, sender
<1>8. ASSUME NEW d \in Dist, DnskeyNoRoleTimedOut(d) PROVE Carry'
  BY <1>4, <1>8 DEF DnskeyNoRoleTimedOut
<1>9. CASE SenderRestarts
  BY <1>4, <1>9 DEF SenderRestarts
<1>10. ASSUME NEW p \in Peer, AgentNext(p) PROVE Carry'
  <2>1. UNCHANGED sender /\ net' \subseteq net
    BY <1>10 DEF AgentNext, ApplyRemoteUpdate, DeliverGenericMessage, ProcessConfirmation, LoseWord, DropWord,
                 AgentRestarts, AskOwn, EditsAnswer, ApplyOwnRead
  <2> QED
    BY <1>4, <2>1 DEF sender
<1>11. ASSUME NEW p \in Peer, CombinerNext(p) PROVE Carry'
  <2>1. UNCHANGED sender /\ net' = net
    BY <1>11 DEF CombinerNext, CombinerProcessOperations, CombinerRestarts, PolicyChanges
  <2> QED
    BY <1>4, <2>1 DEF sender
<1>12. CASE UNCHANGED vars
  BY <1>4, <1>12 DEF vars, sender
<1> QED
  BY <1>2, <1>3, <1>5, <1>6, <1>7, <1>8, <1>9, <1>10, <1>11, <1>12 DEF Next, SenderNext

LEMMA TypesStep == Types /\ [Next]_vars => Types'
BY SenderStep, AgentStep, CombinerStep, WireStep, CarryStep DEF Types

LEMMA TypesAlways == Spec => []Types
BY TypeInit, TypesStep, PTL DEF Spec

\* Every variable has its type, whatever the numbers of keys, peers,
\* distributions, forwards and faults; the run Keys checks it for a few.
THEOREM TypeCorrect == Spec => []TypeOK
BY TypesAlways, TypesSuffice, PTL

-----------------------------------------------------------------------------
(* The promise *)

\* A peer's forwards are of sets that were sent, each as it was sent, and go
\* to newer ones only; the newest is no newer than the newest origin on its
\* disk, and the combiner has taken none that was not made.
Ordered(p) ==
  /\ last[p] \in 0..Len(dists)
  /\ \A f \in 1..Len(forwards[p]) :
       /\ forwards[p][f].dist \in 1..Len(dists) /\ forwards[p][f].dist <= last[p]
       /\ forwards[p][f].keys = dists[forwards[p][f].dist].keys
  /\ \A f, g \in 1..Len(forwards[p]) : f <= g => forwards[p][f].dist <= forwards[p][g].dist
  /\ newest[p] \in 0..Len(forwards[p])

Inductive == Types /\ \A p \in Peer : Ordered(p)

\* A step that sends nothing and hands nothing over leaves the order alone,
\* but for what the combiner has taken.
LEMMA OrderStays ==
    ASSUME NEW p \in Peer, Ordered(p), UNCHANGED <<dists, last, forwards>>, newest'[p] \in {newest[p], 0}, Len(forwards[p]) \in Nat
    PROVE  Ordered(p)'
BY DEF Ordered

\* One distribution more is no reason to forget an older one.
LEMMA OrderOfOneMore ==
    ASSUME Types, NEW p \in Peer, Ordered(p),
           NEW keys \in SUBSET Key, NEW tags \in SUBSET Key, NEW gone \in SUBSET Key,
           NEW to \in Peer \cup {Everyone}, Distribute(keys, tags, gone, to), UNCHANGED <<last, forwards, newest>>
    PROVE  Ordered(p)'
<1>1. Len(dists') = Len(dists) + 1 /\ Len(dists) \in Nat /\ \A d \in 1..Len(dists) : dists'[d] = dists[d]
  BY DistributeTypes DEF Types
<1>2. last'[p] \in 0..Len(dists')
  BY <1>1 DEF Ordered
<1>3. ASSUME NEW f \in 1..Len(forwards[p])
      PROVE  /\ forwards[p][f].dist \in 1..Len(dists') /\ forwards[p][f].dist <= last[p]
             /\ forwards[p][f].keys = dists'[forwards[p][f].dist].keys
  <2>1. /\ forwards[p][f].dist \in 1..Len(dists) /\ forwards[p][f].dist <= last[p]
        /\ forwards[p][f].keys = dists[forwards[p][f].dist].keys
    BY DEF Ordered
  <2>2. forwards[p][f].dist \in 1..Len(dists')
    BY <1>1, <2>1
  <2> QED
    BY <1>1, <2>1, <2>2
<1> QED
  BY <1>2, <1>3 DEF Ordered

\* A set as new as the newest is taken to disk, and perhaps handed over.
LEMMA OrderOfFresh ==
    ASSUME Types, NEW p \in Peer, NEW q \in Peer, Ordered(q), NEW d \in 1..Len(dists), ProcessFresh(p, d),
           UNCHANGED <<dists, newest>>
    PROVE  Ordered(q)'
<1>1. /\ d >= last[p] /\ last' = [last EXCEPT ![p] = d]
      /\ HandOver(p, d) \/ UNCHANGED forwards
  BY DEF ProcessFresh, HandOverFails
<1>2. /\ last \in [Peer -> 0..MaxDist] /\ forwards \in [Peer -> Seq(Forward)] /\ d \in Nat
      /\ Len(dists) \in Nat
  BY LenProperties DEF Types, AgentTypes, SenderTypes
<1>3. forwards[q] \in Seq(Forward) /\ Len(forwards[q]) \in Nat /\ last[q] \in Nat
  BY <1>2, LenProperties, BoundAssumption
<1>4. CASE q # p
  <2>1. last'[q] = last[q]
    BY <1>1, <1>2, <1>4
  <2>2. forwards'[q] = forwards[q]
    BY <1>1, <1>2, <1>4 DEF HandOver
  <2> QED
    BY <2>1, <2>2 DEF Ordered
<1>5. CASE q = p /\ UNCHANGED forwards
  <2>1. last'[q] = d
    BY <1>1, <1>2, <1>5
  <2>2. ASSUME NEW f \in 1..Len(forwards[q]) PROVE forwards[q][f].dist <= d
    <3>1. forwards[q][f].dist \in 1..Len(dists) /\ forwards[q][f].dist <= last[q]
      BY DEF Ordered
    <3> QED
      BY <1>1, <1>2, <1>3, <1>5, <3>1
  <2> QED
    BY <1>2, <1>5, <2>1, <2>2 DEF Ordered
<1>6. CASE q = p /\ HandOver(p, d)
  <2> DEFINE x == [keys |-> dists[d].keys, dist |-> d]
             n == Len(forwards[q])
             new == forwards'[q]
  <2>1. new = Append(forwards[q], x) /\ last'[q] = d
    BY <1>1, <1>2, <1>6 DEF HandOver
  <2>2. x \in Forward /\ x.dist = d /\ x.keys = dists[d].keys
    BY DistFacts DEF Types, Forward
  <2> HIDE DEF x
  <2>3. /\ Len(new) = n + 1 /\ new[n + 1] = x
        /\ \A f \in 1..n : new[f] = forwards[q][f]
    BY <1>3, <2>1, <2>2, AppendProperties
  <2>4. \A f \in 1..n : forwards[q][f].dist \in 1..Len(dists) /\ forwards[q][f].dist <= last[q]
                        /\ forwards[q][f].keys = dists[forwards[q][f].dist].keys
    BY DEF Ordered
  <2>5. \A f, g \in 1..n : f <= g => forwards[q][f].dist <= forwards[q][g].dist
    BY DEF Ordered
  <2>6. newest[q] \in 0..n
    BY DEF Ordered
  <2> HIDE DEF n, new
  <2>7. n \in Nat
    BY <1>3 DEF n
  <2>8. \A f \in 1..Len(new) : f \in 1..n \/ f = n + 1
    BY <2>3, <2>7
  <2>9. \A f \in 1..n : forwards[q][f].dist \in Nat /\ forwards[q][f].dist <= d
    BY <1>1, <1>2, <1>3, <1>6, <2>4
  <2>10. ASSUME NEW f \in 1..Len(new)
         PROVE  new[f].dist \in 1..Len(dists) /\ new[f].dist <= d /\ new[f].keys = dists[new[f].dist].keys
    <3>1. CASE f \in 1..n
      BY <2>3, <2>4, <2>9, <3>1
    <3>2. CASE f = n + 1
      BY <1>2, <2>2, <2>3, <3>2
    <3> QED
      BY <2>8, <3>1, <3>2
  <2>11. ASSUME NEW f \in 1..Len(new), NEW g \in 1..Len(new), f <= g PROVE new[f].dist <= new[g].dist
    <3>1. CASE g \in 1..n
      <4>1. f \in 1..n
        BY <2>7, <2>11, <3>1
      <4> QED
        BY <2>3, <2>5, <2>11, <3>1, <4>1
    <3>2. CASE g = n + 1
      BY <2>2, <2>3, <2>10, <3>2
    <3> QED
      BY <2>8, <3>1, <3>2
  <2>12. newest[q] \in 0..Len(new)
    BY <2>3, <2>6, <2>7
  <2>13. dists' = dists /\ newest' = newest /\ new = forwards'[q] /\ d \in 0..Len(dists)
    BY <1>2 DEF new
  <2> QED
    BY <2>1, <2>10, <2>11, <2>12, <2>13 DEF Ordered
<1> QED
  BY <1>1, <1>4, <1>5, <1>6

LEMMA OrderStep == Inductive /\ [Next]_vars => \A q \in Peer : Ordered(q)'
<1> SUFFICES ASSUME Inductive, [Next]_vars, NEW q \in Peer PROVE Ordered(q)'
  OBVIOUS
<1>1. Types /\ Ordered(q)
  BY DEF Inductive
<1>2. Len(forwards[q]) \in Nat
  BY <1>1, LenProperties DEF Types, AgentTypes
<1>3. CASE UNCHANGED <<dists, last, forwards, newest>>
  BY <1>1, <1>2, <1>3, OrderStays
<1>4. ASSUME NEW k \in Key, ApplyLocalUpdate(k) \/ Resend(k) PROVE Ordered(q)'
  <2>1. Mine \subseteq Key
    BY <1>1, MineType DEF Types
  <2> DEFINE gone == Mine \cap {k}
             keys == (Mine \cup {k}) \ gone
             left == {k} \ Mine
  <2>2. keys \in SUBSET Key /\ gone \in SUBSET Key /\ {k} \in SUBSET Key /\ Mine \in SUBSET Key /\ left \in SUBSET Key
    BY <2>1
  <2>3. Distribute(keys, {k}, gone, Everyone) \/ Distribute(Mine, {k}, left, Everyone)
    BY <1>4 DEF ApplyLocalUpdate, Resend
  <2>4. UNCHANGED <<last, forwards, newest>>
    BY <1>4 DEF ApplyLocalUpdate, Resend, agent, combiner
  <2> HIDE DEF gone, keys, left
  <2> QED
    BY <1>1, <2>2, <2>3, <2>4, OrderOfOneMore
<1>5. ASSUME NEW p \in Peer, CatchUpAnswer(p) PROVE Ordered(q)'
  <2>1. Mine \in SUBSET Key /\ {} \in SUBSET Key
    BY <1>1, MineType DEF Types
  <2>2. Distribute(Mine, {}, {}, p) /\ UNCHANGED <<last, forwards, newest>>
    BY <1>5 DEF CatchUpAnswer, agent, combiner
  <2> QED
    BY <1>1, <2>1, <2>2, OrderOfOneMore
<1>6. ASSUME SenderNext, \A k \in Key : ~(ApplyLocalUpdate(k) \/ Resend(k)), \A p \in Peer : ~CatchUpAnswer(p)
      PROVE  Ordered(q)'
  <2>1. UNCHANGED <<dists, last, forwards, newest>>
    BY <1>6 DEF SenderNext, RoleEnds, CopyIsDelayed, ProcessDnskeyConfirmation, LoseConfirmation,
                DnskeyNoRoleTimedOut, SenderRestarts, sender, agent, combiner
  <2> QED
    BY <1>3, <2>1
<1>7. ASSUME NEW p \in Peer, AgentNext(p) PROVE Ordered(q)'
  <2>1. ASSUME NEW d \in Dist, ApplyRemoteUpdate(p, d) PROVE Ordered(q)'
    <3>1. d \in 1..Len(dists) /\ UNCHANGED <<dists, newest>>
      BY <1>1, <2>1, DeliveredWasSent DEF ApplyRemoteUpdate, Types, sender, combiner
    <3>2. CASE ProcessFresh(p, d)
      BY <1>1, <3>1, <3>2, OrderOfFresh
    <3>3. CASE ProcessStale(p, d)
      BY <1>3, <3>1, <3>3 DEF ProcessStale
    <3> QED
      BY <2>1, <3>2, <3>3 DEF ApplyRemoteUpdate
  <2>2. ASSUME \A d \in Dist : ~ApplyRemoteUpdate(p, d) PROVE Ordered(q)'
    <3>1. UNCHANGED <<dists, last, forwards, newest>>
      BY <1>7, <2>2 DEF AgentNext, ProcessConfirmation, LoseWord, DropWord, AgentRestarts, AskOwn, EditsAnswer,
                        ApplyOwnRead, sender, agent, combiner
    <3> QED
      BY <1>3, <3>1
  <2> QED
    BY <2>1, <2>2
<1>8. ASSUME NEW p \in Peer, NEW f \in 1..MaxFwd, CombinerProcessOperations(p, f) PROVE Ordered(q)'
  <2>1. f \in 1..Len(forwards[p]) /\ UNCHANGED <<dists, last, forwards>>
    BY <1>1, <1>8 DEF Types, AgentTypes, CombinerProcessOperations, sender, agent
  <2>2. newest' = newest \/ newest' = [newest EXCEPT ![p] = f]
    BY <1>8 DEF CombinerProcessOperations
  <2>3. newest'[q] = newest[q] \/ (q = p /\ newest'[q] = f)
    BY <1>1, <2>2 DEF Types, CombinerTypes
  <2>4. newest'[q] \in 0..Len(forwards[q])
    BY <1>1, <1>2, <2>1, <2>3 DEF Ordered
  <2> QED
    BY <1>1, <2>1, <2>4 DEF Ordered
<1>9. ASSUME NEW p \in Peer, CombinerRestarts(p) PROVE Ordered(q)'
  <2>1. newest'[q] \in {newest[q], 0} /\ UNCHANGED <<dists, last, forwards>>
    BY <1>1, <1>9 DEF CombinerRestarts, Types, CombinerTypes, sender, agent
  <2> QED
    BY <1>1, <1>2, <2>1, OrderStays
<1>10. ASSUME NEW p \in Peer, PolicyChanges(p) PROVE Ordered(q)'
  BY <1>3, <1>10 DEF PolicyChanges, sender, agent
<1>11. CASE UNCHANGED vars
  BY <1>3, <1>11 DEF vars, sender, agent, combiner
<1> QED
  BY <1>4, <1>5, <1>6, <1>7, <1>8, <1>9, <1>10, <1>11 DEF Next, CombinerNext

LEMMA OrderInit == Init => \A p \in Peer : Ordered(p)
<1>1. Len(<<>>) = 0
  BY EmptySeq
<1> QED
  BY <1>1 DEF Init, Ordered

LEMMA InductiveAlways == Spec => []Inductive
<1>1. Init => Inductive
  BY TypeInit, OrderInit DEF Inductive
<1>2. Inductive /\ [Next]_vars => Inductive'
  BY TypesStep, OrderStep DEF Inductive
<1> QED
  BY <1>1, <1>2, PTL DEF Spec

-----------------------------------------------------------------------------
(* Each step, by the promise *)

Sets == [d \in 1..Len(dists) |-> dists[d].keys]
Version == [p \in Peer |-> IF newest[p] = 0 THEN 0 ELSE forwards[p][newest[p]].dist]

SetsFit ==
  /\ Sets \in Seq(SUBSET Key) /\ Len(Sets) = Len(dists)
  /\ \A d \in 1..Len(dists) : Sets[d] = dists[d].keys

LEMMA SetsIsSeq == Types => SetsFit
<1> SUFFICES ASSUME Types PROVE SetsFit
  OBVIOUS
<1>1. Len(dists) \in Nat
  BY LenProperties DEF Types, SenderTypes
<1>2. \A d \in 1..Len(dists) : dists[d].keys \in SUBSET Key
  BY DistFacts DEF Types
<1>3. Sets \in [1..Len(dists) -> SUBSET Key] /\ DOMAIN Sets = 1..Len(dists)
  BY <1>2 DEF Sets
<1>4. Sets \in Seq(SUBSET Key)
  BY <1>1, <1>3, SeqDef
<1>5. Len(Sets) \in Nat /\ DOMAIN Sets = 1..Len(Sets)
  BY <1>4, LenProperties
<1>6. \A m, n \in Nat : 1..m = 1..n => m = n
  <2> SUFFICES ASSUME NEW m \in Nat, NEW n \in Nat, 1..m = 1..n PROVE m = n
    OBVIOUS
  <2>1. m > 0 => m \in 1..n
    BY SMT
  <2>2. n > 0 => n \in 1..m
    BY SMT
  <2> QED
    BY <2>1, <2>2
<1>7. Len(Sets) = Len(dists)
  BY <1>1, <1>3, <1>5, <1>6
<1> QED
  BY <1>4, <1>7 DEF SetsFit, Sets

LEMMA SetsIsSeqPrimed == Types' => SetsFit'
BY SetsIsSeq, PTL

\* What is distributed is sent.
LEMMA DistributeSends ==
    ASSUME Types, Types', NEW keys \in SUBSET Key, NEW tags \in SUBSET Key, NEW gone \in SUBSET Key,
           NEW to \in Peer \cup {Everyone}, Distribute(keys, tags, gone, to), UNCHANGED <<forwards, newest, holds>>
    PROVE  Store!Send
<1>1. /\ Len(dists') = Len(dists) + 1 /\ Len(dists) \in Nat /\ dists'[Len(dists) + 1].keys = keys
      /\ \A d \in 1..Len(dists) : dists'[d] = dists[d]
  BY DistributeTypes DEF Types
<1>2. /\ Sets \in Seq(SUBSET Key) /\ Len(Sets) = Len(dists)
      /\ \A d \in 1..Len(dists) : Sets[d] = dists[d].keys
  BY SetsIsSeq DEF SetsFit
<1>3. /\ Sets' \in Seq(SUBSET Key) /\ Len(Sets') = Len(dists')
      /\ \A d \in 1..Len(dists') : Sets'[d] = dists'[d].keys
  BY SetsIsSeqPrimed DEF SetsFit
<1>4. /\ Append(Sets, keys) \in Seq(SUBSET Key) /\ Len(Append(Sets, keys)) = Len(Sets) + 1
      /\ Append(Sets, keys)[Len(Sets) + 1] = keys
      /\ \A d \in 1..Len(Sets) : Append(Sets, keys)[d] = Sets[d]
  BY <1>2, AppendProperties
<1>5. ASSUME NEW d \in 1..Len(Sets') PROVE Sets'[d] = Append(Sets, keys)[d]
  <2>1. d \in 1..Len(dists) \/ d = Len(dists) + 1
    BY <1>1, <1>3
  <2> QED
    BY <1>1, <1>2, <1>3, <1>4, <2>1
<1>6. Sets' = Append(Sets, keys)
  <2>1. Len(Sets') = Len(Append(Sets, keys))
    BY <1>1, <1>2, <1>3, <1>4
  <2> QED
    BY <1>3, <1>4, <1>5, <2>1, SeqEqual
<1>7. Version' = Version /\ holds' = holds
  BY DEF Version
<1> QED
  BY <1>6, <1>7 DEF Store!Send, Sets, Version

\* A forward that the combiner stores is of a set as new as the one it holds.
LEMMA OperationsTake ==
    ASSUME Inductive, NEW p \in Peer, NEW f \in 1..MaxFwd, CombinerProcessOperations(p, f)
    PROVE  Store!Take(p) \/ UNCHANGED <<Sets, Version, holds>>
<1>1. /\ f \in 1..Len(forwards[p]) /\ UNCHANGED <<dists, forwards>> /\ Ordered(p)
      /\ newest \in [Peer -> 0..MaxFwd] /\ holds \in [Peer -> SUBSET Key] /\ Types
  BY DEF Inductive, Types, AgentTypes, CombinerTypes, CombinerProcessOperations, sender, agent
<1>2. Len(dists) \in Nat /\ Len(forwards[p]) \in Nat
  BY <1>1, LenProperties DEF Types, SenderTypes, AgentTypes
<1>3. CASE TakenAs(p, f) \notin {"apply", "ignore"}
  <2>1. UNCHANGED <<dists, forwards, holds, newest>>
    BY <1>1, <1>3 DEF CombinerProcessOperations
  <2> QED
    BY <2>1 DEF Sets, Version
<1>4. CASE TakenAs(p, f) \in {"apply", "ignore"}
  <2> DEFINE d == forwards[p][f].dist
  <2>1. /\ holds' = [holds EXCEPT ![p] = forwards[p][f].keys] /\ newest' = [newest EXCEPT ![p] = f]
    BY <1>4 DEF CombinerProcessOperations
  <2>2. newest[p] <= f
    BY <1>1, <1>4 DEF TakenAs
  <2>3. d \in 1..Len(dists) /\ forwards[p][f].keys = dists[d].keys
    BY <1>1 DEF Ordered
  <2>4. newest[p] # 0 => forwards[p][newest[p]].dist <= d
    <3>1. newest[p] # 0 => newest[p] \in 1..Len(forwards[p])
      BY <1>1, <1>2 DEF Ordered
    <3> QED
      BY <1>1, <2>2, <3>1 DEF Ordered
  <2>5. Version[p] <= d
    BY <1>2, <2>3, <2>4 DEF Version
  <2>6. Version' = [Version EXCEPT ![p] = d]
    <3>1. \A q \in Peer : Version'[q] = [Version EXCEPT ![p] = d][q]
      BY <1>1, <2>1 DEF Version
    <3> QED
      BY <3>1 DEF Version
  <2>7. holds' = [holds EXCEPT ![p] = Sets[d]] /\ Sets' = Sets /\ d \in 1..Len(Sets)
    BY <1>1, <2>1, <2>3, SetsIsSeq DEF SetsFit, Sets
  <2> HIDE DEF d
  <2>8. d >= Version[p]
    BY <2>5
  <2>9. Store!Take(p)
    BY <2>6, <2>7, <2>8 DEF Store!Take, Sets, Version
  <2> QED
    BY <2>9
<1> QED
  BY <1>3, <1>4

\* Nothing but a hand-over changes what was handed over, and it leaves what
\* the combiner has taken where it was.
LEMMA HandOverKeepsVersion ==
    ASSUME Inductive, NEW p \in Peer, NEW d, HandOver(p, d), UNCHANGED newest
    PROVE  Version' = Version
<1>1. /\ forwards \in [Peer -> Seq(Forward)] /\ newest \in [Peer -> 0..MaxFwd]
      /\ \A q \in Peer : newest[q] \in 0..Len(forwards[q])
  BY DEF Inductive, Types, AgentTypes, CombinerTypes, Ordered
<1> SUFFICES ASSUME NEW q \in Peer, newest[q] # 0
             PROVE  forwards'[q][newest[q]] = forwards[q][newest[q]]
  BY DEF Version
<1>2. forwards[q] \in Seq(Forward) /\ newest[q] \in 1..Len(forwards[q])
  <2>1. Len(forwards[q]) \in Nat
    BY <1>1, LenProperties
  <2> QED
    BY <1>1, <2>1
<1> DEFINE x == [keys |-> dists[d].keys, dist |-> d]
<1>3. forwards' = [forwards EXCEPT ![p] = Append(forwards[p], x)]
  BY DEF HandOver
<1> HIDE DEF x
<1>4. CASE q = p
  <2>1. forwards'[q] = Append(forwards[q], x)
    BY <1>1, <1>3, <1>4
  <2> QED
    BY <1>2, <2>1, SMT
<1>5. CASE q # p
  BY <1>1, <1>3, <1>5
<1> QED
  BY <1>4, <1>5

LEMMA PromisedStep == Inductive /\ Inductive' /\ [Next]_vars => [Store!Next]_(Store!vars)
<1> SUFFICES ASSUME Inductive, Inductive', [Next]_vars PROVE [Store!Next]_(Store!vars)
  OBVIOUS
<1>1. Types /\ Types'
  BY DEF Inductive
<1>2. CASE UNCHANGED <<Sets, Version, holds>>
  BY <1>2 DEF Store!vars, Sets, Version
<1>3. CASE UNCHANGED <<dists, forwards, newest, holds>>
  <2>1. UNCHANGED <<Sets, Version, holds>>
    BY <1>3 DEF Sets, Version
  <2> QED
    BY <1>2, <2>1
<1>4. ASSUME NEW k \in Key, ApplyLocalUpdate(k) \/ Resend(k) PROVE Store!Next
  <2>1. Mine \subseteq Key
    BY <1>1, MineType DEF Types
  <2> DEFINE gone == Mine \cap {k}
             keys == (Mine \cup {k}) \ gone
             left == {k} \ Mine
  <2>2. keys \in SUBSET Key /\ gone \in SUBSET Key /\ {k} \in SUBSET Key /\ Mine \in SUBSET Key /\ left \in SUBSET Key
    BY <2>1
  <2>3. Distribute(keys, {k}, gone, Everyone) \/ Distribute(Mine, {k}, left, Everyone)
    BY <1>4 DEF ApplyLocalUpdate, Resend
  <2>4. UNCHANGED <<forwards, newest, holds>>
    BY <1>4 DEF ApplyLocalUpdate, Resend, agent, combiner
  <2> HIDE DEF gone, keys, left
  <2>5. Store!Send
    BY <1>1, <2>2, <2>3, <2>4, DistributeSends
  <2> QED
    BY <2>5 DEF Store!Next
<1>5. ASSUME NEW p \in Peer, CatchUpAnswer(p) PROVE Store!Next
  <2>1. Mine \in SUBSET Key /\ {} \in SUBSET Key
    BY <1>1, MineType DEF Types
  <2>2. Distribute(Mine, {}, {}, p) /\ UNCHANGED <<forwards, newest, holds>>
    BY <1>5 DEF CatchUpAnswer, agent, combiner
  <2>3. Store!Send
    BY <1>1, <2>1, <2>2, DistributeSends
  <2> QED
    BY <2>3 DEF Store!Next
<1>6. ASSUME SenderNext, \A k \in Key : ~(ApplyLocalUpdate(k) \/ Resend(k)), \A p \in Peer : ~CatchUpAnswer(p)
      PROVE  UNCHANGED <<dists, forwards, newest, holds>>
  BY <1>6 DEF SenderNext, RoleEnds, CopyIsDelayed, ProcessDnskeyConfirmation, LoseConfirmation,
              DnskeyNoRoleTimedOut, SenderRestarts, sender, agent, combiner
<1>7. ASSUME NEW p \in Peer, AgentNext(p) PROVE UNCHANGED <<Sets, Version, holds>>
  <2>1. UNCHANGED <<dists, newest, holds>>
    BY <1>7 DEF AgentNext, ApplyRemoteUpdate, ProcessConfirmation, LoseWord, DropWord, AgentRestarts, AskOwn,
                EditsAnswer, ApplyOwnRead, sender, combiner
  <2>2. UNCHANGED forwards \/ \E d \in Dist : HandOver(p, d)
    BY <1>7 DEF AgentNext, ApplyRemoteUpdate, ProcessFresh, ProcessStale, HandOverFails, ProcessConfirmation,
                LoseWord, DropWord, AgentRestarts, AskOwn, EditsAnswer, ApplyOwnRead, agent
  <2>3. Version' = Version
    BY <2>1, <2>2, HandOverKeepsVersion DEF Version
  <2> QED
    BY <2>1, <2>3 DEF Sets
<1>8. ASSUME NEW p \in Peer, NEW f \in 1..MaxFwd, CombinerProcessOperations(p, f)
      PROVE  Store!Next \/ UNCHANGED <<Sets, Version, holds>>
  BY <1>8, OperationsTake DEF Store!Next
<1>9. ASSUME NEW p \in Peer, CombinerRestarts(p) PROVE Store!Next
  <2>1. UNCHANGED <<dists, forwards, holds>> /\ newest' = [newest EXCEPT ![p] = 0]
    BY <1>9 DEF CombinerRestarts, sender, agent
  <2>2. newest \in [Peer -> 0..MaxFwd]
    BY <1>1 DEF Types, CombinerTypes
  <2>3. Version' = [Version EXCEPT ![p] = 0]
    <3>1. \A q \in Peer : Version'[q] = [Version EXCEPT ![p] = 0][q]
      BY <2>1, <2>2 DEF Version
    <3> QED
      BY <3>1 DEF Version
  <2>4. Sets' = Sets
    BY <2>1 DEF Sets
  <2>5. Store!Forget(p)
    BY <2>1, <2>3, <2>4 DEF Store!Forget, Sets, Version
  <2> QED
    BY <2>5 DEF Store!Next
<1>10. ASSUME NEW p \in Peer, PolicyChanges(p) PROVE UNCHANGED <<dists, forwards, newest, holds>>
  BY <1>10 DEF PolicyChanges, sender, agent
<1>11. CASE UNCHANGED vars
  BY <1>3, <1>11 DEF vars, sender, agent, combiner
<1> QED
  BY <1>2, <1>3, <1>4, <1>5, <1>6, <1>7, <1>8, <1>9, <1>10, <1>11 DEF Next, CombinerNext

LEMMA PromisedInit == Init => Store!Init
<1> SUFFICES ASSUME Init PROVE Store!Init
  OBVIOUS
<1>1. Len(dists) = 0 /\ newest = [p \in Peer |-> 0] /\ holds = [p \in Peer |-> {}]
  BY EmptySeq DEF Init
<1>2. Types
  BY TypeInit
<1>3. Sets = <<>>
  <2>1. Sets \in Seq(SUBSET Key) /\ Len(Sets) = 0
    BY <1>1, <1>2, SetsIsSeq DEF SetsFit
  <2> QED
    BY <2>1, EmptySeq
<1>4. Version = [p \in Peer |-> 0]
  BY <1>1 DEF Version
<1> QED
  BY <1>1, <1>3, <1>4 DEF Store!Init, Sets, Version

\* The detail implements the promise (KeyStore): each peer's combiner holds
\* one of the sets that were sent, whole, and goes to newer ones only,
\* whatever the queues resend, the network delays, and the agents forget.
THEOREM KeepsThePromise == Spec => ImplementsKeyStore
BY InductiveAlways, PromisedInit, PromisedStep, PTL DEF Spec, ImplementsKeyStore, Store!Spec
-----------------------------------------------------------------------------
(* What the signer is told *)

\* The sender has not changed its mind about k since distribution d.
Lasts(k, d) == \A e \in d..Len(dists) : k \in dists[e].keys <=> k \in dists[d].keys

\* The peer has lost nothing that a word about k of distribution d rests on.
Known(p, k, d) == "combiner" \notin lost[p] /\ (k \in dists[d].keys \/ "agent" \notin lost[p])

\* What the agent still hands over is no older than distribution d.
NoneOlder(p, d) == d <= last[p] /\ \A f \in handing[p] : f > newest[p] => forwards[p][f].dist >= d

\* What a confirmation of k in distribution d means, from the moment it is
\* made until the sender changes its mind.
Shown(p, k, d) ==
  Lasts(k, d) /\ Known(p, k, d) => (k \in holds[p] <=> k \in dists[d].keys) /\ NoneOlder(p, d)

\* What is relayed, and what waits, is of hand-overs that were made; one
\* under way is the last, of what the repo has; one that failed has no
\* number; an own read fits no hand-over that is not confirmed.
Handed(p) ==
  /\ \A r \in prc[p] : r[1] \in 1..Len(forwards[p]) /\ forwards[p][r[1]].dist = r[2]
  /\ \A r \in waits[p] : r[1] \in 1..Len(forwards[p]) /\ r[2] <= forwards[p][r[1]].dist
  /\ InFlight(note[p]) => /\ note[p].fwd = Len(forwards[p]) /\ note[p].fwd \in 1..Len(forwards[p])
                          /\ forwards[p][note[p].fwd].dist = last[p]
                          /\ forwards[p][note[p].fwd].keys = repo[p]
  /\ NotHandedOver(note[p]) => note[p].fwd = 0
  /\ own[p].fit => note[p].state \in {"none", "confirmed"}

\* The combiner holds the newest forward it took, and its words are of
\* forwards it took or passed over.
Stored(p) ==
  /\ newest[p] = 0 => holds[p] = {}
  /\ newest[p] # 0 => holds[p] = forwards[p][newest[p]].keys
  /\ \A w \in words[p] : w.status = "ok" \/ w.applied # {} \/ w.removed # {} => w.fwd <= newest[p]

\* With no hand-over open, the repo has no more than the combiner, and,
\* in an agent that never restarted, the newest set.
Settled(p) ==
  /\ \A f \in handing[p] : f <= newest[p]
  /\ repo[p] \subseteq holds[p]
  /\ own[p].state = "answered" /\ own[p].fit => own[p].keys = holds[p]
  /\ "agent" \notin lost[p] => repo[p] = holds[p] /\ (last[p] # 0 => repo[p] = dists[last[p]].keys)

PeerFacts(p) ==
  /\ Handed(p)
  /\ "combiner" \notin lost[p] => Stored(p) /\ (note[p].state \in {"none", "confirmed"} => Settled(p))

\* A confirmation under way means what it says.
ConfirmedTrue(c) ==
  /\ c.dist \in 1..Len(dists)
  /\ \A k \in Key : c.status = "ok" \/ k \in c.done => Shown(c.peer, k, c.dist)

\* A distribution has the keys it is about, but for those it removes.
TagsFit == \A d \in 1..Len(dists) : \A k \in dists[d].tags : k \in dists[d].keys <=> k \notin dists[d].gone

\* A resend takes over what it sends again.
AliasFit == \A d, e \in Dist : alias[d] = e => e \in 1..Len(dists) /\ d \in Sent(e)

\* What "applied" means for k of a tracking d.
Applied(d, p, k) == k \in dists[d].tags /\ \E e \in Sent(d) : Shown(p, k, e)

ResultFit ==
  /\ \A d \in open : \A p \in Peer : \A k \in Key :
       /\ result[d][p][k] = "applied" => Applied(d, p, k)
       /\ result[d][p][k] = "timed out" => role[p] = "none"
  /\ \A d \in Dist \ open : result[d] = NoResult

Truthful ==
  /\ Inductive /\ TagsFit /\ AliasFit /\ ResultFit
  /\ \A p \in Peer : PeerFacts(p)
  /\ \A c \in confs : ConfirmedTrue(c)

\* The sets sent stay as they were sent.
Grows ==
  /\ Len(dists) \in Nat /\ Len(dists') \in Nat /\ Len(dists) <= Len(dists')
  /\ \A d \in 1..Len(dists) : dists'[d] = dists[d]

LEMMA DistributeGrows ==
    ASSUME SenderTypes, NEW keys \in SUBSET Key, NEW tags \in SUBSET Key, NEW gone \in SUBSET Key,
           NEW to \in Peer \cup {Everyone}, Distribute(keys, tags, gone, to)
    PROVE  Grows
<1>1. Len(dists') = Len(dists) + 1 /\ Len(dists) \in Nat /\ \A d \in 1..Len(dists) : dists'[d] = dists[d]
  BY DistributeTypes
<1> QED
  BY <1>1 DEF Grows

LEMMA SameGrows == ASSUME SenderTypes, UNCHANGED dists PROVE Grows
BY LenProperties DEF SenderTypes, Grows

LEMMA LocalUpdateIs ==
    ASSUME SenderTypes, NEW k \in Key, ApplyLocalUpdate(k)
    PROVE  \E keys, gone \in SUBSET Key :
             Distribute(keys, {k}, gone, Everyone) /\ (k \in keys <=> k \notin gone) /\ {k} \in SUBSET Key
<1>1. Mine \subseteq Key
  BY MineType
<1> DEFINE gone == Mine \cap {k}
           keys == (Mine \cup {k}) \ gone
<1>2. keys \in SUBSET Key /\ gone \in SUBSET Key /\ (k \in keys <=> k \notin gone)
  BY <1>1
<1>3. Distribute(keys, {k}, gone, Everyone)
  BY DEF ApplyLocalUpdate
<1> HIDE DEF keys, gone
<1> QED
  BY <1>2, <1>3

LEMMA GrowsStep == ASSUME SenderTypes, [Next]_vars PROVE Grows
<1>1. ASSUME NEW k \in Key, ApplyLocalUpdate(k) PROVE Grows
  <2>1. PICK keys \in SUBSET Key, gone \in SUBSET Key : Distribute(keys, {k}, gone, Everyone)
    BY <1>1, LocalUpdateIs
  <2> QED
    BY <2>1, DistributeGrows
<1>2. ASSUME NEW k \in Key, Resend(k) PROVE Grows
  <2> DEFINE left == {k} \ Mine
  <2>1. Mine \in SUBSET Key /\ left \in SUBSET Key
    BY MineType
  <2>2. Distribute(Mine, {k}, left, Everyone)
    BY <1>2 DEF Resend
  <2> HIDE DEF left
  <2> QED
    BY <2>1, <2>2, DistributeGrows
<1>3. ASSUME NEW p \in Peer, CatchUpAnswer(p) PROVE Grows
  <2>1. Mine \in SUBSET Key /\ Distribute(Mine, {}, {}, p)
    BY <1>3, MineType DEF CatchUpAnswer
  <2> QED
    BY <2>1, DistributeGrows
<1>4. ASSUME SenderNext, \A k \in Key : ~(ApplyLocalUpdate(k) \/ Resend(k)), \A p \in Peer : ~CatchUpAnswer(p)
      PROVE  UNCHANGED dists
  BY <1>4 DEF SenderNext, RoleEnds, CopyIsDelayed, ProcessDnskeyConfirmation, LoseConfirmation,
              DnskeyNoRoleTimedOut, SenderRestarts, sender
<1>5. ASSUME NEW p \in Peer, AgentNext(p) PROVE UNCHANGED dists
  BY <1>5 DEF AgentNext, ApplyRemoteUpdate, ProcessConfirmation, LoseWord, DropWord, AgentRestarts, AskOwn,
              EditsAnswer, ApplyOwnRead, sender
<1>6. ASSUME NEW p \in Peer, CombinerNext(p) PROVE UNCHANGED dists
  BY <1>6 DEF CombinerNext, CombinerProcessOperations, CombinerRestarts, PolicyChanges, sender
<1>7. CASE UNCHANGED vars
  BY <1>7, SameGrows DEF vars, sender
<1> QED
  BY <1>1, <1>2, <1>3, <1>4, <1>5, <1>6, <1>7, SameGrows DEF Next

\* A word's meaning outlives every step but a taking, and a restart, of the
\* combiner: what is handed over is no older than what was taken to disk.
LEMMA ShownStays ==
    ASSUME Grows, NEW p \in Peer, last[p] \in Nat, last'[p] \in Nat, last[p] <= last'[p],
           holds'[p] = holds[p], newest'[p] = newest[p], lost[p] \subseteq lost'[p],
           \A f \in handing'[p] : \/ f \in handing[p] /\ forwards'[p][f] = forwards[p][f]
                                  \/ forwards'[p][f].dist \in Nat /\ forwards'[p][f].dist >= last[p],
           NEW k \in Key, NEW d \in 1..Len(dists), Shown(p, k, d)
    PROVE  Shown(p, k, d)'
<1> SUFFICES ASSUME Lasts(k, d)', Known(p, k, d)'
             PROVE  (k \in holds[p] <=> k \in dists'[d].keys) /\ NoneOlder(p, d)'
  BY DEF Shown
<1>1. dists'[d] = dists[d] /\ d \in Nat /\ Len(dists) \in Nat /\ Len(dists') \in Nat /\ Len(dists) <= Len(dists')
  BY DEF Grows
<1>2. Lasts(k, d)
  <2> SUFFICES ASSUME NEW e \in d..Len(dists) PROVE k \in dists[e].keys <=> k \in dists[d].keys
    BY DEF Lasts
  <2>1. e \in d..Len(dists') /\ e \in 1..Len(dists)
    BY <1>1
  <2>2. k \in dists'[e].keys <=> k \in dists'[d].keys
    BY <2>1 DEF Lasts
  <2> QED
    BY <1>1, <2>1, <2>2 DEF Grows
<1>3. Known(p, k, d)
  BY <1>1 DEF Known
<1>4. (k \in holds[p] <=> k \in dists[d].keys) /\ NoneOlder(p, d)
  BY <1>2, <1>3 DEF Shown
<1>5. NoneOlder(p, d)'
  <2>1. d <= last[p] /\ d <= last'[p]
    BY <1>1, <1>4 DEF NoneOlder
  <2>2. ASSUME NEW f \in handing'[p], f > newest'[p] PROVE forwards'[p][f].dist >= d
    BY <1>1, <1>4, <2>1, <2>2 DEF NoneOlder
  <2> QED
    BY <2>1, <2>2 DEF NoneOlder
<1> QED
  BY <1>1, <1>4, <1>5

\* A peer is left alone, but for what the others and the sender do, and for
\* what its agent drops.
Aside(p) ==
  /\ last'[p] = last[p] /\ repo'[p] = repo[p] /\ note'[p] = note[p] /\ forwards'[p] = forwards[p]
  /\ handing'[p] \subseteq handing[p] /\ prc'[p] \subseteq prc[p] /\ waits'[p] \subseteq waits[p]
  /\ words'[p] \subseteq words[p] /\ own'[p] = own[p]
  /\ holds'[p] = holds[p] /\ newest'[p] = newest[p]
  /\ lost'[p] = lost[p]

LEMMA AsideFacts ==
    ASSUME Grows, NEW p \in Peer, Ordered(p), Aside(p), PeerFacts(p)
    PROVE  PeerFacts(p)'
<1>1. Handed(p)'
  BY DEF PeerFacts, Handed, Aside, InFlight, NotHandedOver
<1>2. ASSUME "combiner" \notin lost'[p], Stored(p) PROVE Stored(p)'
  BY <1>2 DEF Stored, Aside
<1>3. ASSUME Settled(p) PROVE Settled(p)'
  <2>1. last[p] # 0 => last[p] \in 1..Len(dists)
    BY DEF Ordered, Grows
  <2>2. last[p] # 0 => dists'[last[p]] = dists[last[p]]
    BY <2>1 DEF Grows
  <2> QED
    BY <1>3, <2>2 DEF Settled, Aside
<1> QED
  BY <1>1, <1>2, <1>3 DEF PeerFacts, Aside

LEMMA AsideShows ==
    ASSUME Grows, NEW p \in Peer, last[p] \in Nat, Aside(p), NEW k \in Key, NEW d \in 1..Len(dists), Shown(p, k, d)
    PROVE  Shown(p, k, d)'
<1>1. \A f \in handing'[p] : f \in handing[p] /\ forwards'[p][f] = forwards[p][f]
  BY DEF Aside
<1>2. last'[p] = last[p] /\ holds'[p] = holds[p] /\ newest'[p] = newest[p] /\ lost[p] \subseteq lost'[p]
  BY DEF Aside
<1> QED
  BY <1>1, <1>2, ShownStays

\* The steps that leave every peer aside, and those that leave all but one.
LEMMA UnchangedAside == ASSUME UNCHANGED <<agent, words, own, combiner>>, NEW p PROVE Aside(p)
BY DEF Aside, agent, combiner

LEMMA AgentAside ==
    ASSUME Types, NEW p \in Peer, AgentNext(p), NEW q \in Peer, q # p PROVE Aside(q)
<1>1. /\ repo \in [Peer -> SUBSET Key] /\ last \in [Peer -> 0..MaxDist] /\ note \in [Peer -> Note]
      /\ forwards \in [Peer -> Seq(Forward)] /\ handing \in [Peer -> SUBSET (1..MaxFwd)]
      /\ prc \in [Peer -> SUBSET ((1..MaxFwd) \X Dist)] /\ waits \in [Peer -> SUBSET ((1..MaxFwd) \X Dist)]
      /\ words \in [Peer -> SUBSET Word] /\ own \in [Peer -> Read] /\ lost \in [Peer -> SUBSET {"agent", "combiner", "publish"}]
  BY DEF Types, AgentTypes, CombinerTypes, WireTypes
<1>2. ASSUME NEW d \in Dist, ApplyRemoteUpdate(p, d) PROVE Aside(q)
  <2>1. UNCHANGED <<words, combiner>>
    BY <1>2 DEF ApplyRemoteUpdate
  <2>2. CASE ProcessStale(p, d)
    <3>1. UNCHANGED <<repo, last, note, forwards, handing, prc, own>> /\ waits'[q] = waits[q]
      BY <1>1, <2>2 DEF ProcessStale
    <3> QED
      BY <2>1, <3>1 DEF Aside, combiner
  <2>3. CASE ProcessFresh(p, d)
    <3>1. last'[q] = last[q] /\ repo'[q] = repo[q] /\ own'[q] = own[q] /\ waits' = waits
      BY <1>1, <2>3 DEF ProcessFresh
    <3>2. note'[q] = note[q] /\ forwards'[q] = forwards[q] /\ handing'[q] = handing[q] /\ prc'[q] = prc[q]
      BY <1>1, <2>3 DEF ProcessFresh, HandOver, HandOverFails
    <3> QED
      BY <2>1, <3>1, <3>2 DEF Aside, combiner
  <2> QED
    BY <1>2, <2>2, <2>3 DEF ApplyRemoteUpdate
<1>3. ASSUME NEW w \in words[p], ProcessConfirmation(p, w) PROVE Aside(q)
  <2>1. /\ words'[q] = words[q] /\ handing'[q] = handing[q] /\ note'[q] = note[q] /\ prc'[q] = prc[q]
        /\ waits'[q] = waits[q] /\ own'[q] = own[q]
    BY <1>1, <1>3 DEF ProcessConfirmation
  <2>2. UNCHANGED <<repo, last, forwards, combiner>>
    BY <1>3 DEF ProcessConfirmation
  <2> QED
    BY <2>1, <2>2 DEF Aside, combiner
<1>4. ASSUME NEW w \in words[p], LoseWord(p, w) \/ DropWord(p, w) PROVE Aside(q)
  BY <1>1, <1>4 DEF LoseWord, DropWord, Aside, agent, combiner
<1>5. CASE AgentRestarts(p)
  BY <1>1, <1>5 DEF AgentRestarts, Aside
<1>6. CASE AskOwn(p) \/ EditsAnswer(p)
  BY <1>1, <1>6 DEF AskOwn, EditsAnswer, Aside, agent, combiner
<1>7. CASE ApplyOwnRead(p)
  BY <1>1, <1>7 DEF ApplyOwnRead, Aside, combiner
<1> QED
  BY <1>2, <1>3, <1>4, <1>5, <1>6, <1>7 DEF AgentNext

LEMMA CombinerAside ==
    ASSUME Types, NEW p \in Peer, CombinerNext(p), NEW q \in Peer, q # p PROVE Aside(q)
<1>1. /\ words \in [Peer -> SUBSET Word] /\ holds \in [Peer -> SUBSET Key] /\ newest \in [Peer -> 0..MaxFwd]
      /\ lost \in [Peer -> SUBSET {"agent", "combiner", "publish"}]
  BY DEF Types, CombinerTypes, WireTypes
<1>2. ASSUME NEW f \in 1..MaxFwd, CombinerProcessOperations(p, f) PROVE Aside(q)
  <2>1. words'[q] = words[q] /\ lost'[q] = lost[q] /\ holds'[q] = holds[q] /\ newest'[q] = newest[q]
    BY <1>1, <1>2 DEF CombinerProcessOperations
  <2> QED
    BY <1>2, <2>1 DEF CombinerProcessOperations, Aside, agent
<1>3. CASE CombinerRestarts(p) \/ PolicyChanges(p)
  BY <1>1, <1>3 DEF CombinerRestarts, PolicyChanges, Aside, agent
<1> QED
  BY <1>2, <1>3 DEF CombinerNext

\* What a combiner that took forward f, or a newer one, shows of every
\* distribution no newer than that forward's.
LEMMA TakenShows ==
    ASSUME Types, NEW p \in Peer, Ordered(p), NEW f \in 1..Len(forwards[p]),
           "combiner" \notin lost[p] => Stored(p) /\ f <= newest[p],
           NEW d \in 1..Len(dists), d <= forwards[p][f].dist, NEW k \in Key
    PROVE  Shown(p, k, d)
<1> SUFFICES ASSUME Lasts(k, d), "combiner" \notin lost[p]
             PROVE  (k \in holds[p] <=> k \in dists[d].keys) /\ NoneOlder(p, d)
  BY DEF Shown, Known
<1> DEFINE n == newest[p]
           e == forwards[p][n].dist
<1>1. Len(forwards[p]) \in Nat /\ Len(dists) \in Nat /\ handing[p] \subseteq 1..Len(forwards[p])
  BY LenProperties DEF Types, AgentTypes, SenderTypes
<1>2. n \in 1..Len(forwards[p]) /\ f <= n
  BY <1>1 DEF Ordered
<1>3. /\ e \in 1..Len(dists) /\ e <= last[p] /\ forwards[p][n].keys = dists[e].keys
      /\ forwards[p][f].dist <= e /\ forwards[p][f].dist \in 1..Len(dists) /\ last[p] \in Nat
  BY <1>1, <1>2 DEF Ordered
<1>4. holds[p] = dists[e].keys
  BY <1>1, <1>2, <1>3 DEF Stored
<1>5. e \in d..Len(dists)
  BY <1>1, <1>3
<1>6. k \in holds[p] <=> k \in dists[d].keys
  BY <1>4, <1>5 DEF Lasts
<1>7. ASSUME NEW g \in handing[p], g > n PROVE forwards[p][g].dist >= d
  <2>1. g \in 1..Len(forwards[p]) /\ n <= g
    BY <1>1, <1>2, <1>7
  <2>2. e <= forwards[p][g].dist /\ forwards[p][g].dist \in 1..Len(dists)
    BY <1>2, <2>1 DEF Ordered
  <2> QED
    BY <1>5, <2>2
<1>8. d <= last[p]
  BY <1>3, <1>5
<1> QED
  BY <1>6, <1>7, <1>8 DEF NoneOlder

-----------------------------------------------------------------------------
(* The combiner's steps *)

LEMMA WordOnTakes ==
    ASSUME NEW f, NEW keys, NEW old, NEW taken, NEW published,
           NEW w, w = WordOn(f, keys, old, taken, published),
           w.status = "ok" \/ w.applied # {} \/ w.removed # {}
    PROVE  taken # "reject" /\ w.fwd = f
<1> DEFINE named == IF keys \ old # {} THEN keys \ old ELSE keys
           none == [fwd |-> f, status |-> "ok", applied |-> {}, removed |-> {}, ignored |-> {}, rejected |-> {}]
<1>1. taken # "reject"
  BY DEF WordOn
<1>2. CASE taken = "stale"
  BY <1>2 DEF WordOn
<1>3. CASE taken = "ignore"
  <2>1. w = [none EXCEPT !.status = IF named = {} THEN "ok" ELSE "ignored", !.ignored = named]
    BY <1>3 DEF WordOn
  <2> HIDE DEF named
  <2> QED
    BY <1>1, <2>1
<1>4. CASE taken \notin {"reject", "stale", "ignore"}
  <2>1. w = [none EXCEPT !.status = IF published THEN "ok" ELSE "partial", !.applied = named, !.removed = old \ keys]
    BY <1>4 DEF WordOn
  <2> HIDE DEF named
  <2> QED
    BY <1>1, <2>1
<1> QED
  BY <1>1, <1>2, <1>3, <1>4

\* What the combiner does with a forward it is handed, in a few cases.
OperationIs(p, f) ==
  /\ UNCHANGED <<sender, net, confs, agent, own, takes>>
  /\ f \in handing[p] /\ lost[p] \subseteq lost'[p] /\ lost'[p] \subseteq lost[p] \cup {"publish"}
  /\ \/ newest'[p] = f /\ newest[p] <= f /\ holds'[p] = forwards[p][f].keys
     \/ newest'[p] = newest[p] /\ holds'[p] = holds[p]
  /\ \A w \in words'[p] : w \notin words[p] /\ (w.status = "ok" \/ w.applied # {} \/ w.removed # {}) => w.fwd <= newest'[p]

LEMMA OperationCases ==
    ASSUME Types, NEW p \in Peer, NEW f \in 1..MaxFwd, CombinerProcessOperations(p, f)
    PROVE  OperationIs(p, f)
<1> DEFINE keys == forwards[p][f].keys
           taken == TakenAs(p, f)
<1>1. /\ UNCHANGED <<sender, net, confs, agent, own, takes>> /\ f \in handing[p]
      /\ IF taken \in {"apply", "ignore"}
         THEN holds' = [holds EXCEPT ![p] = keys] /\ newest' = [newest EXCEPT ![p] = f]
         ELSE holds' = holds /\ newest' = newest
  BY DEF CombinerProcessOperations
<1>2. PICK published \in BOOLEAN :
        /\ lost' = [lost EXCEPT ![p] = IF published THEN lost[p] ELSE lost[p] \cup {"publish"}]
        /\ words' = [words EXCEPT ![p] = words[p] \cup {WordOn(f, keys, holds[p], taken, published)}]
  BY DEF CombinerProcessOperations
<1>3. /\ holds \in [Peer -> SUBSET Key] /\ newest \in [Peer -> 0..MaxFwd]
      /\ lost \in [Peer -> SUBSET {"agent", "combiner", "publish"}] /\ words \in [Peer -> SUBSET Word]
      /\ MaxFwd \in Nat
  BY BoundAssumption DEF Types, CombinerTypes, WireTypes
<1>4. lost[p] \subseteq lost'[p] /\ lost'[p] \subseteq lost[p] \cup {"publish"}
  BY <1>2, <1>3
<1>5. /\ taken \in {"reject", "stale", "ignore", "apply"}
      /\ taken = "stale" => newest[p] > f
      /\ taken \in {"ignore", "apply"} => newest[p] <= f
  BY <1>3 DEF TakenAs
<1> DEFINE x == WordOn(f, keys, holds[p], taken, published)
<1>6. words'[p] = words[p] \cup {x}
  BY <1>2, <1>3
<1>7. x.status = "ok" \/ x.applied # {} \/ x.removed # {} => taken # "reject" /\ x.fwd = f
  BY WordOnTakes
<1> HIDE DEF x, keys, taken
<1>8. CASE taken \in {"apply", "ignore"}
  <2>1. newest'[p] = f /\ newest[p] <= f /\ holds'[p] = keys
    BY <1>1, <1>3, <1>5, <1>8
  <2>2. \A w \in words'[p] : w \notin words[p] /\ (w.status = "ok" \/ w.applied # {} \/ w.removed # {}) => w.fwd <= newest'[p]
    BY <1>3, <1>6, <1>7, <2>1
  <2> QED
    BY <1>1, <1>4, <2>1, <2>2 DEF OperationIs, keys
<1>9. CASE taken \notin {"apply", "ignore"}
  <2>1. newest'[p] = newest[p] /\ holds'[p] = holds[p]
    BY <1>1, <1>9
  <2>2. \A w \in words'[p] : w \notin words[p] /\ (w.status = "ok" \/ w.applied # {} \/ w.removed # {}) => w.fwd <= newest'[p]
    BY <1>3, <1>5, <1>6, <1>7, <1>9, <2>1
  <2> QED
    BY <1>1, <1>4, <2>1, <2>2 DEF OperationIs
<1> QED
  BY <1>8, <1>9

LEMMA OperationFacts ==
    ASSUME Types, NEW p \in Peer, Ordered(p), NEW f \in 1..MaxFwd, OperationIs(p, f), PeerFacts(p)
    PROVE  PeerFacts(p)'
<1>1. /\ f \in 1..Len(forwards[p]) /\ Len(forwards[p]) \in Nat /\ newest[p] \in 0..MaxFwd /\ MaxFwd \in Nat
      /\ words[p] \subseteq Word
  BY LenProperties, BoundAssumption DEF Types, AgentTypes, CombinerTypes, WireTypes, OperationIs
<1>2. Handed(p)'
  BY DEF PeerFacts, Handed, OperationIs, agent, InFlight, NotHandedOver
<1>3. SUFFICES ASSUME "combiner" \notin lost'[p]
               PROVE  Stored(p)' /\ (note'[p].state \in {"none", "confirmed"} => Settled(p)')
  BY <1>2 DEF PeerFacts
<1>4. "combiner" \notin lost[p] /\ ("agent" \in lost'[p] <=> "agent" \in lost[p])
  BY <1>3 DEF OperationIs
<1>5. Stored(p) /\ newest[p] <= newest'[p] /\ UNCHANGED <<dists, repo, last, forwards, note, own, handing>>
  BY <1>1, <1>4 DEF PeerFacts, OperationIs, agent, sender
<1>6. Stored(p)'
  <2>1. newest'[p] # 0 => holds'[p] = forwards[p][newest'[p]].keys
    BY <1>1, <1>5 DEF Stored, OperationIs
  <2>2. newest'[p] = 0 => holds'[p] = {}
    BY <1>1, <1>5 DEF Stored, OperationIs
  <2>3. ASSUME NEW w \in words'[p], w.status = "ok" \/ w.applied # {} \/ w.removed # {} PROVE w.fwd <= newest'[p]
    <3>1. CASE w \in words[p]
      <4>1. w.fwd <= newest[p] /\ w.fwd \in Nat
        BY <1>1, <1>5, <2>3, <3>1 DEF Stored, Word
      <4>2. newest'[p] \in Nat
        BY <1>1 DEF OperationIs
      <4> QED
        BY <1>1, <1>5, <4>1, <4>2
    <3>2. CASE w \notin words[p]
      BY <2>3, <3>2 DEF OperationIs
    <3> QED
      BY <3>1, <3>2
  <2> QED
    BY <1>5, <2>1, <2>2, <2>3 DEF Stored
<1>7. ASSUME note[p].state \in {"none", "confirmed"} PROVE Settled(p)'
  <2>1. Settled(p)
    BY <1>4, <1>7 DEF PeerFacts
  <2>2. f <= newest[p]
    BY <2>1 DEF Settled, OperationIs
  <2>3. newest'[p] = newest[p] /\ holds'[p] = holds[p]
    BY <1>1, <1>5, <2>2 DEF OperationIs, Stored
  <2> QED
    BY <1>4, <1>5, <2>1, <2>3 DEF Settled
<1> QED
  BY <1>5, <1>6, <1>7

LEMMA OperationShows ==
    ASSUME Types, NEW p \in Peer, Ordered(p), NEW f \in 1..MaxFwd, OperationIs(p, f), PeerFacts(p),
           NEW k \in Key, NEW d \in 1..Len(dists), Shown(p, k, d)
    PROVE  Shown(p, k, d)'
<1>1. /\ f \in 1..Len(forwards[p]) /\ Len(forwards[p]) \in Nat /\ Len(dists) \in Nat
      /\ newest[p] \in 0..MaxFwd /\ MaxFwd \in Nat /\ handing[p] \subseteq 1..Len(forwards[p])
  BY LenProperties, BoundAssumption DEF Types, AgentTypes, CombinerTypes, SenderTypes, OperationIs
<1>2. UNCHANGED <<dists, last, forwards, handing>> /\ f \in handing[p]
  BY DEF OperationIs, agent, sender
<1> SUFFICES ASSUME Lasts(k, d)', Known(p, k, d)'
             PROVE  (k \in holds'[p] <=> k \in dists[d].keys) /\ NoneOlder(p, d)'
  BY <1>2 DEF Shown
<1>3. Lasts(k, d) /\ Known(p, k, d)
  BY <1>2 DEF Lasts, Known, OperationIs
<1>4. (k \in holds[p] <=> k \in dists[d].keys) /\ NoneOlder(p, d)
  BY <1>3 DEF Shown
<1>5. CASE newest'[p] = newest[p] /\ holds'[p] = holds[p]
  BY <1>2, <1>4, <1>5 DEF NoneOlder
<1>6. CASE newest'[p] = f /\ newest[p] <= f /\ holds'[p] = forwards[p][f].keys
  <2> DEFINE e == forwards[p][f].dist
  <2>1. e \in 1..Len(dists) /\ holds'[p] = dists[e].keys
    BY <1>1, <1>6 DEF Ordered
  <2>2. CASE newest[p] = f
    <3>1. Stored(p)
      BY <1>3 DEF PeerFacts, Known
    <3>2. holds'[p] = holds[p]
      BY <1>1, <1>6, <2>2, <3>1 DEF Stored
    <3> QED
      BY <1>5, <1>6, <2>2, <3>2
  <2>3. CASE newest[p] < f
    <3>1. e >= d
      BY <1>2, <1>4, <2>3 DEF NoneOlder
    <3>2. e \in d..Len(dists)
      BY <1>1, <2>1, <3>1
    <3>3. k \in holds'[p] <=> k \in dists[d].keys
      BY <1>3, <2>1, <3>2 DEF Lasts
    <3>4. NoneOlder(p, d)'
      BY <1>1, <1>2, <1>4, <1>6, <2>3 DEF NoneOlder
    <3> QED
      BY <3>3, <3>4
  <2> QED
    BY <1>1, <1>6, <2>2, <2>3
<1> QED
  BY <1>5, <1>6 DEF OperationIs

\* A combiner that restarts vouches for nothing.
LEMMA RestartFacts ==
    ASSUME Types, NEW p \in Peer, CombinerRestarts(p), PeerFacts(p)
    PROVE  PeerFacts(p)' /\ \A k \in Key : \A d \in 1..Len(dists) : Shown(p, k, d)'
<1>1. "combiner" \in lost'[p] /\ UNCHANGED <<agent, own>>
  BY DEF Types, CombinerTypes, CombinerRestarts
<1>2. Handed(p)'
  BY <1>1 DEF PeerFacts, Handed, agent, InFlight, NotHandedOver
<1> QED
  BY <1>1, <1>2 DEF PeerFacts, Shown, Known

LEMMA PolicyAside == ASSUME Types, NEW p \in Peer, PolicyChanges(p), NEW q \in Peer PROVE Aside(q)
BY DEF PolicyChanges, Aside, agent

-----------------------------------------------------------------------------
(* The agent's steps *)

\* The confirmation of what changes nothing is true, before the step that
\* makes it and, with the newest origin taken to disk, after it.
LEMMA NoOpShows ==
    ASSUME Types, NEW p \in Peer, Ordered(p), PeerFacts(p), NEW d \in 1..Len(dists), NEW k \in Key,
           d < last[p] \/ ~GoesOn(p, d),
           NoOpConfirmation(p, d).status = "ok" \/ k \in NoOpConfirmation(p, d).done,
           Lasts(k, d), Known(p, k, d)
    PROVE  (k \in holds[p] <=> k \in dists[d].keys) /\ \A f \in handing[p] : f <= newest[p]
<1> DEFINE keys == dists[d].keys
           stale == d < last[p]
           waiting == IF stale THEN AwaitingAnswer(p, Held(p, keys, track[p]), track[p]) ELSE {}
           held == Held(p, keys, track[p]) \ waiting
           ofAnswer == stale /\ InFlight(note[p])
           whole == HeldSuccess(p, keys, track[p], "ok") = "ok" /\ waiting = {} /\ note[p].state # "failed" /\ ~ofAnswer
           status == IF ~whole THEN "partial" ELSE IF note[p].state = "ignored" THEN "ignored" ELSE "ok"
           done == IF NotHandedOver(note[p]) \/ ofAnswer THEN {} ELSE held
           ignored == IF note[p].state = "ignored" THEN held ELSE {}
<1>1. NoOpConfirmation(p, d) = Confirm(d, p, status, done, ignored, {})
  BY DEF NoOpConfirmation
<1>2. held \subseteq repo[p] /\ held \subseteq keys
  BY DEF Held
<1>3. status = "ok" => keys \subseteq repo[p]
  <2>1. status = "ok" => HeldSuccess(p, keys, track[p], "ok") = "ok"
    OBVIOUS
  <2>2. HeldSuccess(p, keys, track[p], "ok") = "ok" => Held(p, keys, track[p]) = keys
    BY DEF HeldSuccess
  <2>3. Held(p, keys, track[p]) \subseteq repo[p]
    BY DEF Held
  <2> QED
    BY <2>1, <2>2, <2>3
<1>4. status = "ok" \/ done # {} => ~NotHandedOver(note[p]) /\ ~ofAnswer
  BY DEF NotHandedOver
<1>5. k \in done => k \in held
  OBVIOUS
<1> HIDE DEF status, done, ignored, held, ofAnswer
<1>6. status = "ok" \/ k \in done
  BY <1>1 DEF Confirm
<1>7. ~NotHandedOver(note[p]) /\ ~InFlight(note[p])
  BY <1>4, <1>6 DEF GoesOn, ofAnswer
<1>8. note[p] \in Note /\ holds[p] \subseteq Key /\ Len(dists) \in Nat /\ last[p] \in Nat
  BY LenProperties, BoundAssumption DEF Types, AgentTypes, CombinerTypes, SenderTypes
<1>9. note[p].state \in {"none", "confirmed"}
  BY <1>7, <1>8 DEF Note, NotHandedOver, InFlight
<1>10. Settled(p)
  BY <1>9 DEF PeerFacts, Known
<1>11. k \in keys => k \in repo[p]
  BY <1>2, <1>3, <1>5, <1>6
<1>12. CASE k \in keys
  BY <1>10, <1>11, <1>12 DEF Settled
<1>13. CASE k \notin keys
  <2>1. "agent" \notin lost[p] /\ repo[p] = holds[p] /\ (last[p] # 0 => repo[p] = dists[last[p]].keys)
    BY <1>10, <1>13 DEF Known, Settled
  <2>2. CASE stale
    <3>1. last[p] \in d..Len(dists) /\ last[p] # 0
      BY <1>8, <2>2 DEF Ordered
    <3> QED
      BY <1>10, <1>13, <2>1, <3>1 DEF Lasts, Settled
  <2>3. CASE ~stale
    <3>1. keys = repo[p]
      BY <2>3 DEF GoesOn, Changes
    <3> QED
      BY <1>10, <2>1, <3>1 DEF Settled
  <2> QED
    BY <2>2, <2>3
<1> QED
  BY <1>12, <1>13

LEMMA StaleFacts ==
    ASSUME Types, NEW p \in Peer, Ordered(p), PeerFacts(p), NEW d \in 1..Len(dists), ProcessStale(p, d),
           UNCHANGED <<sender, words, combiner>>
    PROVE  PeerFacts(p)'
<1>1. UNCHANGED <<repo, last, note, forwards, handing, prc, own, dists, words, holds, newest, lost>>
  BY DEF ProcessStale, sender, combiner
<1>2. \A x \in waits'[p] : x \in waits[p] \/ (InFlight(note[p]) /\ x = <<note[p].fwd, d>>)
  <2>1. CASE InFlight(note[p]) /\ ~ForwardOfAnswer(p, note[p].fwd)
    BY <2>1 DEF ProcessStale, WaitForCombiner, Types, AgentTypes
  <2>2. CASE ~(InFlight(note[p]) /\ ~ForwardOfAnswer(p, note[p].fwd))
    BY <2>2 DEF ProcessStale
  <2> QED
    BY <2>1, <2>2
<1>3. \A x \in waits'[p] : x[1] \in 1..Len(forwards[p]) /\ x[2] <= forwards[p][x[1]].dist
  <2> SUFFICES ASSUME NEW x \in waits'[p], x \notin waits[p]
               PROVE  x[1] \in 1..Len(forwards[p]) /\ x[2] <= forwards[p][x[1]].dist
    BY DEF PeerFacts, Handed
  <2>1. InFlight(note[p]) /\ x = <<note[p].fwd, d>> /\ d < last[p]
    BY <1>2 DEF ProcessStale
  <2>2. note[p].fwd \in 1..Len(forwards[p]) /\ forwards[p][note[p].fwd].dist = last[p]
    BY <2>1 DEF PeerFacts, Handed
  <2>3. last[p] \in Nat /\ d \in Nat
    BY BoundAssumption DEF Types, AgentTypes
  <2> QED
    BY <2>1, <2>2, <2>3
<1>4. Handed(p)'
  BY <1>1, <1>3 DEF PeerFacts, Handed, InFlight, NotHandedOver
<1> QED
  BY <1>1, <1>4 DEF PeerFacts, Stored, Settled

\* A set that goes on is under way to the combiner, or did not get there.
LEMMA HandOverFacts ==
    ASSUME Types, NEW p \in Peer, Ordered(p), PeerFacts(p), NEW d \in 1..Len(dists), ProcessFresh(p, d), GoesOn(p, d),
           HandOver(p, d), UNCHANGED <<sender, words, combiner>>
    PROVE  PeerFacts(p)'
<1> DEFINE n == Len(forwards[p])
           x == [keys |-> dists[d].keys, dist |-> d]
<1>1. /\ repo' = [repo EXCEPT ![p] = dists[d].keys] /\ last' = [last EXCEPT ![p] = d]
      /\ own' = [own EXCEPT ![p].fit = FALSE] /\ waits' = waits
      /\ UNCHANGED <<words, holds, newest, lost>>
  BY DEF ProcessFresh, combiner
<1>2. /\ forwards' = [forwards EXCEPT ![p] = Append(forwards[p], x)]
      /\ prc' = [prc EXCEPT ![p] = prc[p] \cup {<<n + 1, d>>}]
      /\ note' = [note EXCEPT ![p] = [fwd |-> n + 1, state |-> "sent"]]
  BY DEF HandOver
<1>3. x \in Forward /\ x.dist = d /\ x.keys = dists[d].keys /\ forwards[p] \in Seq(Forward) /\ n \in Nat
  BY DistFacts, LenProperties DEF Types, AgentTypes, Forward
<1> HIDE DEF x
<1>4. /\ repo \in [Peer -> SUBSET Key] /\ last \in [Peer -> 0..MaxDist] /\ note \in [Peer -> Note]
      /\ forwards \in [Peer -> Seq(Forward)] /\ prc \in [Peer -> SUBSET ((1..MaxFwd) \X Dist)] /\ own \in [Peer -> Read]
  BY DEF Types, AgentTypes, WireTypes
<1>5. /\ forwards'[p] = Append(forwards[p], x) /\ Len(forwards'[p]) = n + 1 /\ forwards'[p][n + 1] = x
      /\ \A f \in 1..n : forwards'[p][f] = forwards[p][f]
  <2>1. forwards'[p] = Append(forwards[p], x)
    BY <1>2, <1>4
  <2> QED
    BY <1>3, <2>1, AppendProperties
<1>6. /\ prc'[p] = prc[p] \cup {<<n + 1, d>>} /\ note'[p] = [fwd |-> n + 1, state |-> "sent"]
      /\ repo'[p] = dists[d].keys /\ last'[p] = d
  BY <1>1, <1>2, <1>4
<1>7. own'[p].fit = FALSE
  <2>1. own'[p] = [own[p] EXCEPT !.fit = FALSE] /\ own[p] \in Read
    BY <1>1, <1>4
  <2> QED
    BY <2>1 DEF Read
<1>8. /\ \A r \in prc[p] : r[1] \in 1..n /\ forwards[p][r[1]].dist = r[2]
      /\ \A r \in waits[p] : r[1] \in 1..n /\ r[2] <= forwards[p][r[1]].dist
  BY DEF PeerFacts, Handed
<1>9. newest[p] \in 0..n
  BY DEF Ordered
<1> HIDE DEF n
<1>10. \A f \in 1..n : f \in 1..(n + 1)
  BY <1>3
<1>11. n + 1 \in 1..(n + 1)
  BY <1>3
<1>12. Handed(p)'
  <2>1. \A r \in prc'[p] : r[1] \in 1..Len(forwards'[p]) /\ forwards'[p][r[1]].dist = r[2]
    BY <1>3, <1>5, <1>6, <1>8, <1>10, <1>11
  <2>2. \A r \in waits'[p] : r[1] \in 1..Len(forwards'[p]) /\ r[2] <= forwards'[p][r[1]].dist
    BY <1>1, <1>5, <1>8, <1>10
  <2>3. /\ note'[p].fwd = Len(forwards'[p]) /\ note'[p].fwd \in 1..Len(forwards'[p])
        /\ forwards'[p][note'[p].fwd].dist = last'[p] /\ forwards'[p][note'[p].fwd].keys = repo'[p]
    BY <1>3, <1>5, <1>6, <1>11
  <2> QED
    BY <1>6, <1>7, <2>1, <2>2, <2>3 DEF Handed, NotHandedOver
<1>13. ASSUME Stored(p) PROVE Stored(p)'
  <2>1. newest[p] # 0 => forwards'[p][newest[p]] = forwards[p][newest[p]]
    BY <1>3, <1>5, <1>9
  <2> QED
    BY <1>1, <1>13, <2>1 DEF Stored
<1>14. note'[p].state \notin {"none", "confirmed"}
  BY <1>6
<1> QED
  BY <1>1, <1>12, <1>13, <1>14 DEF PeerFacts

LEMMA NotHandedFacts ==
    ASSUME Types, NEW p \in Peer, Ordered(p), PeerFacts(p), NEW d \in 1..Len(dists), ProcessFresh(p, d), GoesOn(p, d),
           HandOverFails(p, d), UNCHANGED <<sender, words, combiner>>
    PROVE  PeerFacts(p)'
<1>1. /\ own' = [own EXCEPT ![p].fit = FALSE]
      /\ note' = [note EXCEPT ![p] = [fwd |-> 0, state |-> "failed"]]
      /\ UNCHANGED <<forwards, prc, waits, words, holds, newest, lost>>
  BY DEF ProcessFresh, HandOverFails, combiner
<1>2. note \in [Peer -> Note] /\ own \in [Peer -> Read]
  BY DEF Types, AgentTypes, WireTypes
<1>3. own'[p].fit = FALSE
  <2>1. own'[p] = [own[p] EXCEPT !.fit = FALSE] /\ own[p] \in Read
    BY <1>1, <1>2
  <2> QED
    BY <2>1 DEF Read
<1>4. note'[p].state = "failed"
  BY <1>1, <1>2
<1>5. Handed(p)'
  BY <1>1, <1>2, <1>3, <1>4 DEF PeerFacts, Handed, InFlight, NotHandedOver
<1> QED
  BY <1>1, <1>4, <1>5 DEF PeerFacts, Stored

LEMMA UnchangedSetFacts ==
    ASSUME Types, NEW p \in Peer, Ordered(p), PeerFacts(p), NEW d \in 1..Len(dists), ProcessFresh(p, d), ~GoesOn(p, d),
           UNCHANGED <<sender, words, combiner>>
    PROVE  PeerFacts(p)'
<1>1. /\ last' = [last EXCEPT ![p] = d]
      /\ UNCHANGED <<repo, own, track, note, forwards, handing, prc, waits, words, holds, newest, lost, dists>>
  BY DEF ProcessFresh, combiner, sender
<1>2. last'[p] = d
  BY <1>1 DEF Types, AgentTypes
<1>3. ~InFlight(note[p]) /\ repo[p] = dists[d].keys
  BY DEF GoesOn, Changes
<1>4. Handed(p)'
  BY <1>1, <1>3 DEF PeerFacts, Handed, InFlight, NotHandedOver
<1> QED
  BY <1>1, <1>2, <1>3, <1>4 DEF PeerFacts, Stored, Settled

LEMMA FreshShows ==
    ASSUME Types, NEW p \in Peer, NEW d \in 1..Len(dists), ProcessFresh(p, d), UNCHANGED <<sender, words, combiner>>,
           NEW k \in Key, NEW e \in 1..Len(dists), Shown(p, k, e)
    PROVE  Shown(p, k, e)'
<1>1. Grows
  BY SameGrows DEF Types, sender
<1>2. last \in [Peer -> 0..MaxDist] /\ handing \in [Peer -> SUBSET (1..MaxFwd)] /\ d \in Nat
      /\ forwards[p] \in Seq(Forward) /\ Len(forwards[p]) \in Nat /\ handing[p] \subseteq 1..Len(forwards[p])
  BY LenProperties DEF Types, AgentTypes
<1>3. last[p] \in Nat /\ last'[p] = d /\ last[p] <= d
  BY <1>2, BoundAssumption DEF ProcessFresh
<1>4. ASSUME NEW f \in handing'[p]
      PROVE  \/ f \in handing[p] /\ forwards'[p][f] = forwards[p][f]
             \/ forwards'[p][f].dist \in Nat /\ forwards'[p][f].dist >= last[p]
  <2>1. CASE UNCHANGED <<forwards, handing>>
    BY <1>4, <2>1
  <2>2. CASE HandOver(p, d)
    <3> DEFINE x == [keys |-> dists[d].keys, dist |-> d]
    <3>1. forwards'[p] = Append(forwards[p], x) /\ handing'[p] = handing[p] \cup {Len(forwards[p]) + 1}
      BY <1>2, <2>2 DEF HandOver, Types, AgentTypes
    <3>2. x \in Forward /\ x.dist = d
      BY DistFacts DEF Types, Forward
    <3> HIDE DEF x
    <3>3. forwards'[p][Len(forwards[p]) + 1] = x /\ \A g \in 1..Len(forwards[p]) : forwards'[p][g] = forwards[p][g]
      BY <1>2, <3>1, <3>2, AppendProperties
    <3> QED
      BY <1>2, <1>3, <1>4, <3>1, <3>2, <3>3
  <2> QED
    BY <2>1, <2>2 DEF ProcessFresh, HandOverFails
<1>5. holds'[p] = holds[p] /\ newest'[p] = newest[p] /\ lost[p] \subseteq lost'[p]
  BY DEF combiner
<1> QED
  BY <1>1, <1>2, <1>3, <1>4, <1>5, ShownStays

LEMMA FreshFacts ==
    ASSUME Types, NEW p \in Peer, Ordered(p), PeerFacts(p), NEW d \in 1..Len(dists), ProcessFresh(p, d),
           UNCHANGED <<sender, words, combiner>>
    PROVE  PeerFacts(p)'
BY HandOverFacts, NotHandedFacts, UnchangedSetFacts DEF ProcessFresh

\* The confirmations that a delivered distribution makes are true.
LEMMA UpdateConfirms ==
    ASSUME Types, NEW p \in Peer, Ordered(p), PeerFacts(p), NEW d \in 1..Len(dists),
           ProcessFresh(p, d) \/ ProcessStale(p, d), UNCHANGED <<sender, words, combiner>>,
           NEW c \in confs', c \notin confs
    PROVE  ConfirmedTrue(c)'
<1>1. UNCHANGED <<dists, holds, newest, lost>>
  BY DEF sender, combiner
<1>2. /\ c = NoOpConfirmation(p, d) /\ (d < last[p] \/ ~GoesOn(p, d))
      /\ handing' = handing /\ forwards' = forwards /\ d <= last'[p]
  <2>1. CASE ProcessFresh(p, d)
    <3>1. ~GoesOn(p, d) /\ confs' = confs \cup {NoOpConfirmation(p, d)} /\ UNCHANGED <<handing, forwards>>
      BY <2>1 DEF ProcessFresh
    <3>2. last'[p] = d /\ d \in Nat
      BY <2>1 DEF ProcessFresh, Types, AgentTypes
    <3> QED
      BY <3>1, <3>2
  <2>2. CASE ProcessStale(p, d)
    <3>1. d < last[p] /\ last' = last /\ handing' = handing /\ forwards' = forwards
          /\ (confs' = confs \/ confs' = confs \cup {NoOpConfirmation(p, d)})
      BY <2>2 DEF ProcessStale
    <3>2. d \in Nat /\ last[p] \in Nat
      BY BoundAssumption DEF Types, AgentTypes
    <3> QED
      BY <3>1, <3>2
  <2> QED
    BY <2>1, <2>2
<1>3. c.dist = d /\ c.peer = p
  BY <1>2 DEF NoOpConfirmation, Confirm
<1>4. ASSUME NEW k \in Key, c.status = "ok" \/ k \in c.done PROVE Shown(p, k, d)'
  <2> SUFFICES ASSUME Lasts(k, d), Known(p, k, d)
               PROVE  (k \in holds[p] <=> k \in dists[d].keys) /\ NoneOlder(p, d)'
    BY <1>1 DEF Shown, Lasts, Known
  <2>1. (k \in holds[p] <=> k \in dists[d].keys) /\ \A f \in handing[p] : f <= newest[p]
    BY <1>2, <1>4, NoOpShows
  <2>2. newest[p] \in Nat /\ handing[p] \subseteq Nat
    BY BoundAssumption DEF Types, AgentTypes, CombinerTypes
  <2>3. NoneOlder(p, d)'
    BY <1>1, <1>2, <2>1, <2>2 DEF NoneOlder
  <2> QED
    BY <2>1, <2>3
<1> QED
  BY <1>1, <1>3, <1>4 DEF ConfirmedTrue

\* The combiner's word on forward f: the confirmation that relays it, and
\* those of the replaces that waited for it.
LEMMA RelayedSays ==
    ASSUME NEW p \in Peer, NEW w \in Word, NEW d, NEW tr, NEW c, c = Relayed(p, w, d, tr), NEW k,
           c.status = "ok" \/ k \in c.done
    PROVE  w.status = "ok" \/ w.applied # {} \/ w.removed # {}
<1> DEFINE applied == IF w.status = "ok" /\ w.applied = {} THEN repo[p] ELSE w.applied
           status == HeldSuccess(p, dists[d].keys, tr, w.status)
           missing == IF w.status = "ok" THEN dists[d].keys \ Held(p, dists[d].keys, tr) ELSE {}
           done == (applied \ missing) \cup w.removed
<1>1. c = Confirm(d, p, status, done, w.ignored, w.rejected)
  BY DEF Relayed
<1>2. status = "ok" => w.status = "ok"
  BY DEF HeldSuccess
<1>3. k \in done => w.status = "ok" \/ w.applied # {} \/ w.removed # {}
  OBVIOUS
<1> HIDE DEF status, done
<1>4. c.status = status /\ c.done = done
  BY <1>1 DEF Confirm
<1> QED
  BY <1>2, <1>3, <1>4

LEMMA ReleasedSays ==
    ASSUME NEW p \in Peer, NEW w \in Word, NEW d, NEW tr, NEW n, NEW c, c = Released(p, w, d, tr, n), NEW k,
           c.status = "ok" \/ k \in c.done
    PROVE  w.status = "ok" \/ w.applied # {} \/ w.removed # {}
<1> DEFINE keys == dists[d].keys
           waiting == AwaitingAnswer(p, Held(p, keys, tr), tr)
           held == Held(p, keys, tr) \ waiting
           whole == w.status = "ok" /\ Held(p, keys, tr) = keys /\ waiting = {} /\ ~NotHandedOver(n)
           status == IF whole THEN "ok" ELSE "partial"
           done == IF NotHandedOver(n) THEN {} ELSE IF w.status = "ok" THEN held ELSE held \cap w.applied
           ignored == IF n.state = "ignored" THEN held ELSE {}
<1>1. status = "ok" => w.status = "ok"
  OBVIOUS
<1>2. k \in done => w.status = "ok" \/ w.applied # {}
  OBVIOUS
<1>3. c = IF w.status = "ignored" THEN Confirm(d, p, "ignored", {}, held, {})
          ELSE Confirm(d, p, status, done, ignored, {})
  BY DEF Released
<1> HIDE DEF status, done, ignored, held
<1>4. CASE w.status = "ignored"
  BY <1>3, <1>4 DEF Confirm
<1>5. CASE w.status # "ignored"
  <2>1. c.status = status /\ c.done = done
    BY <1>3, <1>5 DEF Confirm
  <2> QED
    BY <1>1, <1>2, <2>1
<1> QED
  BY <1>4, <1>5

\* What the data engine does with a word, in outline.
WordIs(p, w) ==
  /\ UNCHANGED <<sender, net, repo, last, forwards, combiner, events>>
  /\ words'[p] = words[p] \ {w} /\ handing'[p] = handing[p] \ {w.fwd} /\ prc'[p] \subseteq prc[p]
  /\ note'[p] = NoteAfter(p, w)
  /\ own'[p].state = own[p].state /\ own'[p].keys = own[p].keys
  /\ own'[p].fit => own[p].fit /\ note[p].fwd # w.fwd
  /\ \A x \in waits'[p] : \/ x \in waits[p]
                          \/ /\ InFlight(NoteAfter(p, w)) /\ x[1] = NoteAfter(p, w).fwd
                             /\ \E y \in waits[p] : y[1] = w.fwd /\ y[2] = x[2]
  /\ \A c \in confs' : \/ c \in confs
                       \/ \E r \in prc[p] : r[1] = w.fwd /\ c = Relayed(p, w, r[2], TrackAfter(p, w))
                       \/ \E x \in waits[p] : x[1] = w.fwd /\ c = Released(p, w, x[2], TrackAfter(p, w), NoteAfter(p, w))

LEMMA WordOutline ==
    ASSUME Types, NEW p \in Peer, NEW w \in words[p], ProcessConfirmation(p, w)
    PROVE  WordIs(p, w)
<1> DEFINE tr == TrackAfter(p, w)
           n == NoteAfter(p, w)
           relays == {r \in prc[p] : r[1] = w.fwd}
           still == {x \in waits[p] : \A r \in relays : r[2] # x[2]}
           mine == {x \in still : x[1] = w.fwd}
           again == InFlight(n) /\ n.fwd # w.fwd
           moved == IF again THEN {<<n.fwd, x[2]>> : x \in mine} ELSE {}
           relayed == {Relayed(p, w, r[2], tr) : r \in relays}
           released == IF again THEN {} ELSE {Released(p, w, x[2], tr, n) : x \in mine}
           b == own[p].fit /\ note[p].fwd # w.fwd
<1>1. /\ words' = [words EXCEPT ![p] = words[p] \ {w}]
      /\ handing' = [handing EXCEPT ![p] = handing[p] \ {w.fwd}]
      /\ note' = [note EXCEPT ![p] = n]
      /\ prc' = [prc EXCEPT ![p] = prc[p] \ relays]
      /\ waits' = [waits EXCEPT ![p] = (still \ mine) \cup moved]
      /\ confs' = confs \cup relayed \cup released
      /\ own' = [own EXCEPT ![p].fit = b]
      /\ UNCHANGED <<sender, net, repo, last, forwards, combiner, events>>
  BY DEF ProcessConfirmation
<1>2. /\ words \in [Peer -> SUBSET Word] /\ handing \in [Peer -> SUBSET (1..MaxFwd)] /\ note \in [Peer -> Note]
      /\ prc \in [Peer -> SUBSET ((1..MaxFwd) \X Dist)] /\ waits \in [Peer -> SUBSET ((1..MaxFwd) \X Dist)]
      /\ own \in [Peer -> Read] /\ own[p].fit \in BOOLEAN
  BY DEF Types, AgentTypes, WireTypes, Read
<1>3. still \subseteq waits[p] /\ \A x \in mine : x \in waits[p] /\ x[1] = w.fwd
  OBVIOUS
<1>4. \A r \in relays : r \in prc[p] /\ r[1] = w.fwd
  OBVIOUS
<1> HIDE DEF still, mine, relays
<1>5. \A x \in moved : InFlight(n) /\ \E y \in mine : x = <<n.fwd, y[2]>>
  OBVIOUS
<1>6. \A c \in relayed : \E r \in relays : c = Relayed(p, w, r[2], tr)
  OBVIOUS
<1>7. \A c \in released : \E x \in mine : c = Released(p, w, x[2], tr, n)
  OBVIOUS
<1> HIDE DEF moved, relayed, released
<1>8. /\ words'[p] = words[p] \ {w} /\ handing'[p] = handing[p] \ {w.fwd} /\ prc'[p] \subseteq prc[p] /\ note'[p] = n
      /\ waits'[p] = (still \ mine) \cup moved
  BY <1>1, <1>2
<1>9. \A x \in waits'[p] : \/ x \in waits[p]
                           \/ /\ InFlight(n) /\ x[1] = n.fwd
                              /\ \E y \in waits[p] : y[1] = w.fwd /\ y[2] = x[2]
  <2> SUFFICES ASSUME NEW x \in moved
               PROVE  InFlight(n) /\ x[1] = n.fwd /\ \E y \in waits[p] : y[1] = w.fwd /\ y[2] = x[2]
    BY <1>3, <1>8
  <2>1. PICK y \in mine : x = <<n.fwd, y[2]>>
    BY <1>5
  <2>2. x[1] = n.fwd /\ x[2] = y[2]
    BY <2>1
  <2> QED
    BY <1>3, <1>5, <2>2
<1>10. \A c \in confs' : \/ c \in confs
                         \/ \E r \in prc[p] : r[1] = w.fwd /\ c = Relayed(p, w, r[2], tr)
                         \/ \E x \in waits[p] : x[1] = w.fwd /\ c = Released(p, w, x[2], tr, n)
  BY <1>1, <1>3, <1>4, <1>6, <1>7, Zenon
<1> HIDE DEF b
<1>11. own'[p] = [own[p] EXCEPT !.fit = b] /\ own[p] \in Read
  BY <1>1, <1>2
<1>12. b \in BOOLEAN
  BY <1>2 DEF b
<1>13. own'[p].state = own[p].state /\ own'[p].keys = own[p].keys /\ own'[p].fit = b
  BY <1>11, <1>12 DEF Read
<1>14. own'[p].fit => own[p].fit /\ note[p].fwd # w.fwd
  BY <1>13 DEF b
<1> QED
  BY <1>1, <1>8, <1>9, <1>10, <1>13, <1>14 DEF WordIs

LEMMA WordFacts ==
    ASSUME Types, NEW p \in Peer, Ordered(p), PeerFacts(p), NEW w \in words[p], WordIs(p, w)
    PROVE  PeerFacts(p)'
<1>1. UNCHANGED <<dists, repo, last, forwards, holds, newest, lost>>
  BY DEF WordIs, sender, combiner
<1>2. w \in Word /\ w.fwd \in 1..MaxFwd /\ note[p] \in Note /\ MaxFwd \in Nat /\ Len(forwards[p]) \in Nat
      /\ handing[p] \subseteq 1..Len(forwards[p]) /\ newest[p] \in 0..Len(forwards[p])
      /\ last[p] \in Nat /\ Len(dists) \in Nat
  BY LenProperties, BoundAssumption DEF Types, WireTypes, AgentTypes, SenderTypes, Word, Ordered
<1>3. /\ note'[p] = NoteAfter(p, w)
      /\ note[p].fwd # w.fwd => NoteAfter(p, w) = note[p]
      /\ note[p].fwd = w.fwd => ~InFlight(NoteAfter(p, w)) /\ ~NotHandedOver(note[p])
  <2>1. NotHandedOver(note[p]) => note[p].fwd = 0
    BY DEF PeerFacts, Handed
  <2>2. CASE note[p].fwd = w.fwd /\ w.status = "ok"
    <3>1. NoteAfter(p, w) = [note[p] EXCEPT !.state = "confirmed"]
      BY <2>2 DEF NoteAfter
    <3>2. NoteAfter(p, w).state = "confirmed"
      BY <1>2, <3>1 DEF Note
    <3> QED
      BY <1>2, <2>1, <2>2, <3>2 DEF WordIs, InFlight
  <2>3. CASE note[p].fwd = w.fwd /\ w.status # "ok"
    BY <1>2, <2>1, <2>3 DEF NoteAfter, WordIs, InFlight
  <2>4. CASE note[p].fwd # w.fwd
    BY <2>4 DEF NoteAfter, WordIs
  <2> QED
    BY <2>2, <2>3, <2>4
<1>4. Handed(p)'
  <2>1. ASSUME NEW x \in waits'[p] PROVE x[1] \in 1..Len(forwards[p]) /\ x[2] <= forwards[p][x[1]].dist
    <3>1. CASE x \in waits[p]
      BY <3>1 DEF PeerFacts, Handed
    <3>2. CASE x \notin waits[p]
      <4>1. InFlight(NoteAfter(p, w)) /\ x[1] = NoteAfter(p, w).fwd
        BY <2>1, <3>2 DEF WordIs
      <4>2. PICK y \in waits[p] : y[2] = x[2]
        BY <2>1, <3>2 DEF WordIs
      <4>3. InFlight(note[p]) /\ x[1] = note[p].fwd
        BY <1>3, <4>1
      <4>4. x[1] \in 1..Len(forwards[p]) /\ forwards[p][x[1]].dist = last[p]
        BY <4>3 DEF PeerFacts, Handed
      <4>5. y[1] \in 1..Len(forwards[p]) /\ y[2] <= forwards[p][y[1]].dist /\ y[2] \in Dist
        BY DEF PeerFacts, Handed, Types, AgentTypes
      <4>6. forwards[p][y[1]].dist \in 1..Len(dists) /\ forwards[p][y[1]].dist <= last[p]
        BY <4>5 DEF Ordered
      <4>7. y[2] \in Nat
        BY <4>5, BoundAssumption DEF Dist
      <4> QED
        BY <1>2, <4>2, <4>4, <4>5, <4>6, <4>7
    <3> QED
      BY <3>1, <3>2
  <2>2. \A r \in prc'[p] : r[1] \in 1..Len(forwards[p]) /\ forwards[p][r[1]].dist = r[2]
    BY DEF WordIs, PeerFacts, Handed
  <2>3. InFlight(note'[p]) => /\ note'[p].fwd = Len(forwards[p]) /\ note'[p].fwd \in 1..Len(forwards[p])
                              /\ forwards[p][note'[p].fwd].dist = last[p] /\ forwards[p][note'[p].fwd].keys = repo[p]
    BY <1>3 DEF PeerFacts, Handed
  <2>4. NotHandedOver(note'[p]) => note'[p].fwd = 0
    <3>1. CASE note[p].fwd = w.fwd
      BY <1>2, <1>3, <3>1 DEF NoteAfter, Note, NotHandedOver
    <3>2. CASE note[p].fwd # w.fwd
      BY <1>3, <3>2 DEF PeerFacts, Handed
    <3> QED
      BY <3>1, <3>2
  <2>5. own'[p].fit => note'[p].state \in {"none", "confirmed"}
    BY <1>3 DEF WordIs, PeerFacts, Handed
  <2> QED
    BY <1>1, <2>1, <2>2, <2>3, <2>4, <2>5 DEF Handed
<1>5. ASSUME Stored(p) PROVE Stored(p)'
  BY <1>1, <1>5 DEF Stored, WordIs
<1>6. ASSUME "combiner" \notin lost[p], note'[p].state \in {"none", "confirmed"} PROVE Settled(p)'
  <2>1. Stored(p)
    BY <1>6 DEF PeerFacts
  <2>2. CASE note[p].state \in {"none", "confirmed"}
    <3>1. Settled(p)
      BY <1>6, <2>2 DEF PeerFacts
    <3> QED
      BY <1>1, <3>1 DEF Settled, WordIs
  <2>3. CASE note[p].state \notin {"none", "confirmed"}
    <3>1. note[p].fwd = w.fwd
      BY <1>3, <1>6, <2>3
    <3>2. w.status = "ok"
      BY <1>3, <1>6, <3>1 DEF NoteAfter
    <3>3. InFlight(note[p])
      BY <1>2, <1>3, <2>3, <3>1 DEF Note, InFlight, NotHandedOver
    <3>4. /\ w.fwd = Len(forwards[p]) /\ w.fwd \in 1..Len(forwards[p])
          /\ forwards[p][w.fwd].dist = last[p] /\ forwards[p][w.fwd].keys = repo[p]
      BY <3>1, <3>3 DEF PeerFacts, Handed
    <3>5. newest[p] = Len(forwards[p])
      BY <1>2, <2>1, <3>2, <3>4 DEF Stored
    <3>6. holds[p] = repo[p]
      BY <1>2, <2>1, <3>4, <3>5 DEF Stored
    <3>7. \A f \in handing'[p] : f <= newest[p]
      BY <1>2, <3>5 DEF WordIs
    <3>8. ~own'[p].fit
      BY <3>1 DEF WordIs
    <3>9. repo[p] = dists[last[p]].keys
      BY <3>4 DEF Ordered
    <3> QED
      BY <1>1, <3>6, <3>7, <3>8, <3>9 DEF Settled
  <2> QED
    BY <2>2, <2>3
<1> QED
  BY <1>1, <1>4, <1>5, <1>6 DEF PeerFacts

LEMMA WordShows ==
    ASSUME Types, NEW p \in Peer, NEW w \in words[p], WordIs(p, w), NEW k \in Key, NEW d \in 1..Len(dists), Shown(p, k, d)
    PROVE  Shown(p, k, d)'
<1>1. Grows /\ last[p] \in Nat /\ UNCHANGED <<last, holds, newest, lost, forwards>> /\ handing'[p] \subseteq handing[p]
  BY SameGrows, BoundAssumption DEF WordIs, Types, AgentTypes, sender, combiner
<1> QED
  BY <1>1, ShownStays

\* The confirmations that follow the combiner's word are true.
LEMMA WordConfirms ==
    ASSUME Types, NEW p \in Peer, Ordered(p), PeerFacts(p), NEW w \in words[p], WordIs(p, w), NEW c \in confs', c \notin confs
    PROVE  ConfirmedTrue(c)'
<1>1. w \in Word /\ Len(dists') = Len(dists) /\ Len(dists) \in Nat
  BY LenProperties DEF Types, WireTypes, SenderTypes, WordIs, sender
<1>2. \/ \E r \in prc[p] : r[1] = w.fwd /\ c = Relayed(p, w, r[2], TrackAfter(p, w))
      \/ \E x \in waits[p] : x[1] = w.fwd /\ c = Released(p, w, x[2], TrackAfter(p, w), NoteAfter(p, w))
  BY DEF WordIs
<1>3. /\ c.peer = p /\ c.dist \in Dist /\ w.fwd \in 1..Len(forwards[p]) /\ c.dist <= forwards[p][w.fwd].dist
      /\ \A k : c.status = "ok" \/ k \in c.done => w.status = "ok" \/ w.applied # {} \/ w.removed # {}
  <2>1. ASSUME NEW r \in prc[p], r[1] = w.fwd, c = Relayed(p, w, r[2], TrackAfter(p, w))
        PROVE  /\ c.peer = p /\ c.dist \in Dist /\ w.fwd \in 1..Len(forwards[p]) /\ c.dist <= forwards[p][w.fwd].dist
               /\ \A k : c.status = "ok" \/ k \in c.done => w.status = "ok" \/ w.applied # {} \/ w.removed # {}
    <3>1. c.peer = p /\ c.dist = r[2]
      BY <2>1 DEF Relayed, Confirm
    <3>2. r[2] \in Dist /\ r[2] \in Nat
      BY BoundAssumption DEF Types, AgentTypes, Dist
    <3>3. w.fwd \in 1..Len(forwards[p]) /\ forwards[p][w.fwd].dist = r[2]
      BY <2>1 DEF PeerFacts, Handed
    <3>4. ASSUME NEW k, c.status = "ok" \/ k \in c.done PROVE w.status = "ok" \/ w.applied # {} \/ w.removed # {}
      BY <1>1, <2>1, <3>4, RelayedSays
    <3>5. c.dist <= forwards[p][w.fwd].dist
      BY <3>1, <3>2, <3>3
    <3> QED
      BY <3>1, <3>2, <3>3, <3>4, <3>5
  <2>2. ASSUME NEW x \in waits[p], x[1] = w.fwd, c = Released(p, w, x[2], TrackAfter(p, w), NoteAfter(p, w))
        PROVE  /\ c.peer = p /\ c.dist \in Dist /\ w.fwd \in 1..Len(forwards[p]) /\ c.dist <= forwards[p][w.fwd].dist
               /\ \A k : c.status = "ok" \/ k \in c.done => w.status = "ok" \/ w.applied # {} \/ w.removed # {}
    <3>1. c.peer = p /\ c.dist = x[2]
      BY <2>2 DEF Released, Confirm
    <3>2. x[2] \in Dist
      BY DEF Types, AgentTypes
    <3>3. w.fwd \in 1..Len(forwards[p]) /\ x[2] <= forwards[p][w.fwd].dist
      BY <2>2 DEF PeerFacts, Handed
    <3>4. ASSUME NEW k, c.status = "ok" \/ k \in c.done PROVE w.status = "ok" \/ w.applied # {} \/ w.removed # {}
      BY <1>1, <2>2, <3>4, ReleasedSays
    <3> QED
      BY <3>1, <3>2, <3>3, <3>4
  <2> QED
    BY <1>2, <2>1, <2>2
<1>4. c.dist \in 1..Len(dists)
  <2>1. forwards[p][w.fwd].dist \in 1..Len(dists)
    BY <1>3 DEF Ordered
  <2> QED
    BY <1>1, <1>3, <2>1, BoundAssumption DEF Dist
<1>5. ASSUME NEW k \in Key, c.status = "ok" \/ k \in c.done PROVE Shown(p, k, c.dist)'
  <2>1. w.status = "ok" \/ w.applied # {} \/ w.removed # {}
    BY <1>3, <1>5
  <2>2. "combiner" \notin lost[p] => Stored(p) /\ w.fwd <= newest[p]
    BY <2>1 DEF PeerFacts, Stored
  <2>3. Shown(p, k, c.dist)
    BY <1>3, <1>4, <2>2, TakenShows
  <2> QED
    BY <1>4, <2>3, WordShows
<1> QED
  BY <1>1, <1>3, <1>4, <1>5 DEF ConfirmedTrue

LEMMA AgentRestartFacts ==
    ASSUME Types, NEW p \in Peer, AgentRestarts(p), PeerFacts(p)
    PROVE  PeerFacts(p)'
<1>1. /\ repo'[p] = {} /\ note'[p] = NoNote /\ handing'[p] = {} /\ prc'[p] = {} /\ waits'[p] = {} /\ own'[p] = NotRead
      /\ lost'[p] = lost[p] \cup {"agent"} /\ UNCHANGED <<words, holds, newest, forwards>>
  BY DEF AgentRestarts, Types, AgentTypes, WireTypes, CombinerTypes
<1>2. Handed(p)'
  BY <1>1 DEF Handed, NoNote, NotRead, InFlight
<1>3. ASSUME Stored(p) PROVE Stored(p)'
  BY <1>1, <1>3 DEF Stored
<1>4. Settled(p)'
  BY <1>1 DEF Settled, NotRead
<1> QED
  BY <1>1, <1>2, <1>3, <1>4 DEF PeerFacts

LEMMA AgentRestartShows ==
    ASSUME Types, NEW p \in Peer, AgentRestarts(p), NEW k \in Key, NEW d \in 1..Len(dists), Shown(p, k, d)
    PROVE  Shown(p, k, d)'
<1>1. Grows /\ last[p] \in Nat /\ UNCHANGED <<last, holds, newest>> /\ handing'[p] = {} /\ lost[p] \subseteq lost'[p]
  BY SameGrows, BoundAssumption DEF AgentRestarts, Types, AgentTypes, CombinerTypes, sender
<1> QED
  BY <1>1, ShownStays

\* The own read, in outline.
OwnIs(p) ==
  /\ UNCHANGED <<sender, net, confs, last, note, forwards, handing, prc, waits, words, combiner>>
  /\ \/ repo'[p] = repo[p] /\ own'[p].state \in {"asked", "read"} /\ (own'[p].fit => note[p].state \in {"none", "confirmed"})
     \/ repo'[p] = repo[p] /\ own'[p].keys = holds[p] /\ (own'[p].fit => own[p].fit)
     \/ /\ own[p].fit /\ own[p].state = "answered" /\ own'[p].state = "read" /\ ~own'[p].fit
        /\ own[p].keys \subseteq repo'[p] /\ repo'[p] \subseteq own[p].keys \cup repo[p]

LEMMA OwnOutline ==
    ASSUME Types, NEW p \in Peer, AskOwn(p) \/ EditsAnswer(p) \/ ApplyOwnRead(p)
    PROVE  OwnIs(p)
<1>1. own \in [Peer -> Read] /\ own[p] \in Read /\ repo \in [Peer -> SUBSET Key]
  BY DEF Types, WireTypes, AgentTypes
<1>2. CASE AskOwn(p)
  <2>1. UNCHANGED <<sender, net, confs, agent, words, combiner>>
    BY <1>2 DEF AskOwn
  <2> DEFINE b == note[p].state \in {"none", "confirmed"}
  <2>2. own' = [own EXCEPT ![p] = [state |-> "asked", keys |-> {}, fit |-> b]]
    BY <1>2 DEF AskOwn
  <2> HIDE DEF b
  <2>3. own'[p].state = "asked" /\ own'[p].fit = b
    BY <1>1, <2>2
  <2>4. own'[p].state = "asked" /\ (own'[p].fit => note[p].state \in {"none", "confirmed"})
    BY <2>3 DEF b
  <2> QED
    BY <2>1, <2>4 DEF OwnIs, agent
<1>3. CASE EditsAnswer(p)
  <2>1. UNCHANGED <<sender, net, confs, agent, words, combiner>>
    BY <1>3 DEF EditsAnswer
  <2>2. own'[p] = [own[p] EXCEPT !.state = "answered", !.keys = holds[p]]
    BY <1>1, <1>3 DEF EditsAnswer
  <2>3. own'[p].keys = holds[p] /\ own'[p].fit = own[p].fit
    BY <1>1, <2>2 DEF Read
  <2> QED
    BY <2>1, <2>3 DEF OwnIs, agent
<1>4. CASE ApplyOwnRead(p)
  <2> DEFINE stays == {k \in repo[p] : track[p][k].state = "pending"}
  <2>1. /\ UNCHANGED <<sender, net, confs, last, note, forwards, handing, prc, waits, words, combiner>>
        /\ own[p].state = "answered"
        /\ own[p].fit => repo' = [repo EXCEPT ![p] = own[p].keys \cup stays]
        /\ ~own[p].fit => repo' = repo
    BY <1>4 DEF ApplyOwnRead
  <2>2. own'[p] = [NotRead EXCEPT !.state = "read"]
    BY <1>1, <1>4 DEF ApplyOwnRead
  <2>3. own'[p].state = "read" /\ ~own'[p].fit
    BY <2>2 DEF NotRead
  <2>4. stays \subseteq repo[p]
    OBVIOUS
  <2> HIDE DEF stays
  <2>5. own[p].fit => own[p].keys \subseteq repo'[p] /\ repo'[p] \subseteq own[p].keys \cup repo[p]
    BY <1>1, <2>1, <2>4
  <2> QED
    BY <2>1, <2>3, <2>5 DEF OwnIs
<1> QED
  BY <1>2, <1>3, <1>4

LEMMA OwnFacts == ASSUME Types, NEW p \in Peer, OwnIs(p), PeerFacts(p) PROVE PeerFacts(p)'
<1>1. UNCHANGED <<dists, last, note, forwards, handing, prc, waits, words, holds, newest, lost>>
  BY DEF OwnIs, sender, combiner
<1>2. own'[p].fit => note[p].state \in {"none", "confirmed"}
  BY DEF OwnIs, PeerFacts, Handed
<1>3. InFlight(note[p]) => repo'[p] = repo[p]
  BY DEF OwnIs, PeerFacts, Handed, InFlight
<1>4. Handed(p)'
  BY <1>1, <1>2, <1>3 DEF PeerFacts, Handed, InFlight, NotHandedOver
<1>5. ASSUME Stored(p) PROVE Stored(p)'
  BY <1>1, <1>5 DEF Stored
<1>6. ASSUME Settled(p) PROVE Settled(p)'
  BY <1>1, <1>6 DEF Settled, OwnIs
<1> QED
  BY <1>1, <1>4, <1>5, <1>6 DEF PeerFacts

LEMMA OwnShows ==
    ASSUME Types, NEW p \in Peer, OwnIs(p), NEW k \in Key, NEW d \in 1..Len(dists), Shown(p, k, d)
    PROVE  Shown(p, k, d)'
<1>1. Grows /\ last[p] \in Nat /\ UNCHANGED <<last, holds, newest, lost, forwards, handing>>
  BY SameGrows, BoundAssumption DEF OwnIs, Types, AgentTypes, sender, combiner
<1> QED
  BY <1>1, ShownStays

\* A step of the agent of p, at p: its facts hold, what was shown of it stays,
\* and what it confirms is true.
LEMMA AgentAtHome ==
    ASSUME Types, NEW p \in Peer, Ordered(p), PeerFacts(p), AgentNext(p)
    PROVE  /\ PeerFacts(p)'
           /\ \A k \in Key : \A d \in 1..Len(dists) : Shown(p, k, d) => Shown(p, k, d)'
           /\ \A c \in confs' : c \in confs \/ ConfirmedTrue(c)'
<1>1. ASSUME NEW d \in Dist, ApplyRemoteUpdate(p, d)
      PROVE  /\ PeerFacts(p)'
             /\ \A k \in Key : \A e \in 1..Len(dists) : Shown(p, k, e) => Shown(p, k, e)'
             /\ \A c \in confs' : c \in confs \/ ConfirmedTrue(c)'
  <2>1. d \in 1..Len(dists) /\ UNCHANGED <<sender, words, combiner>>
    BY <1>1, DeliveredWasSent DEF ApplyRemoteUpdate, Types
  <2>2. ProcessFresh(p, d) \/ ProcessStale(p, d)
    BY <1>1 DEF ApplyRemoteUpdate
  <2>3. \A c \in confs' : c \in confs \/ ConfirmedTrue(c)'
    BY <2>1, <2>2, UpdateConfirms
  <2>4. PeerFacts(p)'
    BY <2>1, <2>2, FreshFacts, StaleFacts
  <2>5. ASSUME NEW k \in Key, NEW e \in 1..Len(dists), Shown(p, k, e) PROVE Shown(p, k, e)'
    <3>1. CASE ProcessFresh(p, d)
      BY <2>1, <2>5, <3>1, FreshShows
    <3>2. CASE ProcessStale(p, d)
      <4>1. Grows /\ last[p] \in Nat /\ UNCHANGED <<last, holds, newest, lost, forwards, handing>>
        BY <2>1, <3>2, SameGrows, BoundAssumption DEF ProcessStale, Types, AgentTypes, sender, combiner
      <4> QED
        BY <2>5, <4>1, ShownStays
    <3> QED
      BY <2>2, <3>1, <3>2
  <2> QED
    BY <2>3, <2>4, <2>5
<1>2. ASSUME NEW w \in words[p], ProcessConfirmation(p, w)
      PROVE  /\ PeerFacts(p)'
             /\ \A k \in Key : \A d \in 1..Len(dists) : Shown(p, k, d) => Shown(p, k, d)'
             /\ \A c \in confs' : c \in confs \/ ConfirmedTrue(c)'
  BY <1>2, WordOutline, WordFacts, WordShows, WordConfirms
<1>3. ASSUME NEW w \in words[p], LoseWord(p, w) \/ DropWord(p, w)
      PROVE  /\ PeerFacts(p)'
             /\ \A k \in Key : \A d \in 1..Len(dists) : Shown(p, k, d) => Shown(p, k, d)'
             /\ confs' = confs
  <2>1. Aside(p) /\ confs' = confs
    BY <1>3 DEF LoseWord, DropWord, Aside, agent, combiner, Types, AgentTypes, WireTypes
  <2>2. Grows /\ last[p] \in Nat
    BY <1>3, SameGrows, BoundAssumption DEF LoseWord, DropWord, sender, Types, AgentTypes
  <2> QED
    BY <2>1, <2>2, AsideFacts, AsideShows
<1>4. CASE AgentRestarts(p)
  <2>1. confs' = confs
    BY <1>4 DEF AgentRestarts
  <2> QED
    BY <1>4, <2>1, AgentRestartFacts, AgentRestartShows
<1>5. CASE AskOwn(p) \/ EditsAnswer(p) \/ ApplyOwnRead(p)
  <2>1. OwnIs(p)
    BY <1>5, OwnOutline
  <2>2. confs' = confs
    BY <2>1 DEF OwnIs
  <2> QED
    BY <2>1, <2>2, OwnFacts, OwnShows
<1> QED
  BY <1>1, <1>2, <1>3, <1>4, <1>5 DEF AgentNext

LEMMA CombinerAtHome ==
    ASSUME Types, NEW p \in Peer, Ordered(p), PeerFacts(p), CombinerNext(p)
    PROVE  /\ PeerFacts(p)'
           /\ \A k \in Key : \A d \in 1..Len(dists) : Shown(p, k, d) => Shown(p, k, d)'
           /\ confs' = confs
<1>1. confs' = confs
  BY DEF CombinerNext, CombinerProcessOperations, CombinerRestarts, PolicyChanges
<1>2. ASSUME NEW f \in 1..MaxFwd, CombinerProcessOperations(p, f)
      PROVE  PeerFacts(p)' /\ \A k \in Key : \A d \in 1..Len(dists) : Shown(p, k, d) => Shown(p, k, d)'
  BY <1>2, OperationCases, OperationFacts, OperationShows
<1>3. CASE CombinerRestarts(p)
  BY <1>1, <1>3, RestartFacts
<1>4. CASE PolicyChanges(p)
  <2>1. Aside(p)
    BY <1>4, PolicyAside
  <2>2. UNCHANGED dists
    BY <1>4 DEF PolicyChanges, sender
  <2>3. Grows /\ last[p] \in Nat
    BY <2>2, SameGrows, BoundAssumption DEF Types, AgentTypes
  <2> QED
    BY <1>1, <2>1, <2>3, AsideFacts, AsideShows
<1> QED
  BY <1>1, <1>2, <1>3, <1>4 DEF CombinerNext

LEMMA SenderAside == ASSUME SenderNext, NEW p PROVE Aside(p)
<1>1. UNCHANGED <<agent, words, own, combiner>>
  BY DEF SenderNext, ApplyLocalUpdate, Resend, CatchUpAnswer, RoleEnds, CopyIsDelayed,
         ProcessDnskeyConfirmation, LoseConfirmation, DnskeyNoRoleTimedOut, SenderRestarts
<1> QED
  BY <1>1, UnchangedAside

\* Whatever step is taken: each peer's facts hold, and what was shown stays.
LEMMA PeersStep ==
    ASSUME Inductive, \A p \in Peer : PeerFacts(p), [Next]_vars, NEW q \in Peer
    PROVE  /\ PeerFacts(q)'
           /\ \A k \in Key : \A d \in 1..Len(dists) : Shown(q, k, d) => Shown(q, k, d)'
<1>1. Types /\ Ordered(q) /\ PeerFacts(q) /\ Grows /\ last[q] \in Nat
  BY GrowsStep, BoundAssumption DEF Inductive, Types, AgentTypes
<1>2. CASE Aside(q)
  BY <1>1, <1>2, AsideFacts, AsideShows
<1>3. CASE SenderNext
  BY <1>2, <1>3, SenderAside
<1>4. ASSUME NEW p \in Peer, AgentNext(p)
      PROVE  /\ PeerFacts(q)'
             /\ \A k \in Key : \A d \in 1..Len(dists) : Shown(q, k, d) => Shown(q, k, d)'
  <2>1. CASE q = p
    BY <1>1, <1>4, <2>1, AgentAtHome
  <2>2. CASE q # p
    BY <1>1, <1>2, <1>4, <2>2, AgentAside
  <2> QED
    BY <2>1, <2>2
<1>5. ASSUME NEW p \in Peer, CombinerNext(p)
      PROVE  /\ PeerFacts(q)'
             /\ \A k \in Key : \A d \in 1..Len(dists) : Shown(q, k, d) => Shown(q, k, d)'
  <2>1. CASE q = p
    BY <1>1, <1>5, <2>1, CombinerAtHome
  <2>2. CASE q # p
    BY <1>1, <1>2, <1>5, <2>2, CombinerAside
  <2> QED
    BY <2>1, <2>2
<1>6. CASE UNCHANGED vars
  BY <1>2, <1>6, UnchangedAside DEF vars
<1> QED
  BY <1>3, <1>4, <1>5, <1>6 DEF Next

\* What was confirmed was true, and is as true as it was.
LEMMA ConfsStep ==
    ASSUME Inductive, \A p \in Peer : PeerFacts(p), \A c \in confs : ConfirmedTrue(c), [Next]_vars
    PROVE  \A c \in confs' : ConfirmedTrue(c)'
<1>1. Types /\ Grows /\ confs \subseteq Confirmation
  BY GrowsStep DEF Inductive, Types, WireTypes
<1>2. ASSUME NEW c \in confs PROVE ConfirmedTrue(c)'
  <2>1. ConfirmedTrue(c) /\ c.peer \in Peer
    BY <1>1 DEF Confirmation
  <2>2. c.dist \in 1..Len(dists) /\ c.dist \in 1..Len(dists')
    BY <1>1, <2>1 DEF ConfirmedTrue, Grows
  <2>3. \A k \in Key : Shown(c.peer, k, c.dist) => Shown(c.peer, k, c.dist)'
    BY <2>1, <2>2, PeersStep
  <2> QED
    BY <2>1, <2>2, <2>3 DEF ConfirmedTrue
<1>3. CASE SenderNext
  <2>1. confs' \subseteq confs
    BY <1>3 DEF SenderNext, ApplyLocalUpdate, Resend, CatchUpAnswer, RoleEnds, CopyIsDelayed,
                ProcessDnskeyConfirmation, LoseConfirmation, DnskeyNoRoleTimedOut, SenderRestarts
  <2> QED
    BY <1>2, <2>1
<1>4. ASSUME NEW p \in Peer, AgentNext(p) PROVE \A c \in confs' : ConfirmedTrue(c)'
  <2>1. Ordered(p) /\ PeerFacts(p)
    BY DEF Inductive
  <2>2. \A c \in confs' : c \in confs \/ ConfirmedTrue(c)'
    BY <1>1, <1>4, <2>1, AgentAtHome
  <2> QED
    BY <1>2, <2>2
<1>5. ASSUME NEW p \in Peer, CombinerNext(p) PROVE confs' = confs
  BY <1>5 DEF CombinerNext, CombinerProcessOperations, CombinerRestarts, PolicyChanges
<1>6. CASE UNCHANGED vars
  BY <1>2, <1>6 DEF vars
<1> QED
  BY <1>2, <1>3, <1>4, <1>5, <1>6 DEF Next

-----------------------------------------------------------------------------
(* The sender's tracking *)

\* What was shown stays shown (PeersStep).
ShownKept == \A p \in Peer : \A k \in Key : \A d \in 1..Len(dists) : Shown(p, k, d) => Shown(p, k, d)'

LEMMA SentStays ==
    ASSUME Grows, NEW d \in 1..Len(dists), NEW e \in Sent(d)
    PROVE  e \in 1..Len(dists) /\ e \in Sent(d)'
<1>1. Len(dists) \in Nat /\ d \in Nat /\ \A x \in 1..Len(dists) : dists'[x] = dists[x]
  BY DEF Grows
<1>2. e \in 1..Len(dists)
  BY <1>1 DEF Sent
<1>3. d > 1 => d - 1 \in 1..Len(dists)
  BY <1>1
<1>4. Resent(d) => Resent(d)'
  BY <1>1, <1>3 DEF Resent
<1> QED
  BY <1>1, <1>2, <1>4 DEF Sent

LEMMA AppliedStays ==
    ASSUME Grows, ShownKept, NEW d \in 1..Len(dists), NEW p \in Peer, NEW k \in Key, Applied(d, p, k)
    PROVE  Applied(d, p, k)'
<1>1. PICK e \in Sent(d) : Shown(p, k, e)
  BY DEF Applied
<1>2. e \in 1..Len(dists) /\ e \in Sent(d)'
  BY SentStays
<1>3. Shown(p, k, e)'
  BY <1>1, <1>2 DEF ShownKept
<1>4. k \in dists'[d].tags
  BY DEF Applied, Grows
<1> QED
  BY <1>2, <1>3, <1>4 DEF Applied

\* A confirmation of a newer set, in which k is as it was, is one of the older.
LEMMA ShownEarlier ==
    ASSUME Len(dists) \in Nat, NEW p \in Peer, last[p] \in Nat, \A f \in handing[p] : forwards[p][f].dist \in Nat,
           NEW k \in Key, NEW e \in 1..Len(dists), NEW d \in 1..e, Shown(p, k, e),
           k \in dists[d].keys <=> k \in dists[e].keys
    PROVE  Shown(p, k, d)
<1> SUFFICES ASSUME Lasts(k, d), Known(p, k, d)
             PROVE  (k \in holds[p] <=> k \in dists[d].keys) /\ NoneOlder(p, d)
  BY DEF Shown
<1>1. Lasts(k, e)
  BY DEF Lasts
<1>2. Known(p, k, e)
  BY DEF Known
<1>3. (k \in holds[p] <=> k \in dists[e].keys) /\ NoneOlder(p, e)
  BY <1>1, <1>2 DEF Shown
<1>4. NoneOlder(p, d)
  BY <1>3 DEF NoneOlder
<1> QED
  BY <1>3, <1>4

\* What the signer is told of rests on what every signing peer applied.
ToldTrue ==
  \A t \in told' \ told : t.kind \in {"propagated", "removed"} =>
    /\ t.dist \in 1..Len(dists') /\ t.key \in Key
    /\ t.kind = "removed" <=> t.key \in dists'[t.dist].gone
    /\ \A p \in Confirmers(t)' : p \in Peer /\ Applied(t.dist, p, t.key)'

LEMMA InDist == \A n \in Nat : n <= MaxDist => \A d \in 1..n : d \in Dist
BY BoundAssumption DEF Dist

LEMMA DistIsNot0 == \A d \in Dist : d # 0
BY BoundAssumption DEF Dist

LEMMA FinishTells ==
    ASSUME dists' \in Seq(Distribution), Len(dists') <= MaxDist,
           NEW tracked \in SUBSET (1..Len(dists')), NEW res \in Results, NEW al \in [Dist -> 0..MaxDist],
           FinishDnskeyPropagation(tracked, res, al),
           \A d \in tracked : \A p \in Peer : \A k \in Key :
             /\ res[d][p][k] = "applied" => Applied(d, p, k)'
             /\ res[d][p][k] = "timed out" => role'[p] = "none",
           \A d, e \in Dist : al[d] = e => e \in 1..Len(dists') /\ d \in Sent(e)'
    PROVE  ResultFit' /\ AliasFit' /\ ToldTrue
<1> DEFINE ended == {d \in tracked : AllAnswered(d, res)}
           left == tracked \ ended
<1>1. /\ open' = left
      /\ told' = told \cup UNION {{Outcome(d, k, res) : k \in dists'[d].tags} : d \in ended}
      /\ result' = [d \in Dist |-> IF d \in left THEN res[d] ELSE NoResult]
      /\ alias' = [d \in Dist |-> IF al[d] \in left THEN al[d] ELSE 0]
  BY DEF FinishDnskeyPropagation
<1>2. ASSUME NEW d \in tracked
      PROVE  /\ d \in Dist /\ d \in 1..Len(dists')
             /\ dists'[d].tags \subseteq Key /\ dists'[d].signing \subseteq Peer
  <2>1. d \in 1..Len(dists') /\ Len(dists') \in Nat
    BY LenProperties
  <2>2. dists'[d] \in Distribution
    BY <2>1, ElementOfSeq
  <2>3. dists'[d].tags \subseteq Key /\ dists'[d].signing \subseteq Peer
    BY <2>2 DEF Distribution
  <2>5. d \in Dist
    BY <2>1, InDist
  <2> QED
    BY <2>1, <2>3, <2>5
<1>3. \A d \in ended : d \in tracked /\ AllAnswered(d, res)
  OBVIOUS
<1>4. left \subseteq tracked
  OBVIOUS
<1> HIDE DEF ended, left
<1>5. ResultFit'
  <2>1. ASSUME NEW d \in open' PROVE result'[d] = res[d] /\ d \in tracked
    <3>1. d \in left /\ d \in tracked /\ d \in Dist
      BY <1>1, <1>2, <1>4
    <3> QED
      BY <1>1, <3>1
  <2>2. \A d \in Dist \ open' : result'[d] = NoResult
    BY <1>1
  <2>3. ASSUME NEW d \in open', NEW p \in Peer, NEW k \in Key
        PROVE  /\ result'[d][p][k] = "applied" => Applied(d, p, k)'
               /\ result'[d][p][k] = "timed out" => role'[p] = "none"
    <3>1. result'[d] = res[d] /\ d \in tracked
      BY <2>1
    <3> QED
      BY <3>1
  <2>4. \A d \in open' : \A p \in Peer : \A k \in Key :
          /\ result'[d][p][k] = "applied" => Applied(d, p, k)'
          /\ result'[d][p][k] = "timed out" => role'[p] = "none"
    BY <2>3
  <2> QED
    BY <2>2, <2>4 DEF ResultFit
<1>6. AliasFit'
  <2>1. ASSUME NEW d \in Dist, NEW e \in Dist, alias'[d] = e PROVE al[d] = e
    <3>1. e # 0
      BY DistIsNot0
    <3>2. alias'[d] = IF al[d] \in left THEN al[d] ELSE 0
      BY <1>1
    <3> QED
      BY <2>1, <3>1, <3>2
  <2> QED
    BY <2>1 DEF AliasFit
<1>7. ASSUME NEW t \in told' \ told, t.kind \in {"propagated", "removed"}
      PROVE  /\ t.dist \in 1..Len(dists') /\ t.key \in Key
             /\ t.kind = "removed" <=> t.key \in dists'[t.dist].gone
             /\ \A p \in Confirmers(t)' : p \in Peer /\ Applied(t.dist, p, t.key)'
  <2>1. PICK d \in ended : \E k \in dists'[d].tags : t = Outcome(d, k, res)
    BY <1>1, <1>7
  <2>2. PICK k \in dists'[d].tags : t = Outcome(d, k, res)
    BY <2>1
  <2>3. d \in tracked /\ AllAnswered(d, res) /\ d \in Dist /\ k \in Key
    BY <1>2, <1>3
  <2>4. t.dist = d /\ t.key = k
    BY <2>2 DEF Outcome
  <2>5. ~\E p \in Peer : res[d][p][k] = "rejected" \/ (res[d][p][k] = "ignored" /\ p \in dists'[d].signing)
    BY <1>7, <2>2 DEF Outcome
  <2>6. t.kind = IF k \in dists'[d].gone THEN "removed" ELSE "propagated"
    BY <2>2, <2>5 DEF Outcome
  <2>7. ASSUME NEW p \in Confirmers(t)' PROVE p \in Peer /\ Applied(d, p, k)'
    <3>1. p \in dists'[d].signing /\ role'[p] = "signs" /\ p \in Peer
      BY <1>2, <2>3, <2>4 DEF Confirmers
    <3>2. res[d][p][k] \in Result /\ res[d][p][k] # ""
      <4>1. res[d] \in [Peer -> [Key -> Result]]
        BY <2>3 DEF Results
      <4>2. res[d][p][k] # ""
        BY <2>3, <3>1 DEF AllAnswered
      <4> QED
        BY <2>3, <3>1, <4>1, <4>2
    <3>3. res[d][p][k] # "rejected" /\ res[d][p][k] # "ignored"
      BY <2>5, <3>1
    <3>4. res[d][p][k] # "timed out"
      BY <2>3, <3>1
    <3> QED
      BY <2>3, <3>1, <3>2, <3>3, <3>4 DEF Result
  <2> QED
    BY <1>2, <2>3, <2>4, <2>6, <2>7
<1>8. ToldTrue
  BY <1>7 DEF ToldTrue
<1> QED
  BY <1>5, <1>6, <1>8

\* A step that leaves the tracking alone.
LEMMA TrackingStays ==
    ASSUME Types, Grows, ShownKept, ResultFit, AliasFit, UNCHANGED <<open, result, alias, told>>,
           \A p \in Peer : role[p] = "none" => role'[p] = "none"
    PROVE  ResultFit' /\ AliasFit' /\ ToldTrue
<1>1. open \subseteq 1..Len(dists)
  BY DEF Types, SenderTypes
<1>2. ResultFit'
  BY <1>1, AppliedStays DEF ResultFit
<1>3. ASSUME NEW d \in Dist, NEW e \in Dist, alias'[d] = e PROVE e \in 1..Len(dists') /\ d \in Sent(e)'
  <2>1. e \in 1..Len(dists) /\ d \in Sent(e)
    BY <1>3 DEF AliasFit
  <2>2. e \in 1..Len(dists')
    BY <2>1 DEF Grows
  <2> QED
    BY <2>1, <2>2, SentStays
<1>4. AliasFit'
  BY <1>3 DEF AliasFit
<1> QED
  BY <1>2, <1>4 DEF ToldTrue

LEMMA DistributeIs ==
    ASSUME SenderTypes, NEW keys \in SUBSET Key, NEW tags \in SUBSET Key, NEW gone \in SUBSET Key,
           NEW to \in Peer \cup {Everyone}, Distribute(keys, tags, gone, to)
    PROVE  /\ dists' \in Seq(Distribution) /\ Len(dists') = Len(dists) + 1 /\ Len(dists') <= MaxDist
           /\ Len(dists) + 1 \in Dist /\ Len(dists) \in Nat /\ Len(dists) + 1 \in 1..Len(dists')
           /\ dists'[Len(dists) + 1].keys = keys
           /\ dists'[Len(dists) + 1].tags = tags
           /\ dists'[Len(dists) + 1].gone = gone
           /\ \A d \in 1..Len(dists) : dists'[d] = dists[d] /\ d \in 1..Len(dists')
           /\ \A d \in 1..Len(dists') : d \in 1..Len(dists) \/ d = Len(dists) + 1
           /\ UNCHANGED role /\ Grows
<1>1. /\ dists' \in Seq(Distribution) /\ Len(dists') = Len(dists) + 1 /\ Len(dists') <= MaxDist
      /\ Len(dists) + 1 \in Dist /\ Len(dists) \in Nat
      /\ \A d \in 1..Len(dists) : dists'[d] = dists[d]
      /\ UNCHANGED role
  BY DistributeTypes
<1> DEFINE x == [keys |-> keys, tags |-> tags, gone |-> gone, to |-> to,
                 signing |-> {p \in Peer : role[p] = "signs"}]
<1>2. x.keys = keys /\ x.tags = tags /\ x.gone = gone
  OBVIOUS
<1>3. dists' = Append(dists, x)
  BY DEF Distribute
<1> HIDE DEF x
<1>4. dists'[Len(dists) + 1] = x
  <2>1. dists \in Seq(Distribution)
    BY DEF SenderTypes
  <2> QED
    BY <1>1, <1>3, <2>1
<1>5. /\ Len(dists) + 1 \in 1..Len(dists')
      /\ \A d \in 1..Len(dists) : d \in 1..Len(dists')
      /\ \A d \in 1..Len(dists') : d \in 1..Len(dists) \/ d = Len(dists) + 1
  BY <1>1
<1>6. Grows
  BY DistributeGrows
<1> QED
  BY <1>1, <1>2, <1>4, <1>5, <1>6

LEMMA TagsOfOneMore ==
    ASSUME SenderTypes, NEW keys \in SUBSET Key, NEW tags \in SUBSET Key, NEW gone \in SUBSET Key,
           NEW to \in Peer \cup {Everyone}, Distribute(keys, tags, gone, to),
           TagsFit, \A k \in tags : k \in keys <=> k \notin gone
    PROVE  TagsFit'
<1> SUFFICES ASSUME NEW d \in 1..Len(dists'), NEW k \in dists'[d].tags
             PROVE  k \in dists'[d].keys <=> k \notin dists'[d].gone
  BY DEF TagsFit
<1>1. CASE d \in 1..Len(dists)
  <2>1. dists'[d] = dists[d]
    BY <1>1, DistributeIs
  <2> QED
    BY <1>1, <2>1 DEF TagsFit
<1>2. CASE d = Len(dists) + 1
  <2>1. dists'[d].keys = keys /\ dists'[d].tags = tags /\ dists'[d].gone = gone
    BY <1>2, DistributeIs
  <2> QED
    BY <2>1
<1> QED
  BY <1>1, <1>2, DistributeIs

LEMMA AgentLeavesSender ==
    ASSUME NEW p \in Peer, AgentNext(p) \/ CombinerNext(p)
    PROVE  UNCHANGED sender
<1>1. CASE AgentNext(p)
  BY <1>1 DEF AgentNext, ApplyRemoteUpdate, ProcessConfirmation, LoseWord, DropWord, AgentRestarts, AskOwn,
              EditsAnswer, ApplyOwnRead
<1>2. CASE CombinerNext(p)
  BY <1>2 DEF CombinerNext, CombinerProcessOperations, CombinerRestarts, PolicyChanges
<1> QED
  BY <1>1, <1>2

LEMMA TagsStep == ASSUME SenderTypes, TagsFit, [Next]_vars PROVE TagsFit'
<1>1. ASSUME NEW k \in Key, ApplyLocalUpdate(k) PROVE TagsFit'
  <2>1. PICK keys \in SUBSET Key, gone \in SUBSET Key :
          Distribute(keys, {k}, gone, Everyone) /\ (k \in keys <=> k \notin gone) /\ {k} \in SUBSET Key
    BY <1>1, LocalUpdateIs
  <2> QED
    BY <2>1, TagsOfOneMore
<1>2. ASSUME NEW k \in Key, Resend(k) PROVE TagsFit'
  <2> DEFINE left == {k} \ Mine
  <2>1. Mine \in SUBSET Key /\ left \in SUBSET Key /\ {k} \in SUBSET Key
    BY MineType
  <2>2. Distribute(Mine, {k}, left, Everyone)
    BY <1>2 DEF Resend
  <2>3. k \in Mine <=> k \notin left
    OBVIOUS
  <2> HIDE DEF left
  <2> QED
    BY <2>1, <2>2, <2>3, TagsOfOneMore
<1>3. ASSUME NEW p \in Peer, CatchUpAnswer(p) PROVE TagsFit'
  <2>1. Mine \in SUBSET Key /\ Distribute(Mine, {}, {}, p)
    BY <1>3, MineType DEF CatchUpAnswer
  <2> QED
    BY <2>1, TagsOfOneMore
<1>4. ASSUME SenderNext, \A k \in Key : ~(ApplyLocalUpdate(k) \/ Resend(k)), \A p \in Peer : ~CatchUpAnswer(p)
      PROVE  UNCHANGED dists
  BY <1>4 DEF SenderNext, RoleEnds, CopyIsDelayed, ProcessDnskeyConfirmation, LoseConfirmation,
              DnskeyNoRoleTimedOut, SenderRestarts, sender
<1>5. ASSUME NEW p \in Peer, AgentNext(p) \/ CombinerNext(p) PROVE UNCHANGED dists
  BY <1>5, AgentLeavesSender DEF sender
<1>6. CASE UNCHANGED dists
  BY <1>6 DEF TagsFit
<1> QED
  BY <1>1, <1>2, <1>3, <1>4, <1>5, <1>6 DEF Next, vars, sender

LEMMA OpenStays ==
    ASSUME SenderTypes, Grows, ShownKept, ResultFit, NEW d \in open, NEW p \in Peer, NEW k \in Key,
           role[p] = "none" => role'[p] = "none"
    PROVE  /\ result[d][p][k] = "applied" => Applied(d, p, k)'
           /\ result[d][p][k] = "timed out" => role'[p] = "none"
<1>1. d \in 1..Len(dists)
  BY DEF SenderTypes
<1>2. result[d][p][k] = "applied" => Applied(d, p, k)'
  BY <1>1, AppliedStays DEF ResultFit
<1> QED
  BY <1>2 DEF ResultFit

LEMMA AliasStays ==
    ASSUME SenderTypes, Grows, AliasFit
    PROVE  \A d, e \in Dist : alias[d] = e => e \in 1..Len(dists') /\ d \in Sent(e)'
<1> SUFFICES ASSUME NEW d \in Dist, NEW e \in Dist, alias[d] = e
             PROVE  e \in 1..Len(dists') /\ d \in Sent(e)'
  OBVIOUS
<1>1. e \in 1..Len(dists) /\ d \in Sent(e)
  BY DEF AliasFit
<1>2. e \in 1..Len(dists')
  BY <1>1 DEF Grows
<1> QED
  BY <1>1, <1>2, SentStays

LEMMA LocalUpdateTells ==
    ASSUME SenderTypes, ShownKept, ResultFit, AliasFit, NEW k \in Key, ApplyLocalUpdate(k)
    PROVE  ResultFit' /\ AliasFit' /\ ToldTrue
<1> DEFINE new == Len(dists) + 1
           tracked == open \cup {new}
<1>1. PICK keys \in SUBSET Key, gone \in SUBSET Key : Distribute(keys, {k}, gone, Everyone) /\ {k} \in SUBSET Key
  BY LocalUpdateIs
<1>2. /\ dists' \in Seq(Distribution) /\ Len(dists') <= MaxDist /\ new \in Dist /\ new \in 1..Len(dists')
      /\ \A d \in 1..Len(dists) : d \in 1..Len(dists')
      /\ UNCHANGED role /\ Grows /\ Len(dists) \in Nat
  BY <1>1, DistributeIs
<1>3. open \subseteq 1..Len(dists) /\ result \in Results /\ alias \in [Dist -> 0..MaxDist]
  BY DEF SenderTypes
<1>4. tracked \in SUBSET (1..Len(dists'))
  BY <1>2, <1>3
<1>5. FinishDnskeyPropagation(tracked, result, alias)
  BY DEF ApplyLocalUpdate
<1>6. new \in Dist \ open
  BY <1>2, <1>3
<1>7. ASSUME NEW p \in Peer, NEW j \in Key PROVE result[new][p][j] = ""
  <2>1. result[new] = NoResult
    BY <1>6 DEF ResultFit
  <2> QED
    BY <2>1 DEF NoResult
<1> HIDE DEF new
<1>8. ASSUME NEW d \in tracked, NEW p \in Peer, NEW j \in Key
      PROVE  /\ result[d][p][j] = "applied" => Applied(d, p, j)'
             /\ result[d][p][j] = "timed out" => role'[p] = "none"
  <2>1. CASE d \in open
    BY <1>2, <2>1, OpenStays
  <2>2. CASE d = new
    BY <1>7, <2>2
  <2> QED
    BY <2>1, <2>2
<1>9. \A d, e \in Dist : alias[d] = e => e \in 1..Len(dists') /\ d \in Sent(e)'
  BY <1>2, AliasStays
<1> HIDE DEF tracked
<1> QED
  BY <1>2, <1>3, <1>4, <1>5, <1>8, <1>9, FinishTells

\* What a resend takes over: the tracking of the same distributions.
LEMMA TakenOver ==
    ASSUME SenderTypes, NEW k \in Key, Resend(k), NEW d \in SameDistribution(k), NEW e \in Sent(d)',
           NEW new, new = Len(dists) + 1
    PROVE  e \in Sent(new)'
<1> DEFINE left == {k} \ Mine
<1>1. Mine \in SUBSET Key /\ left \in SUBSET Key /\ {k} \in SUBSET Key
  BY MineType
<1>2. d \in open /\ dists[d].tags = {k} /\ dists[d].gone = left
  BY DEF SameDistribution
<1> HIDE DEF left
<1>3. Distribute(Mine, {k}, left, Everyone)
  BY DEF Resend, left
<1>4. /\ dists'[new].keys = Mine /\ dists'[new].tags = {k} /\ dists'[new].gone = left
      /\ \A x \in 1..Len(dists) : dists'[x] = dists[x]
      /\ Len(dists) \in Nat
  BY <1>1, <1>3, DistributeIs
<1>5. d \in 1..Len(dists)
  BY <1>2 DEF SenderTypes
<1>6. dists # <<>> /\ Len(dists) \in 1..Len(dists) /\ new - 1 = Len(dists) /\ new > 1
  BY <1>4, <1>5
<1>7. Mine = dists'[new - 1].keys
  BY <1>4, <1>6 DEF Mine
<1>8. Resent(new)'
  BY <1>4, <1>6, <1>7 DEF Resent
<1>9. e \in 1..(new - 1) /\ dists'[e].tags = {k} /\ dists'[e].gone = left
  <2>1. dists'[d].tags = {k} /\ dists'[d].gone = left
    BY <1>2, <1>4, <1>5
  <2> QED
    BY <1>4, <1>5, <2>1 DEF Sent
<1> QED
  BY <1>4, <1>8, <1>9 DEF Sent

CarriedFrom(k, new, p, j) ==
  /\ Carried(k, new)[new][p][j] = "applied" => \E d \in SameDistribution(k) : result[d][p][j] = "applied"
  /\ Carried(k, new)[new][p][j] = "timed out" => \E d \in SameDistribution(k) : result[d][p][j] = "timed out"

LEMMA CarriedSays ==
    ASSUME NEW k, NEW new \in Dist, result \in Results, NEW p \in Peer, NEW j \in Key
    PROVE  CarriedFrom(k, new, p, j)
<1> DEFINE some == \E d \in SameDistribution(k) : result[d][p][j] \in {"applied", "ignored", "timed out"}
           Is(x) == \E d \in SameDistribution(k) : result[d][p][j] = x
           said == Carried(k, new)[new][p][j]
<1>1. said = IF some THEN CHOOSE x \in {"applied", "ignored", "timed out"} : Is(x) ELSE ""
  BY DEF Carried, Results
<1>2. some => \E x \in {"applied", "ignored", "timed out"} : Is(x)
  OBVIOUS
<1>3. some => Is(CHOOSE x \in {"applied", "ignored", "timed out"} : Is(x))
  BY <1>2
<1> HIDE DEF said, Is
<1>4. said # "" => some /\ Is(said)
  BY <1>1, <1>3
<1>5. said = "applied" => Is("applied")
  BY <1>4
<1>6. said = "timed out" => Is("timed out")
  BY <1>4
<1> QED
  BY <1>5, <1>6 DEF said, Is, CarriedFrom

LEMMA OpenInDist == ASSUME SenderTypes, NEW d \in open PROVE d \in Dist
BY BoundAssumption, LenProperties DEF SenderTypes, Dist

LEMMA ResendTells ==
    ASSUME SenderTypes, ShownKept, ResultFit, AliasFit, NEW k \in Key, Resend(k)
    PROVE  ResultFit' /\ AliasFit' /\ ToldTrue
<1> DEFINE left == {k} \ Mine
           old == SameDistribution(k)
<1>1. PICK new : new = Len(dists) + 1
  OBVIOUS
<1> DEFINE tracked == (open \ old) \cup {new}
           res == Carried(k, new)
           al == [d \in Dist |-> IF d \in old \/ alias[d] \in old THEN new ELSE alias[d]]
<1>2. Mine \in SUBSET Key /\ left \in SUBSET Key /\ {k} \in SUBSET Key
  BY MineType
<1>3. Distribute(Mine, {k}, left, Everyone)
  BY DEF Resend
<1>4. FinishDnskeyPropagation(tracked, res, al)
  BY <1>1 DEF Resend
<1>5. \A d \in old : d \in open /\ dists[d].tags = {k}
  BY DEF SameDistribution
<1> HIDE DEF left, old
<1>6. /\ dists' \in Seq(Distribution) /\ Len(dists') <= MaxDist /\ new \in Dist /\ new \in 1..Len(dists')
      /\ dists'[new].tags = {k}
      /\ \A d \in 1..Len(dists) : dists'[d] = dists[d] /\ d \in 1..Len(dists')
      /\ UNCHANGED role /\ Grows /\ Len(dists) \in Nat
  BY <1>1, <1>2, <1>3, DistributeIs
<1>7. open \subseteq 1..Len(dists) /\ result \in Results /\ alias \in [Dist -> 0..MaxDist]
  BY DEF SenderTypes
<1>8. new \notin open /\ new \in 0..MaxDist
  BY <1>1, <1>6, <1>7 DEF Dist
<1>9. tracked \in SUBSET (1..Len(dists'))
  BY <1>6, <1>7
<1>10. res \in Results
  BY <1>6, <1>7, CarriedType
<1>11. al \in [Dist -> 0..MaxDist]
  BY <1>7, <1>8
<1>12. ASSUME NEW d \in old, NEW e \in Sent(d)' PROVE e \in Sent(new)'
  BY <1>1, <1>12, TakenOver DEF old
<1>16. new \in Dist /\ result \in Results
  BY <1>6, <1>7
<1>17. ASSUME NEW p \in Peer, NEW j \in Key
       PROVE  /\ res[new][p][j] = "applied" => \E d \in old : result[d][p][j] = "applied"
              /\ res[new][p][j] = "timed out" => \E d \in old : result[d][p][j] = "timed out"
  <2>1. CarriedFrom(k, new, p, j)
    BY <1>16, CarriedSays
  <2> QED
    BY <2>1 DEF old, CarriedFrom
<1>13. ASSUME NEW d \in tracked, NEW p \in Peer, NEW j \in Key
       PROVE  /\ res[d][p][j] = "applied" => Applied(d, p, j)'
              /\ res[d][p][j] = "timed out" => role'[p] = "none"
  <2>1. CASE d # new
    <3>1. d \in open
      BY <2>1
    <3>2. d \in Dist
      BY <3>1, OpenInDist
    <3>3. res[d] = result[d]
      BY <1>7, <2>1, <3>2 DEF Carried, Results
    <3> QED
      BY <1>6, <3>1, <3>3, OpenStays
  <2>2. CASE d = new
    <3>1. ASSUME res[d][p][j] = "applied" PROVE Applied(d, p, j)'
      <4>1. PICK b \in old : result[b][p][j] = "applied"
        BY <1>17, <2>2, <3>1
      <4>2. b \in old /\ b \in open /\ b \in 1..Len(dists)
        BY <1>5, <1>7, <4>1
      <4>3. Applied(b, p, j)'
        BY <1>6, <4>1, <4>2, OpenStays
      <4>4. dists'[b].tags = {k}
        BY <1>5, <1>6, <4>2
      <4>5. PICK e \in Sent(b)' : Shown(p, j, e)'
        BY <4>3 DEF Applied
      <4>6. e \in Sent(new)'
        BY <1>12, <4>2, <4>5
      <4>7. j \in dists'[new].tags
        BY <1>6, <4>3, <4>4 DEF Applied
      <4> QED
        BY <2>2, <4>5, <4>6, <4>7 DEF Applied
    <3>2. ASSUME res[d][p][j] = "timed out" PROVE role'[p] = "none"
      <4>1. PICK b \in old : result[b][p][j] = "timed out"
        BY <1>17, <2>2, <3>2
      <4>2. b \in open
        BY <1>5, <4>1
      <4> QED
        BY <1>6, <4>1, <4>2, OpenStays
    <3> QED
      BY <3>1, <3>2
  <2> QED
    BY <2>1, <2>2
<1>14. ASSUME NEW d \in Dist, NEW e \in Dist, al[d] = e PROVE e \in 1..Len(dists') /\ d \in Sent(e)'
  <2>1. CASE d \in old
    <3>1. e = new
      BY <1>14, <2>1
    <3>2. d \in Sent(d)'
      BY DEF Sent
    <3> QED
      BY <1>6, <1>12, <2>1, <3>1, <3>2
  <2>2. CASE alias[d] \in old /\ d \notin old
    <3>1. PICK b \in old : alias[d] = b
      BY <2>2
    <3>2. b \in Dist
      BY <1>5, <3>1, OpenInDist
    <3>3. d \in Sent(b)'
      BY <1>6, <3>1, <3>2, AliasStays
    <3>4. e = new
      BY <1>14, <2>2
    <3> QED
      BY <1>6, <1>12, <3>1, <3>3, <3>4
  <2>3. CASE d \notin old /\ alias[d] \notin old
    <3>1. alias[d] = e
      BY <1>14, <2>3
    <3> QED
      BY <1>6, <3>1, AliasStays
  <2> QED
    BY <2>1, <2>2, <2>3
<1>15. \A d, e \in Dist : al[d] = e => e \in 1..Len(dists') /\ d \in Sent(e)'
  BY <1>14
<1> HIDE DEF tracked, res, al
<1> QED
  BY <1>4, <1>6, <1>9, <1>10, <1>11, <1>13, <1>15, FinishTells

\* What an answer does to one key of a tracking: it stays, or it is the first
\* and the confirmation c says so.
ScoredIs(c, d, p, k, res) ==
  res[d][p][k] \in {"applied", "timed out"} =>
    \/ res[d][p][k] = result[d][p][k]
    \/ res[d][p][k] = "applied" /\ p = c.peer /\ k \in dists[d].tags /\ (c.status = "ok" \/ k \in c.done)

LEMMA ScoredSays ==
    ASSUME NEW c \in Confirmation, result \in Results, NEW d \in Dist, NEW p \in Peer, NEW k \in Key,
           NEW e \in Dist, NEW late \in BOOLEAN
    PROVE  ScoredIs(c, d, p, k, Scored(c, e, late))
<1> DEFINE new == Scored(c, e, late)
           said == IF k \in dists[e].tags THEN First(result[e][c.peer][k], SaidOf(c, k, late)) ELSE ""
<1>1. c.peer \in Peer
  BY DEF Confirmation
<1>2. new = [result EXCEPT ![e][c.peer] =
               [j \in Key |-> IF j \in dists[e].tags THEN First(@[j], SaidOf(c, j, late)) ELSE ""]]
  BY DEF Scored
<1>3. d = e /\ p = c.peer => new[d][p][k] = said
  <2> DEFINE line == [j \in Key |-> IF j \in dists[e].tags
                                   THEN First(result[e][c.peer][j], SaidOf(c, j, late)) ELSE ""]
  <2>1. line[k] = said
    OBVIOUS
  <2>2. new = [result EXCEPT ![e][c.peer] = line]
    BY <1>2
  <2> HIDE DEF line, said
  <2>3. new[e][c.peer] = line
    BY <1>1, <2>2 DEF Results
  <2> QED
    BY <2>1, <2>3
<1>4. d # e \/ p # c.peer => new[d][p][k] = result[d][p][k]
  BY <1>1, <1>2 DEF Results
<1> HIDE DEF new
<1>5. SaidOf(c, k, late) # "timed out" /\ (SaidOf(c, k, late) = "applied" => c.status = "ok" \/ k \in c.done)
  BY DEF SaidOf
<1>6. said \in {"applied", "timed out"} =>
        \/ said = result[e][c.peer][k]
        \/ said = "applied" /\ k \in dists[e].tags /\ (c.status = "ok" \/ k \in c.done)
  BY <1>5 DEF First
<1> HIDE DEF said
<1>7. new[d][p][k] \in {"applied", "timed out"} =>
        \/ new[d][p][k] = result[d][p][k]
        \/ new[d][p][k] = "applied" /\ p = c.peer /\ k \in dists[d].tags /\ (c.status = "ok" \/ k \in c.done)
  <2>1. CASE d = e /\ p = c.peer
    BY <1>3, <1>6, <2>1
  <2>2. CASE d # e \/ p # c.peer
    BY <1>4, <2>2
  <2> QED
    BY <2>1, <2>2
<1> QED
  BY <1>7 DEF ScoredIs, new

\* The same of an answer's confirmation: the set it names has the key as the
\* tracking has it.
CreditIs(c, d, p, k, res) ==
  res[d][p][k] \in {"applied", "timed out"} =>
    \/ res[d][p][k] = result[d][p][k]
    \/ /\ res[d][p][k] = "applied" /\ p = c.peer /\ k \in dists[d].tags /\ c.status = "ok" /\ d < c.dist
       /\ k \in dists[c.dist].keys <=> k \notin dists[d].gone

LEMMA CreditSays ==
    ASSUME NEW c \in Confirmation, result \in Results, NEW d \in Dist, NEW p \in Peer, NEW k \in Key
    PROVE  CreditIs(c, d, p, k, CreditFromAnswer(c))
<1> DEFINE new == CreditFromAnswer(c)
           word == CreditedOf(c, k, dists[c.dist].keys, dists[d].gone)
           said == IF k \in dists[d].tags THEN First(result[d][c.peer][k], word) ELSE ""
<1>1. c.peer \in Peer
  BY DEF Confirmation
<1>2. new[d] = IF d \in open /\ d < c.dist
               THEN [result[d] EXCEPT ![c.peer] =
                       [j \in Key |-> IF j \in dists[d].tags
                          THEN First(@[j], CreditedOf(c, j, dists[c.dist].keys, dists[d].gone))
                          ELSE ""]]
               ELSE result[d]
  BY DEF CreditFromAnswer
<1>3. d \in open /\ d < c.dist /\ p = c.peer => new[d][p][k] = said
  <2> DEFINE line == [j \in Key |-> IF j \in dists[d].tags
                        THEN First(result[d][c.peer][j], CreditedOf(c, j, dists[c.dist].keys, dists[d].gone)) ELSE ""]
  <2>1. line[k] = said
    OBVIOUS
  <2>2. d \in open /\ d < c.dist => new[d] = [result[d] EXCEPT ![c.peer] = line]
    BY <1>2
  <2> HIDE DEF line, said
  <2>3. d \in open /\ d < c.dist => new[d][c.peer] = line
    BY <1>1, <2>2 DEF Results
  <2> QED
    BY <2>1, <2>3
<1>4. ~(d \in open /\ d < c.dist) \/ p # c.peer => new[d][p][k] = result[d][p][k]
  BY <1>1, <1>2 DEF Results
<1> HIDE DEF new
<1>5. word # "timed out" /\ (word = "applied" =>
        c.status = "ok" /\ (k \in dists[c.dist].keys <=> k \notin dists[d].gone))
  <2> DEFINE a == k \in dists[c.dist].keys
             b == k \in dists[d].gone
  <2>1. a \in BOOLEAN /\ b \in BOOLEAN
    OBVIOUS
  <2> HIDE DEF a, b
  <2>2. (a # b) => (a <=> ~b)
    BY <2>1
  <2>3. (k \in dists[c.dist].keys) # (k \in dists[d].gone) => (k \in dists[c.dist].keys <=> k \notin dists[d].gone)
    BY <2>2 DEF a, b
  <2> QED
    BY <2>3 DEF CreditedOf
<1> HIDE DEF word
<1>6. said \in {"applied", "timed out"} =>
        \/ said = result[d][c.peer][k]
        \/ said = "applied" /\ k \in dists[d].tags /\ word = "applied"
  BY <1>5 DEF First
<1> HIDE DEF said
<1>7. CASE d \in open /\ d < c.dist /\ p = c.peer
  BY <1>3, <1>5, <1>6, <1>7 DEF CreditIs, new
<1>8. CASE ~(d \in open /\ d < c.dist) \/ p # c.peer
  BY <1>4, <1>8 DEF CreditIs, new
<1> QED
  BY <1>7, <1>8

\* What the trackings say after a step is true before it.
ScoreTrue(res) ==
  \A d \in open : \A p \in Peer : \A k \in Key :
    /\ res[d][p][k] = "applied" => Applied(d, p, k)
    /\ res[d][p][k] = "timed out" => role[p] = "none"

LEMMA ScoresTell ==
    ASSUME SenderTypes, Grows, ShownKept, AliasFit, UNCHANGED <<role, dists>>, NEW res \in Results, ScoreTrue(res),
           FinishDnskeyPropagation(open, res, alias)
    PROVE  ResultFit' /\ AliasFit' /\ ToldTrue
<1>1. /\ dists' \in Seq(Distribution) /\ Len(dists') <= MaxDist /\ open \in SUBSET (1..Len(dists'))
      /\ alias \in [Dist -> 0..MaxDist]
  BY DEF SenderTypes
<1>2. ASSUME NEW d \in open, NEW p \in Peer, NEW k \in Key
      PROVE  /\ res[d][p][k] = "applied" => Applied(d, p, k)'
             /\ res[d][p][k] = "timed out" => role'[p] = "none"
  <2>1. d \in 1..Len(dists)
    BY DEF SenderTypes
  <2>2. Applied(d, p, k) => Applied(d, p, k)'
    BY <2>1, AppliedStays
  <2> QED
    BY <2>2 DEF ScoreTrue
<1>3. \A d, e \in Dist : alias[d] = e => e \in 1..Len(dists') /\ d \in Sent(e)'
  BY AliasStays
<1> QED
  BY <1>1, <1>2, <1>3, FinishTells

LEMMA HandedDists ==
    ASSUME Types, NEW p \in Peer
    PROVE  last[p] \in Nat /\ \A f \in handing[p] : forwards[p][f].dist \in Nat
<1>1. last[p] \in Nat
  BY BoundAssumption DEF Types, AgentTypes
<1>2. ASSUME NEW f \in handing[p] PROVE forwards[p][f].dist \in Nat
  <2>1. forwards[p] \in Seq(Forward) /\ f \in 1..Len(forwards[p])
    BY DEF Types, AgentTypes
  <2>2. forwards[p][f] \in Forward
    BY <2>1, ElementOfSeq
  <2> QED
    BY <2>2, BoundAssumption DEF Forward, Dist
<1> QED
  BY <1>1, <1>2

\* A confirmation counts for its own tracking, for the resend that took it
\* over, and, of an answer, for the trackings it overtook.
LEMMA ScoreDirect ==
    ASSUME Types, ResultFit, AliasFit, NEW c \in Confirmation, ConfirmedTrue(c),
           NEW e \in Dist, NEW late \in BOOLEAN, c.dist = e \/ alias[c.dist] = e
    PROVE  ScoreTrue(Scored(c, e, late))
<1> DEFINE res == Scored(c, e, late)
<1>1. result \in Results /\ c.dist \in Dist /\ c.peer \in Peer
  BY DEF Types, SenderTypes, Confirmation
<1>2. c.dist \in Sent(e)
  BY <1>1 DEF AliasFit, Sent
<1>3. ASSUME NEW d \in open, NEW p \in Peer, NEW k \in Key
      PROVE  /\ res[d][p][k] = "applied" => Applied(d, p, k)
             /\ res[d][p][k] = "timed out" => role[p] = "none"
  <2>1. d \in Dist
    BY OpenInDist DEF Types
  <2>2. ScoredIs(c, d, p, k, res)
    BY <1>1, <2>1, ScoredSays
  <2>7. d # e => res[d] = result[d]
    BY <1>1, <2>1 DEF Scored, Results
  <2> HIDE DEF res
  <2>3. /\ result[d][p][k] = "applied" => Applied(d, p, k)
        /\ result[d][p][k] = "timed out" => role[p] = "none"
    BY DEF ResultFit
  <2>4. ASSUME p = c.peer, k \in dists[d].tags, c.status = "ok" \/ k \in c.done, d = e
        PROVE  Applied(d, p, k)
    <3>1. Shown(p, k, c.dist)
      BY <2>4 DEF ConfirmedTrue
    <3> QED
      BY <1>2, <2>4, <3>1 DEF Applied
  <2>5. CASE d # e
    BY <2>3, <2>5, <2>7
  <2>6. CASE d = e
    BY <2>2, <2>3, <2>4, <2>6 DEF ScoredIs
  <2> QED
    BY <2>5, <2>6
<1> QED
  BY <1>3 DEF ScoreTrue

LEMMA ScoreCredit ==
    ASSUME Types, TagsFit, ResultFit, NEW c \in Confirmation, ConfirmedTrue(c)
    PROVE  ScoreTrue(CreditFromAnswer(c))
<1> DEFINE res == CreditFromAnswer(c)
<1>1. result \in Results /\ c.dist \in Dist /\ c.peer \in Peer /\ Len(dists) \in Nat
  BY LenProperties DEF Types, SenderTypes, Confirmation
<1>2. last[c.peer] \in Nat /\ \A f \in handing[c.peer] : forwards[c.peer][f].dist \in Nat
  BY <1>1, HandedDists
<1>3. ASSUME NEW d \in open, NEW p \in Peer, NEW k \in Key
      PROVE  /\ res[d][p][k] = "applied" => Applied(d, p, k)
             /\ res[d][p][k] = "timed out" => role[p] = "none"
  <2>1. d \in Dist /\ d \in 1..Len(dists)
    BY OpenInDist DEF Types, SenderTypes
  <2>2. CreditIs(c, d, p, k, res)
    BY <1>1, <2>1, CreditSays
  <2> HIDE DEF res
  <2>3. /\ result[d][p][k] = "applied" => Applied(d, p, k)
        /\ result[d][p][k] = "timed out" => role[p] = "none"
    BY DEF ResultFit
  <2>4. ASSUME p = c.peer, k \in dists[d].tags, c.status = "ok", d < c.dist,
               k \in dists[c.dist].keys <=> k \notin dists[d].gone
        PROVE  Applied(d, p, k)
    <3>1. Shown(p, k, c.dist) /\ c.dist \in 1..Len(dists)
      BY <2>4 DEF ConfirmedTrue
    <3>2. k \in dists[d].keys <=> k \in dists[c.dist].keys
      BY <2>1, <2>4 DEF TagsFit
    <3>3. d \in 1..c.dist
      BY <1>1, <2>1, <2>4, <3>1
    <3>4. Shown(p, k, d)
      BY <1>1, <1>2, <2>4, <3>1, <3>2, <3>3, ShownEarlier
    <3> QED
      BY <2>4, <3>4 DEF Applied, Sent
  <2> QED
    BY <2>2, <2>3, <2>4 DEF CreditIs
<1> QED
  BY <1>3 DEF ScoreTrue

LEMMA ConfirmationTells ==
    ASSUME Types, Grows, ShownKept, TagsFit, ResultFit, AliasFit, NEW c \in confs, ConfirmedTrue(c),
           ProcessDnskeyConfirmation(c)
    PROVE  ResultFit' /\ AliasFit' /\ ToldTrue
<1> DEFINE res == IF c.dist \in open THEN Scored(c, c.dist, FALSE)
                  ELSE IF alias[c.dist] \in open THEN Scored(c, alias[c.dist], TRUE)
                  ELSE IF answer[c.peer] = c.dist THEN CreditFromAnswer(c)
                  ELSE result
<1>1. c \in Confirmation /\ c.dist \in Dist /\ result \in Results /\ SenderTypes
      /\ open \subseteq 1..Len(dists) /\ alias \in [Dist -> 0..MaxDist]
      /\ dists \in Seq(Distribution) /\ Len(dists) <= MaxDist
  BY DEF Types, SenderTypes, WireTypes, Confirmation
<1>2. UNCHANGED <<role, dists>> /\ FinishDnskeyPropagation(open, res, alias)
  BY DEF ProcessDnskeyConfirmation
<1>3. ScoreTrue(res)
  <2>1. CASE c.dist \in open
    BY <1>1, <2>1, ScoreDirect
  <2>2. CASE c.dist \notin open /\ alias[c.dist] \in open
    <3>1. alias[c.dist] \in Dist
      BY <1>1, <2>2, OpenInDist
    <3>2. ScoreTrue(Scored(c, alias[c.dist], TRUE))
      BY <1>1, <3>1, ScoreDirect
    <3> QED
      BY <2>2, <3>2
  <2>3. ScoreTrue(CreditFromAnswer(c))
    BY <1>1, ScoreCredit
  <2>4. ScoreTrue(result)
    BY DEF ScoreTrue, ResultFit
  <2> QED
    BY <2>1, <2>2, <2>3, <2>4
<1>4. res \in Results
  <2>1. open \subseteq Dist
    BY <1>1, DistFacts
  <2> QED
    BY <1>1, <2>1, ScoredType, CreditType
<1> HIDE DEF res
<1> QED
  BY <1>1, <1>2, <1>3, <1>4, ScoresTell

LEMMA TimedOutTells ==
    ASSUME SenderTypes, Grows, ShownKept, ResultFit, AliasFit, NEW d \in Dist, DnskeyNoRoleTimedOut(d)
    PROVE  ResultFit' /\ AliasFit' /\ ToldTrue
<1> DEFINE s == [p \in Peer |-> [k \in Key |->
                   IF role[p] = "none" /\ k \in dists[d].tags THEN First(result[d][p][k], "timed out") ELSE result[d][p][k]]]
           res == [result EXCEPT ![d] = s]
<1>1. s \in [Peer -> [Key -> Result]]
  <2>1. result[d] \in [Peer -> [Key -> Result]]
    BY DEF SenderTypes, Results
  <2>2. "timed out" \in Result
    BY DEF Result
  <2>3. \A p \in Peer : \A k \in Key : result[d][p][k] \in Result
    BY <2>1
  <2>4. \A p \in Peer : \A k \in Key : First(result[d][p][k], "timed out") \in Result
    BY <2>2, <2>3, FirstType
  <2> QED
    BY <2>3, <2>4
<1>2. FinishDnskeyPropagation(open, res, alias) /\ UNCHANGED <<role, dists>>
  BY DEF DnskeyNoRoleTimedOut, SenderTypes, Results
<1>3. \A p \in Peer : \A k \in Key : s[p][k] = result[d][p][k] \/ (s[p][k] = "timed out" /\ role[p] = "none")
  BY DEF First
<1> HIDE DEF s
<1>4. res \in Results
  BY <1>1 DEF SenderTypes, Results
<1>5. \A e \in Dist : res[e] = IF e = d THEN s ELSE result[e]
  BY DEF SenderTypes, Results
<1> HIDE DEF res
<1>6. ASSUME NEW e \in open, NEW p \in Peer, NEW k \in Key
      PROVE  /\ res[e][p][k] = "applied" => Applied(e, p, k)
             /\ res[e][p][k] = "timed out" => role[p] = "none"
  <2>1. e \in Dist
    BY OpenInDist
  <2>2. res[e][p][k] = result[e][p][k] \/ (res[e][p][k] = "timed out" /\ role[p] = "none")
    <3>1. CASE e = d
      <4>1. res[e] = s
        BY <1>5, <2>1, <3>1
      <4> QED
        BY <1>3, <3>1, <4>1
    <3>2. CASE e # d
      <4>1. res[e] = result[e]
        BY <1>5, <2>1, <3>2
      <4> QED
        BY <4>1
    <3> QED
      BY <3>1, <3>2
  <2> QED
    BY <2>2 DEF ResultFit
<1>7. ScoreTrue(res)
  BY <1>6 DEF ScoreTrue
<1> QED
  BY <1>2, <1>4, <1>7, ScoresTell

\* A step that tells the signer, or not: what it is told is true.
LEMMA TrackingStep ==
    ASSUME Types, Grows, ShownKept, TagsFit, ResultFit, AliasFit, \A c \in confs : ConfirmedTrue(c), [Next]_vars
    PROVE  ResultFit' /\ AliasFit' /\ ToldTrue
<1>1. SenderTypes /\ confs \subseteq Confirmation
  BY DEF Types, WireTypes
<1>2. CASE UNCHANGED <<open, result, alias, told>> /\ \A p \in Peer : role[p] = "none" => role'[p] = "none"
  BY <1>2, TrackingStays
<1>3. CASE UNCHANGED sender
  BY <1>2, <1>3 DEF sender
<1>4. ASSUME NEW k \in Key, ApplyLocalUpdate(k) \/ Resend(k) PROVE ResultFit' /\ AliasFit' /\ ToldTrue
  BY <1>1, <1>4, LocalUpdateTells, ResendTells
<1>5. ASSUME NEW p \in Peer, CatchUpAnswer(p) PROVE ResultFit' /\ AliasFit' /\ ToldTrue
  <2>1. UNCHANGED <<role, open, result, alias, told>>
    BY <1>5 DEF CatchUpAnswer, Distribute
  <2> QED
    BY <1>2, <2>1
<1>6. ASSUME NEW p \in Peer, RoleEnds(p) PROVE ResultFit' /\ AliasFit' /\ ToldTrue
  <2>1. UNCHANGED <<open, result, alias, told>> /\ role' = [role EXCEPT ![p] = "none"]
    BY <1>6 DEF RoleEnds
  <2>2. \A q \in Peer : role[q] = "none" => role'[q] = "none"
    BY <1>1, <2>1 DEF SenderTypes
  <2> QED
    BY <1>2, <2>1, <2>2
<1>7. ASSUME NEW d \in Dist, NEW p \in Peer, CopyIsDelayed(d, p) PROVE UNCHANGED sender
  BY <1>7 DEF CopyIsDelayed
<1>8. ASSUME NEW c \in confs, ProcessDnskeyConfirmation(c) PROVE ResultFit' /\ AliasFit' /\ ToldTrue
  BY <1>8, ConfirmationTells
<1>9. ASSUME NEW c \in confs, LoseConfirmation(c) PROVE UNCHANGED sender
  BY <1>9 DEF LoseConfirmation
<1>10. ASSUME NEW d \in Dist, DnskeyNoRoleTimedOut(d) PROVE ResultFit' /\ AliasFit' /\ ToldTrue
  BY <1>1, <1>10, TimedOutTells
<1>11. CASE SenderRestarts
  <2>1. open' = {} /\ result' = [d \in Dist |-> NoResult] /\ alias' = [d \in Dist |-> 0] /\ told' = told
    BY <1>11 DEF SenderRestarts
  <2>2. ResultFit'
    BY <2>1 DEF ResultFit
  <2>3. AliasFit'
    BY <2>1, DistIsNot0 DEF AliasFit
  <2> QED
    BY <2>1, <2>2, <2>3 DEF ToldTrue
<1>12. CASE SenderNext
  BY <1>3, <1>4, <1>5, <1>6, <1>7, <1>8, <1>9, <1>10, <1>11, <1>12 DEF SenderNext
<1>13. ASSUME NEW p \in Peer, AgentNext(p) \/ CombinerNext(p) PROVE UNCHANGED sender
  BY <1>13, AgentLeavesSender
<1> QED
  BY <1>3, <1>12, <1>13 DEF Next, vars

LEMMA InductiveStep == Inductive /\ [Next]_vars => Inductive'
BY TypesStep, OrderStep DEF Inductive

LEMMA TruthfulStep == Truthful /\ [Next]_vars => Truthful' /\ ToldTrue
<1> SUFFICES ASSUME Truthful, [Next]_vars PROVE Truthful' /\ ToldTrue
  OBVIOUS
<1>1. /\ Inductive /\ TagsFit /\ AliasFit /\ ResultFit /\ Types /\ SenderTypes
      /\ (\A p \in Peer : PeerFacts(p)) /\ (\A c \in confs : ConfirmedTrue(c))
  BY DEF Truthful, Inductive, Types
<1>2. Grows
  BY <1>1, GrowsStep
<1>3. (\A p \in Peer : PeerFacts(p)') /\ ShownKept
  BY <1>1, PeersStep DEF ShownKept
<1>4. \A c \in confs' : ConfirmedTrue(c)'
  BY <1>1, ConfsStep
<1>5. TagsFit'
  BY <1>1, TagsStep
<1>6. ResultFit' /\ AliasFit' /\ ToldTrue
  BY <1>1, <1>2, <1>3, TrackingStep
<1>7. Inductive'
  BY <1>1, InductiveStep
<1> QED
  BY <1>3, <1>4, <1>5, <1>6, <1>7 DEF Truthful

LEMMA TruthfulInit == Init => Truthful
<1> SUFFICES ASSUME Init PROVE Truthful
  OBVIOUS
<1>1. Inductive
  BY TypeInit, OrderInit DEF Inductive
<1>2. Len(dists) = 0 /\ open = {} /\ confs = {}
  BY EmptySeq DEF Init
<1>3. TagsFit /\ ResultFit
  BY <1>2 DEF TagsFit, ResultFit, Init
<1>4. AliasFit
  BY DistIsNot0 DEF AliasFit, Init
<1>5. ASSUME NEW p \in Peer PROVE PeerFacts(p)
  <2>1. /\ prc[p] = {} /\ waits[p] = {} /\ words[p] = {} /\ handing[p] = {} /\ newest[p] = 0 /\ holds[p] = {}
        /\ repo[p] = {} /\ last[p] = 0 /\ note[p] = NoNote /\ own[p] = [NotRead EXCEPT !.state = "read"]
    BY DEF Init
  <2>2. note[p].fwd = 0 /\ note[p].state = "none" /\ own[p].state = "read" /\ own[p].fit = FALSE
    BY <2>1 DEF NoNote, NotRead
  <2>3. Handed(p)
    BY <2>1, <2>2 DEF Handed, InFlight
  <2>4. Stored(p) /\ Settled(p)
    BY <2>1, <2>2 DEF Stored, Settled
  <2> QED
    BY <2>3, <2>4 DEF PeerFacts
<1> QED
  BY <1>1, <1>2, <1>3, <1>4, <1>5 DEF Truthful

LEMMA TruthfulAlways == Spec => []Truthful
<1>1. Truthful /\ [Next]_vars => Truthful'
  BY TruthfulStep
<1> QED
  BY <1>1, TruthfulInit, PTL DEF Spec

\* The signer is told by the sender's steps alone.
LEMMA TellerLeavesPeers == ASSUME [Next]_vars, told' # told PROVE UNCHANGED combiner
<1>1. SenderNext
  BY AgentLeavesSender DEF Next, vars, sender
<1> QED
  BY <1>1 DEF SenderNext, ApplyLocalUpdate, Resend, CatchUpAnswer, RoleEnds, CopyIsDelayed,
              ProcessDnskeyConfirmation, LoseConfirmation, DnskeyNoRoleTimedOut, SenderRestarts

\* What was applied of a distribution was so of one that it sends again, and
\* is so still, unless the sender changed its mind.
LEMMA AppliedMeans ==
    ASSUME TagsFit', Len(dists') \in Nat, NEW d \in 1..Len(dists'), NEW p \in Peer, NEW k \in Key, Applied(d, p, k)'
    PROVE  \E e \in Sent(d)' :
             \/ "combiner" \in lost'[p]
             \/ k \in dists'[d].gone /\ "agent" \in lost'[p]
             \/ k \in holds'[p] <=> k \notin dists'[d].gone
             \/ IF k \in dists'[d].gone THEN BackSince(k, e)' ELSE GoneSince(k, e)'
<1>1. PICK e \in Sent(d)' : Shown(p, k, e)'
  BY DEF Applied
<1>2. k \in dists'[d].tags
  BY DEF Applied
<1>3. e \in 1..Len(dists') /\ k \in dists'[e].tags /\ dists'[e].gone = dists'[d].gone
  BY <1>2 DEF Sent
<1>4. k \in dists'[e].keys <=> k \notin dists'[d].gone
  BY <1>3 DEF TagsFit
<1>5. CASE ~Known(p, k, e)'
  BY <1>4, <1>5 DEF Known
<1>6. CASE ~Lasts(k, e)'
  <2>1. PICK f \in e..Len(dists') : ~(k \in dists'[f].keys <=> k \in dists'[e].keys)
    BY <1>6 DEF Lasts
  <2>2. f \in (e + 1)..Len(dists')
    BY <1>3, <2>1
  <2>3. IF k \in dists'[d].gone THEN BackSince(k, e)' ELSE GoneSince(k, e)'
    BY <1>4, <2>1, <2>2 DEF BackSince, GoneSince
  <2> QED
    BY <2>3
<1>7. CASE Known(p, k, e)' /\ Lasts(k, e)'
  <2>1. k \in holds'[p] <=> k \in dists'[e].keys
    BY <1>1, <1>7 DEF Shown
  <2> QED
    BY <1>4, <2>1
<1> QED
  BY <1>5, <1>6, <1>7

\* What the signer was told, by what the peers have.
LEMMA ToldMeans ==
    ASSUME Truthful', ToldTrue, [Next]_vars, NEW t \in told' \ told, t.kind \in {"propagated", "removed"},
           NEW p \in Confirmers(t)'
    PROVE  \E d \in Sent(t.dist)' :
             \/ "combiner" \in lost[p]
             \/ t.kind = "removed" /\ "agent" \in lost[p]
             \/ t.key \in holds[p] <=> t.kind = "propagated"
             \/ IF t.kind = "removed" THEN BackSince(t.key, d)' ELSE GoneSince(t.key, d)'
<1>1. PICK k, b : k = t.key /\ b = t.dist
  OBVIOUS
<1>2. /\ b \in 1..Len(dists') /\ k \in Key /\ p \in Peer /\ Applied(b, p, k)'
      /\ t.kind = "removed" <=> k \in dists'[b].gone
  BY <1>1 DEF ToldTrue
<1>3. TagsFit' /\ Len(dists') \in Nat
  BY LenProperties DEF Truthful, Inductive, Types, SenderTypes
<1>4. \E e \in Sent(b)' :
             \/ "combiner" \in lost'[p]
             \/ k \in dists'[b].gone /\ "agent" \in lost'[p]
             \/ k \in holds'[p] <=> k \notin dists'[b].gone
             \/ IF k \in dists'[b].gone THEN BackSince(k, e)' ELSE GoneSince(k, e)'
  BY <1>2, <1>3, AppliedMeans
<1>5. lost' = lost /\ holds' = holds
  BY TellerLeavesPeers DEF combiner
<1>6. t.kind = "propagated" <=> t.kind # "removed"
  OBVIOUS
<1> QED
  BY <1>1, <1>2, <1>4, <1>5, <1>6

\* What the signer is told of a key that it may sign with: every signing
\* provider's combiner holds it (foldIntoResend, ProcessDnskeyConfirmation,
\* NoOpConfirmation and ApplyOwnRead are where it could go wrong).  By what
\* every confirmation under way and every answer tracked means (Truthful).
THEOREM PropagatedIsHeld == Spec => PropagatedMeansHeld
<1>1. Truthful /\ Truthful' /\ ToldTrue /\ [Next]_vars =>
        [\A t \in told' \ told : t.kind = "propagated" =>
           \A p \in Confirmers(t)' :
             "combiner" \in lost[p] \/ t.key \in holds[p] \/ \E d \in Sent(t.dist)' : GoneSince(t.key, d)']_vars
  <2> SUFFICES ASSUME Truthful', ToldTrue, [Next]_vars, NEW t \in told' \ told, t.kind = "propagated",
                      NEW p \in Confirmers(t)'
               PROVE  "combiner" \in lost[p] \/ t.key \in holds[p] \/ \E d \in Sent(t.dist)' : GoneSince(t.key, d)'
    OBVIOUS
  <2>1. PICK d \in Sent(t.dist)' :
             \/ "combiner" \in lost[p]
             \/ t.kind = "removed" /\ "agent" \in lost[p]
             \/ t.key \in holds[p] <=> t.kind = "propagated"
             \/ IF t.kind = "removed" THEN BackSince(t.key, d)' ELSE GoneSince(t.key, d)'
    BY ToldMeans
  <2>2. t.kind # "removed"
    OBVIOUS
  <2> QED
    BY <2>1, <2>2
<1> QED
  BY <1>1, TruthfulAlways, TruthfulStep, PTL DEF PropagatedMeansHeld, Spec

\* What the signer is told of a key that it may forget: no signing provider's
\* combiner holds it, by the same facts.
THEOREM RemovedIsGone == Spec => RemovedMeansGone
<1>1. Truthful /\ Truthful' /\ ToldTrue /\ [Next]_vars =>
        [\A t \in told' \ told : t.kind = "removed" =>
           \A p \in Confirmers(t)' :
             \/ lost[p] \cap {"agent", "combiner"} # {} \/ t.key \notin holds[p]
             \/ \E d \in Sent(t.dist)' : BackSince(t.key, d)']_vars
  <2> SUFFICES ASSUME Truthful', ToldTrue, [Next]_vars, NEW t \in told' \ told, t.kind = "removed",
                      NEW p \in Confirmers(t)'
               PROVE  \/ lost[p] \cap {"agent", "combiner"} # {} \/ t.key \notin holds[p]
                      \/ \E d \in Sent(t.dist)' : BackSince(t.key, d)'
    OBVIOUS
  <2>1. PICK d \in Sent(t.dist)' :
             \/ "combiner" \in lost[p]
             \/ t.kind = "removed" /\ "agent" \in lost[p]
             \/ t.key \in holds[p] <=> t.kind = "propagated"
             \/ IF t.kind = "removed" THEN BackSince(t.key, d)' ELSE GoneSince(t.key, d)'
    BY ToldMeans
  <2>2. t.kind # "propagated"
    OBVIOUS
  <2> QED
    BY <2>1, <2>2
<1> QED
  BY <1>1, TruthfulAlways, TruthfulStep, PTL DEF RemovedMeansGone, Spec

=============================================================================
