-------------------------- MODULE PeerTableProofs --------------------------
(* Theorems about PeerTable, for every set of addresses and every limit, and  *)
(* for peers that claim any height.                                           *)
EXTENDS PeerTable, FiniteSetTheorems, TLAPS

(******************************** counting *********************************)

\* A set of addresses is finite, and taking some away leaves no more.
LEMMA PeersFinite ==
  ASSUME NEW S \in SUBSET Peers
  PROVE  /\ IsFiniteSet(S) /\ Cardinality(S) \in Nat
         /\ \A T \in SUBSET S : IsFiniteSet(T) /\ Cardinality(T) <= Cardinality(S)
<1>1. IsFiniteSet(S)
  BY FS_Subset, PeerAssumption
<1> QED BY <1>1, FS_Subset, FS_CardinalityType

\* Two sets of addresses together have at most as many as one and the other.
LEMMA UnionBound ==
  ASSUME NEW S \in SUBSET Peers, NEW T \in SUBSET Peers
  PROVE  Cardinality(S \cup T) <= Cardinality(S) + Cardinality(T)
<1>1. IsFiniteSet(S) /\ IsFiniteSet(T) /\ IsFiniteSet(S \cap T)
  BY PeersFinite, S \cap T \in SUBSET Peers
<1>2. /\ Cardinality(S) \in Nat /\ Cardinality(T) \in Nat /\ Cardinality(S \cap T) \in Nat
  BY <1>1, FS_CardinalityType
<1>3. Cardinality(S \cup T) = Cardinality(S) + Cardinality(T) - Cardinality(S \cap T)
  BY <1>1, FS_Union
<1> QED BY <1>2, <1>3

\* The cut of the cache file at the start: at most `room` addresses have fewer
\* than `room` below them, because no two have equally many.
LEMMA CutBound ==
  ASSUME NEW cached \in SUBSET Peers, NEW room \in Nat
  PROVE  Cardinality({p \in cached : Cardinality({q \in cached : q < p}) < room}) <= room
<1> DEFINE Rank(p) == Cardinality({q \in cached : q < p})
           cut == {p \in cached : Rank(p) < room}
           rank == [p \in cut |-> Rank(p)]
<1>1. \A p \in cached : Rank(p) \in Nat
  BY PeersFinite, \A p \in cached : {q \in cached : q < p} \in SUBSET Peers
<1>2. ASSUME NEW p \in cached, NEW r \in cached, p < r
      PROVE  Rank(p) < Rank(r)
  <2> DEFINE below(x) == {q \in cached : q < x}
  <2>1. p \in Nat /\ r \in Nat /\ \A q \in cached : q \in Nat
    BY PeerAssumption
  <2>2. below(p) \cup {p} \in SUBSET below(r) /\ p \notin below(p)
    <3>1. \A q \in below(p) : q \in cached /\ q < r
      BY <1>2, <2>1
    <3>2. p \in below(r) /\ p \notin below(p)
      BY <1>2, <2>1
    <3> QED BY <3>1, <3>2
  <2>3. IsFiniteSet(below(p)) /\ IsFiniteSet(below(r))
    BY PeersFinite, below(p) \in SUBSET Peers, below(r) \in SUBSET Peers
  <2>4. Cardinality(below(p) \cup {p}) = Cardinality(below(p)) + 1
    BY <2>2, <2>3, FS_AddElement
  <2>5. Cardinality(below(p) \cup {p}) <= Cardinality(below(r))
    BY <2>2, <2>3, FS_Subset
  <2>6. Cardinality(below(p)) \in Nat /\ Cardinality(below(r)) \in Nat
    BY <2>3, FS_CardinalityType
  <2> HIDE DEF below
  <2>7. Cardinality(below(p)) < Cardinality(below(r))
    BY <2>4, <2>5, <2>6
  <2> QED BY <2>7 DEF below
<1> HIDE DEF Rank
<1>3. rank \in [cut -> 0..(room - 1)]
  BY <1>1
<1>4. \A p, r \in cut : rank[p] = rank[r] => p = r
  <2> SUFFICES ASSUME NEW p \in cut, NEW r \in cut, rank[p] = rank[r]
               PROVE  p = r
    OBVIOUS
  <2>1. p \in cached /\ r \in cached /\ p \in Nat /\ r \in Nat
    BY PeerAssumption
  <2>2. Rank(p) \in Nat /\ Rank(r) \in Nat /\ Rank(p) = Rank(r)
    BY <1>1, <2>1
  <2>3. ~(p < r) /\ ~(r < p)
    BY <1>2, <2>1, <2>2
  <2> QED BY <2>1, <2>3
<1>5. rank \in Injection(cut, 0..(room - 1))
  BY <1>3, <1>4 DEF Injection, IsInjective
<1>6. IsFiniteSet(0..(room - 1)) /\ Cardinality(0..(room - 1)) = room
  BY FS_Interval, 0 \in Int, room - 1 \in Int
<1>7. Cardinality(cut) <= Cardinality(0..(room - 1))
  BY <1>5, <1>6, FS_Injection
<1> QED BY <1>6, <1>7 DEF Rank

(****************************** the invariant ******************************)

\* The types, with what the rest needs to survive a step: only known peers are
\* polled, and a stopped process knows nobody.
Shape ==
  /\ known \subseteq Peers /\ toPoll \subseteq known /\ file \subseteq Peers
  /\ failures \in [Peers -> Nat]
  /\ lastTip \in [Peers -> NoTip..MaxHeight]
  /\ height \in Nat /\ looked \in Nat
  /\ main \in {"down", "refused"} => known = {}

\* What the table says of a peer was learned since it was last added, and a tip
\* is on record only after a handshake of this run of the program.
Fresh ==
  /\ \A p \in Peers \ known : failures[p] = 0 /\ lastTip[p] = NoTip
  /\ (\E p \in Peers : lastTip[p] # NoTip) => shaken

\* MinesUnshakenAlone, from the moment the main thread is past the handshake.
PastHandshake ==
  main \in {"ahead", "compare", "mining"} /\ required /\ ~shaken =>
    \A p \in known : failures[p] = 0 /\ lastTip[p] = NoTip

PeerInv == Shape /\ TableBounded /\ Fresh /\ FileCurrent /\ MinesCaughtUp /\ PastHandshake

\* add_peer_infos_to takes addresses the table does not have, and never more
\* than there is room for.
LEMMA AddedFits ==
  ASSUME NEW infos \in SUBSET Peers, NEW A \in Added(infos),
         known \subseteq Peers, TableBounded
  PROVE  A \subseteq Peers \ known /\ Cardinality(known \cup A) <= MaxPeers
<1> DEFINE new == infos \ (known \cup Own)
           room == MaxPeers - Cardinality(known)
<1>1. /\ A \subseteq new
      /\ Cardinality(A) = IF Cardinality(new) <= room THEN Cardinality(new) ELSE room
  BY DEF Added
<1>2. A \in SUBSET Peers /\ known \in SUBSET Peers /\ new \in SUBSET Peers
  BY <1>1
<1>3. Cardinality(A) \in Nat /\ Cardinality(known) \in Nat /\ Cardinality(new) \in Nat
  BY <1>2, PeersFinite
<1>4. Cardinality(known \cup A) <= Cardinality(known) + Cardinality(A)
  BY <1>2, UnionBound
<1>5. Cardinality(known \cup A) \in Nat
  BY <1>2, PeersFinite, known \cup A \in SUBSET Peers
<1> HIDE DEF new
<1>6. Cardinality(known \cup A) <= MaxPeers
  BY <1>1, <1>3, <1>4, <1>5, PeerAssumption DEF TableBounded
<1> QED BY <1>1, <1>6 DEF new

\* Adding peers keeps the table within its limit, and a thread that has changed
\* the table has a write to do.
LEMMA AddPeersKeeps ==
  ASSUME PeerInv, NEW who, NEW infos \in Lists, AddPeers(who, infos)
  PROVE  /\ known \subseteq known' /\ known' \subseteq Peers
         /\ TableBounded'
         /\ saving' = {} => saving = {} /\ known' = known
<1>1. PICK A \in Added(infos) :
        known' = known \cup A /\ saving' = IF A # {} THEN saving \cup {who} ELSE saving
  BY DEF AddPeers
<1>2. A \subseteq Peers \ known /\ Cardinality(known \cup A) <= MaxPeers
  BY <1>1, AddedFits, PeerAssumption DEF PeerInv, Shape
<1>3. saving' = {} => saving = {} /\ known' = known
  BY <1>1
<1>4. known \subseteq known' /\ known' \subseteq Peers /\ TableBounded'
  BY <1>1, <1>2 DEF PeerInv, Shape, TableBounded
<1> QED BY <1>3, <1>4

(********************************* the steps *******************************)

\* The initial table is empty.
LEMMA InitPeers == Init => PeerInv
<1> SUFFICES ASSUME Init PROVE PeerInv
  OBVIOUS
<1>1. Cardinality({}) = 0
  BY FS_EmptySet
<1>2. Shape /\ FileCurrent /\ MinesCaughtUp /\ PastHandshake
  BY PeerAssumption DEF Init, Shape, NoTip, FileCurrent, Running, MinesCaughtUp, PastHandshake
<1>3. TableBounded
  BY <1>1, PeerAssumption DEF Init, TableBounded
<1>4. Fresh
  BY DEF Init, Fresh
<1> QED BY <1>2, <1>3, <1>4 DEF PeerInv

\* run_node: the peers of the command line and of the cut cache file fit.
LEMMA StartKeeps == PeerInv /\ Start => PeerInv'
<1> SUFFICES ASSUME PeerInv, Start PROVE PeerInv'
  OBVIOUS
<1> DEFINE cached == file \ ConfigPeers
           room   == MaxPeers - Cardinality(ConfigPeers)
           cut    == {p \in cached : Cardinality({q \in cached : q < p}) < room}
<1>1. known = {} /\ UNCHANGED <<failures, lastTip, toPoll, looked, height, shaken, file>>
  BY DEF PeerInv, Shape, Start, fileVars, diskVars
<1>2. main' \in {"refused", "discover"}
  BY DEF Start
<1>3. MinesCaughtUp' /\ PastHandshake' /\ FileCurrent'
  BY <1>2 DEF MinesCaughtUp, PastHandshake, FileCurrent, Running
<1>4. CASE torn
  <2>1. main' = "refused" /\ known' = known
    BY <1>4 DEF Start
  <2> QED BY <1>1, <1>3, <2>1 DEF PeerInv, Shape, TableBounded, Fresh
<1>5. CASE ~torn
  <2>1. main' = "discover" /\ known' = ConfigPeers \cup cut
    BY <1>5 DEF Start
  <2>2. /\ cached \in SUBSET Peers /\ cut \in SUBSET Peers /\ ConfigPeers \in SUBSET Peers
    BY PeerAssumption DEF PeerInv, Shape
  <2>3. Cardinality(ConfigPeers) \in Nat /\ Cardinality(cut) \in Nat
    BY <2>2, PeersFinite
  <2>4. room \in Nat
    BY <2>3, PeerAssumption
  <2>5. Cardinality(cut) <= room
    BY <2>2, <2>4, CutBound
  <2>6. Cardinality(ConfigPeers \cup cut) <= Cardinality(ConfigPeers) + Cardinality(cut)
    BY <2>2, UnionBound
  <2>7. Cardinality(ConfigPeers \cup cut) \in Nat
    BY <2>2, PeersFinite, ConfigPeers \cup cut \in SUBSET Peers
  <2> HIDE DEF cut
  <2>8. TableBounded'
    BY <2>1, <2>3, <2>5, <2>6, <2>7, PeerAssumption DEF TableBounded
  <2>9. Shape' /\ Fresh'
    BY <1>1, <2>1, <2>2 DEF PeerInv, Shape, Fresh
  <2> QED BY <1>3, <2>8, <2>9 DEF PeerInv
<1> QED BY <1>4, <1>5

\* The steps that add peers and poll nobody: the gateway's and the inbound lists.
\* The peers they bring have no tip and no failure.
LEMMA ListKeeps ==
  ASSUME PeerInv, NEW infos \in Lists,
         Discover(infos) \/ RefreshGateway(infos) \/ InboundPeers(infos)
  PROVE  PeerInv'
<1>1. /\ \E who \in {"main", "inbound"} : AddPeers(who, infos)
      /\ UNCHANGED <<failures, lastTip, file, looked, height>>
      /\ toPoll' \in {toPoll, known'}
      /\ main \notin {"down", "refused"} /\ main' \notin {"down", "refused"}
      /\ main' \in Running => main \in Running
      /\ main' \in {"ahead", "compare", "mining"} => main = main'
  BY DEF Discover, RefreshGateway, InboundPeers, MainAt, diskVars, Running
<1>2. UNCHANGED <<required, shaken, torn, lost>>
  BY DEF Discover, RefreshGateway, InboundPeers, diskVars
<1>3. /\ known \subseteq known' /\ known' \subseteq Peers
      /\ TableBounded'
      /\ saving' = {} => saving = {} /\ known' = known
  BY <1>1, AddPeersKeeps
<1>4. Shape'
  BY <1>1, <1>3 DEF PeerInv, Shape
<1>5. Fresh'
  BY <1>1, <1>2, <1>3, Zenon DEF PeerInv, Fresh
<1>6. FileCurrent'
  BY <1>1, <1>2, <1>3, Zenon DEF PeerInv, FileCurrent
<1>7. \A p \in known' : p \in known \/ (failures'[p] = 0 /\ lastTip'[p] = NoTip)
  BY <1>1, <1>3 DEF PeerInv, Fresh
<1>8. MinesCaughtUp'
  BY <1>1, <1>7 DEF PeerInv, Shape, MinesCaughtUp, NoTip
<1>9. PastHandshake'
  BY <1>1, <1>2, <1>7, Zenon DEF PeerInv, PastHandshake
<1> QED BY <1>3, <1>4, <1>5, <1>6, <1>8, <1>9 DEF PeerInv

\* A poll that fails, before its handshake or after it, forgets no handshake.
LEMMA FailedPollKeeps ==
  ASSUME height \in Nat, NEW shook \in BOOLEAN, FailedPoll(shook)
  PROVE  height' \in Nat /\ (shaken => shaken')
<1>1. shaken => shaken'
  BY DEF FailedPoll
<1>2. height' \in Nat
  BY PeerAssumption DEF FailedPoll, NodeMoves
<1> QED BY <1>1, <1>2

\* A successful poll records a tip of a peer that the table has.
LEMMA PollOkKeeps ==
  ASSUME PeerInv, NEW p \in Peers, NEW tip \in Tips, NEW infos \in Lists,
         PreflightOk(p, tip) \/ PollOk(p, tip, infos)
  PROVE  PeerInv'
<1>1. /\ main \in {"preflight", "polling"} /\ main' = main
      /\ p \in known /\ toPoll' = toPoll \ {p} /\ file' = file /\ looked' = looked
      /\ failures' = [failures EXCEPT ![p] = 0]
      /\ lastTip' = [lastTip EXCEPT ![p] = tip]
      /\ NodeMoves
  BY DEF PreflightOk, PollOk, MarkOk, MainAt, fileVars, diskVars, PeerInv, Shape
<1>2. shaken' /\ UNCHANGED <<torn, lost>>
  BY Zenon DEF PreflightOk, PollOk, fileVars, diskVars
<1>3. /\ known \subseteq known' /\ known' \subseteq Peers /\ TableBounded'
      /\ saving' = {} => saving = {} /\ known' = known
  <2>1. CASE PreflightOk(p, tip)
    BY <2>1 DEF PreflightOk, fileVars, PeerInv, Shape, TableBounded
  <2>2. CASE PollOk(p, tip, infos)
    BY <2>2, AddPeersKeeps DEF PollOk
  <2> QED BY <2>1, <2>2
<1>4. height' \in Nat /\ tip \in NoTip..MaxHeight
  BY <1>1, PeerAssumption DEF NodeMoves, NoTip, PeerInv, Shape
<1>5. Shape'
  BY <1>1, <1>3, <1>4 DEF PeerInv, Shape
<1>6. Fresh'
  BY <1>1, <1>2, <1>3 DEF PeerInv, Shape, Fresh
<1>7. FileCurrent'
  BY <1>1, <1>2, <1>3, Zenon DEF PeerInv, FileCurrent
<1>8. MinesCaughtUp' /\ PastHandshake'
  BY <1>1 DEF MinesCaughtUp, PastHandshake
<1> QED BY <1>3, <1>5, <1>6, <1>7, <1>8 DEF PeerInv

\* In preflight a failed poll only counts.
LEMMA PreflightFailKeeps ==
  ASSUME PeerInv, NEW p \in Peers, NEW shook \in BOOLEAN, PreflightFail(p, shook)
  PROVE  PeerInv'
<1>1. /\ main = "preflight" /\ main' = main /\ p \in known /\ toPoll' = toPoll \ {p}
      /\ UNCHANGED <<known, lastTip, looked, file>>
      /\ failures' = [failures EXCEPT ![p] = @ + 1]
  BY DEF PreflightFail, MainAt, fileVars, diskVars, PeerInv, Shape
<1>2. height' \in Nat /\ (shaken => shaken')
  BY FailedPollKeeps DEF PreflightFail, PeerInv, Shape
<1>3. Shape'
  BY <1>1, <1>2 DEF PeerInv, Shape
<1>4. Fresh'
  BY <1>1, <1>2 DEF PeerInv, Shape, Fresh
<1>5. TableBounded' /\ FileCurrent' /\ MinesCaughtUp' /\ PastHandshake'
  BY <1>1 DEF PeerInv, TableBounded, FileCurrent, Running, MinesCaughtUp, PastHandshake
<1> QED BY <1>3, <1>4, <1>5 DEF PeerInv

\* In the loop the last of too many failures drops the peer, with all that the
\* table says of it, and the main thread has a write to do.
LEMMA PollFailKeeps ==
  ASSUME PeerInv, NEW p \in Peers, NEW shook \in BOOLEAN, PollFail(p, shook)
  PROVE  PeerInv'
<1>1. /\ main = "polling" /\ main' = main /\ p \in known /\ toPoll' = toPoll \ {p}
      /\ file' = file /\ looked' = looked /\ MarkFailed(p)
  BY DEF PollFail, MainAt, diskVars, PeerInv, Shape
<1>2. UNCHANGED <<torn, lost>>
  BY DEF PollFail, diskVars
<1>3. height' \in Nat /\ (shaken => shaken')
  BY FailedPollKeeps DEF PollFail, PeerInv, Shape
<1>4. MinesCaughtUp' /\ PastHandshake'
  BY <1>1 DEF MinesCaughtUp, PastHandshake
<1>5. CASE failures[p] + 1 >= MaxFailures
  <2>1. /\ known' = known \ {p} /\ saving' = saving \cup {"main"}
        /\ failures' = [failures EXCEPT ![p] = 0]
        /\ lastTip' = [lastTip EXCEPT ![p] = NoTip]
    BY <1>1, <1>5 DEF MarkFailed
  <2>2. Shape'
    BY <1>1, <1>3, <2>1, PeerAssumption DEF PeerInv, Shape, NoTip
  <2>3. Fresh'
    BY <1>1, <1>3, <2>1 DEF PeerInv, Shape, Fresh
  <2>4. TableBounded'
    <3>1. Cardinality(known') <= Cardinality(known)
      BY <2>1, PeersFinite DEF PeerInv, Shape
    <3>2. Cardinality(known) \in Nat /\ Cardinality(known') \in Nat
      BY <2>1, PeersFinite DEF PeerInv, Shape
    <3> QED BY <3>1, <3>2, PeerAssumption DEF PeerInv, TableBounded
  <2>5. FileCurrent'
    BY <2>1 DEF FileCurrent
  <2> QED BY <1>4, <2>2, <2>3, <2>4, <2>5 DEF PeerInv
<1>6. CASE ~(failures[p] + 1 >= MaxFailures)
  <2>1. /\ failures' = [failures EXCEPT ![p] = @ + 1]
        /\ UNCHANGED <<known, lastTip, saving>>
    BY <1>1, <1>6 DEF MarkFailed
  <2>2. Shape'
    BY <1>1, <1>3, <2>1 DEF PeerInv, Shape
  <2>3. Fresh'
    BY <1>1, <1>3, <2>1 DEF PeerInv, Shape, Fresh
  <2>4. TableBounded'
    BY <2>1 DEF PeerInv, TableBounded
  <2>5. FileCurrent'
    BY <1>1, <1>2, <2>1, Zenon DEF PeerInv, FileCurrent
  <2> QED BY <1>4, <2>2, <2>3, <2>4, <2>5 DEF PeerInv
<1> QED BY <1>5, <1>6

\* A process that ends forgets the table, whatever it leaves in the file.
LEMMA ForgetKeeps ==
  ASSUME PeerInv, ForgetAll, Written \/ Broken
  PROVE  PeerInv'
<1>1. main' = "down" /\ height' = height /\ looked' = 0 /\ file' \subseteq Peers
  BY DEF ForgetAll, Written, Broken, PeerInv, Shape
<1>2. /\ known' = {} /\ toPoll' = {}
      /\ failures' = [p \in Peers |-> 0] /\ lastTip' = [p \in Peers |-> NoTip]
  BY DEF ForgetAll
<1>3. Shape'
  BY <1>1, <1>2, PeerAssumption DEF PeerInv, Shape, NoTip
<1>4. FileCurrent' /\ MinesCaughtUp' /\ PastHandshake'
  BY <1>1 DEF FileCurrent, Running, MinesCaughtUp, PastHandshake
<1>5. TableBounded'
  BY <1>2, FS_EmptySet, PeerAssumption DEF TableBounded
<1>6. Fresh'
  BY <1>2 DEF Fresh
<1> QED BY <1>3, <1>4, <1>5, <1>6 DEF PeerInv

\* The end of preflight writes the table, or ends the process.
LEMMA PreflightDoneKeeps ==
  ASSUME PeerInv, PreflightDone
  PROVE  PeerInv'
<1>1. CASE ForgetAll /\ Broken
  BY <1>1, ForgetKeeps
<1>2. CASE main' = "sync" /\ Written /\ UNCHANGED <<tableVars, toPoll, looked, height, required, shaken, saving>>
  <2>1. UNCHANGED <<known, failures, lastTip, toPoll, looked, height>> /\ file' = known
    BY <1>2 DEF tableVars, Written
  <2>2. torn' = FALSE /\ (shaken' <=> shaken)
    BY <1>2, Zenon DEF Written
  <2>3. Shape' /\ TableBounded'
    BY <1>2, <2>1 DEF PeerInv, Shape, TableBounded
  <2>4. Fresh'
    BY <2>1, <2>2 DEF PeerInv, Fresh
  <2>5. FileCurrent'
    BY <2>1, <2>2 DEF FileCurrent
  <2>6. MinesCaughtUp' /\ PastHandshake'
    BY <1>2 DEF MinesCaughtUp, PastHandshake
  <2> QED BY <2>3, <2>4, <2>5, <2>6 DEF PeerInv
<1> QED BY <1>1, <1>2 DEF PreflightDone

\* The steps of the main loop that leave the table alone.  GateHandshake lets by
\* a node that had a handshake or knows nobody; GateAhead lets the miner in, and
\* has compared every tip.
LEMMA LoopKeeps ==
  ASSUME PeerInv,
         BeginSync \/ SyncDone \/ GatePending \/ GateHandshake \/ GateLook \/ GateAhead
  PROVE  PeerInv'
<1>1. /\ UNCHANGED <<known, failures, lastTip, height, file, saving>>
      /\ toPoll' \subseteq known
      /\ main \in Running /\ main' \in Running
      /\ looked' \in {looked, height, 0}
  BY DEF BeginSync, SyncDone, GatePending, GateHandshake, GateLook, GateAhead, MainAt, Running,
         tableVars, fileVars, diskVars, PeerInv, Shape
<1>2. UNCHANGED <<required, shaken, torn, lost>>
  BY DEF BeginSync, SyncDone, GatePending, GateHandshake, GateLook, GateAhead, fileVars, diskVars
<1>3. Shape' /\ TableBounded'
  BY <1>1 DEF PeerInv, Shape, TableBounded, Running
<1>4. Fresh'
  BY <1>1, <1>2, Zenon DEF PeerInv, Fresh
<1>5. FileCurrent'
  BY <1>1, <1>2, Zenon DEF PeerInv, FileCurrent
<1>6. CASE GateHandshake
  <2>1. main' \in {"sync", "ahead"} /\ (main' = "ahead" => ~NeedsHandshake)
    BY <1>6 DEF GateHandshake
  <2>2. MinesCaughtUp'
    BY <2>1 DEF MinesCaughtUp
  <2>3. required /\ ~shaken /\ ~NeedsHandshake => known = {}
    <3>1. ~shaken => \A p \in known : lastTip[p] = NoTip
      BY DEF PeerInv, Shape, Fresh
    <3> QED BY <3>1, Zenon DEF NeedsHandshake
  <2>4. PastHandshake'
    BY <1>1, <1>2, <2>1, <2>3, Zenon DEF PastHandshake
  <2> QED BY <1>3, <1>4, <1>5, <2>2, <2>4 DEF PeerInv
<1>7. CASE GateLook
  <2>1. main = "ahead" /\ main' = "compare"
    BY <1>7 DEF GateLook, MainAt
  <2>2. MinesCaughtUp'
    BY <2>1 DEF MinesCaughtUp
  <2>3. PastHandshake'
    BY <1>1, <1>2, <2>1, Zenon DEF PeerInv, PastHandshake
  <2> QED BY <1>3, <1>4, <1>5, <2>2, <2>3 DEF PeerInv
<1>8. CASE GateAhead
  <2>1. /\ main = "compare" /\ main' \in {"sync", "mining"}
        /\ main' = "mining" => ~PeerAhead /\ looked' = looked
    BY <1>8 DEF GateAhead, MainAt
  <2>2. \A p \in known : lastTip[p] \in Int /\ looked \in Int
    BY DEF PeerInv, Shape, NoTip
  <2>3. MinesCaughtUp'
    BY <1>1, <2>1, <2>2 DEF PeerAhead, MinesCaughtUp
  <2>4. PastHandshake'
    BY <1>1, <1>2, <2>1, Zenon DEF PeerInv, PastHandshake
  <2> QED BY <1>3, <1>4, <1>5, <2>3, <2>4 DEF PeerInv
<1>9. CASE BeginSync \/ SyncDone \/ GatePending
  <2>1. main' \notin {"ahead", "compare", "mining"}
    BY <1>9 DEF BeginSync, SyncDone, GatePending
  <2>2. MinesCaughtUp' /\ PastHandshake'
    BY <2>1 DEF MinesCaughtUp, PastHandshake
  <2> QED BY <1>3, <1>4, <1>5, <2>2 DEF PeerInv
<1> QED BY <1>6, <1>7, <1>8, <1>9

\* The chain moves, by the miner or an inbound block: under a waiting miner too.
LEMMA ChainMovesKeeps ==
  ASSUME PeerInv, Mine \/ InboundBlock
  PROVE  PeerInv'
<1>1. /\ UNCHANGED <<known, failures, lastTip, file, toPoll, saving>>
      /\ main \in Running /\ main' \in Running
      /\ (main' = "sync" /\ looked' = 0) \/ (main' = main /\ looked' = looked)
  BY DEF Mine, InboundBlock, MainAt, tableVars, fileVars, diskVars, Running
<1>2. UNCHANGED <<required, shaken, torn, lost>>
  BY DEF Mine, InboundBlock, fileVars, diskVars
<1>3. height' \in Nat
  BY PeerAssumption DEF Mine, InboundBlock, NodeMoves, PeerInv, Shape
<1>4. Shape' /\ TableBounded'
  BY <1>1, <1>3 DEF PeerInv, Shape, TableBounded, Running
<1>5. Fresh'
  BY <1>1, <1>2, Zenon DEF PeerInv, Fresh
<1>6. FileCurrent'
  BY <1>1, <1>2, Zenon DEF PeerInv, FileCurrent
<1>7. MinesCaughtUp'
  BY <1>1 DEF PeerInv, MinesCaughtUp
<1>8. PastHandshake'
  BY <1>1, <1>2, Zenon DEF PeerInv, PastHandshake
<1> QED BY <1>4, <1>5, <1>6, <1>7, <1>8 DEF PeerInv

\* Time passes, or a thread writes the file: with the table of this moment, or
\* in vain.
LEMMA SaveKeeps ==
  ASSUME PeerInv, (\E who \in {"main", "inbound"} : Save(who)) \/ (\E p \in Peers : AttemptDue(p))
  PROVE  PeerInv'
<1>1. UNCHANGED <<main, known, failures, lastTip, toPoll, looked, height>> /\ file' \subseteq Peers
  BY DEF Save, Written, Broken, AttemptDue, tableVars, fileVars, diskVars, PeerInv, Shape
<1>2. UNCHANGED <<required, shaken>>
  BY DEF Save, AttemptDue
<1>3. Shape' /\ TableBounded' /\ MinesCaughtUp'
  BY <1>1 DEF PeerInv, Shape, TableBounded, MinesCaughtUp
<1>4. Fresh' /\ PastHandshake'
  BY <1>1, <1>2, Zenon DEF PeerInv, Fresh, PastHandshake
<1>5. FileCurrent'
  <2>1. \/ file' = known /\ torn' = FALSE
        \/ lost' = TRUE
        \/ UNCHANGED fileVars
    BY Zenon DEF Save, Written, AttemptDue
  <2>2. CASE UNCHANGED fileVars
    BY <1>1, <2>2, Zenon DEF PeerInv, FileCurrent, fileVars, diskVars
  <2> QED BY <1>1, <2>1, <2>2, Zenon DEF FileCurrent
<1> QED BY <1>3, <1>4, <1>5 DEF PeerInv

\* The operator removes a file that stopped the start: nobody is known.
LEMMA RemoveKeeps ==
  ASSUME PeerInv, RemoveFile
  PROVE  PeerInv'
<1>1. /\ main' = "down" /\ main = "refused" /\ file' = {}
      /\ UNCHANGED <<known, failures, lastTip, toPoll, looked, height>>
  BY DEF RemoveFile, tableVars
<1>2. shaken' = shaken
  BY DEF RemoveFile
<1>3. Shape' /\ TableBounded'
  BY <1>1 DEF PeerInv, Shape, TableBounded
<1>4. Fresh'
  BY <1>1, <1>2, Zenon DEF PeerInv, Fresh
<1>5. FileCurrent' /\ MinesCaughtUp' /\ PastHandshake'
  BY <1>1 DEF FileCurrent, Running, MinesCaughtUp, PastHandshake
<1> QED BY <1>3, <1>4, <1>5 DEF PeerInv

\* Nothing happens.
LEMMA StutterKeeps == PeerInv /\ UNCHANGED vars => PeerInv'
BY DEF PeerInv, Shape, TableBounded, Fresh, FileCurrent, MinesCaughtUp, PastHandshake,
       vars, tableVars, fileVars, diskVars

\* Every step keeps the invariant.
LEMMA StepKeeps == PeerInv /\ [Next]_vars => PeerInv'
<1> SUFFICES ASSUME PeerInv, [Next]_vars PROVE PeerInv'
  OBVIOUS
<1>1. CASE Start
  BY <1>1, StartKeeps
<1>2. CASE Preflight
  BY <1>2, ListKeeps, PollOkKeeps, PreflightFailKeeps, PreflightDoneKeeps, PeerAssumption DEF Preflight
<1>3. CASE MainLoop
  BY <1>3, ListKeeps, PollOkKeeps, PollFailKeeps, LoopKeeps, ChainMovesKeeps DEF MainLoop
<1>4. CASE InboundBlock \/ \E infos \in Lists : InboundPeers(infos)
  BY <1>4, ListKeeps, ChainMovesKeeps
<1>5. CASE (\E who \in {"main", "inbound"} : Save(who)) \/ (\E p \in Peers : AttemptDue(p))
  BY <1>5, SaveKeeps
<1>6. CASE Shutdown \/ Crash
  <2>1. ForgetAll /\ (Written \/ Broken)
    BY <1>6 DEF Shutdown, Crash, Broken
  <2> QED BY <2>1, ForgetKeeps
<1>7. CASE RemoveFile
  BY <1>7, RemoveKeeps
<1>8. CASE UNCHANGED vars
  BY <1>8, StutterKeeps
<1> QED BY <1>1, <1>2, <1>3, <1>4, <1>5, <1>6, <1>7, <1>8 DEF Next

(********************************* theorems ********************************)

\* The invariant of the peer table holds of every execution of main.rs.
THEOREM PeerTableSafe == Spec => []PeerInv
BY InitPeers, StepKeeps, PTL DEF Spec

\* The table never outgrows max_peers: not when the cache file is read back, nor
\* when several threads add to it.
THEOREM AlwaysBounded == Spec => []TableBounded
<1>1. PeerInv => TableBounded
  BY DEF PeerInv
<1> QED BY <1>1, PeerTableSafe, PTL

\* When no thread has a write to do and the last write did not fail, the cache
\* file holds the table and parses, whatever earlier writes left.
THEOREM FileAlwaysCurrent == Spec => []FileCurrent
<1>1. PeerInv => FileCurrent
  BY DEF PeerInv
<1> QED BY <1>1, PeerTableSafe, PTL

\* While the miner works, no peer's last tip is above the height that the gate
\* read, although node and table were read under different locks.
THEOREM AlwaysMinesCaughtUp == Spec => []MinesCaughtUp
<1>1. PeerInv => MinesCaughtUp
  BY DEF PeerInv
<1> QED BY <1>1, PeerTableSafe, PTL

\* A node that needs a handshake mines without one only when all whom it polled
\* were dropped.
THEOREM UnshakenMinesAlone == Spec => []MinesUnshakenAlone
<1>1. PeerInv => MinesUnshakenAlone
  BY Zenon DEF PeerInv, PastHandshake, MinesUnshakenAlone
<1> QED BY <1>1, PeerTableSafe, PTL

(********************************** types **********************************)

Flags ==
  /\ required \in BOOLEAN /\ shaken \in BOOLEAN
  /\ torn \in BOOLEAN /\ lost \in BOOLEAN
  /\ saving \subseteq {"main", "inbound"}

\* The flags are set by conditions only, and only two kinds of threads write.
LEMMA FlagsKept == Flags /\ [Next]_vars => Flags'
<1> SUFFICES ASSUME Flags, [Next]_vars PROVE Flags'
  OBVIOUS
<1> USE DEF Flags
<1>0. ASSUME NEW who \in {"main", "inbound"}, NEW infos \in Lists, AddPeers(who, infos)
      PROVE  saving' \subseteq {"main", "inbound"}
  BY <1>0 DEF AddPeers
<1>1. CASE Start
  BY <1>1, Zenon DEF Start, fileVars, diskVars
<1>2. ASSUME NEW infos \in Lists,
             Discover(infos) \/ RefreshGateway(infos) \/ InboundPeers(infos)
      PROVE  Flags'
  <2>1. \E who \in {"main", "inbound"} : AddPeers(who, infos)
    BY <1>2 DEF Discover, RefreshGateway, InboundPeers
  <2>2. saving' \subseteq {"main", "inbound"}
    BY <1>0, <2>1
  <2> QED BY <1>2, <2>2, Zenon DEF Discover, RefreshGateway, InboundPeers, diskVars
<1>3. ASSUME NEW p \in Peers, NEW tip \in Tips, PreflightOk(p, tip) PROVE Flags'
  BY <1>3, Zenon DEF PreflightOk, fileVars, diskVars
<1>4. ASSUME NEW p \in Peers, NEW tip \in Tips, NEW infos \in Lists, PollOk(p, tip, infos)
      PROVE  Flags'
  <2>1. saving' \subseteq {"main", "inbound"}
    BY <1>0, <1>4 DEF PollOk
  <2> QED BY <1>4, <2>1, Zenon DEF PollOk, diskVars
<1>5. ASSUME NEW p \in Peers, NEW shook \in BOOLEAN, PreflightFail(p, shook) PROVE Flags'
  BY <1>5, Zenon DEF PreflightFail, FailedPoll, fileVars, diskVars
<1>6. ASSUME NEW p \in Peers, NEW shook \in BOOLEAN, PollFail(p, shook) PROVE Flags'
  <2>1. saving' \subseteq {"main", "inbound"}
    BY <1>6 DEF PollFail, MarkFailed
  <2> QED BY <1>6, <2>1, Zenon DEF PollFail, FailedPoll, diskVars
<1>7. CASE BeginSync \/ SyncDone \/ GatePending \/ GateHandshake \/ GateLook \/ GateAhead
  BY <1>7, Zenon DEF BeginSync, SyncDone, GatePending, GateHandshake, GateLook, GateAhead, fileVars, diskVars
<1>8. CASE Mine \/ InboundBlock
  BY <1>8, Zenon DEF Mine, InboundBlock, fileVars, diskVars
<1>9. CASE \E p \in Peers : AttemptDue(p)
  BY <1>9, Zenon DEF AttemptDue, fileVars, diskVars
<1>10. ASSUME NEW who \in {"main", "inbound"}, Save(who) PROVE Flags'
  <2>1. saving' \subseteq {"main", "inbound"}
    BY <1>10 DEF Save
  <2> QED BY <1>10, <2>1, Zenon DEF Save, Written, Broken
<1>11. ASSUME ForgetAll, Written \/ Broken PROVE Flags'
  <2>1. saving' \subseteq {"main", "inbound"}
    BY <1>11 DEF ForgetAll
  <2> QED BY <1>11, <2>1, Zenon DEF ForgetAll, Written, Broken
<1>12. CASE PreflightDone
  BY <1>11, <1>12, Zenon DEF PreflightDone, Written
<1>13. CASE Shutdown \/ Crash
  BY <1>11, <1>13, Zenon DEF Shutdown, Crash, Broken
<1>14. CASE RemoveFile
  BY <1>14, Zenon DEF RemoveFile
<1>15. CASE UNCHANGED vars
  BY <1>15, Zenon DEF vars, fileVars, diskVars
<1>16. CASE Preflight
  BY <1>2, <1>3, <1>5, <1>12, <1>16 DEF Preflight
<1>17. CASE MainLoop
  BY <1>2, <1>4, <1>6, <1>7, <1>8, <1>17 DEF MainLoop
<1> QED BY <1>1, <1>2, <1>8, <1>9, <1>10, <1>13, <1>14, <1>15, <1>16, <1>17 DEF Next

\* A peer with too many failures is dropped in the step that counts the last one;
\* preflight, which drops nobody, polls each peer once, and from a clean record.
CountInv ==
  /\ main \in Running \cup {"down", "refused", "discover", "preflight"}
  /\ waiting \subseteq Peers
  /\ height \in 0..MaxHeight /\ looked \in 0..MaxHeight
  /\ \A p \in Peers : failures[p] < MaxFailures
  /\ main = "discover" => \A p \in Peers : failures[p] = 0
  /\ main = "preflight" => \A p \in toPoll : failures[p] = 0

\* Every step keeps the counts.
LEMMA CountKept == PeerInv /\ CountInv /\ [Next]_vars => CountInv'
<1> SUFFICES ASSUME PeerInv, CountInv, [Next]_vars PROVE CountInv'
  OBVIOUS
<1>1. /\ failures \in [Peers -> Nat] /\ toPoll \subseteq Peers /\ known \subseteq Peers
      /\ MaxFailures \in Nat \ {0, 1} /\ MaxHeight \in Nat
      /\ \A p \in Peers \ known : failures[p] = 0
      /\ main \in {"down", "refused"} => known = {}
  BY PeerAssumption DEF PeerInv, Shape, Fresh
<1>2. /\ main \in Running \cup {"down", "refused", "discover", "preflight"}
      /\ waiting \subseteq Peers /\ height \in 0..MaxHeight /\ looked \in 0..MaxHeight
      /\ \A p \in Peers : failures[p] < MaxFailures
      /\ main = "discover" => \A p \in Peers : failures[p] = 0
      /\ main = "preflight" => \A p \in toPoll : failures[p] = 0
  BY DEF CountInv
<1>3. ASSUME NodeMoves PROVE height' \in 0..MaxHeight
  BY <1>1, <1>2, <1>3 DEF NodeMoves
<1>4. ASSUME NEW shook \in BOOLEAN, FailedPoll(shook) PROVE height' \in 0..MaxHeight
  BY <1>2, <1>3, <1>4 DEF FailedPoll
<1>5. CASE Start
  <2>1. /\ UNCHANGED <<failures, waiting, looked, height>> /\ main' \in {"refused", "discover"}
        /\ main = "down"
    BY <1>5 DEF Start
  <2> QED BY <1>1, <1>2, <2>1 DEF CountInv
<1>6. ASSUME NEW infos \in Lists,
             Discover(infos) \/ RefreshGateway(infos) \/ InboundPeers(infos)
      PROVE  CountInv'
  <2>1. /\ UNCHANGED <<failures, waiting, looked, height>>
        /\ \/ main = "discover" /\ main' = "preflight" /\ toPoll' = known'
           \/ main' \in Running
    BY <1>6 DEF Discover, RefreshGateway, InboundPeers, MainAt, Running
  <2>2. known' \subseteq Peers
    BY <1>6, ListKeeps DEF PeerInv, Shape
  <2> QED BY <1>1, <1>2, <2>1, <2>2 DEF CountInv, Running
<1>7. ASSUME NEW p \in Peers, NEW tip \in Tips, NEW infos \in Lists,
             PreflightOk(p, tip) \/ PollOk(p, tip, infos)
      PROVE  CountInv'
  <2>1. /\ main' = main /\ main \in {"preflight", "polling"} /\ toPoll' \subseteq toPoll
        /\ failures' = [failures EXCEPT ![p] = 0]
        /\ waiting' = waiting \cup {p} /\ NodeMoves /\ looked' = looked
    BY <1>7 DEF PreflightOk, PollOk, MarkOk, MainAt
  <2>2. height' \in 0..MaxHeight
    BY <1>3, <2>1
  <2>3. \A q \in Peers : failures'[q] = 0 \/ failures'[q] = failures[q]
    BY <1>1, <2>1
  <2>4. \A q \in Peers : failures'[q] < MaxFailures
    BY <1>1, <1>2, <2>3
  <2>5. main' = "preflight" => \A q \in toPoll' : failures'[q] = 0
    BY <1>1, <1>2, <2>1, <2>3
  <2> QED BY <1>2, <2>1, <2>2, <2>4, <2>5 DEF CountInv
<1>8. ASSUME NEW p \in Peers, NEW shook \in BOOLEAN, PreflightFail(p, shook) PROVE CountInv'
  <2>1. /\ main = "preflight" /\ main' = main /\ p \in toPoll /\ toPoll' = toPoll \ {p}
        /\ failures' = [failures EXCEPT ![p] = @ + 1]
        /\ waiting' = waiting \cup {p} /\ FailedPoll(shook) /\ looked' = looked
    BY <1>8 DEF PreflightFail, MainAt
  <2>2. height' \in 0..MaxHeight
    BY <1>4, <2>1
  <2>3. failures'[p] = 1 /\ \A q \in Peers \ {p} : failures'[q] = failures[q]
    BY <1>1, <1>2, <2>1
  <2>4. \A q \in Peers : failures'[q] < MaxFailures
    BY <1>1, <1>2, <2>3
  <2> QED BY <1>1, <1>2, <2>1, <2>2, <2>3, <2>4 DEF CountInv
<1>9. ASSUME NEW p \in Peers, NEW shook \in BOOLEAN, PollFail(p, shook) PROVE CountInv'
  <2>1. main = "polling" /\ main' = main /\ MarkFailed(p) /\ FailedPoll(shook) /\ looked' = looked
    BY <1>9 DEF PollFail, MainAt
  <2>2. height' \in 0..MaxHeight
    BY <1>4, <2>1
  <2>3. waiting' \subseteq Peers
    BY <1>2, <2>1 DEF MarkFailed
  <2>4. failures'[p] < MaxFailures /\ \A q \in Peers \ {p} : failures'[q] = failures[q]
    <3>1. CASE failures[p] + 1 >= MaxFailures
      <4>1. failures' = [failures EXCEPT ![p] = 0]
        BY <2>1, <3>1 DEF MarkFailed
      <4> QED BY <1>1, <4>1
    <3>2. CASE ~(failures[p] + 1 >= MaxFailures)
      <4>1. failures' = [failures EXCEPT ![p] = @ + 1]
        BY <2>1, <3>2 DEF MarkFailed
      <4> QED BY <1>1, <3>2, <4>1
    <3> QED BY <3>1, <3>2
  <2> QED BY <1>2, <2>1, <2>2, <2>3, <2>4 DEF CountInv
<1>10. CASE BeginSync \/ SyncDone \/ GatePending \/ GateHandshake \/ GateLook \/ GateAhead
  <2>1. UNCHANGED <<failures, waiting, height>> /\ main' \in Running /\ looked' \in {looked, height, 0}
    BY <1>10 DEF BeginSync, SyncDone, GatePending, GateHandshake, GateLook, GateAhead, tableVars, Running
  <2> QED BY <1>1, <1>2, <2>1 DEF CountInv, Running
<1>11. CASE Mine \/ InboundBlock
  <2>1. UNCHANGED <<failures, waiting>> /\ main' \in Running /\ looked' \in {looked, 0}
    BY <1>11 DEF Mine, InboundBlock, tableVars, Running
  <2>2. height' \in 0..MaxHeight
    BY <1>3, <1>11 DEF Mine, InboundBlock
  <2> QED BY <1>1, <1>2, <2>1, <2>2 DEF CountInv, Running
<1>12. CASE (\E who \in {"main", "inbound"} : Save(who)) \/ (\E p \in Peers : AttemptDue(p))
  <2>1. UNCHANGED <<main, failures, toPoll, looked, height>> /\ waiting' \subseteq waiting
    BY <1>12 DEF Save, AttemptDue, tableVars
  <2> QED BY <1>2, <2>1 DEF CountInv
<1>13. ASSUME ForgetAll PROVE CountInv'
  <2>1. /\ main' = "down" /\ failures' = [p \in Peers |-> 0] /\ waiting' = {}
        /\ height' = height /\ looked' = 0
    BY <1>13 DEF ForgetAll
  <2> QED BY <1>1, <1>2, <2>1 DEF CountInv
<1>14. CASE PreflightDone
  <2>1. ForgetAll \/ (UNCHANGED <<failures, waiting, looked, height>> /\ main' = "sync")
    BY <1>14 DEF PreflightDone, tableVars
  <2> QED BY <1>2, <1>13, <2>1 DEF CountInv, Running
<1>15. CASE RemoveFile \/ UNCHANGED vars
  <2>1. /\ UNCHANGED <<failures, waiting, looked, height>>
        /\ main' = "down" \/ (main' = main /\ toPoll' = toPoll)
    BY <1>15 DEF RemoveFile, vars, tableVars
  <2> QED BY <1>2, <2>1 DEF CountInv
<1>16. CASE Preflight
  BY <1>6, <1>7, <1>8, <1>14, <1>16, PeerAssumption DEF Preflight
<1>17. CASE MainLoop
  BY <1>6, <1>7, <1>9, <1>10, <1>11, <1>17 DEF MainLoop
<1>18. CASE Shutdown \/ Crash
  BY <1>13, <1>18 DEF Shutdown, Crash
<1> QED BY <1>5, <1>6, <1>11, <1>12, <1>15, <1>16, <1>17, <1>18 DEF Next

\* No peer is kept with MaxFailures failures on record, and every field of the table
\* has its type.
THEOREM PeerTableTyped == Spec => [](TypeOK /\ \A p \in Peers : failures[p] < MaxFailures)
<1> DEFINE Few == \A p \in Peers : failures[p] < MaxFailures
<1>1. Init => CountInv /\ Flags
  <2> SUFFICES ASSUME Init PROVE CountInv /\ Flags
    OBVIOUS
  <2>1. CountInv
    BY PeerAssumption DEF Init, CountInv
  <2>2. Flags
    BY Zenon DEF Init, Flags
  <2> QED BY <2>1, <2>2
<1>2. PeerInv /\ CountInv /\ Flags => TypeOK /\ Few
  <2> SUFFICES ASSUME PeerInv, CountInv, Flags PROVE TypeOK /\ Few
    OBVIOUS
  <2>1. failures \in [Peers -> 0..MaxFailures]
    BY PeerAssumption DEF PeerInv, Shape, CountInv
  <2>2. {required, shaken, torn, lost} \subseteq BOOLEAN /\ saving \subseteq {"main", "inbound"}
    BY Zenon DEF Flags
  <2> QED BY <2>1, <2>2 DEF TypeOK, PeerInv, Shape, CountInv
<1> HIDE DEF Few
<1>3. Spec => [](TypeOK /\ Few)
  BY <1>1, <1>2, PeerTableSafe, CountKept, FlagsKept, PTL DEF Spec
<1> QED BY <1>3 DEF Few
=============================================================================
