----------------------------- MODULE SyncProofs -----------------------------
(* Theorems about Sync: with the main thread polling and mining, a peer and   *)
(* the disturbances around it, the node still is the node of Node, so every   *)
(* safety theorem of NodeProofs holds of the composition.                     *)
EXTENDS Sync, NodeProofs, Induction

(***************************** steps of the node ***************************)

\* A block handed to the node by either thread is a step of the node.
LEMMA ApplyIsNext ==
  ASSUME NEW b \in Blocks, NEW h \in Blocks, NEW who \in {"main", "inbound"},
         ApplyBlock(b, who, h)
  PROVE  Next
BY DEF Next, Threads

\* What the proofs need to know of the peer: its tip is a valid block, and only
\* blocks wait on the stream.
PeerOk ==
  /\ peerTip \in Valid
  /\ wire \in Seq(Blocks)

\* The peer serves blocks.
LEMMA PeerChainBlocks ==
  ASSUME PeerOk
  PROVE  PeerChain \subseteq Blocks
BY TreeAssumption, AncestorsAssumption DEF PeerChain, PeerOk

\* A poll takes the node through its own steps, or leaves it alone.
LEMMA PollIsNode ==
  ASSUME PeerOk, Poll
  PROVE  [Next]_vars
<1>1. CASE NoPeer \/ Handshake \/ RequestTip
  BY <1>1 DEF NoPeer, Handshake, RequestTip, Next
<1>2. CASE CompareHeights
  BY <1>2 DEF CompareHeights
<1>3. CASE RequestBlock
  <2>1. PICK asked \in PeerChain : ApplyBlock(Head(Append(wire, asked)), "main", Head(Append(wire, asked)))
    BY <1>3 DEF RequestBlock
  <2>2. Head(Append(wire, asked)) \in Blocks
    BY <2>1, PeerChainBlocks DEF PeerOk
  <2> QED BY <2>1, <2>2, ApplyIsNext
<1>4. CASE HeightsDone
  BY <1>4 DEF HeightsDone
<1>5. CASE DrainParents
  BY <1>5 DEF DrainParents, Next
<1>6. CASE NothingToDrain
  BY <1>6 DEF NothingToDrain
<1>7. ASSUME NEW h \in Blocks, RequestByHash(h) PROVE Next
  <2>1. CASE Answered(h) # <<>>
    <3>1. Answered(h) \in Seq(Blocks)
      BY <1>7 DEF Answered, PeerOk
    <3>2. Head(Answered(h)) \in Blocks
      BY <2>1, <3>1
    <3> QED BY <1>7, <2>1, <3>2, ApplyIsNext DEF RequestByHash
  <2>2. CASE Answered(h) = <<>>
    BY <1>7, <2>2 DEF RequestByHash, Next
  <2> QED BY <2>1, <2>2
<1>8. CASE HashesDone
  BY <1>8 DEF HashesDone
<1> QED BY <1>1, <1>2, <1>3, <1>4, <1>5, <1>6, <1>7, <1>8 DEF Poll

\* So do mining and everything that happens around the main thread.
LEMMA SyncStepIsNode ==
  ASSUME PeerOk, [SyncNext]_syncVars
  PROVE  [Next]_vars
<1>1. CASE Poll
  BY <1>1, PollIsNode
<1>2. CASE Mine
  <2>1. CASE StartMining \/ SkipMining \/ NothingMined
    BY <2>1 DEF StartMining, SkipMining, NothingMined
  <2>2. ASSUME NEW b \in Mineable, FinishMining(b) PROVE Next
    BY <2>2, SyncAssumption, TreeAssumption, ApplyIsNext DEF FinishMining
  <2> QED BY <1>2, <2>1, <2>2 DEF Mine
<1>3. CASE Apply
  <2>1. CASE Return(TRUE)
    BY <2>1, Zenon DEF Next
  <2>2. ASSUME NEW b \in Blocks, TakeChildren(b) \/ ConnectChild(b) PROVE Next
    BY <2>2 DEF Next
  <2> QED BY <1>3, <2>1, <2>2, Zenon DEF Apply
<1>4. CASE AnswerLost
  <2>1. CASE UNCHANGED vars
    BY <2>1
  <2>2. ASSUME NEW h \in Blocks, RequestFails(h) PROVE Next
    BY <2>2 DEF Next
  <2> QED BY <1>4, <2>1, <2>2 DEF AnswerLost
<1>5. ASSUME NEW b \in Blocks, Push(b) PROVE Next
  BY <1>5, ApplyIsNext DEF Push
<1>6. ASSUME NEW b \in PeerBlocks, PeerExtends(b) PROVE UNCHANGED vars
  BY <1>6 DEF PeerExtends
<1>7. CASE RestartNode
  BY <1>7 DEF RestartNode, Next
<1>8. CASE PeerLearned \/ UNCHANGED syncVars
  BY <1>8 DEF PeerLearned, syncVars
<1> QED BY <1>1, <1>2, <1>3, <1>4, <1>5, <1>6, <1>7, <1>8 DEF SyncNext

\* The peer's tip stays a valid block, and the messages on the stream blocks.
LEMMA PeerOkStep ==
  ASSUME PeerOk, [SyncNext]_syncVars
  PROVE  PeerOk'
<1>1. <<>> \in Seq(Blocks)
  OBVIOUS
<1>2. ASSUME UNCHANGED peerTip, wire' \in {wire, <<>>} PROVE PeerOk'
  BY <1>1, <1>2, Zenon DEF PeerOk
<1>3. ASSUME NEW b \in PeerBlocks, PeerExtends(b) PROVE PeerOk'
  <2>1. b \in Valid /\ b \in Blocks
    BY SyncAssumption, TreeAssumption
  <2> QED BY <1>3, <2>1 DEF PeerExtends, PeerOk
<1>4. CASE NoPeer \/ Handshake \/ RequestTip \/ CompareHeights \/ HeightsDone
  BY <1>2, <1>4 DEF NoPeer, Handshake, RequestTip, CompareHeights, HeightsDone, PollFails, streamVars
<1>5. CASE DrainParents \/ NothingToDrain \/ HashesDone
  BY <1>2, <1>5 DEF DrainParents, NothingToDrain, HashesDone, PollSucceeds, streamVars
<1>6. CASE RequestBlock
  <2>1. PICK asked \in PeerChain :
          wire' \in {<<>>, Tail(Append(wire, asked))} /\ UNCHANGED peerTip
    BY <1>6 DEF RequestBlock, PollFails
  <2>2. Tail(Append(wire, asked)) \in Seq(Blocks)
    BY <2>1, PeerChainBlocks DEF PeerOk
  <2> QED BY <1>1, <2>1, <2>2, Zenon DEF PeerOk
<1>7. ASSUME NEW h \in Blocks, RequestByHash(h) PROVE PeerOk'
  <2>1. CASE Answered(h) = <<>>
    BY <1>2, <1>7, <2>1 DEF RequestByHash, PollFails
  <2>2. CASE Answered(h) # <<>>
    <3>1. wire' \in {<<>>, Tail(Answered(h))} /\ UNCHANGED peerTip
      BY <1>7, <2>2 DEF RequestByHash, PollFails
    <3>2. Answered(h) \in Seq(Blocks)
      BY <1>7 DEF Answered, PeerOk
    <3>3. Tail(Answered(h)) \in Seq(Blocks)
      BY <2>2, <3>2
    <3> QED BY <1>1, <3>1, <3>3, Zenon DEF PeerOk
  <2> QED BY <2>1, <2>2
<1>8. CASE Mine
  BY <1>2, <1>8 DEF Mine, StartMining, SkipMining, FinishMining, NothingMined, streamVars
<1>9. CASE Apply \/ AnswerLost \/ RestartNode
  BY <1>2, <1>9, Zenon DEF Apply, AnswerLost, RestartNode, PollFails, mainVars, streamVars
<1>10. ASSUME NEW b \in Blocks, Push(b) PROVE PeerOk'
  BY <1>2, <1>10 DEF Push, mainVars, streamVars
<1>11. CASE PeerLearned \/ UNCHANGED syncVars
  BY <1>2, <1>11 DEF PeerLearned, syncVars, mainVars, streamVars
<1> QED BY <1>3, <1>4, <1>5, <1>6, <1>7, <1>8, <1>9, <1>10, <1>11 DEF SyncNext, Poll

(******************************** theorems *********************************)

\* The composition implements Node: whatever the main thread, the peer and the
\* network do, fork choice, ledger, orphan pool and disk go through the steps of
\* Node only, and every safety theorem of NodeProofs carries over.
THEOREM SyncIsNode == SyncSpec => Spec
<1>1. SyncInit => Init /\ PeerOk
  BY SyncAssumption DEF SyncInit, PeerOk
<1>2. PeerOk /\ [SyncNext]_syncVars => PeerOk'
  BY PeerOkStep
<1>3. PeerOk /\ [SyncNext]_syncVars => [Next]_vars
  BY SyncStepIsNode
<1> QED BY <1>1, <1>2, <1>3, PTL DEF SyncSpec, Spec

\* In the composition too, the fork choice, the ledger and the disk agree.
THEOREM SyncChainSafe == SyncSpec => []ChainInv
BY SyncIsNode, ChainSafe, PTL

\* What the node mines becomes its tip: the check that the tip has not moved is
\* enough, since the ledger stands on the best tip and a block beats its parent.
THEOREM MinedIsTip == SyncSpec => MinedBlockIsTip
<1> DEFINE Mined == \E b \in Mineable : tip' = b /\ onto = {Parent[b]}
           Starts == main = "mining" /\ holder = "none" /\ holder' = "main"
<1>1. ASSUME ChainInv, [SyncNext]_syncVars, Starts
      PROVE  Mined
  <2>1. PICK b \in Mineable : FinishMining(b)
    <3>1. ~Poll
      BY <1>1 DEF Poll, NoPeer, Handshake, RequestTip, CompareHeights, RequestBlock, HeightsDone, DrainParents,
         NothingToDrain, RequestByHash, HashesDone
    <3>2. ~Apply
      BY <1>1 DEF Apply, TakeChildren, ConnectChild, Return
    <3>3. ~AnswerLost /\ ~RestartNode
      BY <1>1 DEF AnswerLost, RestartNode, Restart
    <3>4. ASSUME NEW c \in Blocks PROVE ~Push(c)
      BY <1>1 DEF Push, ApplyBlock, ApplyConnected, ApplyUnsaved, ApplyOrphan, ApplyDuplicate,
         ApplyInvalid, Enter, loopVars
    <3>5. ASSUME NEW c \in PeerBlocks PROVE ~PeerExtends(c)
      BY <1>1 DEF PeerExtends, vars, loopVars
    <3>6. ~StartMining /\ ~SkipMining /\ ~NothingMined
      BY <1>1 DEF StartMining, SkipMining, NothingMined, vars, loopVars
    <3>7. ~PeerLearned /\ ~UNCHANGED syncVars
      BY <1>1 DEF PeerLearned, syncVars, vars, loopVars
    <3> QED BY <1>1, <3>1, <3>2, <3>3, <3>4, <3>5, <3>6, <3>7 DEF SyncNext, Mine
  <2>2. /\ b \in Blocks \ {Genesis} /\ b \in Valid
        /\ Parent[b] = tip /\ onto = {Parent[b]}
    BY <2>1, SyncAssumption, TreeAssumption, Zenon DEF FinishMining
  <2>3. tip = best /\ tip \in forkChoice
    <3>1. faults = 0
      BY <1>1, SyncAssumption DEF ChainInv, LedgerTypeOK
    <3> QED BY <1>1, <3>1 DEF ChainInv, LedgerAtBest, LedgerIsBranch
  <2>4. <<b, best>> \in Better
    BY <2>2, <2>3, BetterAssumption
  <2>5. b \notin forkChoice
    BY <1>1, <2>4 DEF ChainInv, BestUnbeaten
  <2>6. Verdict(b) \notin {"missing_parent", "duplicate"}
    BY <2>2, <2>3, <2>5 DEF Verdict
  <2>7. InsertBlock(b, TRUE)
    BY <1>1, <2>1, <2>6, Zenon DEF FinishMining, ApplyBlock, ApplyConnected, ApplyUnsaved, ApplyOrphan,
       ApplyDuplicate, ApplyInvalid, loopVars
  <2>8. tip' = b
    BY <2>4, <2>7, Zenon DEF InsertBlock, SideBlock, ExtendTip, Reorg
  <2> QED BY <2>2, <2>8
<1>2. ChainInv /\ [SyncNext]_syncVars => [Starts => Mined]_syncVars
  BY <1>1
<1> QED BY <1>2, SyncChainSafe, PTL DEF SyncSpec, MinedBlockIsTip

(********************************** polls **********************************)

Phases == {"tip", "local", "heights", "parents", "hashes"}

\* The numbers and sets of the main thread are in their types.
PollTypeOK ==
  /\ main \in Phases \cup {"idle", "polled", "mining"}
  /\ remote \in Nat /\ next \in Nat /\ target \in Nat
  /\ known \in BOOLEAN /\ failures \in 0..(MaxFailures - 1) /\ seen \subseteq Nat
  /\ connected \in BOOLEAN
  /\ onto \subseteq Blocks
  /\ disturbances \in 0..MaxDisturbances

\* How the phases of a poll, the connection, the drained requests and the
\* candidate go together, although other threads move tip and peer in between.
\* Only a peer that the table has is polled, has a connection and a last tip.
PollInv ==
  /\ main \in Phases => known
  /\ connected => known
  /\ ~known => failures = 0 /\ seen = {}
  /\ main \in Phases => connected
  /\ wire # <<>> => connected
  /\ main # "hashes" => inflight = {}
  /\ remote <= Height[peerTip]
  /\ \A h \in seen : h <= Height[peerTip]
  /\ main = "heights" => 1 <= next /\ target <= remote
  /\ main # "mining" => onto = {}
  /\ main = "mining" => \E b \in Blocks : onto = {b}

\* The peer's chain has a block of every height up to its tip's.
Gapless(t) == \A n \in 0..Height[t] : \E a \in Ancestors[t] : Height[a] = n

\* A chain of valid blocks has no gaps: were a height missing, take the highest
\* such; the block above it has a parent of that height.
LEMMA ValidGapless ==
  ASSUME NEW t \in Blocks, Ancestors[t] \subseteq Valid
  PROVE  Gapless(t)
<1> DEFINE H == Height[t]
           Gaps == {k \in 0..H : \A a \in Ancestors[t] : Height[a] # H - k}
<1> SUFFICES ASSUME Gaps # {} PROVE FALSE
  <2>1. ASSUME NEW n \in 0..H, \A a \in Ancestors[t] : Height[a] # n PROVE H - n \in Gaps
    <3>1. H \in Nat
      BY TreeAssumption
    <3>2. H - n \in 0..H /\ H - (H - n) = n
      BY <3>1
    <3> QED BY <2>1, <3>2
  <2> QED BY <2>1 DEF Gapless
<1>1. H \in Nat /\ t \in Ancestors[t]
  BY TreeAssumption, AncestorsAssumption
<1>2. PICK k \in Gaps : \A j \in Gaps : k <= j
  <2>1. Gaps \subseteq Nat
    OBVIOUS
  <2> HIDE DEF Gaps
  <2> QED BY <2>1, Least, Zenon
<1>3. k \in 1..H
  BY <1>1
<1>4. k - 1 \notin Gaps /\ k - 1 \in 0..H
  BY <1>2, <1>3, <1>1
<1>5. PICK a \in Ancestors[t] : Height[a] = H - (k - 1)
  BY <1>4
<1>6. a \in Valid /\ a # Genesis /\ a \in Blocks
  <2>1. H - (k - 1) # 0
    BY <1>1, <1>3
  <2> HIDE DEF H, Gaps
  <2>2. a \in Valid /\ a \in Blocks
    BY <1>5, TreeAssumption, Zenon
  <2>3. a # Genesis
    BY <1>5, <2>1, HeightAssumption
  <2> QED BY <2>2, <2>3
<1>7. Height[a] = Height[Parent[a]] + 1 /\ Height[Parent[a]] \in Nat
  BY <1>6, HeightAssumption, TreeAssumption, Zenon
<1>8. Parent[a] \in Ancestors[t]
  <2>1. Parent[a] \in Blocks
    BY <1>6, TreeAssumption
  <2>2. Parent[a] \in Ancestors[Parent[a]]
    BY <2>1, AncestorsAssumption
  <2>3. Parent[a] \in Ancestors[a]
    BY <1>6, <2>2, AncestorsAssumption
  <2> QED BY <1>5, <2>3, AncestorsAssumption
<1>9. Height[Parent[a]] = H - k
  BY <1>1, <1>3, <1>5, <1>7
<1> QED BY <1>8, <1>9

\* What a thread inside apply_block does to the requests in flight: nothing, or
\* it gives them up; an error in the main thread always gives them up.
LEMMA ApplyInflight ==
  ASSUME NEW b, NEW h, NEW who, ApplyBlock(b, who, h)
  PROVE  /\ inflight' \in {inflight, {}}
         /\ Verdict(b) = "error" /\ who = "main" => inflight' = {}
<1>1. CASE ApplyConnected(b, who, h) \/ ApplyOrphan(b, who, h) \/ ApplyDuplicate(b, who, h)
  BY <1>1, Zenon DEF ApplyConnected, ApplyOrphan, ApplyDuplicate, requestVars
<1>2. CASE ApplyUnsaved(b, who, h)
  BY <1>2 DEF ApplyUnsaved, Fail, requestVars
<1>3. CASE ApplyInvalid(b, who, h)
  BY <1>3 DEF ApplyInvalid, Fail, requestVars
<1> QED BY <1>1, <1>2, <1>3 DEF ApplyBlock

\* The rest of the loop only strikes out the request that was answered.
LEMMA LoopInflight ==
  ASSUME Apply
  PROVE  inflight' \subseteq inflight
<1>1. ASSUME NEW b \in Blocks, TakeChildren(b) \/ ConnectChild(b) PROVE inflight' = inflight
  BY <1>1 DEF TakeChildren, ConnectChild, requestVars
<1>2. CASE Return(TRUE)
  BY <1>2, Zenon DEF Return, requestVars
<1> QED BY <1>1, <1>2, Zenon DEF Apply

\* What holds of the main thread, and what its proof needs of node and peer.
SyncInv == TypeOK /\ PeerOk /\ PollTypeOK /\ PollInv

\* An Err ends the poll in a consistent state, once the requests are given up.
LEMMA FailsConsistent ==
  ASSUME SyncInv, PollFails, UNCHANGED peerTip, inflight' = {},
         main \in Phases \cup {"idle"}, known, disturbances' \in 0..MaxDisturbances
  PROVE  PollTypeOK' /\ PollInv'
<1>1. Height[peerTip] \in Nat /\ onto = {}
  BY TreeAssumption DEF SyncInv, PeerOk, PollInv, Phases
<1>2. /\ main' = "polled" /\ remote' = 0 /\ next' = 0 /\ target' = 0
      /\ connected' = FALSE /\ wire' = <<>> /\ onto' = onto /\ peerTip' = peerTip
  BY DEF PollFails, EndPoll
<1>3. failures \in Nat /\ MaxFailures \in Nat \ {0} /\ seen \subseteq Nat
  BY SyncAssumption DEF SyncInv, PollTypeOK
<1>4. CASE failures + 1 >= MaxFailures
  <2>1. known' = FALSE /\ failures' = 0 /\ seen' = {}
    BY <1>4, Zenon DEF PollFails
  <2>2. 0 \in 0..(MaxFailures - 1)
    BY <1>3
  <2>3. PollTypeOK'
    BY <1>1, <1>2, <2>1, <2>2, Zenon DEF SyncInv, PollTypeOK
  <2>4. PollInv'
    BY <1>1, <1>2, <2>1 DEF SyncInv, PollInv, Phases
  <2> QED BY <2>3, <2>4
<1>5. CASE ~(failures + 1 >= MaxFailures)
  <2>1. known' = known /\ failures' = failures + 1 /\ seen' = seen
    BY <1>5, Zenon DEF PollFails
  <2>2. failures + 1 \in 0..(MaxFailures - 1)
    BY <1>3, <1>5
  <2>3. PollTypeOK'
    BY <1>1, <1>2, <2>1, <2>2, Zenon DEF SyncInv, PollTypeOK
  <2>4. known'
    BY <2>1, Zenon
  <2>5. PollInv'
    BY <1>1, <1>2, <2>1, <2>4 DEF SyncInv, PollInv, Phases
  <2> QED BY <2>3, <2>5
<1> QED BY <1>4, <1>5

\* So does an Ok.
LEMMA SucceedsConsistent ==
  ASSUME SyncInv, PollSucceeds, UNCHANGED <<peerTip, disturbances>>, inflight' = {}, main \in Phases
  PROVE  PollTypeOK' /\ PollInv'
<1>1. Height[peerTip] \in Nat /\ onto = {}
  BY TreeAssumption DEF SyncInv, PeerOk, PollInv, Phases
<1>2. /\ main' = "polled" /\ remote' = 0 /\ next' = 0 /\ target' = 0 /\ failures' = 0 /\ seen' = {remote}
      /\ UNCHANGED <<known, connected, wire, onto, peerTip, disturbances>>
  BY DEF PollSucceeds, EndPoll, streamVars
<1>3. remote \in Nat /\ remote <= Height[peerTip] /\ known
  BY DEF SyncInv, PollTypeOK, PollInv
<1>4. 0 \in 0..(MaxFailures - 1)
  BY SyncAssumption
<1>5. PollTypeOK'
  BY <1>1, <1>2, <1>3, <1>4 DEF SyncInv, PollTypeOK
<1>6. PollInv'
  BY <1>1, <1>2, <1>3 DEF SyncInv, PollInv, Phases
<1> QED BY <1>5, <1>6

\* A step that leaves the main thread alone keeps its state consistent.
LEMMA AsideConsistent ==
  ASSUME SyncInv, UNCHANGED <<peerTip, mainVars>>, inflight' \subseteq inflight,
         disturbances' \in 0..MaxDisturbances
  PROVE  PollTypeOK' /\ PollInv'
<1>1. UNCHANGED <<main, remote, next, target, known, failures, seen, connected, wire, onto, peerTip>>
  BY DEF mainVars, pollVars, entryVars, streamVars
<1> QED BY <1>1 DEF SyncInv, PollTypeOK, PollInv

\* A poll goes from one consistent state to the next, whatever tip, peer and
\* stream became since its last step.
LEMMA PollConsistent ==
  ASSUME SyncInv, Poll
  PROVE  PollTypeOK' /\ PollInv'
<1> USE DEF SyncInv
<1>h. Height[peerTip] \in Nat /\ Height[tip] \in Nat
  BY TreeAssumption DEF PeerOk, TypeOK, LedgerTypeOK
<1>d. disturbances \in 0..MaxDisturbances
  BY DEF PollTypeOK
<1>0. CASE NoPeer
  <2>1. /\ inflight' = {} /\ main' = "polled" /\ remote' = 0 /\ next' = 0 /\ target' = 0
        /\ UNCHANGED <<peerTip, disturbances, known, failures, seen, connected, wire, onto>>
        /\ main = "idle"
    BY <1>0 DEF NoPeer, EndPoll, Tick, PollInv, entryVars, streamVars
  <2> QED BY <1>h, <2>1 DEF PollTypeOK, PollInv, Phases
<1>1. CASE Handshake
  <2>1. inflight' = {} /\ UNCHANGED <<peerTip, disturbances>> /\ main = "idle" /\ known
    BY <1>1 DEF Handshake, Tick, PollInv
  <2>2. CASE wire = <<>>
    BY <1>1, <2>1, <2>2, Zenon DEF Handshake, PollTypeOK, PollInv, Phases, entryVars
  <2>3. CASE wire # <<>>
    BY <1>1, <1>d, <2>1, <2>3, FailsConsistent DEF Handshake
  <2> QED BY <2>2, <2>3
<1>2. CASE RequestTip
  <2>1. inflight' = {} /\ UNCHANGED <<peerTip, disturbances>> /\ main = "tip" /\ main \in Phases /\ known
    BY <1>2 DEF RequestTip, PollInv, vars, requestVars, Phases
  <2>2. CASE wire = <<>>
    <3>1. /\ main' = "local" /\ remote' = Height[peerTip]
          /\ UNCHANGED <<next, target, known, failures, seen, connected, wire, onto>>
      BY <1>2, <2>2 DEF RequestTip, entryVars, streamVars
    <3> QED BY <1>h, <2>1, <3>1 DEF PollTypeOK, PollInv, Phases
  <2>3. CASE wire # <<>>
    BY <1>2, <1>d, <2>1, <2>3, FailsConsistent DEF RequestTip
  <2> QED BY <2>2, <2>3
<1>3. CASE CompareHeights
  <2>1. /\ inflight' = {} /\ main = "local" /\ main \in Phases
        /\ UNCHANGED <<peerTip, disturbances, remote, known, failures, seen, connected, wire, onto>>
    BY <1>3 DEF CompareHeights, PollInv, vars, requestVars, entryVars, streamVars, Phases
  <2>2. CASE remote <= Height[tip]
    <3>1. main' = "parents" /\ UNCHANGED <<next, target>>
      BY <1>3, <2>2 DEF CompareHeights
    <3> QED BY <2>1, <3>1 DEF PollTypeOK, PollInv, Phases
  <2>3. CASE ~(remote <= Height[tip])
    <3>1. main' = "heights" /\ next' \in Nat /\ 1 <= next' /\ target' \in Nat /\ target' <= remote
      BY <1>3, <1>h, <2>3, SyncAssumption DEF CompareHeights, Min2, PollTypeOK
    <3> QED BY <2>1, <3>1 DEF PollTypeOK, PollInv, Phases
  <2> QED BY <2>2, <2>3
<1>4. CASE RequestBlock
  <2>1. PICK b :
          /\ ApplyBlock(b, "main", b)
          /\ IF Verdict(b) = "error" THEN PollFails
             ELSE /\ next' = next + 1
                  /\ UNCHANGED <<main, remote, target, known, failures, seen, connected, onto>>
    BY <1>4 DEF RequestBlock, entryVars
  <2>2. inflight' = {} /\ UNCHANGED <<peerTip, disturbances>> /\ main = "heights" /\ main \in Phases /\ known
    BY <1>4, <2>1, ApplyInflight DEF RequestBlock, PollInv, Phases
  <2>3. CASE Verdict(b) = "error"
    BY <1>d, <2>1, <2>2, <2>3, FailsConsistent
  <2>4. CASE Verdict(b) # "error"
    <3>1. next' = next + 1 /\ UNCHANGED <<main, remote, target, known, failures, seen, connected, onto>>
      BY <2>1, <2>4
    <3> QED BY <2>2, <3>1 DEF PollTypeOK, PollInv
  <2> QED BY <2>3, <2>4
<1>5. CASE HeightsDone
  <2>1. /\ inflight' = {} /\ main' = "parents" /\ main = "heights" /\ main \in Phases
        /\ UNCHANGED <<peerTip, disturbances, remote, next, target, known, failures, seen, connected, wire, onto>>
    BY <1>5 DEF HeightsDone, PollInv, vars, requestVars, entryVars, streamVars, Phases
  <2> QED BY <2>1 DEF PollTypeOK, PollInv, Phases
<1>6. CASE DrainParents
  <2>1. /\ main' = "hashes" /\ main = "parents" /\ main \in Phases
        /\ UNCHANGED <<peerTip, disturbances, remote, next, target, known, failures, seen, connected, wire, onto>>
    BY <1>6 DEF DrainParents, entryVars, streamVars, Phases
  <2> QED BY <2>1 DEF PollTypeOK, PollInv, Phases
<1>7. CASE NothingToDrain
  <2>1. inflight' = {} /\ main \in Phases
    BY <1>7 DEF NothingToDrain, PollInv, vars, requestVars, Phases
  <2> QED BY <1>7, <2>1, SucceedsConsistent DEF NothingToDrain
<1>8. ASSUME NEW h \in Blocks, RequestByHash(h) PROVE PollTypeOK' /\ PollInv'
  <2>1. UNCHANGED <<peerTip, disturbances>> /\ main = "hashes" /\ main \in Phases /\ known
    BY <1>8 DEF RequestByHash, PollInv, Phases
  <2>2. CASE Answered(h) = <<>>
    <3>1. PollFails /\ inflight' = {}
      BY <1>8, <2>2 DEF RequestByHash, RequestFails, Fail
    <3> QED BY <1>d, <2>1, <3>1, FailsConsistent
  <2>3. CASE Answered(h) # <<>>
    <3>1. PICK b : /\ ApplyBlock(b, "main", h)
                   /\ IF Verdict(b) = "error" THEN PollFails
                      ELSE UNCHANGED <<pollVars, entryVars, connected, onto>>
      BY <1>8, <2>3 DEF RequestByHash
    <3>2. CASE Verdict(b) = "error"
      BY <1>d, <2>1, <3>1, <3>2, ApplyInflight, FailsConsistent
    <3>3. CASE Verdict(b) # "error"
      <4>1. UNCHANGED <<main, remote, next, target, known, failures, seen, connected, onto>>
        BY <3>1, <3>3 DEF pollVars, entryVars
      <4> QED BY <2>1, <4>1 DEF PollTypeOK, PollInv
    <3> QED BY <3>2, <3>3
  <2> QED BY <2>2, <2>3
<1>9. CASE HashesDone
  <2>1. inflight' = {} /\ main \in Phases
    BY <1>9 DEF HashesDone, vars, requestVars, Phases
  <2> QED BY <1>9, <2>1, SucceedsConsistent DEF HashesDone
<1> QED BY <1>1, <1>2, <1>3, <1>4, <1>5, <1>6, <1>7, <1>8, <1>9, <1>0 DEF Poll

\* So does every other step of the composition.
LEMMA SyncInvStep ==
  ASSUME SyncInv, [SyncNext]_syncVars
  PROVE  PollTypeOK' /\ PollInv'
<1> USE DEF SyncInv
<1>d. /\ disturbances \in 0..MaxDisturbances
      /\ Disturb => disturbances' \in 0..MaxDisturbances
  <2>1. disturbances \in 0..MaxDisturbances /\ MaxDisturbances \in Nat
    BY SyncAssumption DEF PollTypeOK
  <2>2. disturbances < MaxDisturbances => disturbances + 1 \in 0..MaxDisturbances
    BY <2>1
  <2> QED BY <2>1, <2>2 DEF Disturb
<1>1. CASE Poll
  BY <1>1, PollConsistent
<1>2. CASE Mine
  <2>1. UNCHANGED <<peerTip, disturbances, remote, next, target, known, failures, seen, connected, wire>>
    BY <1>2 DEF Mine, StartMining, SkipMining, FinishMining, NothingMined, entryVars, streamVars
  <2>2. inflight' = {} /\ main \notin Phases
    <3>1. main \notin Phases /\ inflight = {}
      BY <1>2 DEF Mine, StartMining, SkipMining, FinishMining, NothingMined, PollInv, Phases
    <3>2. CASE StartMining \/ SkipMining \/ NothingMined
      BY <3>1, <3>2 DEF StartMining, SkipMining, NothingMined, vars, requestVars
    <3>3. ASSUME NEW b \in Mineable, FinishMining(b) PROVE inflight' = {}
      BY <3>1, <3>3, ApplyInflight DEF FinishMining
    <3> QED BY <1>2, <3>1, <3>2, <3>3 DEF Mine
  <2>3. tip \in Blocks
    BY DEF TypeOK, LedgerTypeOK
  <2>4. \/ main' = "mining" /\ onto' = {tip}
        \/ main' = "idle" /\ ((main = "mining" /\ onto' = {}) \/ (main = "polled" /\ onto' = onto))
        \/ main' = "polled" /\ onto' = {}
    BY <1>2 DEF Mine, StartMining, SkipMining, FinishMining, NothingMined
  <2>5. \/ main' = "mining" /\ onto' = {tip}
        \/ main' \in {"idle", "polled"} /\ onto' = {}
    BY <2>4 DEF PollInv
  <2> QED BY <2>1, <2>2, <2>3, <2>5 DEF PollTypeOK, PollInv, Phases
<1>3. CASE Apply
  <2>1. UNCHANGED <<peerTip, mainVars, disturbances>>
    BY <1>3 DEF Apply
  <2> QED BY <1>3, <1>d, <2>1, LoopInflight, AsideConsistent
<1>4. CASE AnswerLost
  <2>1. PollFails /\ UNCHANGED peerTip /\ main \in Phases /\ known /\ disturbances' \in 0..MaxDisturbances
    BY <1>4, <1>d DEF AnswerLost, PollInv, Phases
  <2>2. inflight' = {}
    BY <1>4 DEF AnswerLost, RequestFails, Fail, vars, requestVars
  <2> QED BY <2>1, <2>2, FailsConsistent
<1>5. ASSUME NEW b \in Blocks, Push(b) PROVE PollTypeOK' /\ PollInv'
  <2>1. UNCHANGED <<peerTip, mainVars>> /\ disturbances' \in 0..MaxDisturbances
    BY <1>5, <1>d DEF Push
  <2>2. inflight' \subseteq inflight
    <3>1. ApplyBlock(b, "inbound", b)
      BY <1>5 DEF Push
    <3> QED BY <3>1, ApplyInflight
  <2> QED BY <2>1, <2>2, AsideConsistent
<1>6. ASSUME NEW b \in PeerBlocks, PeerExtends(b) PROVE PollTypeOK' /\ PollInv'
  <2>1. /\ peerTip' = b /\ inflight' = inflight
        /\ UNCHANGED <<main, remote, next, target, known, failures, seen, connected, onto, disturbances>>
    BY <1>6 DEF PeerExtends, vars, requestVars, pollVars, entryVars
  <2>2. /\ Height[b] = Height[peerTip] + 1
        /\ Height[peerTip] \in Nat /\ Height[b] \in Nat
    <3>1. b \in Valid \ {Genesis} /\ b \in Blocks
      BY SyncAssumption, TreeAssumption
    <3> QED BY <1>6, <3>1, HeightAssumption, TreeAssumption DEF PeerExtends, PeerOk
  <2>3. wire' # <<>> => connected
    BY <1>6 DEF PeerExtends, PollInv
  <2>4. remote <= Height[b] /\ \A h \in seen : h <= Height[b]
    BY <2>2 DEF PollTypeOK, PollInv
  <2> QED BY <2>1, <2>3, <2>4 DEF PollTypeOK, PollInv
<1>7. CASE RestartNode
  <2>1. /\ main' = "idle" /\ remote' = 0 /\ next' = 0 /\ target' = 0 /\ onto' = {}
        /\ known' = TRUE /\ failures' = 0 /\ seen' = {}
        /\ connected' = FALSE /\ wire' = <<>> /\ peerTip' = peerTip /\ inflight' = {}
        /\ disturbances' \in 0..MaxDisturbances
    BY <1>7, <1>d DEF RestartNode, Restart
  <2>2. Height[peerTip] \in Nat
    BY TreeAssumption DEF PeerOk
  <2>3. PollTypeOK'
    <3>1. 0 \in 0..(MaxFailures - 1)
      BY SyncAssumption
    <3> QED BY <2>1, <3>1, Zenon DEF PollTypeOK
  <2>4. PollInv'
    BY <2>1, <2>2 DEF PollInv, Phases
  <2> QED BY <2>3, <2>4
<1>9. CASE PeerLearned
  <2>1. /\ known' = TRUE /\ ~known
        /\ UNCHANGED <<peerTip, inflight, disturbances, main, remote, next, target, failures, seen, connected, wire,
                       onto>>
    BY <1>9 DEF PeerLearned, vars, requestVars, pollVars, streamVars
  <2>2. PollTypeOK'
    BY <2>1, Zenon DEF PollTypeOK
  <2>3. PollInv'
    BY <2>1 DEF PollInv
  <2> QED BY <2>2, <2>3
<1>8. CASE UNCHANGED syncVars
  <2>1. UNCHANGED <<peerTip, mainVars, inflight, disturbances>>
    BY <1>8 DEF syncVars, vars, requestVars
  <2> QED BY <1>d, <2>1, AsideConsistent
<1> QED BY <1>1, <1>2, <1>3, <1>4, <1>5, <1>6, <1>7, <1>8, <1>9 DEF SyncNext

\* The peer only ever extends its chain by valid blocks.
LEMMA PeerChainValid ==
  ASSUME PeerOk, PeerChain \subseteq Valid, [SyncNext]_syncVars
  PROVE  (PeerChain \subseteq Valid)'
<1>1. CASE UNCHANGED peerTip
  BY <1>1 DEF PeerChain
<1>2. ASSUME NEW b \in PeerBlocks, PeerExtends(b) PROVE (PeerChain \subseteq Valid)'
  <2>1. b \in Blocks \ {Genesis} /\ b \in Valid
    BY SyncAssumption, TreeAssumption
  <2>2. Ancestors[b] = Ancestors[peerTip] \cup {b} /\ peerTip' = b
    BY <1>2, <2>1, AncestorsAssumption DEF PeerExtends
  <2> QED BY <2>1, <2>2 DEF PeerChain
<1>3. \/ UNCHANGED peerTip
      \/ \E b \in PeerBlocks : PeerExtends(b)
  <2>1. Poll => UNCHANGED peerTip
    BY DEF Poll, NoPeer, Handshake, RequestTip, CompareHeights, RequestBlock, HeightsDone, DrainParents,
       NothingToDrain, RequestByHash, HashesDone
  <2>2. Mine \/ Apply \/ AnswerLost \/ RestartNode \/ PeerLearned \/ (\E b \in Blocks : Push(b)) \/ UNCHANGED syncVars
          => UNCHANGED peerTip
    BY Zenon DEF Mine, StartMining, SkipMining, FinishMining, NothingMined, Apply, AnswerLost, RestartNode,
       PeerLearned, Push, syncVars
  <2> QED BY <2>1, <2>2 DEF SyncNext
<1> QED BY <1>1, <1>2, <1>3

\* The composition keeps to its inductive invariant.
LEMMA SyncSafe == SyncSpec => [](SyncInv /\ PeerChain \subseteq Valid)
<1> DEFINE Served == PeerChain \subseteq Valid
           Rest == PeerOk /\ PollTypeOK /\ PollInv /\ Served
<1>1. SyncInit => Rest
  <2> SUFFICES ASSUME SyncInit PROVE Rest
    OBVIOUS
  <2>1. PeerOk /\ Served
    BY SyncAssumption DEF SyncInit, PeerOk, PeerChain
  <2>2. PollTypeOK
    <3>1. disturbances \in 0..MaxDisturbances /\ failures \in 0..(MaxFailures - 1)
      BY SyncAssumption DEF SyncInit
    <3> QED BY <3>1, Zenon DEF SyncInit, PollTypeOK
  <2>3. Height[peerTip] \in Nat /\ inflight = {}
    BY <2>1, TreeAssumption DEF PeerOk, SyncInit, Init
  <2>4. PollInv
    BY <2>3 DEF SyncInit, PollInv, Phases
  <2> QED BY <2>1, <2>2, <2>4
<1>2. TypeOK /\ Rest /\ [SyncNext]_syncVars => Rest'
  BY PeerOkStep, SyncInvStep, PeerChainValid DEF SyncInv
<1>3. TypeOK /\ Rest => SyncInv /\ Served
  BY DEF SyncInv
<1>4. SyncSpec => []TypeOK
  BY SyncIsNode, TypeCorrect, PTL
<1> HIDE DEF Rest, Served
<1>5. SyncSpec => [](SyncInv /\ Served)
  BY <1>1, <1>2, <1>3, <1>4, PTL DEF SyncSpec
<1> QED BY <1>5 DEF Served

\* Every variable of the composition stays in its type.
THEOREM SyncTyped == SyncSpec => []SyncTypeOK
<1>1. SyncInv => SyncTypeOK
  BY DEF SyncInv, PeerOk, PollTypeOK, Phases, SyncTypeOK
<1> QED BY <1>1, SyncSafe, PTL

\* A poll never waits for what cannot come: each height it still has to ask for
\* is one the peer serves, although tip and peer moved since they were compared,
\* and no request is in flight in any other phase, so none is left behind when a
\* poll fails, times out or is followed by mining.
PollServed ==
  /\ main = "heights" /\ next <= target => \E asked \in PeerChain : Height[asked] = next
  /\ main # "hashes" => inflight = {}
  /\ wire # <<>> => connected

\* request_block and request_block_by_hash of poll_peer_connection are never left
\* waiting for a block the peer does not have at the height asked for.
THEOREM PollAlwaysServed == SyncSpec => []PollServed
<1>1. ASSUME SyncInv, PeerChain \subseteq Valid PROVE PollServed
  <2>1. ASSUME main = "heights", next <= target PROVE \E asked \in PeerChain : Height[asked] = next
    <3>1. peerTip \in Blocks /\ Height[peerTip] \in Nat
      BY <1>1, TreeAssumption DEF SyncInv, PeerOk
    <3>2. Gapless(peerTip)
      BY <1>1, <3>1, ValidGapless DEF PeerChain
    <3>3. next \in 0..Height[peerTip]
      BY <1>1, <2>1, <3>1 DEF SyncInv, PollInv, PollTypeOK
    <3> QED BY <3>2, <3>3 DEF Gapless, PeerChain
  <2> QED BY <1>1, <2>1 DEF PollServed, SyncInv, PollInv
<1> QED BY <1>1, SyncSafe, PTL
=============================================================================
