----------------------------- MODULE NodeProofs -----------------------------
(* Theorems about Node, for every block tree, every tie-break of the fork     *)
(* choice, every size of the orphan pool and any number of failed writes.     *)
EXTENDS Node, TLAPS

(**************************** type correctness *****************************)

\* The first start leaves the ledger and the disk in their types, finished or not.
LEMMA InitLedgerType ==
  ASSUME Init
  PROVE  LedgerTypeOK
<1>1. storedGenesis \in BOOLEAN
  <2>1. SavesGenesis(Genesis) \in BOOLEAN
    BY DEF SavesGenesis
  <2> QED BY <2>1 DEF Init
<1>2. faults \in 0..MaxFaults
  BY NodeAssumption DEF Init
<1> QED BY <1>1, <1>2, TreeAssumption DEF Init, LedgerTypeOK

\* Connecting a block, saved or not, keeps the ledger, the fork choice and the
\* disk in their types.
LEMMA InsertType ==
  ASSUME LedgerTypeOK, NEW b \in Blocks, NEW ok \in BOOLEAN, InsertBlock(b, ok)
  PROVE  LedgerTypeOK'
<1> USE TreeAssumption, AncestorsAssumption, NodeAssumption DEF LedgerTypeOK
<1>1. /\ forkChoice' \subseteq Blocks
      /\ best' \in Blocks /\ tip' \in Blocks
      /\ chain' \subseteq Blocks /\ cache' \subseteq Blocks
  <2>1. CASE SideBlock(b, ok)
    BY <2>1 DEF SideBlock
  <2>2. CASE ExtendTip(b, ok)
    BY <2>2 DEF ExtendTip
  <2>3. CASE Reorg(b, ok)
    <3>1. Ancestors[b] \subseteq Blocks
      OBVIOUS
    <3> QED BY <2>3, <3>1 DEF Reorg
  <2> QED BY <2>1, <2>2, <2>3 DEF InsertBlock
<1>2. /\ storedBlocks' \subseteq Blocks /\ storedChain' \subseteq Blocks /\ storedTip' \in Blocks
      /\ storedGenesis' \in BOOLEAN
      /\ faults' \in 0..MaxFaults
  <2>1. \/ SaveSideBlock(b)
        \/ SaveLedger(chain \cup {b}, b)
        \/ SaveLedger(Ancestors[b], b)
        \/ UNCHANGED diskVars
    BY DEF InsertBlock, SideBlock, ExtendTip, Reorg, Write
  <2>2. faults' = faults \/ (faults' = faults + 1 /\ faults < MaxFaults)
    BY DEF InsertBlock, SideBlock, ExtendTip, Reorg, Write
  <2>3. ASSUME NEW ch \in SUBSET Blocks, SaveLedger(ch, b) \/ SaveSideBlock(b) \/ UNCHANGED diskVars
        PROVE  /\ storedBlocks' \subseteq Blocks /\ storedChain' \subseteq Blocks
               /\ storedTip' \in Blocks /\ storedGenesis' \in BOOLEAN
    <3>1. CASE SaveLedger(ch, b)
      BY <3>1 DEF SaveLedger
    <3>2. CASE SaveSideBlock(b)
      BY <3>2 DEF SaveSideBlock
    <3>3. CASE UNCHANGED diskVars
      BY <3>3 DEF diskVars
    <3> QED BY <2>3, <3>1, <3>2, <3>3
  <2>4. chain \cup {b} \in SUBSET Blocks /\ Ancestors[b] \in SUBSET Blocks
    OBVIOUS
  <2> QED BY <2>1, <2>2, <2>3, <2>4
<1> QED BY <1>1, <1>2

\* So does flush_to_storage.
LEMMA FlushType ==
  ASSUME LedgerTypeOK, NEW ok \in BOOLEAN, Write(ok, SaveLedger(chain, tip)), UNCHANGED ledgerVars
  PROVE  LedgerTypeOK'
<1>1. faults' \in 0..MaxFaults
  BY NodeAssumption DEF Write, LedgerTypeOK
<1>2. SaveLedger(chain, tip) \/ UNCHANGED diskVars
  BY DEF Write
<1>3. /\ storedBlocks' \subseteq Blocks /\ storedChain' \subseteq Blocks /\ storedTip' \in Blocks
      /\ storedGenesis' \in BOOLEAN
  <2>1. CASE SaveLedger(chain, tip)
    BY <2>1 DEF SaveLedger, LedgerTypeOK
  <2>2. CASE UNCHANGED diskVars
    BY <2>2 DEF diskVars, LedgerTypeOK
  <2> QED BY <1>2, <2>1, <2>2
<1> QED BY <1>1, <1>3 DEF LedgerTypeOK, ledgerVars

\* Removing orphans keeps the pool in its type.
LEMMA KeepType ==
  ASSUME PoolTypeOK, NEW kept \in SUBSET orphans, KeepOrphans(kept)
  PROVE  PoolTypeOK'
BY NodeAssumption DEF PoolTypeOK, KeepOrphans

\* What pruning keeps was in the pool.
LEMMA UnexpiredSubset ==
  ASSUME NEW held, NEW t
  PROVE  Unexpired(held, t) \subseteq held
BY DEF Unexpired

\* Queueing a request, at once or after the retry delay, keeps the queue in its
\* type.
LEMMA QueueType ==
  ASSUME RequestTypeOK, NEW h \in Blocks, NEW delay \in 0..RetryDelay, NEW fc,
         QueueRequest(h, delay, fc)
  PROVE  requests' \subseteq Blocks /\ retryIn' \in [Blocks -> 0..RetryDelay]
BY NodeAssumption DEF RequestTypeOK, QueueRequest, Min2

\* So does a failed poll.
LEMMA FailType ==
  ASSUME RequestTypeOK, NEW h \in Blocks, NEW who, NEW fc, Fail(h, who, fc)
  PROVE  RequestTypeOK'
<1>1. CASE who = "main" /\ inflight # {}
  <2>1. RetryDelay \in 0..RetryDelay
    BY NodeAssumption
  <2>2. QueueRequest(h, RetryDelay, fc) /\ inflight' = {}
    BY <1>1 DEF Fail
  <2> QED BY <2>1, <2>2, QueueType DEF RequestTypeOK
<1>2. CASE ~(who = "main" /\ inflight # {})
  BY <1>2 DEF Fail, RequestTypeOK, requestVars
<1> QED BY <1>1, <1>2

\* And so does caching an orphan.
LEMMA CacheType ==
  ASSUME PoolTypeOK, RequestTypeOK, NEW b \in Blocks \ {Genesis}, NEW kept \in SUBSET orphans,
         CacheOrphan(b, kept)
  PROVE  PoolTypeOK' /\ requests' \subseteq Blocks /\ retryIn' \in [Blocks -> 0..RetryDelay]
<1>1. CASE TooFarAhead(b, tip) \/ b \in kept
  BY <1>1, KeepType DEF CacheOrphan, RequestTypeOK
<1>2. CASE ~(TooFarAhead(b, tip) \/ b \in kept)
  <2> DEFINE room == kept \ Evicted(kept)
  <2>1. /\ orphans' = room \cup {b}
        /\ age' = [o \in Blocks |-> IF o \in room THEN age[o] ELSE 0]
        /\ children' = [p \in Blocks |->
                          (children[p] \ (orphans \ room))
                            \cup (IF p = Parent[b] THEN {b} ELSE {})]
        /\ QueueRequest(Parent[b], 0, forkChoice)
    BY <1>2 DEF CacheOrphan
  <2>2. room \subseteq orphans
    OBVIOUS
  <2>3. PoolTypeOK'
    BY <2>1, <2>2, NodeAssumption DEF PoolTypeOK
  <2>4. Parent[b] \in Blocks /\ 0 \in 0..RetryDelay
    BY TreeAssumption, NodeAssumption
  <2> QED BY <2>1, <2>3, <2>4, QueueType
<1> QED BY <1>1, <1>2

\* Every action keeps every variable in its type.
THEOREM TypeCorrect == Spec => []TypeOK
<1>1. Init => TypeOK
  <2> SUFFICES ASSUME Init PROVE TypeOK
    OBVIOUS
  <2>1. LedgerTypeOK
    BY InitLedgerType
  <2>2. PoolTypeOK
    BY TreeAssumption, NodeAssumption DEF Init, PoolTypeOK
  <2>3. RequestTypeOK
    BY TreeAssumption, NodeAssumption DEF Init, RequestTypeOK
  <2>4. LoopTypeOK
    BY TreeAssumption, NodeAssumption DEF Init, LoopTypeOK, Threads
  <2> QED BY <2>1, <2>2, <2>3, <2>4 DEF TypeOK
<1>2. TypeOK /\ [Next]_vars => TypeOK'
  <2> SUFFICES ASSUME TypeOK, [Next]_vars PROVE TypeOK'
    OBVIOUS
  <2>t. LedgerTypeOK /\ PoolTypeOK /\ RequestTypeOK /\ LoopTypeOK
    BY DEF TypeOK
  <2> DEFINE kept == Unexpired(orphans, tip)
  <2>k. kept \subseteq orphans
    BY UnexpiredSubset
  <2>1. ASSUME NEW b \in Blocks, NEW h \in Blocks, NEW who \in Threads, ApplyConnected(b, who, h)
        PROVE  TypeOK'
    <3>1. LedgerTypeOK'
      BY <2>1, <2>t, InsertType DEF ApplyConnected
    <3>2. Unexpired(kept, tip') \subseteq orphans
      BY <2>k, UnexpiredSubset
    <3>3. PoolTypeOK'
      BY <2>1, <2>t, <3>2, KeepType DEF ApplyConnected
    <3>4. RequestTypeOK' /\ LoopTypeOK'
      BY <2>1, <2>t DEF ApplyConnected, Enter, RequestTypeOK, LoopTypeOK, requestVars
    <3> QED BY <3>1, <3>3, <3>4 DEF TypeOK
  <2>2. ASSUME NEW b \in Blocks, NEW h \in Blocks, NEW who \in Threads, ApplyUnsaved(b, who, h)
        PROVE  TypeOK'
    <3>1. LedgerTypeOK'
      BY <2>2, <2>t, InsertType DEF ApplyUnsaved
    <3>2. PoolTypeOK'
      BY <2>2, <2>t, <2>k, KeepType DEF ApplyUnsaved
    <3>3. RequestTypeOK'
      BY <2>2, <2>t, FailType DEF ApplyUnsaved
    <3>4. LoopTypeOK'
      BY <2>2, <2>t DEF ApplyUnsaved, LoopTypeOK, loopVars
    <3> QED BY <3>1, <3>2, <3>3, <3>4 DEF TypeOK
  <2>3. ASSUME NEW b \in Blocks, NEW h \in Blocks, NEW who \in Threads, ApplyOrphan(b, who, h)
        PROVE  TypeOK'
    <3>1. b # Genesis /\ CacheOrphan(b, kept)
      BY <2>3 DEF ApplyOrphan, Verdict, StateOk
    <3>2. PoolTypeOK' /\ requests' \subseteq Blocks /\ retryIn' \in [Blocks -> 0..RetryDelay]
      BY <2>t, <2>k, <3>1, CacheType
    <3>3. LedgerTypeOK' /\ LoopTypeOK' /\ inflight' = inflight
      BY <2>3, <2>t DEF ApplyOrphan, Enter, LedgerTypeOK, LoopTypeOK, ledgerVars, diskVars
    <3> QED BY <2>t, <3>2, <3>3 DEF TypeOK, RequestTypeOK
  <2>4. ASSUME NEW b \in Blocks, NEW h \in Blocks, NEW who \in Threads, ApplyDuplicate(b, who, h)
        PROVE  TypeOK'
    <3>1. PoolTypeOK'
      BY <2>4, <2>t, <2>k, KeepType DEF ApplyDuplicate
    <3>2. LedgerTypeOK' /\ LoopTypeOK' /\ RequestTypeOK'
      BY <2>4, <2>t DEF ApplyDuplicate, Enter, LedgerTypeOK, LoopTypeOK, RequestTypeOK,
        ledgerVars, diskVars, requestVars
    <3> QED BY <3>1, <3>2 DEF TypeOK
  <2>5. ASSUME NEW b \in Blocks, NEW h \in Blocks, NEW who \in Threads, ApplyInvalid(b, who, h)
        PROVE  TypeOK'
    <3>1. PoolTypeOK'
      BY <2>5, <2>t, <2>k, KeepType DEF ApplyInvalid
    <3>2. RequestTypeOK'
      BY <2>5, <2>t, FailType DEF ApplyInvalid
    <3>3. LedgerTypeOK' /\ LoopTypeOK'
      BY <2>5, <2>t DEF ApplyInvalid, LedgerTypeOK, LoopTypeOK, ledgerVars, diskVars, loopVars
    <3> QED BY <3>1, <3>2, <3>3 DEF TypeOK
  <2>6. ASSUME NEW p \in Blocks, TakeChildren(p)
        PROVE  TypeOK'
    BY <2>6, <2>t DEF TakeChildren, TypeOK, LedgerTypeOK, PoolTypeOK, RequestTypeOK, LoopTypeOK,
      ledgerVars, requestVars, diskVars
  <2>7. ASSUME NEW c \in Blocks, ConnectChild(c)
        PROVE  TypeOK'
    <3>1. PoolTypeOK'
      BY <2>7, <2>t, KeepType DEF ConnectChild
    <3>2. LedgerTypeOK' /\ parents' \subseteq Blocks
      <4>1. CASE \E ok \in BOOLEAN :
                   /\ InsertBlock(c, ok)
                   /\ parents' = IF ok THEN parents \cup {c} ELSE parents
        BY <2>t, <4>1, InsertType DEF LoopTypeOK
      <4>2. CASE UNCHANGED <<ledgerVars, diskVars, parents, faults>>
        BY <2>t, <4>2 DEF LedgerTypeOK, LoopTypeOK, ledgerVars, diskVars
      <4> QED BY <2>7, <4>1, <4>2 DEF ConnectChild
    <3>3. RequestTypeOK' /\ LoopTypeOK'
      BY <2>7, <2>t, <3>2 DEF ConnectChild, RequestTypeOK, LoopTypeOK, requestVars
    <3> QED BY <3>1, <3>2, <3>3 DEF TypeOK
  <2>8. ASSUME NEW ok \in BOOLEAN, Return(ok)
        PROVE  TypeOK'
    <3>1. LedgerTypeOK'
      <4>1. CASE holder = "main"
        BY <2>8, <2>t, <4>1, FlushType DEF Return
      <4>2. CASE holder # "main"
        BY <2>8, <2>t, <4>2 DEF Return, LedgerTypeOK, ledgerVars, diskVars
      <4> QED BY <4>1, <4>2
    <3>2. RequestTypeOK'
      <4>1. CASE holder = "main" /\ ~ok
        BY <2>8, <2>t, <4>1, FailType DEF Return, LoopTypeOK
      <4>2. CASE ~(holder = "main" /\ ~ok)
        BY <2>8, <2>t, <4>2 DEF Return, RequestTypeOK, requestVars
      <4> QED BY <4>1, <4>2
    <3>3. PoolTypeOK' /\ LoopTypeOK'
      BY <2>8, <2>t, TreeAssumption DEF Return, PoolTypeOK, LoopTypeOK, orphanVars
    <3> QED BY <3>1, <3>2, <3>3 DEF TypeOK
  <2>9. ASSUME NEW ok \in BOOLEAN, Flush(ok)
        PROVE  TypeOK'
    <3>1. LedgerTypeOK'
      BY <2>9, <2>t, FlushType DEF Flush
    <3>2. PoolTypeOK' /\ RequestTypeOK' /\ LoopTypeOK'
      BY <2>9, <2>t DEF Flush, PoolTypeOK, RequestTypeOK, LoopTypeOK, orphanVars, requestVars,
        loopVars
    <3> QED BY <3>1, <3>2 DEF TypeOK
  <2>10. CASE Drain
    BY <2>10, <2>t DEF Drain, TypeOK, LedgerTypeOK, PoolTypeOK, RequestTypeOK, LoopTypeOK,
      ledgerVars, orphanVars, diskVars, loopVars
  <2>11. ASSUME NEW h \in Blocks, RequestFails(h)
         PROVE  TypeOK'
    <3>1. RequestTypeOK'
      BY <2>11, <2>t, FailType DEF RequestFails
    <3>2. LedgerTypeOK' /\ PoolTypeOK' /\ LoopTypeOK'
      BY <2>11, <2>t DEF RequestFails, LedgerTypeOK, PoolTypeOK, LoopTypeOK, ledgerVars,
        orphanVars, diskVars, loopVars
    <3> QED BY <3>1, <3>2 DEF TypeOK
  <2>12. CASE Tick
    <3>1. PoolTypeOK' /\ RequestTypeOK'
      <4>1. PoolTypeOK'
        BY <2>12, <2>t, NodeAssumption DEF Tick, PoolTypeOK, Min2
      <4>2. ASSUME NEW h \in Blocks
            PROVE  (IF retryIn[h] > 0 THEN retryIn[h] - 1 ELSE 0) \in 0..RetryDelay
        BY <2>t, NodeAssumption DEF RequestTypeOK
      <4>3. RequestTypeOK'
        BY <2>12, <2>t, <4>2 DEF Tick, RequestTypeOK
      <4> QED BY <4>1, <4>3
    <3>2. LedgerTypeOK' /\ LoopTypeOK'
      <4>1. LedgerTypeOK'
        BY <2>12, <2>t DEF Tick, LedgerTypeOK, ledgerVars, diskVars
      <4>2. clock' \in 0..MaxClock
        BY <2>12, <2>t, NodeAssumption DEF Tick, LoopTypeOK, Min2
      <4>3. LoopTypeOK'
        BY <2>12, <2>t, <4>2 DEF Tick, LoopTypeOK, loopVars
      <4> QED BY <4>1, <4>3
    <3> QED BY <3>1, <3>2 DEF TypeOK
  <2>13. CASE Restart
    <3>1. LedgerTypeOK'
      <4>1. Indexed \subseteq Blocks
        BY <2>t DEF Indexed, LedgerTypeOK
      <4>2. best' \in Indexed /\ forkChoice' = Indexed
        BY <2>13 DEF Restart
      <4> QED BY <2>13, <2>t, <4>1, <4>2 DEF Restart, LedgerTypeOK, diskVars
    <3>2. PoolTypeOK' /\ RequestTypeOK'
      BY <2>13, NodeAssumption DEF Restart, PoolTypeOK, RequestTypeOK
    <3>3. genesisKnown' \in BOOLEAN
      <4>1. GenesisLoaded \in BOOLEAN
        BY <2>t DEF GenesisLoaded, LedgerTypeOK
      <4> QED BY <2>13, <4>1 DEF Restart
    <3>4. LoopTypeOK'
      BY <2>13, <2>t, <3>3, TreeAssumption DEF Restart, LoopTypeOK
    <3> QED BY <3>1, <3>2, <3>4 DEF TypeOK
  <2>14. CASE UNCHANGED vars
    BY <2>14, <2>t DEF vars, TypeOK, LedgerTypeOK, PoolTypeOK, RequestTypeOK, LoopTypeOK,
      ledgerVars, orphanVars, requestVars, diskVars, loopVars
  <2> QED
    BY <2>1, <2>2, <2>3, <2>4, <2>5, <2>6, <2>7, <2>8, <2>9, <2>10, <2>11, <2>12, <2>13, <2>14
    DEF Next, ApplyBlock
<1> QED BY <1>1, <1>2, PTL DEF Spec

(********************** fork choice, ledger and disk ***********************)

\* A block is on its own branch.
LEMMA SelfAncestor ==
  ASSUME NEW b \in Blocks
  PROVE  b \in Ancestors[b]
BY AncestorsAssumption, TreeAssumption

\* What connecting a block amounts to: it enters the fork choice; when it beats
\* the best tip the ledger becomes its branch, by extension or by reorg; and
\* unless the write failed the disk follows.
LEMMA InsertEffect ==
  ASSUME LedgerIsBranch, LedgerTypeOK, NEW b \in Blocks \ {Genesis}, NEW ok \in BOOLEAN,
         InsertBlock(b, ok)
  PROVE  /\ forkChoice' = forkChoice \cup {b}
         /\ \/ <<b, best>> \notin Better /\ UNCHANGED <<best, tip, chain, cache>>
            \/ /\ <<b, best>> \in Better
               /\ best' = b /\ tip' = b /\ chain' = Ancestors[b] /\ cache' = Ancestors[b]
         /\ faults' = faults \/ faults' # 0
         /\ \/ faults' # 0 /\ UNCHANGED diskVars
            \/ IF <<b, best>> \in Better THEN SaveLedger(Ancestors[b], b) ELSE SaveSideBlock(b)
<1>0. ASSUME NEW save, Write(ok, save)
      PROVE  (faults' = faults /\ save) \/ (faults' # 0 /\ (save \/ UNCHANGED diskVars))
  <2>1. faults \in Nat
    BY NodeAssumption DEF LedgerTypeOK
  <2> QED BY <1>0, <2>1 DEF Write
<1>1. Ancestors[b] = Ancestors[Parent[b]] \cup {b} /\ chain = Ancestors[tip] /\ cache = chain
  BY AncestorsAssumption DEF LedgerIsBranch
<1>2. CASE SideBlock(b, ok)
  <2>1. /\ forkChoice' = forkChoice \cup {b}
        /\ <<b, best>> \notin Better /\ UNCHANGED <<best, tip, chain, cache>>
    BY <1>2 DEF SideBlock
  <2>2. Write(ok, SaveSideBlock(b))
    BY <1>2 DEF SideBlock
  <2> QED BY <1>0, <2>1, <2>2
<1>3. CASE ExtendTip(b, ok)
  <2>1. chain \cup {b} = Ancestors[b] /\ cache \cup {b} = Ancestors[b]
    BY <1>1, <1>3 DEF ExtendTip
  <2>2. /\ forkChoice' = forkChoice \cup {b}
        /\ <<b, best>> \in Better
        /\ best' = b /\ tip' = b /\ chain' = Ancestors[b] /\ cache' = Ancestors[b]
    BY <1>3, <2>1 DEF ExtendTip
  <2>3. Write(ok, SaveLedger(Ancestors[b], b))
    BY <1>3, <2>1 DEF ExtendTip
  <2> QED BY <1>0, <2>2, <2>3
<1>4. CASE Reorg(b, ok)
  <2>1. /\ forkChoice' = forkChoice \cup {b}
        /\ <<b, best>> \in Better
        /\ best' = b /\ tip' = b /\ chain' = Ancestors[b] /\ cache' = Ancestors[b]
    BY <1>4 DEF Reorg
  <2>2. Write(ok, SaveLedger(Ancestors[b], b))
    BY <1>4 DEF Reorg
  <2> QED BY <1>0, <2>1, <2>2
<1> QED BY <1>2, <1>3, <1>4 DEF InsertBlock

\* What best_tip() of the fork choice is: a block of it that no other one beats.
BestUnbeaten ==
  /\ best \in forkChoice
  /\ \A b \in forkChoice : <<b, best>> \notin Better

\* The inductive invariant for the fork choice, the ledger and the disk.
ChainInv ==
  /\ LedgerTypeOK
  /\ ForkChoiceSound
  /\ LedgerIsBranch
  /\ BestUnbeaten
  /\ LedgerAtBest
  /\ DiskLoads
  /\ DiskCurrent

\* Connecting a validated block preserves it.
LEMMA InsertChainInv ==
  ASSUME ChainInv, NEW b \in Blocks, NEW ok \in BOOLEAN, Verdict(b) = "insert",
         InsertBlock(b, ok)
  PROVE  ChainInv'
<1>1. /\ b # Genesis /\ b \in Valid
      /\ Parent[b] \in forkChoice
      /\ b \notin forkChoice
  BY DEF Verdict, StateOk
<1>2. /\ forkChoice' = forkChoice \cup {b}
      /\ \/ <<b, best>> \notin Better /\ UNCHANGED <<best, tip, chain, cache>>
         \/ /\ <<b, best>> \in Better
            /\ best' = b /\ tip' = b /\ chain' = Ancestors[b] /\ cache' = Ancestors[b]
      /\ faults' = faults \/ faults' # 0
      /\ \/ faults' # 0 /\ UNCHANGED diskVars
         \/ IF <<b, best>> \in Better THEN SaveLedger(Ancestors[b], b) ELSE SaveSideBlock(b)
  BY <1>1, InsertEffect DEF ChainInv
<1>3. b \in Ancestors[b] /\ Ancestors[b] \subseteq forkChoice \cup {b}
  BY <1>1, AncestorsAssumption DEF ChainInv, ForkChoiceSound
<1>4. LedgerTypeOK'
  BY InsertType DEF ChainInv
<1>5. ForkChoiceSound'
  BY <1>1, <1>2, <1>3 DEF ChainInv, ForkChoiceSound
<1>6. LedgerIsBranch'
  BY <1>2 DEF ChainInv, LedgerIsBranch
<1>7. BestUnbeaten'
  <2> SUFFICES ASSUME NEW c \in forkChoice \cup {b} PROVE <<c, best'>> \notin Better
    BY <1>2 DEF ChainInv, BestUnbeaten
  <2>1. c \in Blocks /\ best \in Blocks
    BY DEF ChainInv, LedgerTypeOK
  <2>2. CASE <<b, best>> \notin Better
    BY <1>2, <2>2 DEF ChainInv, BestUnbeaten
  <2>3. CASE <<b, best>> \in Better
    BY <1>2, <2>1, <2>3, BetterAssumption DEF ChainInv, BestUnbeaten
  <2> QED BY <2>2, <2>3
<1>8. LedgerAtBest'
  <2>1. faults' = 0 => faults = 0
    BY <1>2
  <2> QED BY <1>2, <2>1 DEF ChainInv, LedgerAtBest
<1>9. DiskLoads'
  <2>1. Ancestors[b] \subseteq Valid
    BY <1>1, <1>3 DEF ChainInv, ForkChoiceSound
  <2>2. CASE SaveLedger(Ancestors[b], b)
    BY <2>1, <2>2 DEF ChainInv, DiskLoads, ChainIntact, SaveLedger
  <2>3. CASE SaveSideBlock(b)
    BY <1>1, <2>3 DEF ChainInv, DiskLoads, ChainIntact, SaveSideBlock
  <2>4. CASE UNCHANGED diskVars
    BY <2>4 DEF ChainInv, DiskLoads, ChainIntact, diskVars
  <2> QED BY <1>2, <2>2, <2>3, <2>4
<1>10. DiskCurrent'
  <2> SUFFICES ASSUME faults' = 0 PROVE storedBlocks' = forkChoice' /\ storedTip' = tip'
    BY DEF DiskCurrent
  <2>1. storedBlocks = forkChoice /\ storedTip = tip
    BY <1>2 DEF ChainInv, DiskCurrent
  <2>2. CASE <<b, best>> \in Better
    <3>1. SaveLedger(Ancestors[b], b) /\ tip' = b
      BY <1>2, <2>2
    <3>2. forkChoice \cup Ancestors[b] = forkChoice \cup {b}
      BY <1>3
    <3> QED BY <1>2, <2>1, <3>1, <3>2 DEF SaveLedger
  <2>3. CASE <<b, best>> \notin Better
    BY <1>2, <2>1, <2>3 DEF SaveSideBlock
  <2> QED BY <2>2, <2>3
<1> QED BY <1>4, <1>5, <1>6, <1>7, <1>8, <1>9, <1>10 DEF ChainInv

\* So does flush_to_storage, whether the write succeeds or not.
LEMMA FlushChainInv ==
  ASSUME ChainInv, NEW ok \in BOOLEAN, Write(ok, SaveLedger(chain, tip)), UNCHANGED ledgerVars
  PROVE  ChainInv'
<1>1. /\ faults' = faults \/ (faults' = faults + 1 /\ faults < MaxFaults)
      /\ SaveLedger(chain, tip) \/ (UNCHANGED diskVars /\ faults' = faults + 1)
  BY DEF Write
<1>2. chain = Ancestors[tip] /\ chain \subseteq forkChoice /\ chain \subseteq Valid
  BY DEF ChainInv, LedgerIsBranch, ForkChoiceSound
<1>3. LedgerTypeOK' /\ DiskLoads'
  <2>1. LedgerTypeOK'
    BY FlushType DEF ChainInv
  <2>2. CASE SaveLedger(chain, tip)
    BY <1>2, <2>1, <2>2 DEF ChainInv, DiskLoads, ChainIntact, SaveLedger
  <2>3. CASE UNCHANGED diskVars
    BY <2>1, <2>3 DEF ChainInv, DiskLoads, ChainIntact, diskVars
  <2> QED BY <1>1, <2>2, <2>3
<1>4. faults' = 0 => faults = 0 /\ SaveLedger(chain, tip)
  BY <1>1, NodeAssumption DEF ChainInv, LedgerTypeOK
<1>5. LedgerAtBest' /\ DiskCurrent'
  BY <1>2, <1>4 DEF ChainInv, LedgerAtBest, DiskCurrent, SaveLedger, ledgerVars
<1>6. ForkChoiceSound' /\ LedgerIsBranch' /\ BestUnbeaten'
  BY DEF ChainInv, ForkChoiceSound, LedgerIsBranch, BestUnbeaten, ledgerVars
<1> QED BY <1>3, <1>5, <1>6 DEF ChainInv

\* And a restart; without a failed write it finds everything as it was.
LEMMA RestartChainInv ==
  ASSUME ChainInv, Restart
  PROVE  ChainInv' /\ (faults = 0 => UNCHANGED ledgerVars)
<1>1. Indexed = {b \in storedBlocks : Ancestors[b] \subseteq storedBlocks}
  BY DEF Indexed, ChainInv, DiskLoads, ChainIntact
<1>2. storedTip \in Indexed
  <2>1. storedTip \in Ancestors[storedTip]
    BY SelfAncestor DEF ChainInv, LedgerTypeOK
  <2> QED BY <1>1, <2>1 DEF ChainInv, DiskLoads, ChainIntact
<1>3. ASSUME NEW b \in Indexed PROVE Ancestors[b] \subseteq Indexed
  BY <1>1, <1>3, AncestorsAssumption DEF ChainInv, LedgerTypeOK
<1>4. faults = 0 => UNCHANGED ledgerVars
  <2> SUFFICES ASSUME faults = 0 PROVE UNCHANGED ledgerVars
    OBVIOUS
  <2>1. storedBlocks = forkChoice /\ storedTip = tip /\ storedTip = best
    BY DEF ChainInv, DiskCurrent, LedgerAtBest
  <2>2. Indexed = forkChoice
    BY <1>1, <2>1 DEF ChainInv, ForkChoiceSound
  <2>3. best' = best
    BY <2>1, <2>2 DEF Restart, ChainInv, BestUnbeaten
  <2>4. storedChain = chain /\ cache = chain
    BY <2>1 DEF ChainInv, DiskLoads, ChainIntact, LedgerIsBranch
  <2> QED BY <2>1, <2>2, <2>3, <2>4 DEF Restart, ledgerVars
<1>5. LedgerTypeOK'
  BY DEF Restart, Indexed, ChainInv, LedgerTypeOK, diskVars
<1>6. ForkChoiceSound' /\ LedgerIsBranch' /\ BestUnbeaten' /\ DiskLoads'
  BY <1>1, <1>2, <1>3 DEF Restart, ChainInv, DiskLoads, ChainIntact, ForkChoiceSound,
       LedgerIsBranch,
    BestUnbeaten, diskVars
<1>7. LedgerAtBest' /\ DiskCurrent'
  BY <1>4 DEF Restart, ChainInv, LedgerAtBest, DiskCurrent, ledgerVars, diskVars
<1> QED BY <1>4, <1>5, <1>6, <1>7 DEF ChainInv

coreVars == <<ledgerVars, diskVars, faults>>

\* Every step connects one validated block, flushes, restarts, or leaves the
\* fork choice, the ledger and the disk alone.
LEMMA StepEffect ==
  ASSUME [Next]_vars
  PROVE  \/ \E b \in Blocks, ok \in BOOLEAN : Verdict(b) = "insert" /\ InsertBlock(b, ok)
         \/ \E ok \in BOOLEAN : Write(ok, SaveLedger(chain, tip)) /\ UNCHANGED ledgerVars
         \/ Restart
         \/ UNCHANGED coreVars
<1> USE DEF coreVars
<1>1. ASSUME NEW b \in Blocks, NEW h \in Blocks, NEW who \in Threads, ApplyBlock(b, who, h)
      PROVE  \/ \E ok \in BOOLEAN : Verdict(b) = "insert" /\ InsertBlock(b, ok)
             \/ UNCHANGED coreVars
  BY <1>1 DEF ApplyBlock, ApplyConnected, ApplyUnsaved, ApplyOrphan, ApplyDuplicate, ApplyInvalid
<1>2. ASSUME NEW b \in Blocks, TakeChildren(b) \/ ConnectChild(b) \/ RequestFails(b)
      PROVE  \/ \E ok \in BOOLEAN : Verdict(b) = "insert" /\ InsertBlock(b, ok)
             \/ UNCHANGED coreVars
  BY <1>2 DEF TakeChildren, ConnectChild, RequestFails
<1>3. ASSUME NEW ok \in BOOLEAN, Return(ok) \/ Flush(ok)
      PROVE  \/ Write(ok, SaveLedger(chain, tip)) /\ UNCHANGED ledgerVars
             \/ UNCHANGED coreVars
  BY <1>3 DEF Return, Flush
<1>4. CASE Drain \/ Tick \/ UNCHANGED vars
  BY <1>4 DEF Drain, Tick, vars
<1> QED BY <1>1, <1>2, <1>3, <1>4 DEF Next

\* ChainInv is inductive.
LEMMA ChainInvStep ==
  ASSUME ChainInv, [Next]_vars
  PROVE  ChainInv'
<1>1. ASSUME UNCHANGED coreVars PROVE ChainInv'
  BY <1>1 DEF coreVars, ledgerVars, diskVars, ChainInv, LedgerTypeOK, ForkChoiceSound,
    LedgerIsBranch, BestUnbeaten, LedgerAtBest, DiskLoads, ChainIntact, DiskCurrent
<1> QED BY <1>1, StepEffect, InsertChainInv, FlushChainInv, RestartChainInv

\* The fork choice, the ledger and the disk satisfy their invariant in every
\* reachable state.
THEOREM ChainSafe == Spec => []ChainInv
<1>1. Init => ChainInv
  <2> SUFFICES ASSUME Init PROVE ChainInv
    OBVIOUS
  <2>1. LedgerTypeOK
    BY InitLedgerType
  <2>2. /\ ForkChoiceSound
        /\ LedgerIsBranch
    BY TreeAssumption, AncestorsAssumption DEF Init, ForkChoiceSound, LedgerIsBranch
  <2>3. BestUnbeaten
    BY TreeAssumption, BetterAssumption DEF Init, BestUnbeaten
  <2>4. LedgerAtBest /\ DiskCurrent
    BY DEF Init, LedgerAtBest, DiskCurrent
  <2>5. DiskLoads
    BY TreeAssumption, AncestorsAssumption DEF Init, DiskLoads, ChainIntact
  <2> QED BY <2>1, <2>2, <2>3, <2>4, <2>5 DEF ChainInv
<1> QED BY <1>1, ChainInvStep, PTL DEF Spec

\* No order of arrival, failed write or restart puts an invalid block, or one
\* without its whole branch, into the fork choice.
THEOREM ForkChoiceIsSound == Spec => []ForkChoiceSound
BY ChainSafe, PTL DEF ChainInv

\* The ledger is exactly the branch of its tip, and the cache serves it.
THEOREM LedgerIsOneBranch == Spec => []LedgerIsBranch
BY ChainSafe, PTL DEF ChainInv

\* Without a failed write the ledger stands on the best tip, whatever rule
\* breaks ties.
THEOREM LedgerFollowsBest == Spec => []LedgerAtBest
BY ChainSafe, PTL DEF ChainInv

\* The database can be loaded at any moment, even after failed writes.
THEOREM DiskAlwaysLoads == Spec => []DiskLoads
BY ChainSafe, PTL DEF ChainInv

\* Without a failed write the database holds every accepted block and the
\* ledger's tip, even in the middle of connecting orphans.
THEOREM DiskIsCurrent == Spec => []DiskCurrent
BY ChainSafe, PTL DEF ChainInv

\* A crash and a restart change nothing that was accepted.
THEOREM RestartKeeps == Spec => RestartKeepsChain
<1>1. ChainInv /\ [Next]_vars => [Restart /\ faults = 0 => UNCHANGED ledgerVars]_vars
  BY RestartChainInv
<1> QED BY <1>1, ChainSafe, PTL DEF Spec, RestartKeepsChain

\* The ledger's tip moves only to a better block.
THEOREM TipOnlyImproves == Spec => TipImproves
<1> DEFINE Improves == tip' # tip => <<tip', tip>> \in Better \/ (Restart /\ faults > 0)
<1>1. ChainInv /\ [Next]_vars => [Improves]_vars
  <2> SUFFICES ASSUME ChainInv, [Next]_vars, tip' # tip
               PROVE  <<tip', tip>> \in Better \/ (Restart /\ faults > 0)
    BY DEF vars, ledgerVars
  <2>1. CASE \E b \in Blocks, ok \in BOOLEAN : Verdict(b) = "insert" /\ InsertBlock(b, ok)
    <3>1. PICK b \in Blocks, ok \in BOOLEAN : Verdict(b) = "insert" /\ InsertBlock(b, ok)
      BY <2>1
    <3>2. b # Genesis
      BY <3>1 DEF Verdict, StateOk
    <3>3. <<b, best>> \in Better /\ tip' = b
      BY <3>1, <3>2, InsertEffect DEF ChainInv
    <3>4. <<tip, best>> \notin Better /\ tip \in Blocks /\ best \in Blocks
      BY DEF ChainInv, BestUnbeaten, LedgerIsBranch, LedgerTypeOK
    <3> QED BY <3>3, <3>4, BetterAssumption
  <2>2. CASE Restart
    <3>1. faults # 0
      BY <2>2, RestartChainInv DEF ledgerVars
    <3>2. faults \in Nat
      BY NodeAssumption DEF ChainInv, LedgerTypeOK
    <3> QED BY <2>2, <3>1, <3>2
  <2> QED BY <2>1, <2>2, StepEffect DEF coreVars, ledgerVars
<1> QED BY <1>1, ChainSafe, PTL DEF Spec, TipImproves

-----------------------------------------------------------------------------
\* The genesis accounts are on disk and in memory.
GenesisKept == storedGenesis /\ genesisKnown

\* A valid block on a known parent is never refused by apply_block, at any
\* height, after any number of restarts, and also when the first start was cut
\* short between its two transactions.
THEOREM ValidAccepted == Spec => []ValidBlockAccepted
<1>1. Init => GenesisKept
  BY HeightAssumption DEF Init, GenesisKept, SavesGenesis
<1>2. GenesisKept /\ [Next]_vars => GenesisKept'
  <2> SUFFICES ASSUME GenesisKept, [Next]_vars
               PROVE  GenesisKept'
    OBVIOUS
  <2>1. genesisKnown'
    <3>1. ASSUME NEW b \in Blocks, NEW h \in Blocks, NEW who \in Threads, ApplyBlock(b, who, h)
          PROVE  genesisKnown' = genesisKnown
      BY <3>1 DEF ApplyBlock, ApplyConnected, ApplyUnsaved, ApplyOrphan, ApplyDuplicate,
                  ApplyInvalid
    <3>2. ASSUME NEW b \in Blocks, TakeChildren(b) \/ ConnectChild(b) \/ RequestFails(b)
          PROVE  genesisKnown' = genesisKnown
      BY <3>2 DEF TakeChildren, ConnectChild, RequestFails
    <3>3. ASSUME NEW ok \in BOOLEAN, Return(ok) \/ Flush(ok)
          PROVE  genesisKnown' = genesisKnown
      BY <3>3 DEF Return, Flush
    <3>4. CASE Drain \/ Tick \/ UNCHANGED vars
      BY <3>4 DEF Drain, Tick, vars, GenesisKept
    <3>5. CASE Restart
      BY <3>5 DEF Restart, GenesisLoaded, GenesisKept
    <3> QED BY <3>1, <3>2, <3>3, <3>4, <3>5 DEF Next, GenesisKept
  <2>2. ASSUME NEW ch, NEW t, SaveLedger(ch, t)
        PROVE  storedGenesis'
    BY <2>2 DEF SaveLedger, GenesisKept
  <2>3. ASSUME NEW b, SaveSideBlock(b)
        PROVE  storedGenesis'
    BY <2>3 DEF SaveSideBlock, GenesisKept
  <2>4. ASSUME UNCHANGED diskVars
        PROVE  storedGenesis'
    BY <2>4 DEF diskVars, GenesisKept
  <2>5. storedGenesis'
    <3>1. CASE \E b \in Blocks, ok \in BOOLEAN : Verdict(b) = "insert" /\ InsertBlock(b, ok)
      <4>1. PICK b \in Blocks, ok \in BOOLEAN : InsertBlock(b, ok)
        BY <3>1
      <4>2. \/ SaveSideBlock(b)
            \/ SaveLedger(chain \cup {b}, b)
            \/ SaveLedger(Ancestors[b], b)
            \/ UNCHANGED diskVars
        BY <4>1 DEF InsertBlock, SideBlock, ExtendTip, Reorg, Write
      <4> QED BY <2>2, <2>3, <2>4, <4>2
    <3>2. CASE \E ok \in BOOLEAN : Write(ok, SaveLedger(chain, tip)) /\ UNCHANGED ledgerVars
      BY <2>2, <2>4, <3>2 DEF Write
    <3>3. CASE Restart
      BY <2>4, <3>3 DEF Restart
    <3>4. CASE UNCHANGED coreVars
      BY <2>4, <3>4 DEF coreVars
    <3> QED BY <3>1, <3>2, <3>3, <3>4, StepEffect
  <2> QED BY <2>1, <2>5 DEF GenesisKept
<1>3. GenesisKept => ValidBlockAccepted
  BY TreeAssumption
  DEF GenesisKept, ValidBlockAccepted, Verdict, HeaderOk, StateOk
<1> QED BY <1>1, <1>2, <1>3, PTL DEF Spec

(******************************* refinement ********************************)

\* Connecting a block is Follower's Adopt: the ledger moves to it exactly when
\* it beats every accepted block.
LEMMA InsertAdopts ==
  ASSUME ChainInv, NEW b \in Blocks, NEW ok \in BOOLEAN, Verdict(b) = "insert",
         InsertBlock(b, ok)
  PROVE  Abstract!Adopt(b)
<1>1. /\ b # Genesis /\ b \in Valid
      /\ Parent[b] \in forkChoice
      /\ b \notin forkChoice
  BY DEF Verdict, StateOk
<1>2. /\ forkChoice' = forkChoice \cup {b}
      /\ \/ <<b, best>> \notin Better /\ UNCHANGED <<best, tip, chain, cache>>
         \/ /\ <<b, best>> \in Better
            /\ best' = b /\ tip' = b /\ chain' = Ancestors[b] /\ cache' = Ancestors[b]
      /\ faults' = faults \/ faults' # 0
      /\ \/ faults' # 0 /\ UNCHANGED diskVars
         \/ IF <<b, best>> \in Better THEN SaveLedger(Ancestors[b], b) ELSE SaveSideBlock(b)
  BY <1>1, InsertEffect DEF ChainInv
<1>3. <<b, best>> \in Better <=> \A c \in forkChoice : <<b, c>> \in Better
  <2>1. best \in forkChoice /\ forkChoice \subseteq Blocks
    BY DEF ChainInv, BestUnbeaten, LedgerTypeOK
  <2>2. ASSUME <<b, best>> \in Better, NEW c \in forkChoice PROVE <<b, c>> \in Better
    <3>1. <<c, best>> \notin Better /\ b \in Blocks /\ c \in Blocks /\ best \in Blocks
      BY <2>1 DEF ChainInv, BestUnbeaten
    <3> QED BY <2>2, <3>1, BetterAssumption
  <2> QED BY <2>1, <2>2
<1>4. tip' = IF \A c \in forkChoice : <<b, c>> \in Better THEN b ELSE tip
  BY <1>2, <1>3
<1>5. ChainInv'
  BY InsertChainInv
<1>6. /\ storedBlocks \subseteq storedBlocks'
      /\ storedBlocks' \subseteq storedBlocks \cup forkChoice'
      /\ storedTip' \in {storedTip, tip'}
  <2>1. b \in forkChoice' /\ Ancestors[b] \subseteq forkChoice'
    BY <1>2, <1>5 DEF ChainInv, ForkChoiceSound
  <2>2. CASE <<b, best>> \in Better /\ SaveLedger(Ancestors[b], b)
    BY <1>2, <2>1, <2>2 DEF SaveLedger
  <2>3. CASE SaveSideBlock(b)
    BY <2>1, <2>3 DEF SaveSideBlock
  <2>4. CASE UNCHANGED diskVars
    BY <2>4 DEF diskVars
  <2> QED BY <1>2, <2>2, <2>3, <2>4
<1>7. Ancestors[storedTip'] \subseteq storedBlocks'
  BY <1>5 DEF ChainInv, DiskLoads, ChainIntact
<1>8. /\ faults > 0 => faults' > 0
      /\ ~(faults' > 0) => storedBlocks' = forkChoice' /\ storedTip' = tip'
  <2>1. faults \in Nat /\ faults' \in Nat
    <3>1. LedgerTypeOK /\ LedgerTypeOK'
      BY <1>5 DEF ChainInv
    <3> QED BY <3>1, NodeAssumption DEF LedgerTypeOK
  <2>2. faults' = 0 => storedBlocks' = forkChoice' /\ storedTip' = tip'
    BY <1>5 DEF ChainInv, DiskCurrent
  <2>3. faults' = faults \/ faults' # 0
    BY <1>2
  <2>4. (faults > 0 => faults' > 0) /\ (~(faults' > 0) => faults' = 0)
    BY <2>1, <2>3
  <2> QED BY <2>2, <2>4
<1>9. Abstract!Persist
  BY <1>6, <1>7, <1>8 DEF Abstract!Persist
<1> QED BY <1>1, <1>2, <1>4, <1>9 DEF Abstract!Adopt

\* Flushing is its Save.
LEMMA FlushSaves ==
  ASSUME ChainInv, NEW ok \in BOOLEAN, Write(ok, SaveLedger(chain, tip)), UNCHANGED ledgerVars
  PROVE  Abstract!Save
<1>1. ChainInv'
  BY FlushChainInv
<1>2. SaveLedger(chain, tip) \/ UNCHANGED diskVars
  BY DEF Write
<1>3. /\ storedBlocks \subseteq storedBlocks'
      /\ storedBlocks' \subseteq storedBlocks \cup forkChoice'
      /\ storedTip' \in {storedTip, tip'}
  <2>1. chain \subseteq forkChoice' /\ tip' = tip
    BY DEF ChainInv, LedgerIsBranch, ForkChoiceSound, ledgerVars
  <2>2. CASE SaveLedger(chain, tip)
    BY <2>1, <2>2 DEF SaveLedger
  <2>3. CASE UNCHANGED diskVars
    BY <2>3 DEF diskVars
  <2> QED BY <1>2, <2>2, <2>3
<1>4. Ancestors[storedTip'] \subseteq storedBlocks'
  BY <1>1 DEF ChainInv, DiskLoads, ChainIntact
<1>5. /\ faults > 0 => faults' > 0
      /\ ~(faults' > 0) => storedBlocks' = forkChoice' /\ storedTip' = tip'
  <2>1. faults \in Nat /\ faults' \in Nat /\ faults' \in {faults, faults + 1}
    <3>1. faults \in Nat /\ faults' \in Nat
      <4>1. LedgerTypeOK /\ LedgerTypeOK'
        BY <1>1 DEF ChainInv
      <4>2. faults \in 0..MaxFaults /\ faults' \in 0..MaxFaults
        BY <4>1, Zenon DEF LedgerTypeOK
      <4> QED BY <4>2, NodeAssumption
    <3>2. faults' = faults \/ (faults' = faults + 1 /\ faults < MaxFaults)
      <4>1. CASE ok
        BY <4>1 DEF Write
      <4>2. CASE ~ok
        BY <4>2 DEF Write
      <4> QED BY <4>1, <4>2
    <3> QED BY <3>1, <3>2
  <2>2. faults' = 0 => storedBlocks' = forkChoice' /\ storedTip' = tip'
    BY <1>1 DEF ChainInv, DiskCurrent
  <2> QED BY <2>1, <2>2
<1>6. Abstract!Persist
  BY <1>3, <1>4, <1>5 DEF Abstract!Persist
<1> QED BY <1>6 DEF Abstract!Save, ledgerVars

\* Whatever apply_block, flush_to_storage and init_or_load do to the fork choice,
\* the ledger and the database is a step of Follower, for any number of failed
\* writes and with a crash at any point.
THEOREM NodeImplementsFollower == Spec => ImplementsFollower
<1>1. Init => Abstract!Init
  BY DEF Init, Abstract!Init
<1>2. ChainInv /\ [Next]_vars => [Abstract!Next]_(Abstract!followerVars)
  <2> SUFFICES ASSUME ChainInv, [Next]_vars
               PROVE  Abstract!Next \/ UNCHANGED Abstract!followerVars
    OBVIOUS
  <2>1. CASE \E b \in Blocks, ok \in BOOLEAN : Verdict(b) = "insert" /\ InsertBlock(b, ok)
    <3>1. PICK b \in Blocks, ok \in BOOLEAN : Verdict(b) = "insert" /\ InsertBlock(b, ok)
      BY <2>1
    <3>2. b # Genesis
      BY <3>1 DEF Verdict
    <3>3. Abstract!Adopt(b)
      BY <3>1, InsertAdopts
    <3> QED BY <3>2, <3>3 DEF Abstract!Next
  <2>2. CASE \E ok \in BOOLEAN : Write(ok, SaveLedger(chain, tip)) /\ UNCHANGED ledgerVars
    BY <2>2, FlushSaves DEF Abstract!Next
  <2>3. CASE Restart
    <3>1. Indexed = {b \in storedBlocks : Ancestors[b] \subseteq storedBlocks}
      BY DEF Indexed, ChainInv, DiskLoads, ChainIntact
    <3>2. Abstract!Recover
      BY <2>3, <3>1 DEF Restart, diskVars, Abstract!Recover, Abstract!Linked
    <3> QED BY <3>2 DEF Abstract!Next
  <2>4. CASE UNCHANGED coreVars
    BY <2>4 DEF coreVars, ledgerVars, diskVars, Abstract!followerVars
  <2> QED BY <2>1, <2>2, <2>3, <2>4, StepEffect
<1> QED BY <1>1, <1>2, ChainSafe, PTL DEF Spec, ImplementsFollower, Abstract!Spec
=============================================================================
