-------------------------- MODULE NodeOrphanProofs --------------------------
(* Theorems about the orphan pool of Node: the child index is exact, the loop *)
(* that connects orphans leaves none behind, and the pool stays bounded.      *)
EXTENDS NodeProofs, FiniteSetTheorems, WellFoundedInduction

\* While the loop runs, every orphan whose parent has been connected is listed
\* under a block the loop still has to visit.
NoneLeftBehind ==
  faults = 0 =>
    \A o \in orphans \ batch : Parent[o] \in forkChoice => Parent[o] \in parents

\* The inductive invariant of the pool.
PoolInv ==
  /\ OrphanIndexExact
  /\ BatchConnects
  /\ parents \subseteq forkChoice
  /\ holder = "none" => parents = {} /\ batch = {}
  /\ NoneLeftBehind

\* Pruning the pool while no loop runs keeps the index exact.
LEMMA KeepIndex ==
  ASSUME TypeOK, OrphanIndexExact, batch = {}, batch' = {},
         NEW kept \in SUBSET orphans, KeepOrphans(kept)
  PROVE  OrphanIndexExact' /\ orphans' = kept
<1>1. orphans' = kept /\ children' = [p \in Blocks |-> children[p] \ (orphans \ kept)]
  BY DEF KeepOrphans
<1>2. ASSUME NEW p \in Blocks PROVE children'[p] = {o \in kept : Parent[o] = p}
  BY <1>1 DEF OrphanIndexExact
<1> QED BY <1>1, <1>2 DEF OrphanIndexExact

\* An error changes neither the fork choice (when the block was not connected)
\* nor the loop, and leaves the pool pruned.
LEMMA PruneStep ==
  ASSUME TypeOK, PoolInv, holder = "none", NEW kept \in SUBSET orphans, KeepOrphans(kept),
         UNCHANGED <<forkChoice, faults>>,
         UNCHANGED <<parents, batch>>
  PROVE  PoolInv'
<1>1. parents = {} /\ batch = {}
  BY DEF PoolInv
<1>2. OrphanIndexExact' /\ orphans' = kept
  BY <1>1, KeepIndex DEF PoolInv
<1> QED BY <1>1, <1>2 DEF PoolInv, BatchConnects, NoneLeftBehind

\* PoolInv is inductive.
LEMMA PoolInvStep ==
  ASSUME TypeOK, ChainInv, PoolInv, [Next]_vars
  PROVE  PoolInv'
<1> DEFINE kept == Unexpired(orphans, tip)
<1>k. kept \subseteq orphans
  BY UnexpiredSubset
<1>n. ASSUME holder = "none" PROVE parents = {} /\ batch = {}
  BY <1>n DEF PoolInv
<1>f. ASSUME NEW b \in Blocks \ {Genesis}, NEW ok \in BOOLEAN, InsertBlock(b, ok)
      PROVE  /\ forkChoice' = forkChoice \cup {b}
             /\ faults' = 0 => faults = 0
             /\ ~ok => faults' # 0
  <2>1. /\ forkChoice' = forkChoice \cup {b}
        /\ faults' = faults \/ faults' # 0
    BY <1>f, InsertEffect DEF ChainInv
  <2>2. ~ok => faults' = faults + 1
    BY <1>f DEF InsertBlock, SideBlock, ExtendTip, Reorg, Write
  <2> QED BY <2>1, <2>2, NodeAssumption DEF ChainInv, LedgerTypeOK
<1>1. ASSUME NEW b \in Blocks, NEW h \in Blocks, NEW who \in Threads, ApplyConnected(b, who, h)
      PROVE  PoolInv'
  <2>1. parents = {} /\ batch = {} /\ parents' = {b} /\ batch' = {}
    BY <1>1, <1>n DEF ApplyConnected, MayDeliver, Enter
  <2>2. b # Genesis
    BY <1>1 DEF ApplyConnected, Verdict, StateOk
  <2>3. forkChoice' = forkChoice \cup {b} /\ (faults' = 0 => faults = 0)
    BY <1>1, <1>f, <2>2 DEF ApplyConnected
  <2> DEFINE still == Unexpired(kept, tip')
  <2>4. still \subseteq orphans
    BY <1>k, UnexpiredSubset
  <2>5. OrphanIndexExact' /\ orphans' = still
    BY <1>1, <2>1, <2>4, KeepIndex DEF ApplyConnected, PoolInv
  <2>6. NoneLeftBehind'
    BY <2>1, <2>3, <2>4, <2>5 DEF PoolInv, NoneLeftBehind
  <2> QED BY <1>1, <2>1, <2>3, <2>5, <2>6
      DEF PoolInv, BatchConnects, ApplyConnected, Enter, Threads
<1>2. ASSUME NEW b \in Blocks, NEW h \in Blocks, NEW who \in Threads, ApplyUnsaved(b, who, h)
      PROVE  PoolInv'
  <2>1. parents = {} /\ batch = {} /\ parents' = {} /\ batch' = {}
    BY <1>2, <1>n DEF ApplyUnsaved, MayDeliver, loopVars
  <2>2. b # Genesis
    BY <1>2 DEF ApplyUnsaved, Verdict, StateOk
  <2>3. faults' # 0
    BY <1>2, <1>f, <2>2 DEF ApplyUnsaved
  <2>4. OrphanIndexExact'
    BY <1>2, <1>k, <2>1, KeepIndex DEF ApplyUnsaved, PoolInv
  <2> QED BY <2>1, <2>3, <2>4 DEF PoolInv, BatchConnects, NoneLeftBehind
<1>3. ASSUME NEW b \in Blocks, NEW h \in Blocks, NEW who \in Threads, ApplyOrphan(b, who, h)
      PROVE  PoolInv'
  <2>1. parents = {} /\ batch = {} /\ parents' = {} /\ batch' = {}
    BY <1>3, <1>n DEF ApplyOrphan, MayDeliver, Enter
  <2>2. b # Genesis /\ Parent[b] \notin forkChoice /\ forkChoice' = forkChoice /\ faults' = faults
    BY <1>3 DEF ApplyOrphan, Verdict, StateOk, ledgerVars
  <2>3. CASE TooFarAhead(b, tip) \/ b \in kept
    <3>1. KeepOrphans(kept)
      BY <1>3, <2>3 DEF ApplyOrphan, CacheOrphan
    <3>2. OrphanIndexExact' /\ orphans' = kept
      BY <1>k, <2>1, <3>1, KeepIndex DEF PoolInv
    <3> QED BY <1>k, <2>1, <2>2, <3>2 DEF PoolInv, BatchConnects, NoneLeftBehind
  <2>4. CASE ~(TooFarAhead(b, tip) \/ b \in kept)
    <3> DEFINE room == kept \ Evicted(kept)
    <3>1. /\ orphans' = room \cup {b}
          /\ children' = [p \in Blocks |->
                            (children[p] \ (orphans \ room))
                              \cup (IF p = Parent[b] THEN {b} ELSE {})]
      BY <1>3, <2>4 DEF ApplyOrphan, CacheOrphan
    <3>2. room \subseteq orphans
      BY <1>k
    <3> HIDE DEF room
    <3>3. OrphanIndexExact'
      <4> SUFFICES ASSUME NEW p \in Blocks
                   PROVE  children'[p] = {o \in room \cup {b} : Parent[o] = p}
        BY <2>1, <3>1 DEF OrphanIndexExact
      <4>1. children[p] = {o \in orphans : Parent[o] = p}
        BY <2>1 DEF PoolInv, OrphanIndexExact
      <4>2. children'[p] = (children[p] \ (orphans \ room))
                             \cup (IF p = Parent[b] THEN {b} ELSE {})
        BY <3>1
      <4> QED BY <3>2, <4>1, <4>2
    <3> QED BY <2>1, <2>2, <3>1, <3>2, <3>3 DEF PoolInv, BatchConnects, NoneLeftBehind
  <2> QED BY <2>3, <2>4
<1>4. ASSUME NEW b \in Blocks, NEW h \in Blocks, NEW who \in Threads,
             ApplyDuplicate(b, who, h) \/ ApplyInvalid(b, who, h)
      PROVE  PoolInv'
  <2>1. /\ holder = "none" /\ KeepOrphans(kept)
        /\ UNCHANGED <<forkChoice, faults>>
    BY <1>4 DEF ApplyDuplicate, ApplyInvalid, MayDeliver, ledgerVars
  <2>2. UNCHANGED <<parents, batch>>
    BY <1>4, <1>n, <2>1 DEF ApplyDuplicate, ApplyInvalid, Enter, loopVars
  <2> QED BY <1>k, <2>1, <2>2, PruneStep
<1>5. ASSUME NEW p \in Blocks, TakeChildren(p)
      PROVE  PoolInv'
  <2>1. /\ batch = {} /\ p \in parents
        /\ parents' = parents \ {p}
        /\ batch' = children[p]
        /\ children' = [children EXCEPT ![p] = {}]
        /\ UNCHANGED <<orphans, forkChoice, faults, holder>>
    BY <1>5 DEF TakeChildren, ledgerVars
  <2>2. children[p] = {o \in orphans : Parent[o] = p}
    BY <2>1 DEF PoolInv, OrphanIndexExact
  <2>3. OrphanIndexExact'
    <3> SUFFICES ASSUME NEW q \in Blocks
                 PROVE  children'[q] = {o \in orphans \ children[p] : Parent[o] = q}
      BY <2>1 DEF OrphanIndexExact
    <3>1. children[q] = {o \in orphans : Parent[o] = q}
      BY <2>1 DEF PoolInv, OrphanIndexExact
    <3>2. children'[q] = IF q = p THEN {} ELSE children[q]
      BY <2>1 DEF TypeOK, PoolTypeOK
    <3> QED BY <2>2, <3>1, <3>2
  <2>4. BatchConnects'
    BY <2>1, <2>2 DEF PoolInv, BatchConnects
  <2>5. NoneLeftBehind'
    BY <2>1, <2>2 DEF PoolInv, NoneLeftBehind
  <2>6. holder # "none"
    BY <1>n, <2>1
  <2> QED BY <2>1, <2>3, <2>4, <2>5, <2>6 DEF PoolInv
<1>6. ASSUME NEW c \in Blocks, ConnectChild(c)
      PROVE  PoolInv'
  <2>1. c \in batch /\ batch' = batch \ {c} /\ holder' = holder /\ KeepOrphans(orphans \ {c})
    BY <1>6 DEF ConnectChild
  <2>2. c \in orphans /\ c # Genesis /\ holder # "none"
    BY <1>n, <2>1 DEF PoolInv, BatchConnects, TypeOK, PoolTypeOK
  <2>3. /\ orphans' = orphans \ {c}
        /\ children' = [p \in Blocks |-> children[p] \ (orphans \ (orphans \ {c}))]
    BY <2>1 DEF KeepOrphans
  <2>4. OrphanIndexExact'
    <3> SUFFICES ASSUME NEW p \in Blocks
                 PROVE  children'[p] = {o \in (orphans \ {c}) \ (batch \ {c}) : Parent[o] = p}
      BY <2>1, <2>3 DEF OrphanIndexExact
    <3>1. children[p] = {o \in orphans \ batch : Parent[o] = p}
      BY DEF PoolInv, OrphanIndexExact
    <3>2. children'[p] = children[p] \ {c}
      BY <2>2, <2>3
    <3> QED BY <2>1, <3>1, <3>2
  <2>5. \/ /\ forkChoice' = forkChoice \cup {c}
           /\ parents' = parents \cup {c} /\ (faults' = 0 => faults = 0)
        \/ /\ forkChoice' = forkChoice \cup {c}
           /\ parents' = parents /\ faults' # 0
        \/ UNCHANGED <<forkChoice, parents, faults>>
    BY <1>6, <1>f, <2>2 DEF ConnectChild, ledgerVars
  <2>6. NoneLeftBehind'
    BY <2>1, <2>3, <2>5 DEF PoolInv, NoneLeftBehind
  <2>7. BatchConnects' /\ parents' \subseteq forkChoice'
    BY <2>1, <2>3, <2>5 DEF PoolInv, BatchConnects
  <2> QED BY <2>1, <2>2, <2>4, <2>6, <2>7 DEF PoolInv
<1>7. ASSUME NEW ok \in BOOLEAN, Return(ok) \/ Flush(ok)
      PROVE  PoolInv'
  <2>1. /\ UNCHANGED <<forkChoice, orphans, children, parents, batch>>
        /\ holder' = "none" /\ parents = {} /\ batch = {}
    BY <1>7, <1>n DEF Return, Flush, ledgerVars, orphanVars, loopVars
  <2>2. faults' = 0 => faults = 0
    BY <1>7, NodeAssumption DEF Return, Flush, Write, ChainInv, LedgerTypeOK
  <2> QED BY <2>1, <2>2 DEF PoolInv, OrphanIndexExact, BatchConnects, NoneLeftBehind
<1>8. ASSUME Drain \/ Tick \/ UNCHANGED vars \/ \E h \in Blocks : RequestFails(h)
      PROVE  PoolInv'
  <2>1. UNCHANGED <<forkChoice, orphans, children, parents, batch, holder, faults>>
    BY <1>8 DEF Drain, Tick, RequestFails, vars, ledgerVars, orphanVars, loopVars
  <2> QED BY <2>1 DEF PoolInv, OrphanIndexExact, BatchConnects, NoneLeftBehind
<1>9. CASE Restart
  BY <1>9 DEF Restart, PoolInv, OrphanIndexExact, BatchConnects, NoneLeftBehind
<1> QED
  BY <1>1, <1>2, <1>3, <1>4, <1>5, <1>6, <1>7, <1>8, <1>9 DEF Next, ApplyBlock

\* The pool satisfies its invariant in every reachable state.
THEOREM PoolSafe == Spec => []PoolInv
<1>1. Init => PoolInv
  BY DEF Init, PoolInv, OrphanIndexExact, BatchConnects, NoneLeftBehind
<1>2. TypeOK /\ ChainInv /\ PoolInv /\ [Next]_vars => PoolInv'
  BY PoolInvStep
<1> QED BY <1>1, <1>2, TypeCorrect, ChainSafe, PTL DEF Spec

\* Neither expiry, eviction nor connection leaves the child index and the pool
\* in disagreement.
THEOREM IndexIsExact == Spec => []OrphanIndexExact
BY PoolSafe, PTL DEF PoolInv

\* The arms of process_orphans_for_parent for a vanished child and for a child
\* with a missing parent are dead code.
THEOREM BatchAlwaysConnects == Spec => []BatchConnects
BY PoolSafe, PTL DEF PoolInv

\* Without a failed write, apply_block leaves no orphan waiting for a parent the
\* node already has, however deep the chain of orphans.
THEOREM NoOrphanStranded == Spec => []NoStrandedOrphan
<1>1. PoolInv => NoStrandedOrphan
  BY DEF PoolInv, NoneLeftBehind, NoStrandedOrphan
<1> QED BY <1>1, PoolSafe, PTL

\* A full pool gives up exactly one orphan.
LEMMA EvictedOne ==
  ASSUME NEW held \in SUBSET Blocks, Cardinality(held) >= MaxOrphans, IsFiniteSet(held)
  PROVE  \E o \in held : Evicted(held) = {o}
<1>1. held # {}
  BY FS_EmptySet, NodeAssumption
<1>2. held \subseteq Nat
  BY TreeAssumption
<1>3. \E o \in held : \A p \in held : ~(<<p, o>> \in OpToRel(<, Nat))
  BY <1>1, <1>2, NatLessThanWellFounded, WFMin, Zenon
<1>4. \E o \in held : \A p \in held : o <= p
  <2>1. PICK o \in held : \A p \in held : ~(<<p, o>> \in OpToRel(<, Nat))
    BY <1>3, Zenon
  <2>2. \A p \in held : ~(p < o)
    BY <1>2, <2>1, Zenon DEF OpToRel
  <2>3. \A p \in held : o <= p
    BY <1>2, <2>2
  <2> QED BY <2>3
<1>5. Cardinality(held) \in Nat
  BY FS_CardinalityType
<1> DEFINE first == CHOOSE o \in held : \A p \in held : o <= p
<1>6. first \in held
  BY <1>4
<1>7. Evicted(held) = {first}
  BY <1>5, NodeAssumption DEF Evicted
<1> QED BY <1>6, <1>7

\* A part of a bounded pool is bounded.
LEMMA SubsetBounded ==
  ASSUME TypeOK, OrphansBounded, NEW kept \in SUBSET orphans
  PROVE  IsFiniteSet(kept) /\ Cardinality(kept) \in Nat /\ Cardinality(kept) <= MaxOrphans
<1>1. IsFiniteSet(orphans)
  BY FS_Subset, TreeAssumption DEF TypeOK, PoolTypeOK
<1>2. IsFiniteSet(kept) /\ Cardinality(kept) <= Cardinality(orphans)
  BY <1>1, FS_Subset
<1> QED BY <1>1, <1>2, FS_CardinalityType, NodeAssumption DEF OrphansBounded

\* Eviction makes room for the orphan that is cached.
LEMMA CacheBounded ==
  ASSUME TypeOK, OrphansBounded, NEW b, NEW kept \in SUBSET orphans, CacheOrphan(b, kept)
  PROVE  OrphansBounded'
<1>1. IsFiniteSet(kept) /\ Cardinality(kept) \in Nat /\ Cardinality(kept) <= MaxOrphans
  BY SubsetBounded
<1>2. CASE TooFarAhead(b, tip) \/ b \in kept
  BY <1>1, <1>2 DEF CacheOrphan, KeepOrphans, OrphansBounded
<1>3. CASE ~(TooFarAhead(b, tip) \/ b \in kept)
  <2> DEFINE room == kept \ Evicted(kept)
  <2>1. orphans' = room \cup {b}
    BY <1>3 DEF CacheOrphan
  <2>2. IsFiniteSet(room) /\ Cardinality(room) < MaxOrphans
    <3>1. CASE Cardinality(kept) < MaxOrphans
      <4>1. room = kept
        BY <3>1 DEF Evicted
      <4> QED BY <1>1, <3>1, <4>1
    <3>2. CASE ~(Cardinality(kept) < MaxOrphans)
      <4>1. kept \in SUBSET Blocks
        BY DEF TypeOK, PoolTypeOK
      <4>2. PICK o \in kept : Evicted(kept) = {o}
        BY <1>1, <3>2, <4>1, EvictedOne, NodeAssumption
      <4>3. IsFiniteSet(room) /\ Cardinality(room) = Cardinality(kept) - 1
        BY <1>1, <4>2, FS_RemoveElement
      <4> QED BY <1>1, <4>3, NodeAssumption
    <3> QED BY <3>1, <3>2
  <2> HIDE DEF room
  <2>3. Cardinality(room) \in Nat
    BY <2>2, FS_CardinalityType
  <2>4. Cardinality(room \cup {b}) = IF b \in room THEN Cardinality(room)
                                                  ELSE Cardinality(room) + 1
    BY <2>2, FS_AddElement
  <2> QED BY <2>1, <2>2, <2>3, <2>4, NodeAssumption DEF OrphansBounded
<1> QED BY <1>2, <1>3

\* The orphan pool never exceeds MAX_ORPHAN_BLOCKS.
THEOREM PoolIsBounded == Spec => []OrphansBounded
<1>1. Init => OrphansBounded
  BY FS_EmptySet, NodeAssumption DEF Init, OrphansBounded
<1>2. TypeOK /\ OrphansBounded /\ [Next]_vars => OrphansBounded'
  <2> SUFFICES ASSUME TypeOK, OrphansBounded, [Next]_vars PROVE OrphansBounded'
    OBVIOUS
  <2>1. ASSUME orphans' \subseteq orphans PROVE OrphansBounded'
    BY <2>1, SubsetBounded DEF OrphansBounded
  <2>2. ASSUME NEW b \in Blocks, NEW h \in Blocks, NEW who \in Threads, ApplyOrphan(b, who, h)
        PROVE  OrphansBounded'
    <3>1. Unexpired(orphans, tip) \subseteq orphans
      BY UnexpiredSubset
    <3> QED BY <2>2, <3>1, CacheBounded DEF ApplyOrphan
  <2>3. ASSUME NEW b \in Blocks, NEW h \in Blocks, NEW who \in Threads,
               \/ ApplyConnected(b, who, h) \/ ApplyUnsaved(b, who, h)
               \/ ApplyDuplicate(b, who, h) \/ ApplyInvalid(b, who, h)
        PROVE  orphans' \subseteq orphans
    BY <2>3 DEF ApplyConnected, ApplyUnsaved, ApplyDuplicate, ApplyInvalid, KeepOrphans, Unexpired
  <2>4. ASSUME NEW b \in Blocks, TakeChildren(b) \/ ConnectChild(b) \/ RequestFails(b)
        PROVE  orphans' \subseteq orphans
    BY <2>4 DEF TakeChildren, ConnectChild, RequestFails, KeepOrphans, orphanVars
  <2>5. ASSUME \/ \E ok \in BOOLEAN : Return(ok) \/ Flush(ok)
               \/ Drain \/ Tick \/ Restart \/ UNCHANGED vars
        PROVE  orphans' \subseteq orphans
    BY <2>5 DEF Return, Flush, Drain, Tick, Restart, vars, orphanVars
  <2> QED BY <2>1, <2>2, <2>3, <2>4, <2>5 DEF Next, ApplyBlock
<1> QED BY <1>1, <1>2, TypeCorrect, PTL DEF Spec
=============================================================================
