-------------------------------- MODULE Node --------------------------------
(* runtime/node/node.rs: how a node accepts blocks.                           *)
(*                                                                            *)
(* A block reaches the node from an inbound connection thread or from the     *)
(* main thread (a block synced by height or by hash, or one it mined).  The   *)
(* node mutex is held for the whole of apply_block, including the loop that   *)
(* connects the waiting orphans, so `holder` says which thread is inside it;  *)
(* only the passing of time and a crash can come between two of its steps.    *)
(* A failed LMDB write makes the call return early, in the middle of what it  *)
(* was doing; `faults` counts those failures and MaxFaults bounds them.       *)
EXTENDS BlockTree

CONSTANTS
  MaxOrphans,       \* MAX_ORPHAN_BLOCKS
  MaxOrphanAhead,   \* MAX_ORPHAN_HEIGHT_DISTANCE
  OrphanTTL,        \* ORPHAN_BLOCK_TTL_SECS, in ticks
  RetryDelay,       \* MISSING_PARENT_RETRY_SECS, in ticks
  MaxClock,         \* the clock stops mattering here: bound of `clock`
  MaxFaults         \* bound of `faults`

ASSUME NodeAssumption ==
  /\ MaxOrphans \in Nat \ {0}
  /\ MaxOrphanAhead \in Nat
  /\ OrphanTTL \in Nat
  /\ RetryDelay \in Nat
  /\ MaxClock \in Nat
  /\ MaxFaults \in Nat

VARIABLES
  forkChoice,     \* the blocks the fork choice has indexed
  best,           \* its best tip
  tip,            \* the ledger's tip,
  chain,          \* and the blocks of its chain
  cache,          \* CoreCache: the blocks served by hash
  orphans,        \* orphan_blocks,
  age,            \* time since an orphan was received (0 for a block not held),
  children,       \* and orphan_children_by_parent
  requests,       \* missing_parent_requests (its set and its retry map have the same keys),
  retryIn,        \* time until a request may be sent (0 for a hash not queued),
  inflight,       \* and what the main thread drained and has not been answered
  storedBlocks,   \* LMDB: blocks_by_hash,
  storedChain,    \* blocks_by_height,
  storedTip,      \* the tip,
  storedGenesis,  \* and whether the genesis accounts are there;
  genesisKnown,   \* whether the node has them in memory
  holder,         \* the thread inside apply_block: "none", "inbound", "main"
  current,        \* the hash it was asked for
  parents,        \* process_orphans_for_parent: blocks whose children are still to connect,
  batch,          \* and the children taken out of the index, not yet tried
  clock,
  faults

ledgerVars  == <<forkChoice, best, tip, chain, cache>>
orphanVars  == <<orphans, age, children>>
requestVars == <<requests, retryIn, inflight>>
diskVars    == <<storedBlocks, storedChain, storedTip, storedGenesis>>
loopVars    == <<holder, current, parents, batch>>
vars        == <<ledgerVars, orphanVars, requestVars, diskVars, genesisKnown, loopVars,
                 clock, faults>>

Min2(a, b) == IF a <= b THEN a ELSE b

(******************************** the disk *********************************)

\* Mutant of SavesGenesis: only save_genesis_accounts stores the accounts.
SavesNoGenesis(t) == FALSE

\* A ledger still at its genesis block takes the genesis accounts along.
SavesGenesis(t) == Height[t] = 0

\* Mutant of SaveLedger: the height table is not cleared first.
SaveLedgerOverOld(ch, t) ==
  /\ storedBlocks' = storedBlocks \cup ch
  /\ storedChain' = storedChain \cup ch
  /\ storedTip' = t
  /\ storedGenesis' = (storedGenesis \/ SavesGenesis(t))

\* Storage::save_ledger: one LMDB transaction, so all of it or nothing.  The
\* height table is cleared first, the hash table is not.
SaveLedger(ch, t) ==
  /\ storedBlocks' = storedBlocks \cup ch
  /\ storedChain' = ch
  /\ storedTip' = t
  /\ storedGenesis' = (storedGenesis \/ SavesGenesis(t))

\* Storage::save_side_block: only the hash table.
SaveSideBlock(b) ==
  /\ storedBlocks' = storedBlocks \cup {b}
  /\ UNCHANGED <<storedChain, storedTip, storedGenesis>>

\* The write succeeds; or it fails and nothing is stored; or the transaction is
\* committed and the sync that follows it fails.
Write(ok, save) ==
  IF ok THEN save /\ UNCHANGED faults
        ELSE /\ faults < MaxFaults
             /\ faults' = faults + 1
             /\ save \/ UNCHANGED diskVars

(******************************* validation ********************************)

\* validate_block_for_known_parent, once the parent is known: the difficulty of
\* its branch, proof of work, checkpoint and time.
HeaderOk(b) == b \in Sealed /\ NotBefore[b] <= clock

\* Mutant of StateOk: the block is not replayed.
StateUnchecked(b) == Parent[b] = tip \/ genesisKnown

\* validate_block_state_for_known_parent replays the block on its branch; without
\* the genesis accounts that is possible on the ledger's tip only.
StateOk(b) == b \in Valid /\ (Parent[b] = tip \/ genesisKnown)

\* The two validations and the duplicate check of ForkChoice::insert_block, in
\* that order.  A second genesis block fails when its branch is looked up.
Verdict(b) ==
  IF b = Genesis THEN "error"
  ELSE IF Parent[b] \notin forkChoice THEN "missing_parent"
  ELSE IF ~HeaderOk(b) \/ ~StateOk(b) THEN "error"
  ELSE IF b \in forkChoice THEN "duplicate"
  ELSE "insert"

(**************************** connecting a block ***************************)

\* Mutants of Reorg: what does not extend the ledger is stored as a side block,
\* also when it is the best tip; the cache is not rebuilt.
ReorgDeferred(b, ok) ==
  /\ <<b, best>> \in Better
  /\ Parent[b] # tip
  /\ forkChoice' = forkChoice \cup {b}
  /\ best' = b
  /\ Write(ok, SaveSideBlock(b))
  /\ UNCHANGED <<tip, chain, cache>>

ReorgOldCache(b, ok) ==
  /\ <<b, best>> \in Better
  /\ Parent[b] # tip
  /\ forkChoice' = forkChoice \cup {b}
  /\ best' = b /\ tip' = b
  /\ chain' = Ancestors[b] /\ cache' = cache \cup {b}
  /\ Write(ok, SaveLedger(Ancestors[b], b))

\* apply_known_parent_block after validation, for a block that is not the best
\* tip, extends the active chain, or makes another branch the best one.
SideBlock(b, ok) ==
  /\ <<b, best>> \notin Better
  /\ forkChoice' = forkChoice \cup {b}
  /\ Write(ok, SaveSideBlock(b))
  /\ UNCHANGED <<best, tip, chain, cache>>

ExtendTip(b, ok) ==
  /\ <<b, best>> \in Better
  /\ Parent[b] = tip
  /\ forkChoice' = forkChoice \cup {b}
  /\ best' = b
  /\ tip' = b
  /\ chain' = chain \cup {b}
  /\ cache' = cache \cup {b}
  /\ Write(ok, SaveLedger(chain \cup {b}, b))

\* reorg_to_best_tip: the ledger and the cache are rebuilt from genesis along
\* the winning branch, then saved.
Reorg(b, ok) ==
  /\ <<b, best>> \in Better
  /\ Parent[b] # tip
  /\ forkChoice' = forkChoice \cup {b}
  /\ best' = b
  /\ tip' = b
  /\ chain' = Ancestors[b]
  /\ cache' = Ancestors[b]
  /\ Write(ok, SaveLedger(Ancestors[b], b))

InsertBlock(b, ok) == SideBlock(b, ok) \/ ExtendTip(b, ok) \/ Reorg(b, ok)

(***************************** the orphan pool *****************************)

\* orphan_is_too_far_ahead, for a ledger whose tip is t.
TooFarAhead(b, t) == Height[b] > Height[t] + MaxOrphanAhead

\* prune_expired_orphans keeps these.
Unexpired(held, t) == {o \in held : age[o] <= OrphanTTL /\ ~TooFarAhead(o, t)}

\* Mutant of KeepOrphans: remove_orphan without remove_orphan_index.
KeepOrphansOnly(kept) ==
  /\ orphans' = kept
  /\ age' = [b \in Blocks |-> IF b \in kept THEN age[b] ELSE 0]
  /\ UNCHANGED children

\* remove_orphan, for every orphan that is not kept.
KeepOrphans(kept) ==
  /\ orphans' = kept
  /\ age' = [b \in Blocks |-> IF b \in kept THEN age[b] ELSE 0]
  /\ children' = [p \in Blocks |-> children[p] \ (orphans \ kept)]

\* queue_missing_parent_request_at, against the fork choice fc.
QueueRequest(h, delay, fc) ==
  IF h \in fc THEN UNCHANGED <<requests, retryIn>>
  ELSE /\ requests' = requests \cup {h}
       /\ retryIn' = [retryIn EXCEPT
                        ![h] = IF h \in requests THEN Min2(@, delay) ELSE delay]

\* Mutant of Evicted: > for >=.
EvictedLate(held) ==
  IF Cardinality(held) <= MaxOrphans THEN {}
  ELSE {CHOOSE o \in held : \A p \in held : o <= p}

\* The orphan that makes room in a full pool: the first key of the map.
Evicted(held) ==
  IF Cardinality(held) < MaxOrphans THEN {}
  ELSE {CHOOSE o \in held : \A p \in held : o <= p}

\* cache_orphan_block, once the pool has been pruned to `kept`.
CacheOrphan(b, kept) ==
  IF TooFarAhead(b, tip) \/ b \in kept
    THEN KeepOrphans(kept) /\ UNCHANGED <<requests, retryIn>>
    ELSE LET room == kept \ Evicted(kept) IN
         /\ orphans' = room \cup {b}
         /\ age' = [o \in Blocks |-> IF o \in room THEN age[o] ELSE 0]
         /\ children' = [p \in Blocks |->
                           (children[p] \ (orphans \ room))
                             \cup (IF p = Parent[b] THEN {b} ELSE {})]
         /\ QueueRequest(Parent[b], 0, forkChoice)

(******************************* apply_block *******************************)

Threads == {"inbound", "main"}

\* The main thread asks for the hashes it drained one after the other, and
\* polls by height or mines only when it has none left.  A block that comes as
\* the answer for the hash h is not compared with h.
MayDeliver(b, who, h) ==
  /\ holder = "none"
  /\ IF who = "main" /\ inflight # {} THEN h \in inflight ELSE h = b

\* apply_block goes on with the children of the block (or with none of them),
\* and holds the node until it returns.
Enter(h, who, connect) ==
  /\ holder' = who
  /\ current' = h
  /\ parents' = connect
  /\ batch' = {}

\* Mutant of Fail: the lifetime of an orphan is taken for the cooldown.
FailForLong(h, who, fc) ==
  IF who = "main" /\ inflight # {}
    THEN inflight' = {} /\ QueueRequest(h, OrphanTTL, fc)
    ELSE UNCHANGED requestVars

\* The caller sees an error.  request_missing_parent_blocks puts the hash it
\* was asking for back in the queue and gives up on the others.
Fail(h, who, fc) ==
  IF who = "main" /\ inflight # {}
    THEN inflight' = {} /\ QueueRequest(h, RetryDelay, fc)
    ELSE UNCHANGED requestVars

\* The block is connected, and its orphans are next.
ApplyConnected(b, who, h) ==
  /\ MayDeliver(b, who, h)
  /\ Verdict(b) = "insert"
  /\ InsertBlock(b, TRUE)
  /\ KeepOrphans(Unexpired(Unexpired(orphans, tip), tip'))
  /\ Enter(h, who, {b})
  /\ UNCHANGED <<requestVars, genesisKnown, clock>>

\* The write fails after the block entered the fork choice (and the ledger):
\* apply_block returns the error, its orphans are not looked at.
ApplyUnsaved(b, who, h) ==
  /\ MayDeliver(b, who, h)
  /\ Verdict(b) = "insert"
  /\ InsertBlock(b, FALSE)
  /\ KeepOrphans(Unexpired(orphans, tip))
  /\ Fail(h, who, forkChoice \cup {b})
  /\ UNCHANGED <<loopVars, genesisKnown, clock>>

\* Mutant of ApplyOrphan: its children are tried although it is not connected.
ApplyOrphanOnwards(b, who, h) ==
  /\ MayDeliver(b, who, h)
  /\ Verdict(b) = "missing_parent"
  /\ CacheOrphan(b, Unexpired(orphans, tip))
  /\ Enter(h, who, {b})
  /\ UNCHANGED <<ledgerVars, inflight, diskVars, genesisKnown, clock, faults>>

ApplyOrphan(b, who, h) ==
  /\ MayDeliver(b, who, h)
  /\ Verdict(b) = "missing_parent"
  /\ CacheOrphan(b, Unexpired(orphans, tip))
  /\ Enter(h, who, {})
  /\ UNCHANGED <<ledgerVars, inflight, diskVars, genesisKnown, clock, faults>>

ApplyDuplicate(b, who, h) ==
  /\ MayDeliver(b, who, h)
  /\ Verdict(b) = "duplicate"
  /\ KeepOrphans(Unexpired(orphans, tip))
  /\ Enter(h, who, {})
  /\ UNCHANGED <<ledgerVars, requestVars, diskVars, genesisKnown, clock, faults>>

ApplyInvalid(b, who, h) ==
  /\ MayDeliver(b, who, h)
  /\ Verdict(b) = "error"
  /\ KeepOrphans(Unexpired(orphans, tip))
  /\ Fail(h, who, forkChoice)
  /\ UNCHANGED <<ledgerVars, diskVars, loopVars, genesisKnown, clock, faults>>

\* process_orphans_for_parent: the children of one connected block leave the
\* index together.
TakeChildren(p) ==
  /\ batch = {}
  /\ p \in parents
  /\ parents' = parents \ {p}
  /\ batch' = children[p]
  /\ children' = [children EXCEPT ![p] = {}]
  /\ UNCHANGED <<ledgerVars, orphans, age, requestVars, diskVars, holder, current,
                 genesisKnown, clock, faults>>

\* Mutants of ConnectChild: only direct children are connected; a child that
\* fails is tried again.
ConnectChildShallow(c) ==
  /\ c \in batch
  /\ batch' = batch \ {c}
  /\ KeepOrphans(orphans \ {c})
  /\ \/ Verdict(c) = "insert" /\ InsertBlock(c, TRUE)
     \/ Verdict(c) # "insert" /\ UNCHANGED <<ledgerVars, diskVars, faults>>
  /\ UNCHANGED <<requestVars, holder, current, parents, genesisKnown, clock>>

ConnectChildAgain(c) ==
  /\ c \in batch
  /\ KeepOrphans(orphans \ {c})
  /\ \/ /\ Verdict(c) = "insert"
        /\ InsertBlock(c, TRUE)
        /\ batch' = batch \ {c}
        /\ parents' = parents \cup {c}
     \/ Verdict(c) # "insert" /\ UNCHANGED <<ledgerVars, diskVars, parents, batch, faults>>
  /\ UNCHANGED <<requestVars, holder, current, genesisKnown, clock>>

\* One child: it is connected and its own children follow, or it is dropped.
\* (The arm that caches it again is for a missing parent; see BatchConnects.)
ConnectChild(c) ==
  /\ c \in batch
  /\ batch' = batch \ {c}
  /\ KeepOrphans(orphans \ {c})
  /\ \/ /\ Verdict(c) = "insert"
        /\ \E ok \in BOOLEAN :
             /\ InsertBlock(c, ok)
             /\ parents' = IF ok THEN parents \cup {c} ELSE parents
     \/ /\ Verdict(c) # "insert"
        /\ UNCHANGED <<ledgerVars, diskVars, parents, faults>>
  /\ UNCHANGED <<requestVars, holder, current, genesisKnown, clock>>

\* apply_block returns Ok.  The main thread then calls flush_to_storage before
\* it releases the node; an inbound thread does not.
Return(ok) ==
  /\ holder # "none"
  /\ parents = {} /\ batch = {}
  /\ holder' = "none"
  /\ current' = Genesis
  /\ IF holder = "main"
       THEN /\ Write(ok, SaveLedger(chain, tip))
            /\ IF ok THEN inflight' = inflight \ {current} /\ UNCHANGED <<requests, retryIn>>
                     ELSE Fail(current, "main", forkChoice)
       ELSE UNCHANGED <<diskVars, requestVars, faults>>
  /\ UNCHANGED <<ledgerVars, orphanVars, parents, batch, genesisKnown, clock>>

\* flush_to_storage from rpc_submit_tx and from shutdown.
Flush(ok) ==
  /\ holder = "none"
  /\ Write(ok, SaveLedger(chain, tip))
  /\ UNCHANGED <<ledgerVars, orphanVars, requestVars, loopVars, genesisKnown, clock>>

(********************* requests for missing parents ************************)

\* Mutant of Drain: what is asked for stays in the queue.
DrainKept ==
  LET ready == {h \in requests : retryIn[h] = 0} IN
  /\ holder = "none"
  /\ inflight = {}
  /\ ready # {}
  /\ inflight' = ready
  /\ UNCHANGED <<ledgerVars, orphanVars, requests, retryIn, diskVars, loopVars, genesisKnown,
                 clock, faults>>

\* drain_missing_parent_requests, by the main thread of run().
Drain ==
  LET ready == {h \in requests : retryIn[h] = 0} IN
  /\ holder = "none"
  /\ inflight = {}
  /\ ready # {}
  /\ requests' = requests \ ready
  /\ inflight' = ready
  /\ UNCHANGED <<ledgerVars, orphanVars, retryIn, diskVars, loopVars, genesisKnown, clock, faults>>

\* The peer does not answer, or not with a block.
RequestFails(h) ==
  /\ holder = "none"
  /\ h \in inflight
  /\ Fail(h, "main", forkChoice)
  /\ UNCHANGED <<ledgerVars, orphanVars, diskVars, loopVars, genesisKnown, clock, faults>>

(**************************** time and crashes *****************************)

Tick ==
  /\ clock' = Min2(clock + 1, MaxClock)
  /\ age' = [b \in Blocks |->
               IF b \in orphans THEN Min2(age[b] + 1, OrphanTTL + 1) ELSE 0]
  /\ retryIn' = [h \in Blocks |-> IF retryIn[h] > 0 THEN retryIn[h] - 1 ELSE 0]
  /\ UNCHANGED <<ledgerVars, orphans, children, requests, inflight, diskVars, loopVars,
                 genesisKnown, faults>>

\* Mutant of Indexed: only the ledger's chain is indexed.
IndexedChain == storedChain

\* index_stored_blocks: of what is in the hash table, the blocks that can be
\* linked to the loaded chain.
Indexed == {b \in storedBlocks \cup storedChain :
              Ancestors[b] \subseteq storedBlocks \cup storedChain}

\* The genesis accounts come from disk, or from a ledger still at genesis.
GenesisLoaded == storedGenesis \/ Height[storedTip] = 0

\* validate_chain_integrity: by height, one gap-free branch up to the stored tip.
ChainIntact == storedChain = Ancestors[storedTip]

\* Mutant of Restart: the chain is loaded up to, not including, its last height.
RestartShort ==
  /\ ChainIntact
  /\ tip' = IF storedTip = Genesis THEN Genesis ELSE Parent[storedTip]
  /\ chain' = Ancestors[tip']
  /\ cache' = Ancestors[tip']
  /\ forkChoice' = Indexed
  /\ best' \in {b \in Indexed : \A c \in Indexed : <<c, b>> \notin Better}
  /\ orphans' = {} /\ age' = [b \in Blocks |-> 0] /\ children' = [b \in Blocks |-> {}]
  /\ requests' = {} /\ retryIn' = [b \in Blocks |-> 0] /\ inflight' = {}
  /\ holder' = "none" /\ current' = Genesis /\ parents' = {} /\ batch' = {}
  /\ genesisKnown' = GenesisLoaded
  /\ UNCHANGED <<diskVars, clock, faults>>

\* The process dies at any point and init_or_load rebuilds the node from disk.
\* The ledger's chain is indexed first, so its tip stays the best one unless a
\* stored block beats it; the ledger itself is not moved.
Restart ==
  /\ ChainIntact
  /\ tip' = storedTip
  /\ chain' = storedChain
  /\ cache' = storedChain
  /\ forkChoice' = Indexed
  /\ best' \in {b \in Indexed :
                 /\ \A c \in Indexed : <<c, b>> \notin Better
                 /\ b = storedTip \/ <<b, storedTip>> \in Better}
  /\ orphans' = {}
  /\ age' = [b \in Blocks |-> 0]
  /\ children' = [b \in Blocks |-> {}]
  /\ requests' = {}
  /\ retryIn' = [b \in Blocks |-> 0]
  /\ inflight' = {}
  /\ holder' = "none"
  /\ current' = Genesis
  /\ parents' = {}
  /\ batch' = {}
  /\ genesisKnown' = GenesisLoaded
  /\ UNCHANGED <<diskVars, clock, faults>>

(****************************** specification ******************************)

\* init_or_load on an empty data directory saves the ledger, and then the genesis
\* accounts once more in a second transaction.  The process may die between the
\* two, and the next start finds what the first one stored.
Init ==
  /\ forkChoice = {Genesis} /\ best = Genesis
  /\ tip = Genesis /\ chain = {Genesis} /\ cache = {Genesis}
  /\ orphans = {} /\ age = [b \in Blocks |-> 0]
  /\ children = [b \in Blocks |-> {}]
  /\ requests = {} /\ retryIn = [b \in Blocks |-> 0] /\ inflight = {}
  /\ storedBlocks = {Genesis} /\ storedChain = {Genesis} /\ storedTip = Genesis
  /\ storedGenesis \in {SavesGenesis(Genesis), TRUE} /\ genesisKnown = TRUE
  /\ holder = "none" /\ current = Genesis /\ parents = {} /\ batch = {}
  /\ clock = 0
  /\ faults = 0

ApplyBlock(b, who, h) ==
  \/ ApplyConnected(b, who, h)
  \/ ApplyUnsaved(b, who, h)
  \/ ApplyOrphan(b, who, h)
  \/ ApplyDuplicate(b, who, h)
  \/ ApplyInvalid(b, who, h)

Next ==
  \/ \E b, h \in Blocks, who \in Threads : ApplyBlock(b, who, h)
  \/ \E b \in Blocks : TakeChildren(b) \/ ConnectChild(b) \/ RequestFails(b)
  \/ \E ok \in BOOLEAN : Return(ok) \/ Flush(ok)
  \/ Drain
  \/ Tick
  \/ Restart

Spec == Init /\ [][Next]_vars

\* A thread inside apply_block runs on: nothing in the loop waits.
LiveSpec ==
  Spec /\ WF_vars(\/ \E b \in Blocks : TakeChildren(b) \/ ConnectChild(b)
                  \/ \E ok \in BOOLEAN : Return(ok))

(******************************* properties ********************************)

LedgerTypeOK ==
  /\ forkChoice \subseteq Blocks /\ best \in Blocks
  /\ tip \in Blocks /\ chain \subseteq Blocks /\ cache \subseteq Blocks
  /\ storedBlocks \subseteq Blocks /\ storedChain \subseteq Blocks /\ storedTip \in Blocks
  /\ storedGenesis \in BOOLEAN
  /\ faults \in 0..MaxFaults

PoolTypeOK ==
  /\ orphans \subseteq Blocks \ {Genesis}
  /\ age \in [Blocks -> 0..(OrphanTTL + 1)]
  /\ children \in [Blocks -> SUBSET Blocks]

\* (A parent that is queued is due after MISSING_PARENT_RETRY_SECS at the latest.)
RequestTypeOK ==
  /\ requests \subseteq Blocks
  /\ retryIn \in [Blocks -> 0..RetryDelay]
  /\ inflight \subseteq Blocks

LoopTypeOK ==
  /\ holder \in Threads \cup {"none"}
  /\ current \in Blocks /\ parents \subseteq Blocks /\ batch \subseteq Blocks
  /\ clock \in 0..MaxClock
  /\ genesisKnown \in BOOLEAN

TypeOK == LedgerTypeOK /\ PoolTypeOK /\ RequestTypeOK /\ LoopTypeOK

\* Only blocks that passed validation are in the fork choice, each with its
\* whole branch, so that ledger_for_branch_tip can replay every one of them
\* (the test invalid_state_block_does_not_enter_fork_choice, for every order
\* of arrival, failed write and restart).
ForkChoiceSound ==
  /\ forkChoice \subseteq Valid
  /\ \A b \in forkChoice : Ancestors[b] \subseteq forkChoice

\* The ledger holds exactly one branch of the fork choice, extended block by
\* block or rebuilt by a reorg, and the cache serves by hash what the ledger
\* serves by height.
LedgerIsBranch ==
  /\ tip \in forkChoice
  /\ chain = Ancestors[tip]
  /\ cache = chain

\* The ledger follows the fork choice: apply_known_parent_block moves it each
\* time the best tip moves, and a restart finds the same best tip.  A failed
\* write followed by a crash can leave it behind.
LedgerAtBest == faults = 0 => tip = best

\* What is on disk always loads: validate_chain_integrity finds one gap-free
\* branch up to the stored tip, all of it also in the hash table, at every
\* point where the process can die and after every failed write.
DiskLoads ==
  /\ ChainIntact
  /\ storedChain \subseteq storedBlocks
  /\ storedBlocks \subseteq Valid

\* The disk is never behind the node unless a write failed: every accepted
\* block is stored before the node is released or another orphan is tried.
DiskCurrent ==
  faults = 0 => /\ storedBlocks = forkChoice
                /\ storedTip = tip

\* A crash at any point, followed by init_or_load, gives back the same fork
\* choice, best tip and ledger, unless a write failed before it.
RestartKeepsChain == [][Restart /\ faults = 0 => UNCHANGED ledgerVars]_vars

\* The ledger's tip only ever moves to a block the fork choice prefers; only a
\* restart after a failed write may take it back.
TipImproves ==
  [][tip' # tip => <<tip', tip>> \in Better \/ (Restart /\ faults > 0)]_vars

\* Orphan pool and child index agree: an orphan is listed under its parent and
\* nowhere else, unless the loop has just taken it out to try it; so neither
\* expiry nor eviction nor a connected parent leaves a dangling entry.
OrphanIndexExact ==
  \A p \in Blocks : children[p] = {o \in orphans \ batch : Parent[o] = p}

\* Every child the loop takes is still held and has its parent in the fork
\* choice: the two arms of process_orphans_for_parent for a child that is gone
\* and for one whose parent is missing are never taken.
BatchConnects ==
  /\ batch \subseteq orphans
  /\ \A c \in batch : Parent[c] \in forkChoice

\* When apply_block has returned, no orphan waits for a parent the node has:
\* the loop connects descendants at every depth (the test
\* caches_orphan_block_until_parent_arrives).  A failed write can strand one.
NoStrandedOrphan ==
  holder = "none" /\ faults = 0 => \A o \in orphans : Parent[o] \notin forkChoice

\* The pool never outgrows MAX_ORPHAN_BLOCKS.
OrphansBounded == Cardinality(orphans) <= MaxOrphans

\* A block that is valid, not dated ahead and builds on a block the node has is
\* never answered with an error, so a heavier branch is always adopted (the test
\* reorgs_state_when_side_fork_becomes_best_tip): no crash, not even one inside
\* the first start, leaves a node without the genesis accounts a reorg needs.
ValidBlockAccepted ==
  \A b \in Valid \ {Genesis} :
    Parent[b] \in forkChoice /\ NotBefore[b] <= clock => Verdict(b) # "error"

\* The node implements Follower: orphans, requests, threads, failed writes and
\* crashes at any point are hidden by the mapping.
Abstract == INSTANCE Follower WITH
  known <- forkChoice, head <- tip, durable <- storedBlocks, durableHead <- storedTip,
  lossy <- faults > 0

\* Whatever apply_block, flush_to_storage and init_or_load do to the fork choice,
\* the ledger and the database is a step of Follower.
ImplementsFollower == Abstract!Spec

\* apply_block always comes back and releases the node, however deep the
\* orphans it connects and whichever of them are invalid.
NodeReleased == holder # "none" ~> holder = "none"
=============================================================================
