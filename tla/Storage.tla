------------------------------ MODULE Storage -------------------------------
(* runtime/storage/storage.rs: the LMDB tables, how init_or_load opens them,  *)
(* what the node writes, and what the RPC handlers and the miner read back.   *)
(*                                                                            *)
(* Node.tla treats the database as a set of blocks and a tip; here are its    *)
(* tables.  Every write is one LMDB transaction, every reader holds the node, *)
(* and the process may die between any two transactions.  The ledger's chain  *)
(* is the branch of its tip (LedgerIsBranch of Node).                         *)
EXTENDS BlockTree, Sequences

CONSTANTS
  Transactions, Addresses,
  Contents,            \* the transactions of each block, in order
  Sender, Receiver,
  SnapshotHeights,     \* is_snapshot_height
  DifficultyInterval,  \* DIFFICULTY_ADJUSTMENT_INTERVAL
  MaxFaults            \* bound of `faults`

ASSUME StorageAssumption ==
  /\ Contents \in [Blocks -> Seq(Transactions)]
  /\ Sender \in [Transactions -> Addresses]
  /\ Receiver \in [Transactions -> Addresses]
  /\ SnapshotHeights \subseteq Nat
  /\ DifficultyInterval \in Nat \ {0}
  /\ MaxFaults \in Nat

VARIABLES
  phase,           \* "down", "opened", "created" (the first ledger is saved), "up"
  tip,             \* the ledger's tip, and
  forkChoice,      \* the fork choice's blocks, while the node is up
  version,         \* meta: whether the storage version is there,
  metaTip,         \* the tip's hash,
  metaHeight,      \* and its height
  byHeight,        \* blocks_by_height, a function on the heights that are there
  byHash,          \* blocks_by_hash
  accounts,        \* accounts: the block whose state they are
  genesisAccounts, \* whether genesis_accounts is there
  snapshots,       \* state_snapshots: the blocks whose state is kept
  txIndex,         \* tx_index
  addressIndex,    \* address_tx_index
  faults           \* failed writes so far

memory == <<tip, forkChoice>>
chainTables == <<metaTip, metaHeight, byHeight, accounts, snapshots, txIndex, addressIndex>>
tables == <<version, chainTables, byHash, genesisAccounts>>
vars == <<phase, memory, tables, faults>>

NoBlock == -1

(********************************* writing *********************************)

\* blocks_by_height for the chain ch.
HeightTable(ch) ==
  [h \in {Height[b] : b \in ch} |-> CHOOSE b \in ch : Height[b] = h]

\* index_block_transactions for every block of ch: where each transaction is,
Locations(ch) ==
  UNION {{[tx |-> Contents[b][i], height |-> Height[b], hash |-> b, index |-> i] :
            i \in DOMAIN Contents[b]} : b \in ch}

\* and the same under its sender, and under its receiver if that is another.
AddressLocations(ch) ==
  {[address |-> Sender[l.tx], at |-> l, sent |-> TRUE] : l \in Locations(ch)}
    \cup {[address |-> Receiver[l.tx], at |-> l, sent |-> FALSE] :
            l \in {m \in Locations(ch) : Receiver[m.tx] # Sender[m.tx]}}

\* Mutants: the index is one position off, or is not cleared.
IndexShifted(t) == {[l EXCEPT !.index = @ - 1] : l \in Locations(Ancestors[t])}

IndexKept(t) == txIndex \cup Locations(Ancestors[t])

\* save_ledger clears these tables before it writes them for a ledger at t.
IndexAfter(t) == Locations(Ancestors[t])

SnapshotsAfter(t) == {b \in {t} : Height[b] = 0 \/ Height[b] \in SnapshotHeights}

\* Storage::save_ledger.  blocks_by_hash and genesis_accounts are not cleared.
SaveLedger(t) ==
  /\ metaTip' = t /\ metaHeight' = Height[t]
  /\ byHeight' = HeightTable(Ancestors[t])
  /\ byHash' = byHash \cup Ancestors[t]
  /\ accounts' = t
  /\ snapshots' = SnapshotsAfter(t)
  /\ txIndex' = IndexAfter(t)
  /\ addressIndex' = AddressLocations(Ancestors[t])
  /\ genesisAccounts' = (genesisAccounts \/ Height[t] = 0)
  /\ UNCHANGED version

\* save_side_block, save_genesis_accounts and save_storage_version.
SaveSideBlock(b) ==
  /\ byHash' = byHash \cup {b}
  /\ UNCHANGED <<version, chainTables, genesisAccounts>>

SaveGenesisAccounts ==
  /\ genesisAccounts' = TRUE
  /\ UNCHANGED <<version, chainTables, byHash>>

SaveVersion ==
  /\ version' = TRUE
  /\ UNCHANGED <<chainTables, byHash, genesisAccounts>>

\* The write succeeds; or it fails and nothing is stored; or the transaction is
\* committed and the sync that follows it fails.
Write(ok, save) ==
  IF ok THEN save /\ UNCHANGED faults
        ELSE /\ faults < MaxFaults
             /\ faults' = faults + 1
             /\ save \/ UNCHANGED tables

(******************************** starting *********************************)

\* is_empty_database; the meta table does not count.
EmptyDatabase ==
  /\ byHeight = <<>> /\ byHash = {} /\ accounts = NoBlock /\ ~genesisAccounts
  /\ snapshots = {} /\ txIndex = {} /\ addressIndex = {}

\* Mutant of Open: the version of a new database is not written.
OpenUnversioned(ok) ==
  /\ phase = "down"
  /\ version \/ EmptyDatabase
  /\ phase' = "opened"
  /\ UNCHANGED <<memory, tables, faults>>

\* Storage::open and ensure_storage_version: a new database gets the version, one
\* with contents and without a version is refused.
Open(ok) ==
  /\ phase = "down"
  /\ \/ /\ version
        /\ phase' = "opened"
        /\ UNCHANGED <<tables, faults>>
     \/ /\ ~version /\ EmptyDatabase
        /\ Write(ok, SaveVersion)
        /\ phase' = IF ok THEN "opened" ELSE "down"
  /\ UNCHANGED memory

LoadBlock(h) == IF h \in DOMAIN byHeight THEN byHeight[h] ELSE NoBlock

\* validate_chain_integrity: the walk from the stored tip down to genesis.
ChainIntegrity ==
  /\ LoadBlock(metaHeight) = metaTip
  /\ \A h \in 0..metaHeight :
       /\ LoadBlock(h) # NoBlock /\ Height[LoadBlock(h)] = h
       /\ IF h = 0 THEN LoadBlock(h) = Genesis
                   ELSE Parent[LoadBlock(h)] = LoadBlock(h - 1)

\* Mutant of Indexed: only the ledger's chain is indexed.
IndexedChain == {byHeight[h] : h \in DOMAIN byHeight}

\* The chain's blocks, then index_stored_blocks: what can be linked to them.
Indexed ==
  LET stored == byHash \cup {byHeight[h] : h \in DOMAIN byHeight} IN
  {b \in stored : Ancestors[b] \subseteq stored}

\* init_or_load on a database with a tip.
LoadLedger ==
  /\ phase = "opened"
  /\ metaTip # NoBlock
  /\ ChainIntegrity
  /\ phase' = "up"
  /\ tip' = metaTip
  /\ forkChoice' = Indexed
  /\ UNCHANGED <<tables, faults>>

\* init_or_load on one without: the genesis ledger and then, in a transaction of
\* their own, the genesis accounts.  A failure ends the process.
CreateLedger(ok) ==
  /\ phase = "opened"
  /\ metaTip = NoBlock
  /\ Write(ok, SaveLedger(Genesis))
  /\ phase' = IF ok THEN "created" ELSE "down"
  /\ UNCHANGED memory

CreateGenesisAccounts(ok) ==
  /\ phase = "created"
  /\ Write(ok, SaveGenesisAccounts)
  /\ phase' = IF ok THEN "up" ELSE "down"
  /\ tip' = Genesis
  /\ forkChoice' = IF ok THEN Indexed ELSE {}

\* The process dies, or is stopped.
Crash ==
  /\ phase # "down"
  /\ phase' = "down"
  /\ tip' = Genesis
  /\ forkChoice' = {}
  /\ UNCHANGED <<tables, faults>>

(******************************** running **********************************)

\* A validated block on a known parent; best_tip() prefers it or it does not.
Acceptable(b) ==
  /\ phase = "up"
  /\ b \in Valid \ (forkChoice \cup {Genesis})
  /\ Parent[b] \in forkChoice

IsBest(b) == \A c \in forkChoice : <<b, c>> \in Better

AcceptSide(b, ok) ==
  /\ Acceptable(b) /\ ~IsBest(b)
  /\ forkChoice' = forkChoice \cup {b}
  /\ Write(ok, SaveSideBlock(b))
  /\ UNCHANGED <<phase, tip>>

\* Mutant of AcceptBest: what extends the chain is stored by hash until the next
\* flush.
AcceptBestLazily(b, ok) ==
  /\ Acceptable(b) /\ IsBest(b)
  /\ forkChoice' = forkChoice \cup {b}
  /\ tip' = b
  /\ Write(ok, SaveSideBlock(b))
  /\ UNCHANGED phase

AcceptBest(b, ok) ==
  /\ Acceptable(b) /\ IsBest(b)
  /\ forkChoice' = forkChoice \cup {b}
  /\ tip' = b
  /\ Write(ok, SaveLedger(b))
  /\ UNCHANGED phase

\* flush_to_storage
Flush(ok) ==
  /\ phase = "up"
  /\ Write(ok, SaveLedger(tip))
  /\ UNCHANGED <<phase, memory>>

(******************************** reading **********************************)

\* The blocks that the RPC handlers read: height by height up to the ledger's tip,
\* heights that are not there skipped.
Scanned == {byHeight[h] : h \in DOMAIN byHeight \cap 0..Height[tip]}

\* find_transaction and the transactions of address_activity.
FindTransaction(t) == {l \in Locations(Scanned) : l.tx = t}

AddressActivity(a) ==
  {l \in Locations(Scanned) : Sender[l.tx] = a \/ Receiver[l.tx] = a}

\* load_transaction_location and load_address_transaction_locations.
LoadLocation(t) == {l \in txIndex : l.tx = t}

LoadAddress(a) == {e.at : e \in {f \in addressIndex : f.address = a}}

\* The checks of load_transaction on what it finds under the location.
LocationHolds(l) ==
  /\ LoadBlock(l.height) = l.hash
  /\ l.index \in DOMAIN Contents[l.hash]
  /\ Contents[l.hash][l.index] = l.tx

\* A difficulty is retargeted from the first and the last block of a window; there
\* is none near genesis.
NoWindow == <<>>

\* Mutant of DifficultyWindow: the window starts one block late.
DifficultyWindowShort(h) ==
  IF h < DifficultyInterval \/ ~({h, h - DifficultyInterval + 1} \subseteq DOMAIN byHeight)
    THEN NoWindow
    ELSE <<byHeight[h - DifficultyInterval + 1], byHeight[h]>>

\* Storage::difficulty_window, from which the miner takes its next difficulty.
DifficultyWindow(h) ==
  IF h < DifficultyInterval \/ ~({h, h - DifficultyInterval} \subseteq DOMAIN byHeight)
    THEN NoWindow
    ELSE <<byHeight[h - DifficultyInterval], byHeight[h]>>

\* next_difficulty_after_branch_tip, by which a block on t is validated.
BranchWindow(t) ==
  IF Height[t] < DifficultyInterval THEN NoWindow
  ELSE <<CHOOSE a \in Ancestors[t] : Height[a] = Height[t] - DifficultyInterval, t>>

(****************************** specification ******************************)

Init ==
  /\ phase = "down" /\ tip = Genesis /\ forkChoice = {}
  /\ version = FALSE /\ metaTip = NoBlock /\ metaHeight = 0
  /\ byHeight = <<>> /\ byHash = {} /\ accounts = NoBlock /\ genesisAccounts = FALSE
  /\ snapshots = {} /\ txIndex = {} /\ addressIndex = {}
  /\ faults = 0

Next ==
  \/ \E ok \in BOOLEAN : Open(ok) \/ CreateLedger(ok) \/ CreateGenesisAccounts(ok) \/ Flush(ok)
  \/ \E b \in Blocks, ok \in BOOLEAN : AcceptSide(b, ok) \/ AcceptBest(b, ok)
  \/ LoadLedger
  \/ Crash

Spec == Init /\ [][Next]_vars

(******************************* properties ********************************)

TypeOK ==
  /\ phase \in {"down", "opened", "created", "up"}
  /\ tip \in Blocks /\ forkChoice \subseteq Blocks
  /\ version \in BOOLEAN /\ genesisAccounts \in BOOLEAN
  /\ metaTip \in Blocks \cup {NoBlock} /\ metaHeight \in Nat
  /\ DOMAIN byHeight \subseteq Nat
  /\ \A h \in DOMAIN byHeight : byHeight[h] \in Blocks
  /\ byHash \subseteq Blocks /\ accounts \in Blocks \cup {NoBlock} /\ snapshots \subseteq Blocks
  /\ txIndex \subseteq Locations(Blocks)
  /\ addressIndex \subseteq AddressLocations(Blocks)
  /\ faults \in 0..MaxFaults

\* Whenever the process dies, in the middle of the first start or after a failed
\* write, the next start succeeds: the version is there or the database is still
\* empty, a stored chain passes validate_chain_integrity, its accounts are those
\* of its tip, and the genesis accounts are stored with it.
StartsAgain ==
  /\ version \/ EmptyDatabase
  /\ metaTip # NoBlock => ChainIntegrity /\ accounts = metaTip /\ genesisAccounts

\* load_transaction never reports an integrity error, a snapshot is that of the
\* block stored at its height (verify_against_block), and both indexes list
\* exactly the stored chain's transactions, also for a transaction that a reorg
\* moved to another height or removed (the test
\* save_ledger_rebuilds_canonical_transaction_indexes, for every sequence of reorgs,
\* failed writes and crashes).  The scans of find_transaction and
\* address_activity agree with them when the ledger is the stored one.
IndexesExact ==
  /\ \A l \in txIndex : LocationHolds(l)
  /\ \A b \in snapshots : LoadBlock(Height[b]) = b
  /\ phase = "up" /\ metaTip = tip =>
       /\ \A t \in Transactions : LoadLocation(t) = FindTransaction(t)
       /\ \A a \in Addresses : LoadAddress(a) = AddressActivity(a)

\* An RPC handler that scans the heights never mixes two branches, even when
\* the last write failed and the ledger is ahead of the disk; without a failed
\* write it sees the ledger's whole chain.
ScanIsOneBranch ==
  phase = "up" =>
    /\ \E b \in byHash : Scanned = Ancestors[b]
    /\ faults = 0 => Scanned = Ancestors[tip]

\* The difficulty the miner takes from the tables by height is the one its block
\* is validated against from the fork choice, on every branch, after reorgs and
\* restarts; a failed write can part them until the next one.
DifficultyAgrees ==
  phase = "up" /\ (faults = 0 \/ metaTip = tip) => DifficultyWindow(Height[tip]) = BranchWindow(tip)

\* Seen from outside, a database that is not created yet is one at genesis.
Durable == IF byHash = {} THEN {Genesis} ELSE byHash

DurableHead == IF metaTip = NoBlock THEN Genesis ELSE metaTip

Abstract == INSTANCE Follower WITH
  known <- IF phase = "up" THEN forkChoice
           ELSE {b \in Durable : Ancestors[b] \subseteq Durable},
  head <- IF phase = "up" THEN tip ELSE DurableHead,
  durable <- Durable,
  durableHead <- DurableHead,
  lossy <- faults > 0

\* The tables implement Follower: a crash at any point of the first start, of a
\* reorg or of a restart loses nothing that was stored, and loading gives back
\* exactly that.
ImplementsFollower == Abstract!Spec
=============================================================================
