--------------------------- MODULE StorageProofs ---------------------------
(* Theorems about Storage, for every block tree, every content of the blocks, *)
(* and any number of failed writes and crashes.                               *)
EXTENDS Storage, TLAPS

(********************************* branches ********************************)

\* A branch is gap-free and has one block per height.  This is an induction over
\* the tree, which the invariant below carries out one accepted block at a time.
Regular(t) ==
  /\ Ancestors[t] \subseteq Valid
  /\ \A a \in Ancestors[t] : Height[a] <= Height[t]
  /\ \A h \in 0..Height[t] : \E a \in Ancestors[t] : Height[a] = h
  /\ \A a, c \in Ancestors[t] : Height[a] = Height[c] => a = c
  /\ \A a, c \in Ancestors[t] : a \in Ancestors[c] <=> Height[a] <= Height[c]

\* A block is the top of its own branch, which contains its parent.
LEMMA OwnAncestor ==
  ASSUME NEW b \in Blocks
  PROVE  b \in Ancestors[b] /\ (b # Genesis => Parent[b] \in Ancestors[b])
<1>1. \A c \in Blocks : c \in Ancestors[c]
  BY TreeAssumption, AncestorsAssumption
<1>2. b # Genesis => Parent[b] \in Blocks /\ Ancestors[b] = Ancestors[Parent[b]] \cup {b}
  BY TreeAssumption, AncestorsAssumption
<1> QED BY <1>1, <1>2

\* The chain starts as a gap-free branch: genesis alone.
LEMMA GenesisRegular == Regular(Genesis)
BY TreeAssumption, AncestorsAssumption, HeightAssumption DEF Regular

\* A valid block on a gap-free branch makes a gap-free branch.
LEMMA ChildRegular ==
  ASSUME NEW b \in Valid \ {Genesis}, Regular(Parent[b])
  PROVE  Regular(b)
<1> DEFINE p == Parent[b]
<1>1. /\ b \in Blocks /\ p \in Blocks /\ p \in Ancestors[p]
      /\ Ancestors[b] = Ancestors[p] \cup {b}
      /\ Height[b] = Height[p] + 1
      /\ Height[b] \in Nat /\ Height[p] \in Nat
  BY TreeAssumption, AncestorsAssumption, HeightAssumption, OwnAncestor
<1>2. \A a \in Ancestors[p] : a \in Blocks /\ Height[a] \in Nat /\ Height[a] < Height[b]
  BY <1>1, TreeAssumption, AncestorsAssumption DEF Regular
<1>3. Ancestors[b] \subseteq Valid
  BY <1>1 DEF Regular
<1>4. \A a \in Ancestors[b] : Height[a] <= Height[b]
  BY <1>1, <1>2
<1>5. ASSUME NEW h \in 0..Height[b] PROVE \E a \in Ancestors[b] : Height[a] = h
  <2>1. CASE h = Height[b]
    BY <2>1, <1>1
  <2>2. CASE h # Height[b]
    <3>1. h \in 0..Height[p]
      BY <2>2, <1>1
    <3> QED BY <3>1, <1>1 DEF Regular
  <2> QED BY <2>1, <2>2
<1>6. \A a, c \in Ancestors[b] : Height[a] = Height[c] => a = c
  <2>1. \A a, c \in Ancestors[p] : Height[a] = Height[c] => a = c
    BY DEF Regular
  <2>2. \A a \in Ancestors[p] : Height[a] # Height[b]
    BY <1>1, <1>2
  <2> QED BY <1>1, <2>1, <2>2
<1>7. ASSUME NEW a \in Ancestors[b], NEW c \in Ancestors[b]
      PROVE  a \in Ancestors[c] <=> Height[a] <= Height[c]
  <2>1. CASE c = b
    BY <2>1, <1>4
  <2>2. CASE c # b /\ a # b
    BY <2>2, <1>1 DEF Regular
  <2>3. CASE c # b /\ a = b
    <3>1. c \in Ancestors[p]
      BY <2>3, <1>1
    <3>2. b \notin Ancestors[c]
      BY <3>1, <1>1, AncestorsAssumption
    <3>3. ~(Height[b] <= Height[c])
      BY <3>1, <1>1, <1>2
    <3> QED BY <2>3, <3>2, <3>3
  <2> QED BY <2>1, <2>2, <2>3
<1> QED BY <1>3, <1>4, <1>5, <1>6, <1>7 DEF Regular

\* What save_ledger writes by height for such a branch is its blocks at their
\* heights.
LEMMA HeightTableOf ==
  ASSUME NEW t \in Blocks, Regular(t)
  PROVE  /\ DOMAIN HeightTable(Ancestors[t]) = 0..Height[t]
         /\ \A a \in Ancestors[t] : HeightTable(Ancestors[t])[Height[a]] = a
         /\ \A h \in 0..Height[t] : /\ HeightTable(Ancestors[t])[h] \in Ancestors[t]
                                    /\ Height[HeightTable(Ancestors[t])[h]] = h
<1> DEFINE A == Ancestors[t]
           D == {Height[b] : b \in A}
           F == HeightTable(A)
<1>1. A \subseteq Blocks /\ \A a \in A : Height[a] \in Nat
  BY TreeAssumption, AncestorsAssumption
<1>2. D = 0..Height[t]
  <2>1. Height[t] \in Nat
    BY TreeAssumption
  <2>2. \A a \in A : Height[a] \in 0..Height[t]
    BY <1>1, <2>1 DEF Regular
  <2>3. \A h \in 0..Height[t] : \E a \in A : Height[a] = h
    BY DEF Regular
  <2> QED BY <2>2, <2>3
<1>3. F = [h \in D |-> CHOOSE b \in A : Height[b] = h]
  BY DEF HeightTable
<1>4. ASSUME NEW h \in 0..Height[t] PROVE F[h] \in A /\ Height[F[h]] = h
  <2>1. \E a \in A : Height[a] = h
    BY DEF Regular
  <2>2. F[h] = CHOOSE b \in A : Height[b] = h
    BY <1>2, <1>3
  <2> QED BY <2>1, <2>2
<1>5. ASSUME NEW a \in A PROVE F[Height[a]] = a
  <2>1. Height[a] \in 0..Height[t]
    BY <1>2
  <2>2. F[Height[a]] \in A /\ Height[F[Height[a]]] = Height[a]
    BY <2>1, <1>4
  <2> QED BY <2>2 DEF Regular
<1> QED BY <1>2, <1>3, <1>4, <1>5

(*************************** inductive invariant ***************************)

\* The tables that save_ledger writes are all of one and the same ledger, at t.
LedgerTables(t) ==
  /\ metaTip = t /\ metaHeight = Height[t]
  /\ byHeight = HeightTable(Ancestors[t])
  /\ accounts = t
  /\ snapshots = SnapshotsAfter(t)
  /\ txIndex = Locations(Ancestors[t])
  /\ addressIndex = AddressLocations(Ancestors[t])
  /\ Ancestors[t] \subseteq byHash
  /\ version /\ genesisAccounts

DiskInv ==
  /\ byHash \subseteq Blocks
  /\ \A b \in byHash : Regular(b)
  /\ version \in BOOLEAN /\ genesisAccounts \in BOOLEAN
  /\ \/ metaTip = NoBlock /\ metaHeight = 0 /\ EmptyDatabase
     \/ \E t \in byHash : LedgerTables(t)

MemoryInv ==
  /\ phase \in {"down", "opened", "created", "up"}
  /\ forkChoice \subseteq Blocks
  /\ \A b \in forkChoice : Regular(b) /\ Ancestors[b] \subseteq forkChoice
  /\ tip \in Blocks
  /\ phase = "up" => tip \in forkChoice

PhaseInv ==
  /\ phase # "down" => version
  /\ phase = "created" => metaTip = Genesis
  /\ phase = "up" => metaTip # NoBlock

\* Without a failed write memory and disk agree.
CurrentInv ==
  /\ faults \in 0..MaxFaults
  /\ faults = 0 => /\ \A b \in byHash : Ancestors[b] \subseteq byHash
                   /\ phase = "up" => metaTip = tip /\ byHash = forkChoice

StorageInv == DiskInv /\ MemoryInv /\ PhaseInv /\ CurrentInv

\* A transaction on the database that has no effect or that of `save_ledger` for a
\* branch in memory leaves a good database.
LEMMA SaveLedgerDisk ==
  ASSUME DiskInv, version, NEW t \in Blocks, Regular(t), SaveLedger(t),
         \A a \in Ancestors[t] : Regular(a),
         metaTip # NoBlock \/ t = Genesis
  PROVE  DiskInv' /\ LedgerTables(t)'
<1>1. Ancestors[t] \subseteq Blocks /\ t \in Ancestors[t]
  BY OwnAncestor, AncestorsAssumption
<1>2. byHash' \subseteq Blocks /\ (\A b \in byHash' : Regular(b)) /\ t \in byHash'
  BY <1>1 DEF SaveLedger, DiskInv
<1>3. genesisAccounts' = TRUE
  <2>1. CASE metaTip # NoBlock
    BY <2>1 DEF DiskInv, LedgerTables, SaveLedger
  <2>2. CASE t = Genesis
    BY <2>2, HeightAssumption DEF SaveLedger
  <2> QED BY <2>1, <2>2
<1>4. LedgerTables(t)'
  BY <1>3 DEF LedgerTables, SaveLedger, SnapshotsAfter, IndexAfter
<1>5. version' \in BOOLEAN /\ genesisAccounts' \in BOOLEAN
  BY <1>3 DEF SaveLedger, DiskInv
<1>6. (\A b \in byHash : Regular(b))'
  BY <1>2 DEF Regular
<1> QED BY <1>2, <1>4, <1>5, <1>6 DEF DiskInv

\* So does storing a side block, and storing the genesis accounts again.
LEMMA OtherWritesDisk ==
  ASSUME DiskInv, metaTip # NoBlock,
         SaveGenesisAccounts \/ \E b \in Blocks : Regular(b) /\ SaveSideBlock(b)
  PROVE  DiskInv'
<1>1. PICK t \in byHash : LedgerTables(t)
  BY DEF DiskInv
<1>2. UNCHANGED <<version, chainTables>> /\ byHash \subseteq byHash' /\ genesisAccounts' = TRUE
  BY <1>1 DEF SaveGenesisAccounts, SaveSideBlock, LedgerTables
<1>3. byHash' \subseteq Blocks /\ \A b \in byHash' : Regular(b)
  BY DEF DiskInv, SaveGenesisAccounts, SaveSideBlock
<1>4. LedgerTables(t)' /\ t \in byHash'
  BY <1>1, <1>2 DEF LedgerTables, chainTables, SnapshotsAfter
<1>5. (\A b \in byHash : Regular(b))'
  BY <1>3 DEF Regular
<1> QED BY <1>2, <1>3, <1>4, <1>5 DEF DiskInv

\* A step that writes nothing keeps the invariant of the tables.
LEMMA UnchangedDisk ==
  ASSUME DiskInv, UNCHANGED tables
  PROVE  DiskInv'
<1>1. CASE metaTip = NoBlock /\ metaHeight = 0 /\ EmptyDatabase
  BY <1>1 DEF DiskInv, tables, chainTables, EmptyDatabase, Regular
<1>2. CASE \E t \in byHash : LedgerTables(t)
  <2>1. PICK t \in byHash : LedgerTables(t)
    BY <1>2
  <2>2. LedgerTables(t)' /\ t \in byHash'
    BY <2>1 DEF LedgerTables, tables, chainTables, SnapshotsAfter
  <2> QED BY <2>2 DEF DiskInv, tables, Regular
<1> QED BY <1>1, <1>2 DEF DiskInv

\* What init_or_load indexes: the blocks with their whole branch in blocks_by_hash,
\* the stored tip among them.
LEMMA IndexedBlocks ==
  ASSUME DiskInv, metaTip # NoBlock
  PROVE  /\ Indexed = {b \in byHash : Ancestors[b] \subseteq byHash}
         /\ Indexed \subseteq Blocks /\ metaTip \in Indexed
         /\ \A b \in Indexed : Regular(b) /\ Ancestors[b] \subseteq Indexed
<1>1. PICK t \in byHash : LedgerTables(t)
  BY DEF DiskInv
<1>2. t \in Blocks /\ Regular(t)
  BY <1>1 DEF DiskInv
<1>3. {byHeight[h] : h \in DOMAIN byHeight} \subseteq byHash
  <2>1. byHeight = HeightTable(Ancestors[t]) /\ Ancestors[t] \subseteq byHash
    BY <1>1 DEF LedgerTables
  <2>2. \A h \in DOMAIN byHeight : byHeight[h] \in Ancestors[t]
    <3>1. /\ DOMAIN HeightTable(Ancestors[t]) = 0..Height[t]
          /\ \A h \in 0..Height[t] : HeightTable(Ancestors[t])[h] \in Ancestors[t]
      BY <1>2, HeightTableOf
    <3> QED BY <2>1, <3>1
  <2> QED BY <2>1, <2>2
<1>4. Indexed = {b \in byHash : Ancestors[b] \subseteq byHash}
  BY <1>3 DEF Indexed
<1>5. metaTip \in Indexed
  BY <1>1, <1>4 DEF LedgerTables
<1>6. \A b \in Indexed : Regular(b) /\ Ancestors[b] \subseteq Indexed
  <2>1. ASSUME NEW b \in Indexed, NEW a \in Ancestors[b] PROVE a \in Indexed
    <3>1. b \in Blocks
      BY <1>4 DEF DiskInv
    <3>2. Ancestors[a] \subseteq Ancestors[b]
      BY <3>1, AncestorsAssumption
    <3> QED BY <3>2, <1>4
  <2> QED BY <1>4, <2>1 DEF DiskInv
<1> QED BY <1>4, <1>5, <1>6 DEF DiskInv

\* A failed write counts; otherwise it has the effect it should have.
LEMMA WriteFaults ==
  ASSUME faults \in 0..MaxFaults, NEW ok \in BOOLEAN,
         ok => UNCHANGED faults, ~ok => faults < MaxFaults /\ faults' = faults + 1
  PROVE  faults' \in 0..MaxFaults /\ (faults' = 0 => ok /\ faults = 0) /\ (ok => faults' = faults)
BY StorageAssumption

(************************** the invariant is kept **************************)

\* Opening: only the version may be written, into an empty database.
LEMMA OpenKeeps ==
  ASSUME StorageInv, NEW ok \in BOOLEAN, Open(ok)
  PROVE  StorageInv'
<1> USE DEF StorageInv
<1>1. /\ UNCHANGED memory /\ UNCHANGED <<chainTables, byHash, genesisAccounts>>
      /\ phase = "down" /\ phase' \in {"down", "opened"}
      /\ phase' = "opened" => version'
      /\ version' \in BOOLEAN /\ (version => version')
      /\ faults' \in 0..MaxFaults /\ (faults' = 0 => faults = 0)
  <2>1. CASE version /\ phase' = "opened" /\ UNCHANGED <<tables, faults>>
    BY <2>1 DEF Open, tables, DiskInv, CurrentInv
  <2>2. CASE ~version /\ Write(ok, SaveVersion) /\ phase' = IF ok THEN "opened" ELSE "down"
    <3>1. SaveVersion \/ UNCHANGED tables
      BY <2>2 DEF Write
    <3>2. UNCHANGED <<chainTables, byHash, genesisAccounts>> /\ version' \in BOOLEAN
      BY <3>1 DEF SaveVersion, tables, DiskInv
    <3>3. ok => SaveVersion
      BY <2>2 DEF Write
    <3>4. faults' \in 0..MaxFaults /\ (faults' = 0 => faults = 0)
      <4>1. (ok => UNCHANGED faults) /\ (~ok => faults < MaxFaults /\ faults' = faults + 1)
        BY <2>2 DEF Write
      <4> QED BY <4>1, WriteFaults DEF CurrentInv
    <3> QED BY <2>2, <3>2, <3>3, <3>4 DEF Open, SaveVersion
  <2> QED BY <2>1, <2>2 DEF Open
<1>2. DiskInv'
  <2>1. (\A b \in byHash : Regular(b))'
    BY <1>1 DEF DiskInv, Regular
  <2>2. CASE metaTip = NoBlock /\ metaHeight = 0 /\ EmptyDatabase
    BY <1>1, <2>1, <2>2 DEF DiskInv, EmptyDatabase, chainTables
  <2>3. CASE \E t \in byHash : LedgerTables(t)
    <3>1. PICK t \in byHash : LedgerTables(t)
      BY <2>3
    <3>2. LedgerTables(t)' /\ t \in byHash'
      BY <1>1, <3>1 DEF LedgerTables, chainTables, SnapshotsAfter
    <3> QED BY <1>1, <2>1, <3>2 DEF DiskInv
  <2> QED BY <2>2, <2>3 DEF DiskInv
<1>3. MemoryInv'
  BY <1>1 DEF MemoryInv, memory, Regular
<1>4. PhaseInv' /\ CurrentInv'
  BY <1>1 DEF PhaseInv, CurrentInv
<1> QED BY <1>2, <1>3, <1>4

\* Loading takes the stored chain and everything that can be linked to it.
LEMMA LoadKeeps ==
  ASSUME StorageInv, LoadLedger
  PROVE  StorageInv'
<1> USE DEF StorageInv
<1>1. DiskInv'
  BY UnchangedDisk DEF LoadLedger
<1>2. /\ Indexed = {b \in byHash : Ancestors[b] \subseteq byHash}
      /\ Indexed \subseteq Blocks /\ metaTip \in Indexed
      /\ \A b \in Indexed : Regular(b) /\ Ancestors[b] \subseteq Indexed
  BY IndexedBlocks DEF LoadLedger
<1>3. MemoryInv'
  <2>1. forkChoice' = Indexed /\ tip' = metaTip /\ phase' = "up"
    BY DEF LoadLedger
  <2>2. (\A b \in forkChoice : Regular(b) /\ Ancestors[b] \subseteq forkChoice)'
    BY <1>2, <2>1 DEF Regular
  <2> QED BY <1>2, <2>1, <2>2 DEF MemoryInv
<1>4. PhaseInv'
  BY DEF PhaseInv, LoadLedger, tables, chainTables
<1>5. CurrentInv'
  <2>1. faults = 0 => Indexed = byHash
    BY <1>2 DEF CurrentInv
  <2> QED BY <2>1 DEF CurrentInv, LoadLedger, tables, chainTables
<1> QED BY <1>1, <1>3, <1>4, <1>5

\* Dying loses the memory.
LEMMA CrashKeeps ==
  ASSUME StorageInv, Crash
  PROVE  StorageInv'
<1> USE DEF StorageInv
<1>1. DiskInv'
  BY UnchangedDisk DEF Crash
<1>2. MemoryInv'
  BY TreeAssumption DEF MemoryInv, Crash
<1>3. PhaseInv' /\ CurrentInv'
  BY DEF PhaseInv, CurrentInv, Crash, tables
<1> QED BY <1>1, <1>2, <1>3

\* The first start writes the ledger at genesis,
LEMMA CreateLedgerKeeps ==
  ASSUME StorageInv, NEW ok \in BOOLEAN, CreateLedger(ok)
  PROVE  StorageInv'
<1> USE DEF StorageInv
<1>1. version /\ metaTip = NoBlock /\ byHash = {}
  <2>1. metaTip = NoBlock /\ phase = "opened" /\ version
    BY DEF CreateLedger, PhaseInv
  <2>2. \A t \in byHash : ~LedgerTables(t)
    BY <2>1, TreeAssumption DEF LedgerTables, DiskInv, NoBlock
  <2> QED BY <2>1, <2>2 DEF DiskInv, EmptyDatabase
<1>2. SaveLedger(Genesis) \/ UNCHANGED tables
  BY DEF CreateLedger, Write
<1>3. ok => SaveLedger(Genesis)
  BY DEF CreateLedger, Write
<1>4. faults' \in 0..MaxFaults /\ (faults' = 0 => ok /\ faults = 0)
  <2>1. (ok => UNCHANGED faults) /\ (~ok => faults < MaxFaults /\ faults' = faults + 1)
    BY DEF CreateLedger, Write
  <2> QED BY <2>1, WriteFaults DEF CurrentInv
<1>5. DiskInv'
  <2>1. CASE SaveLedger(Genesis)
    <3>1. Genesis \in Blocks /\ Ancestors[Genesis] = {Genesis}
      BY TreeAssumption, AncestorsAssumption
    <3> QED BY <1>1, <2>1, <3>1, GenesisRegular, SaveLedgerDisk
  <2>2. CASE UNCHANGED tables
    BY <2>2, UnchangedDisk
  <2> QED BY <1>2, <2>1, <2>2
<1>6. MemoryInv'
  BY DEF MemoryInv, CreateLedger, memory, Regular
<1>7. PhaseInv'
  BY <1>1, <1>2, <1>3 DEF PhaseInv, CreateLedger, SaveLedger, tables
<1>8. CurrentInv'
  <2>1. faults' = 0 => byHash' = {Genesis} /\ phase' # "up"
    BY <1>1, <1>3, <1>4, AncestorsAssumption DEF SaveLedger, CreateLedger
  <2>2. Ancestors[Genesis] = {Genesis}
    BY AncestorsAssumption
  <2> QED BY <1>4, <2>1, <2>2 DEF CurrentInv
<1> QED BY <1>5, <1>6, <1>7, <1>8

\* and then the genesis accounts.
LEMMA CreateAccountsKeeps ==
  ASSUME StorageInv, NEW ok \in BOOLEAN, CreateGenesisAccounts(ok)
  PROVE  StorageInv'
<1> USE DEF StorageInv
<1>1. metaTip = Genesis /\ metaTip # NoBlock /\ version
  BY TreeAssumption DEF CreateGenesisAccounts, PhaseInv, NoBlock
<1>2. SaveGenesisAccounts \/ UNCHANGED tables
  BY DEF CreateGenesisAccounts, Write
<1>3. UNCHANGED <<version, chainTables, byHash>>
  BY <1>2 DEF SaveGenesisAccounts, tables
<1>4. faults' \in 0..MaxFaults /\ (faults' = 0 => ok /\ faults = 0)
  <2>1. (ok => UNCHANGED faults) /\ (~ok => faults < MaxFaults /\ faults' = faults + 1)
    BY DEF CreateGenesisAccounts, Write
  <2> QED BY <2>1, WriteFaults DEF CurrentInv
<1>5. DiskInv'
  BY <1>1, <1>2, OtherWritesDisk, UnchangedDisk
<1>6. /\ Indexed = {b \in byHash : Ancestors[b] \subseteq byHash}
      /\ Indexed \subseteq Blocks /\ metaTip \in Indexed
      /\ \A b \in Indexed : Regular(b) /\ Ancestors[b] \subseteq Indexed
  BY <1>1, IndexedBlocks
<1>7. /\ tip' = Genesis /\ forkChoice' = IF ok THEN Indexed ELSE {}
      /\ phase' = IF ok THEN "up" ELSE "down"
  BY DEF CreateGenesisAccounts
<1>8. MemoryInv'
  <2>1. (\A b \in forkChoice : Regular(b) /\ Ancestors[b] \subseteq forkChoice)'
    BY <1>6, <1>7 DEF Regular
  <2> QED BY <1>1, <1>6, <1>7, <2>1, TreeAssumption DEF MemoryInv
<1>9. PhaseInv'
  BY <1>1, <1>3, <1>7 DEF PhaseInv, chainTables
<1>10. CurrentInv'
  <2>1. faults = 0 => Indexed = byHash
    BY <1>6 DEF CurrentInv
  <2> QED BY <1>1, <1>3, <1>4, <1>7, <2>1 DEF CurrentInv, chainTables
<1> QED BY <1>5, <1>8, <1>9, <1>10

\* The memory after a block was accepted.
LEMMA AcceptedMemory ==
  ASSUME StorageInv, NEW b \in Blocks, Acceptable(b),
         forkChoice' = forkChoice \cup {b}, tip' \in {tip, b}, phase' = phase
  PROVE  /\ MemoryInv' /\ Regular(b) /\ b # Genesis
         /\ Ancestors[b] \subseteq forkChoice' /\ \A a \in Ancestors[b] : Regular(a)
<1> USE DEF StorageInv
<1>1. b \in Valid \ {Genesis} /\ Parent[b] \in forkChoice /\ phase = "up"
  BY DEF Acceptable
<1>2. Regular(Parent[b]) /\ Ancestors[Parent[b]] \subseteq forkChoice
  BY <1>1 DEF MemoryInv
<1>3. Regular(b)
  BY <1>1, <1>2, ChildRegular
<1>4. Ancestors[b] = Ancestors[Parent[b]] \cup {b}
  BY <1>1, AncestorsAssumption
<1>5. \A a \in Ancestors[b] : Regular(a)
  BY <1>2, <1>3, <1>4 DEF MemoryInv
<1>6. \A c \in forkChoice' : Regular(c) /\ Ancestors[c] \subseteq forkChoice'
  BY <1>2, <1>3, <1>4 DEF MemoryInv
<1>7. (\A c \in forkChoice : Regular(c) /\ Ancestors[c] \subseteq forkChoice)'
  BY <1>6 DEF Regular
<1>8. MemoryInv'
  BY <1>1, <1>7 DEF MemoryInv
<1> QED BY <1>1, <1>2, <1>3, <1>4, <1>5, <1>8

\* A side block is stored by its hash only.
LEMMA SideKeeps ==
  ASSUME StorageInv, NEW b \in Blocks, NEW ok \in BOOLEAN, AcceptSide(b, ok)
  PROVE  StorageInv'
<1> USE DEF StorageInv
<1>1. /\ Acceptable(b) /\ forkChoice' = forkChoice \cup {b}
      /\ UNCHANGED <<phase, tip>> /\ Write(ok, SaveSideBlock(b))
  BY DEF AcceptSide
<1>2. /\ MemoryInv' /\ Regular(b)
      /\ Ancestors[b] \subseteq forkChoice'
  BY <1>1, AcceptedMemory
<1>3. phase = "up" /\ version /\ metaTip # NoBlock
  BY <1>1 DEF Acceptable, PhaseInv
<1>4. (SaveSideBlock(b) \/ UNCHANGED tables) /\ (ok => SaveSideBlock(b))
  BY <1>1 DEF Write
<1>5. faults' \in 0..MaxFaults /\ (faults' = 0 => ok /\ faults = 0)
  <2>1. (ok => UNCHANGED faults) /\ (~ok => faults < MaxFaults /\ faults' = faults + 1)
    BY <1>1 DEF Write
  <2> QED BY <2>1, WriteFaults DEF CurrentInv
<1>6. DiskInv'
  BY <1>2, <1>3, <1>4, OtherWritesDisk, UnchangedDisk
<1>7. UNCHANGED <<version, chainTables>>
  BY <1>4 DEF SaveSideBlock, tables
<1>8. PhaseInv'
  BY <1>1, <1>3, <1>7 DEF PhaseInv, chainTables
<1>9. CurrentInv'
  <2>1. faults' = 0 => byHash' = forkChoice' /\ metaTip' = tip'
    BY <1>1, <1>3, <1>4, <1>5, <1>7 DEF CurrentInv, SaveSideBlock, chainTables
  <2>2. \A c \in forkChoice' : Ancestors[c] \subseteq forkChoice'
    BY <1>2 DEF MemoryInv
  <2> QED BY <1>5, <2>1, <2>2 DEF CurrentInv
<1> QED BY <1>2, <1>6, <1>8, <1>9

\* A transaction of save_ledger for a block in memory, by reorg, extension or
\* flush, keeps the disk good and brings it up to date.
LEMMA SaveKeeps ==
  ASSUME StorageInv, MemoryInv', phase = "up", phase' = "up", NEW ok \in BOOLEAN,
         NEW t \in Blocks, tip' = t, Write(ok, SaveLedger(t)),
         Regular(t), \A a \in Ancestors[t] : Regular(a),
         Ancestors[t] \subseteq forkChoice',
         faults = 0 => forkChoice' = forkChoice \cup Ancestors[t]
  PROVE  StorageInv'
<1> USE DEF StorageInv
<1>1. version /\ metaTip # NoBlock
  BY DEF PhaseInv, MemoryInv
<1>2. (SaveLedger(t) \/ UNCHANGED tables) /\ (ok => SaveLedger(t))
  BY DEF Write
<1>3. faults' \in 0..MaxFaults /\ (faults' = 0 => ok /\ faults = 0)
  <2>1. (ok => UNCHANGED faults) /\ (~ok => faults < MaxFaults /\ faults' = faults + 1)
    BY DEF Write
  <2> QED BY <2>1, WriteFaults DEF CurrentInv
<1>4. DiskInv'
  BY <1>1, <1>2, SaveLedgerDisk, UnchangedDisk
<1>5. PhaseInv'
  <2>1. t # NoBlock
    BY TreeAssumption DEF NoBlock
  <2>2. CASE SaveLedger(t)
    BY <1>1, <2>1, <2>2 DEF PhaseInv, SaveLedger
  <2>3. CASE UNCHANGED tables
    BY <1>1, <2>3 DEF PhaseInv, tables, chainTables
  <2> QED BY <1>2, <2>2, <2>3
<1>6. CurrentInv'
  <2>1. faults' = 0 => byHash' = forkChoice' /\ metaTip' = tip'
    BY <1>2, <1>3 DEF CurrentInv, SaveLedger
  <2>2. \A c \in forkChoice' : Ancestors[c] \subseteq forkChoice'
    BY DEF MemoryInv
  <2> QED BY <1>3, <2>1, <2>2 DEF CurrentInv
<1> QED BY <1>4, <1>5, <1>6

\* A block that becomes the best tip is saved with its whole branch, or not at all.
LEMMA BestKeeps ==
  ASSUME StorageInv, NEW b \in Blocks, NEW ok \in BOOLEAN, AcceptBest(b, ok)
  PROVE  StorageInv'
<1>1. /\ Acceptable(b) /\ forkChoice' = forkChoice \cup {b} /\ tip' = b
      /\ phase' = phase /\ Write(ok, SaveLedger(b))
  BY DEF AcceptBest
<1>2. /\ MemoryInv' /\ Regular(b) /\ b # Genesis
      /\ Ancestors[b] \subseteq forkChoice' /\ \A a \in Ancestors[b] : Regular(a)
  BY <1>1, AcceptedMemory
<1>3. b \in Ancestors[b] /\ forkChoice' = forkChoice \cup Ancestors[b]
  BY <1>1, <1>2, OwnAncestor
<1>4. phase = "up"
  BY <1>1 DEF Acceptable
<1> QED BY <1>1, <1>2, <1>3, <1>4, SaveKeeps

\* A flush saves the ledger that is in memory once more.
LEMMA FlushKeeps ==
  ASSUME StorageInv, NEW ok \in BOOLEAN, Flush(ok)
  PROVE  StorageInv'
<1>1. /\ phase = "up" /\ phase' = "up" /\ tip' = tip /\ forkChoice' = forkChoice
      /\ Write(ok, SaveLedger(tip))
  BY DEF Flush, memory
<1>2. PICK t \in Blocks : t = tip
  BY DEF StorageInv, MemoryInv
<1>3. /\ Regular(t) /\ Ancestors[t] \subseteq forkChoice'
      /\ \A a \in Ancestors[t] : Regular(a)
  BY <1>1, <1>2 DEF StorageInv, MemoryInv
<1>4. MemoryInv'
  BY <1>1 DEF StorageInv, MemoryInv, Regular
<1>5. Write(ok, SaveLedger(t)) /\ tip' = t /\ forkChoice' = forkChoice \cup Ancestors[t]
  BY <1>1, <1>2, <1>3 DEF Write, SaveLedger
<1> QED BY <1>1, <1>3, <1>4, <1>5, SaveKeeps

\* The invariant holds throughout.
THEOREM StorageSafe == Spec => []StorageInv
<1>1. Init => StorageInv
  <2> SUFFICES ASSUME Init PROVE StorageInv
    OBVIOUS
  <2>1. DiskInv
    BY DEF Init, DiskInv, EmptyDatabase
  <2>2. MemoryInv /\ PhaseInv
    BY TreeAssumption DEF Init, MemoryInv, PhaseInv
  <2>3. CurrentInv
    BY StorageAssumption DEF Init, CurrentInv
  <2> QED BY <2>1, <2>2, <2>3 DEF StorageInv
<1>2. StorageInv /\ [Next]_vars => StorageInv'
  <2> SUFFICES ASSUME StorageInv, [Next]_vars PROVE StorageInv'
    OBVIOUS
  <2>1. ASSUME NEW ok \in BOOLEAN,
               Open(ok) \/ CreateLedger(ok) \/ CreateGenesisAccounts(ok) \/ Flush(ok)
        PROVE  StorageInv'
    BY <2>1, OpenKeeps, CreateLedgerKeeps, CreateAccountsKeeps, FlushKeeps
  <2>2. ASSUME NEW b \in Blocks, NEW ok \in BOOLEAN, AcceptSide(b, ok) \/ AcceptBest(b, ok)
        PROVE  StorageInv'
    BY <2>2, SideKeeps, BestKeeps
  <2>3. CASE LoadLedger
    BY <2>3, LoadKeeps
  <2>4. CASE Crash
    BY <2>4, CrashKeeps
  <2>5. CASE UNCHANGED vars
    <3>1. UNCHANGED <<phase, memory, tables, faults>>
      BY <2>5 DEF vars
    <3>2. DiskInv'
      BY <3>1, UnchangedDisk DEF StorageInv
    <3>3. MemoryInv'
      BY <3>1 DEF StorageInv, MemoryInv, memory, Regular
    <3>4. PhaseInv' /\ CurrentInv'
      BY <3>1 DEF StorageInv, PhaseInv, CurrentInv, memory, tables, chainTables
    <3> QED BY <3>2, <3>3, <3>4 DEF StorageInv
  <2> QED BY <2>1, <2>2, <2>3, <2>4, <2>5 DEF Next
<1> QED BY <1>1, <1>2, PTL DEF Spec

(******************************* properties ********************************)

\* The indexes of a branch are part of those of the whole tree.
LEMMA LocationsGrow ==
  ASSUME NEW A, NEW B, A \subseteq B
  PROVE  Locations(A) \subseteq Locations(B) /\ AddressLocations(A) \subseteq AddressLocations(B)
<1>1. Locations(A) \subseteq Locations(B)
  BY DEF Locations
<1>2. AddressLocations(A) \subseteq AddressLocations(B)
  <2> DEFINE L == Locations(A)
             M == Locations(B)
  <2> HIDE DEF L, M
  <2>1. L \subseteq M
    BY <1>1 DEF L, M
  <2> QED BY <2>1 DEF AddressLocations, L, M
<1> QED BY <1>1, <1>2

\* Every table holds entries of its own kind: blocks, heights, and locations of
\* transactions that are in a block.
THEOREM StorageTyped == Spec => []TypeOK
<1>1. ASSUME StorageInv PROVE TypeOK
  <2>1. /\ phase \in {"down", "opened", "created", "up"} /\ tip \in Blocks
        /\ forkChoice \subseteq Blocks /\ version \in BOOLEAN /\ genesisAccounts \in BOOLEAN
        /\ byHash \subseteq Blocks /\ faults \in 0..MaxFaults
    BY <1>1 DEF StorageInv, DiskInv, MemoryInv, CurrentInv
  <2>2. CASE metaTip = NoBlock /\ metaHeight = 0 /\ EmptyDatabase
    <3>1. /\ DOMAIN byHeight = {} /\ accounts = NoBlock /\ snapshots = {}
          /\ txIndex = {} /\ addressIndex = {}
      BY <2>2 DEF EmptyDatabase
    <3> QED BY <2>1, <2>2, <3>1 DEF TypeOK
  <2>3. CASE \E t \in byHash : LedgerTables(t)
    <3>1. PICK t \in byHash : LedgerTables(t)
      BY <2>3
    <3>2. /\ t \in Blocks /\ Regular(t) /\ Height[t] \in Nat
          /\ Ancestors[t] \subseteq Blocks
      BY <1>1, <2>1, TreeAssumption, AncestorsAssumption DEF StorageInv, DiskInv
    <3>3. DOMAIN byHeight \subseteq Nat /\ \A h \in DOMAIN byHeight : byHeight[h] \in Blocks
      <4>1. /\ DOMAIN HeightTable(Ancestors[t]) = 0..Height[t]
            /\ \A h \in 0..Height[t] : HeightTable(Ancestors[t])[h] \in Ancestors[t]
        BY <3>2, HeightTableOf
      <4>2. byHeight = HeightTable(Ancestors[t])
        BY <3>1 DEF LedgerTables
      <4> QED BY <3>2, <4>1, <4>2
    <3>4. txIndex \subseteq Locations(Blocks) /\ addressIndex \subseteq AddressLocations(Blocks)
      BY <3>1, <3>2, LocationsGrow DEF LedgerTables
    <3>5. metaTip = t /\ metaHeight = Height[t] /\ accounts = t /\ snapshots \subseteq {t}
      BY <3>1 DEF LedgerTables, SnapshotsAfter
    <3> QED BY <2>1, <3>2, <3>3, <3>4, <3>5 DEF TypeOK
  <2> QED BY <1>1, <2>2, <2>3 DEF StorageInv, DiskInv
<1>2. StorageInv => TypeOK
  BY <1>1
<1> QED BY <1>2, StorageSafe, PTL

\* With a stored tip, blocks_by_height is its branch.
LEMMA StoredBranch ==
  ASSUME DiskInv, metaTip # NoBlock
  PROVE  /\ metaTip \in Blocks /\ Regular(metaTip) /\ LedgerTables(metaTip)
         /\ DOMAIN byHeight = 0..Height[metaTip]
         /\ \A a \in Ancestors[metaTip] : LoadBlock(Height[a]) = a
         /\ \A h \in 0..Height[metaTip] :
              LoadBlock(h) \in Ancestors[metaTip] /\ Height[LoadBlock(h)] = h
<1>1. PICK t \in byHash : LedgerTables(t)
  BY DEF DiskInv
<1>2. t = metaTip /\ t \in Blocks /\ Regular(t) /\ byHeight = HeightTable(Ancestors[t])
  BY <1>1 DEF DiskInv, LedgerTables
<1>3. /\ DOMAIN byHeight = 0..Height[t]
      /\ \A a \in Ancestors[t] : byHeight[Height[a]] = a
      /\ \A h \in 0..Height[t] : byHeight[h] \in Ancestors[t] /\ Height[byHeight[h]] = h
  <2>1. /\ DOMAIN HeightTable(Ancestors[t]) = 0..Height[t]
        /\ \A a \in Ancestors[t] : HeightTable(Ancestors[t])[Height[a]] = a
        /\ \A h \in 0..Height[t] : /\ HeightTable(Ancestors[t])[h] \in Ancestors[t]
                                   /\ Height[HeightTable(Ancestors[t])[h]] = h
    BY <1>2, HeightTableOf
  <2> QED BY <1>2, <2>1
<1>4. \A a \in Ancestors[t] : Height[a] \in 0..Height[t]
  BY <1>2, TreeAssumption, AncestorsAssumption DEF Regular
<1> QED BY <1>1, <1>2, <1>3, <1>4 DEF LoadBlock

\* A branch goes down to genesis, parent by parent.
LEMMA BranchSteps ==
  ASSUME NEW t \in Blocks, Regular(t), NEW a \in Ancestors[t]
  PROVE  IF a = Genesis THEN Height[a] = 0
         ELSE Parent[a] \in Ancestors[t] /\ Height[a] = Height[Parent[a]] + 1
<1>1. a \in Valid /\ a \in Blocks /\ Ancestors[a] \subseteq Ancestors[t]
  BY TreeAssumption, AncestorsAssumption DEF Regular
<1>2. a # Genesis => Parent[a] \in Ancestors[a]
  BY <1>1, OwnAncestor
<1> QED BY <1>1, <1>2, HeightAssumption

\* Whatever the process did before it died, the next start succeeds.
THEOREM AlwaysStartsAgain == Spec => []StartsAgain
<1>1. StorageInv => StartsAgain
  <2> SUFFICES ASSUME StorageInv PROVE StartsAgain
    OBVIOUS
  <2>1. version \/ EmptyDatabase
    BY DEF StorageInv, DiskInv, LedgerTables
  <2>2. ASSUME metaTip # NoBlock PROVE ChainIntegrity /\ accounts = metaTip /\ genesisAccounts
    <3> DEFINE t == metaTip
    <3>1. /\ t \in Blocks /\ Regular(t) /\ LedgerTables(t)
          /\ \A a \in Ancestors[t] : LoadBlock(Height[a]) = a
          /\ \A h \in 0..Height[t] : LoadBlock(h) \in Ancestors[t] /\ Height[LoadBlock(h)] = h
      BY <2>2, StoredBranch DEF StorageInv
    <3>2. metaHeight = Height[t] /\ accounts = t /\ genesisAccounts
      BY <3>1 DEF LedgerTables
    <3>3. LoadBlock(Height[t]) = t
      BY <3>1, OwnAncestor
    <3>4. ASSUME NEW h \in 0..Height[t]
          PROVE  /\ LoadBlock(h) # NoBlock /\ Height[LoadBlock(h)] = h
                 /\ IF h = 0 THEN LoadBlock(h) = Genesis
                             ELSE Parent[LoadBlock(h)] = LoadBlock(h - 1)
      <4>1. PICK a \in Ancestors[t] : a = LoadBlock(h) /\ Height[a] = h
        BY <3>1
      <4>2. a \in Blocks /\ a \in Nat /\ a # NoBlock
        BY <3>1, TreeAssumption, AncestorsAssumption DEF NoBlock
      <4>3. IF a = Genesis THEN Height[a] = 0
            ELSE Parent[a] \in Ancestors[t] /\ Height[a] = Height[Parent[a]] + 1
        BY <3>1, BranchSteps
      <4>4. CASE h = 0
        <5>1. a = Genesis
          BY <4>1, <4>2, <4>4, HeightAssumption
        <5> QED BY <4>1, <4>2, <4>4, <5>1
      <4>5. CASE h # 0
        <5>1. a # Genesis
          BY <4>1, <4>5, HeightAssumption
        <5>2. Parent[a] \in Ancestors[t] /\ h = Height[Parent[a]] + 1
          BY <4>1, <4>3, <5>1
        <5>3. Parent[a] \in Blocks /\ Height[Parent[a]] \in Nat
          BY <5>2, <3>1, TreeAssumption, AncestorsAssumption
        <5>4. Height[Parent[a]] = h - 1
          BY <5>2, <5>3
        <5>5. LoadBlock(Height[Parent[a]]) = Parent[a]
          BY <5>2, <3>1
        <5> QED BY <4>1, <4>2, <4>5, <5>4, <5>5
      <4> QED BY <4>4, <4>5
    <3> QED BY <3>2, <3>3, <3>4 DEF ChainIntegrity
  <2> QED BY <2>1, <2>2 DEF StartsAgain
<1> QED BY <1>1, StorageSafe, PTL

\* The handlers that scan the disk by height see one branch, whatever is in memory.
LEMMA ScannedBranch ==
  ASSUME StorageInv, phase = "up"
  PROVE  /\ \E b \in byHash : Scanned = Ancestors[b]
         /\ metaTip = tip => Scanned = Ancestors[tip]
<1> DEFINE t == metaTip
<1>1. /\ t \in Blocks /\ Regular(t) /\ LedgerTables(t)
      /\ DOMAIN byHeight = 0..Height[t]
      /\ \A a \in Ancestors[t] : LoadBlock(Height[a]) = a
      /\ \A h \in 0..Height[t] : LoadBlock(h) \in Ancestors[t] /\ Height[LoadBlock(h)] = h
  BY StoredBranch DEF StorageInv, PhaseInv
<1>2. Height[t] \in Nat /\ Height[tip] \in Nat
  BY <1>1, TreeAssumption DEF StorageInv, MemoryInv
<1>3. PICK m \in 0..Height[t] : 0..Height[t] \cap 0..Height[tip] = 0..m /\ (t = tip => m = Height[t])
  <2>1. CASE Height[t] <= Height[tip]
    BY <1>2, <2>1
  <2>2. CASE Height[tip] < Height[t]
    BY <1>2, <2>2
  <2> QED BY <1>2, <2>1, <2>2
<1>4. PICK c \in Ancestors[t] : c = LoadBlock(m) /\ Height[c] = m
  BY <1>1
<1>5. Scanned = {a \in Ancestors[t] : Height[a] <= m}
  <2>1. Scanned = {LoadBlock(h) : h \in 0..m}
    BY <1>1, <1>3 DEF Scanned, LoadBlock
  <2>2. \A a \in Ancestors[t] : Height[a] \in Nat
    BY <1>1, TreeAssumption, AncestorsAssumption
  <2>3. ASSUME NEW h \in 0..m PROVE LoadBlock(h) \in Ancestors[t] /\ Height[LoadBlock(h)] <= m
    <3>1. h \in 0..Height[t]
      BY <1>2, <1>3
    <3> QED BY <1>1, <3>1
  <2>4. ASSUME NEW a \in Ancestors[t], Height[a] <= m PROVE Height[a] \in 0..m /\ LoadBlock(Height[a]) = a
    BY <1>1, <2>2, <2>4
  <2> QED BY <2>1, <2>3, <2>4
<1>6. Ancestors[c] = {a \in Ancestors[t] : Height[a] <= m}
  <2>1. Ancestors[c] \subseteq Ancestors[t]
    BY <1>1, <1>4, AncestorsAssumption
  <2>2. \A a \in Ancestors[t] : a \in Ancestors[c] <=> Height[a] <= Height[c]
    BY <1>4, <1>1 DEF Regular
  <2> QED BY <1>4, <2>1, <2>2
<1>7. c \in byHash
  BY <1>1, <1>4 DEF LedgerTables
<1>8. t = tip => c = tip
  <2>1. t \in Ancestors[t] /\ LoadBlock(Height[t]) = t
    BY <1>1, OwnAncestor
  <2> QED BY <1>3, <1>4, <2>1
<1> QED BY <1>5, <1>6, <1>7, <1>8

\* An RPC handler never mixes two branches.
THEOREM ScansOneBranch == Spec => []ScanIsOneBranch
<1>1. StorageInv => ScanIsOneBranch
  BY ScannedBranch DEF ScanIsOneBranch, StorageInv, CurrentInv
<1> QED BY <1>1, StorageSafe, PTL

\* Every entry of the indexes leads to its transaction, every snapshot to its
\* block, and the indexes agree with the scans.
THEOREM IndexesAreExact == Spec => []IndexesExact
<1>1. StorageInv => IndexesExact
  <2> SUFFICES ASSUME StorageInv PROVE IndexesExact
    OBVIOUS
  <2>1. (\A l \in txIndex : LocationHolds(l)) /\ (\A b \in snapshots : LoadBlock(Height[b]) = b)
    <3>1. CASE metaTip = NoBlock
      <4>1. txIndex = {} /\ snapshots = {}
        <5>1. ~\E t \in byHash : LedgerTables(t)
          BY <3>1, TreeAssumption DEF StorageInv, DiskInv, LedgerTables, NoBlock
        <5> QED BY <5>1 DEF StorageInv, DiskInv, EmptyDatabase
      <4> QED BY <4>1
    <3>2. CASE metaTip # NoBlock
      <4>1. /\ metaTip \in Blocks /\ LedgerTables(metaTip)
            /\ \A a \in Ancestors[metaTip] : LoadBlock(Height[a]) = a
        BY <3>2, StoredBranch DEF StorageInv
      <4>2. ASSUME NEW l \in txIndex PROVE LocationHolds(l)
        <5>1. l \in Locations(Ancestors[metaTip])
          BY <4>1 DEF LedgerTables
        <5>2. PICK b \in Ancestors[metaTip] : \E i \in DOMAIN Contents[b] :
                l = [tx |-> Contents[b][i], height |-> Height[b], hash |-> b, index |-> i]
          BY <5>1 DEF Locations
        <5>3. LoadBlock(Height[b]) = b
          BY <4>1
        <5> QED BY <5>2, <5>3 DEF LocationHolds
      <4>3. ASSUME NEW b \in snapshots PROVE LoadBlock(Height[b]) = b
        <5>1. b = metaTip
          BY <4>1 DEF LedgerTables, SnapshotsAfter
        <5> QED BY <4>1, <5>1, OwnAncestor
      <4> QED BY <4>2, <4>3
    <3> QED BY <3>1, <3>2
  <2>2. ASSUME phase = "up", metaTip = tip
        PROVE  /\ \A t \in Transactions : LoadLocation(t) = FindTransaction(t)
               /\ \A a \in Addresses : LoadAddress(a) = AddressActivity(a)
    <3>1. Scanned = Ancestors[tip]
      BY <2>2, ScannedBranch
    <3>2. LedgerTables(tip)
      BY <2>2, StoredBranch DEF StorageInv, PhaseInv
    <3>3. /\ txIndex = Locations(Ancestors[tip])
          /\ addressIndex = AddressLocations(Ancestors[tip])
      BY <3>2 DEF LedgerTables
    <3>4. ASSUME NEW t \in Transactions PROVE LoadLocation(t) = FindTransaction(t)
      BY <3>1, <3>3 DEF LoadLocation, FindTransaction
    <3>5. ASSUME NEW a \in Addresses PROVE LoadAddress(a) = AddressActivity(a)
      <4> DEFINE L == Locations(Ancestors[tip])
      <4>1. AddressActivity(a) = {l \in L : Sender[l.tx] = a \/ Receiver[l.tx] = a}
        BY <3>1 DEF AddressActivity
      <4>2. ASSUME NEW l \in LoadAddress(a)
            PROVE  l \in L /\ (Sender[l.tx] = a \/ Receiver[l.tx] = a)
        <5>1. PICK f \in addressIndex : f.address = a /\ l = f.at
          BY <4>2 DEF LoadAddress
        <5>2. PICK k \in L : \/ f = [address |-> Sender[k.tx], at |-> k, sent |-> TRUE]
                             \/ f = [address |-> Receiver[k.tx], at |-> k, sent |-> FALSE]
          BY <3>3 DEF AddressLocations
        <5> QED BY <5>1, <5>2
      <4>3. ASSUME NEW l \in L, Sender[l.tx] = a \/ Receiver[l.tx] = a
            PROVE  l \in LoadAddress(a)
        <5>1. CASE Sender[l.tx] = a
          <6>1. [address |-> Sender[l.tx], at |-> l, sent |-> TRUE] \in addressIndex
            BY <3>3 DEF AddressLocations
          <6> QED BY <5>1, <6>1 DEF LoadAddress
        <5>2. CASE Receiver[l.tx] = a /\ Sender[l.tx] # a
          <6>1. [address |-> Receiver[l.tx], at |-> l, sent |-> FALSE] \in addressIndex
            BY <5>2, <3>3 DEF AddressLocations
          <6> QED BY <5>2, <6>1 DEF LoadAddress
        <5> QED BY <4>3, <5>1, <5>2
      <4> QED BY <4>1, <4>2, <4>3
    <3> QED BY <3>4, <3>5
  <2> QED BY <2>1, <2>2 DEF IndexesExact
<1> QED BY <1>1, StorageSafe, PTL

\* The miner's difficulty, read by height, is that of the branch it mines on.
THEOREM DifficultiesAgree == Spec => []DifficultyAgrees
<1>1. StorageInv => DifficultyAgrees
  <2> SUFFICES ASSUME StorageInv, phase = "up", faults = 0 \/ metaTip = tip
               PROVE  DifficultyWindow(Height[tip]) = BranchWindow(tip)
    BY DEF DifficultyAgrees
  <2>1. metaTip = tip /\ metaTip # NoBlock
    BY DEF StorageInv, CurrentInv, PhaseInv
  <2>2. /\ tip \in Blocks /\ LedgerTables(tip)
        /\ DOMAIN byHeight = 0..Height[tip]
        /\ \A a \in Ancestors[tip] : LoadBlock(Height[a]) = a
    BY <2>1, StoredBranch DEF StorageInv
  <2>3. Height[tip] \in Nat /\ DifficultyInterval \in Nat
    BY <2>2, TreeAssumption, StorageAssumption
  <2>4. CASE Height[tip] < DifficultyInterval
    BY <2>4 DEF DifficultyWindow, BranchWindow
  <2>5. CASE ~(Height[tip] < DifficultyInterval)
    <3> DEFINE h == Height[tip] - DifficultyInterval
    <3>1. h \in DOMAIN byHeight /\ Height[tip] \in DOMAIN byHeight
      BY <2>2, <2>3, <2>5
    <3>2. byHeight[Height[tip]] = tip
      BY <2>2, <3>1, OwnAncestor DEF LoadBlock
    <3>3. byHeight[h] = CHOOSE a \in Ancestors[tip] : Height[a] = h
      <4>1. byHeight = HeightTable(Ancestors[tip])
        BY <2>2 DEF LedgerTables
      <4>2. HeightTable(Ancestors[tip])
              = [k \in {Height[b] : b \in Ancestors[tip]} |->
                   CHOOSE b \in Ancestors[tip] : Height[b] = k]
        BY DEF HeightTable
      <4>3. h \in {Height[b] : b \in Ancestors[tip]}
        BY <3>1, <4>1, <4>2
      <4> QED BY <4>1, <4>2, <4>3
    <3>4. DifficultyWindow(Height[tip]) = <<byHeight[h], byHeight[Height[tip]]>>
      BY <2>5, <3>1 DEF DifficultyWindow
    <3>5. BranchWindow(tip) = <<CHOOSE a \in Ancestors[tip] : Height[a] = h, tip>>
      BY <2>5 DEF BranchWindow
    <3> QED BY <3>2, <3>3, <3>4, <3>5
  <2> QED BY <2>4, <2>5
<1> QED BY <1>1, StorageSafe, PTL

(******************************* refinement ********************************)

\* What Follower calls known and head.
Known == IF phase = "up" THEN forkChoice ELSE {b \in Durable : Ancestors[b] \subseteq Durable}

Leading == IF phase = "up" THEN tip ELSE DurableHead

\* The stored head is there with its branch, and without a failed write the
\* database is what is in memory.
DurableGood ==
  /\ metaTip = NoBlock => byHash = {} /\ Durable = {Genesis} /\ DurableHead = Genesis
  /\ metaTip # NoBlock => Durable = byHash /\ DurableHead = metaTip
  /\ Ancestors[DurableHead] \subseteq Durable
  /\ faults = 0 => Known = Durable /\ Leading = DurableHead

\* The invariant of the storage gives it.
LEMMA DurableFacts == StorageInv => DurableGood
<1> SUFFICES ASSUME StorageInv PROVE DurableGood
  OBVIOUS
<1>1. CASE metaTip = NoBlock
  <2>1. byHash = {} /\ phase # "up"
    <3>1. ~\E t \in byHash : LedgerTables(t)
      BY <1>1, TreeAssumption DEF StorageInv, DiskInv, LedgerTables, NoBlock
    <3> QED BY <1>1, <3>1 DEF StorageInv, DiskInv, EmptyDatabase, PhaseInv
  <2> QED BY <1>1, <2>1, AncestorsAssumption DEF DurableGood, Durable, DurableHead, Known, Leading
<1>2. CASE metaTip # NoBlock
  <2>1. LedgerTables(metaTip) /\ metaTip \in Blocks
    BY <1>2, StoredBranch DEF StorageInv
  <2>2. metaTip \in byHash /\ Ancestors[metaTip] \subseteq byHash
    BY <2>1, OwnAncestor DEF LedgerTables
  <2>3. Durable = byHash /\ DurableHead = metaTip
    BY <1>2, <2>2 DEF Durable, DurableHead
  <2>4. faults = 0 => Known = byHash /\ Leading = metaTip
    BY <2>3 DEF StorageInv, CurrentInv, Known, Leading
  <2> QED BY <1>2, <2>2, <2>3, <2>4 DEF DurableGood
<1> QED BY <1>1, <1>2

\* Database writes that follow what is in memory are Persist.
LEMMA StepPersists ==
  ASSUME StorageInv, StorageInv',
         Durable \subseteq Durable', Durable' \subseteq Durable \cup Known',
         DurableHead' \in {DurableHead, Leading'},
         faults > 0 => faults' > 0
  PROVE  Abstract!Persist
<1>1. DurableGood'
  BY DurableFacts, PTL
<1>2. /\ Ancestors[DurableHead'] \subseteq Durable'
      /\ faults' = 0 => Known' = Durable' /\ Leading' = DurableHead'
  BY <1>1 DEF DurableGood
<1>3. ~(faults' > 0) => faults' = 0
  <2>1. faults' \in 0..MaxFaults
    BY DEF StorageInv, CurrentInv
  <2> QED BY <2>1, StorageAssumption
<1> QED BY <1>2, <1>3 DEF Abstract!Persist, Known, Leading

\* Starting, up to the point where the node is up, and flushing are Follower's Save:
\* they change at most the database.
LEMMA StartAndFlushSave ==
  ASSUME StorageInv, StorageInv', NEW ok \in BOOLEAN,
         \/ Open(ok) \/ CreateLedger(ok) \/ CreateGenesisAccounts(ok) \/ Flush(ok)
         \/ LoadLedger
         \/ Crash /\ phase # "up"
  PROVE  Abstract!Save
<1>1. DurableGood /\ DurableGood'
  BY DurableFacts, PTL
<1>2. faults > 0 => faults' > 0
  <2>1. faults' = faults \/ faults' = faults + 1
    BY DEF Open, CreateLedger, CreateGenesisAccounts, Flush, LoadLedger, Crash, Write
  <2>2. faults \in 0..MaxFaults
    BY DEF StorageInv, CurrentInv
  <2> QED BY <2>1, <2>2, StorageAssumption
<1>3. CASE Open(ok) \/ (Crash /\ phase # "up")
  <2>1. UNCHANGED <<byHash, metaTip>> /\ phase # "up" /\ phase' # "up"
    BY <1>3 DEF Open, Crash, Write, SaveVersion, tables, chainTables
  <2>2. UNCHANGED <<Durable, DurableHead, Known, Leading>>
    BY <2>1 DEF Durable, DurableHead, Known, Leading
  <2>3. Abstract!Persist
    BY <1>2, <2>2, StepPersists
  <2> QED BY <2>2, <2>3 DEF Abstract!Save, Known, Leading
<1>4. CASE CreateLedger(ok)
  <2>1. metaTip = NoBlock /\ phase # "up" /\ phase' # "up"
    BY <1>4 DEF CreateLedger
  <2>2. SaveLedger(Genesis) \/ UNCHANGED <<byHash, metaTip>>
    BY <1>4 DEF CreateLedger, Write, tables, chainTables
  <2>3. Durable' = {Genesis} /\ DurableHead' = Genesis
    <3>1. CASE SaveLedger(Genesis)
      BY <1>1, <2>1, <3>1, AncestorsAssumption DEF DurableGood, SaveLedger, Durable, DurableHead
    <3>2. CASE UNCHANGED <<byHash, metaTip>>
      BY <1>1, <2>1, <3>2 DEF DurableGood, Durable, DurableHead
    <3> QED BY <2>2, <3>1, <3>2
  <2>4. UNCHANGED <<Durable, DurableHead, Known, Leading>>
    <3>1. Durable = {Genesis} /\ DurableHead = Genesis
      BY <1>1, <2>1 DEF DurableGood, Durable, DurableHead
    <3>2. Durable' = Durable /\ DurableHead' = DurableHead
      BY <2>3, <3>1
    <3>3. Known' = Known
      BY <2>1, <3>2 DEF Known
    <3>4. Leading' = Leading
      BY <2>1, <3>2 DEF Leading
    <3> QED BY <3>2, <3>3, <3>4
  <2>5. Abstract!Persist
    BY <1>2, <2>4, StepPersists
  <2> QED BY <2>4, <2>5 DEF Abstract!Save, Known, Leading
<1>5. CASE CreateGenesisAccounts(ok) \/ LoadLedger
  <2>1. UNCHANGED <<byHash, metaTip>> /\ phase # "up" /\ metaTip # NoBlock
    <3>1. CASE LoadLedger
      BY <3>1 DEF LoadLedger, tables, chainTables
    <3>2. CASE CreateGenesisAccounts(ok)
      <4>1. metaTip = Genesis /\ phase # "up"
        BY <3>2 DEF CreateGenesisAccounts, StorageInv, PhaseInv
      <4>2. Genesis # NoBlock
        BY TreeAssumption DEF NoBlock
      <4>3. UNCHANGED <<byHash, metaTip>>
        BY <3>2 DEF CreateGenesisAccounts, Write, SaveGenesisAccounts, tables, chainTables
      <4> QED BY <4>1, <4>2, <4>3
    <3> QED BY <1>5, <3>1, <3>2
  <2>2. UNCHANGED <<Durable, DurableHead>> /\ Durable = byHash /\ DurableHead = metaTip
    BY <1>1, <2>1 DEF Durable, DurableHead, DurableGood
  <2>3. Indexed = {b \in byHash : Ancestors[b] \subseteq byHash}
    BY <2>1, IndexedBlocks DEF StorageInv
  <2>4. phase' = "up" => forkChoice' = Indexed /\ tip' = metaTip
    <3>1. CASE LoadLedger
      BY <3>1 DEF LoadLedger
    <3>2. CASE CreateGenesisAccounts(ok)
      BY <3>2 DEF CreateGenesisAccounts, StorageInv, PhaseInv
    <3> QED BY <1>5, <3>1, <3>2
  <2>5. UNCHANGED <<Known, Leading>>
    BY <2>1, <2>2, <2>3, <2>4 DEF Known, Leading
  <2>6. Abstract!Persist
    BY <1>2, <2>2, <2>5, StepPersists
  <2> QED BY <2>5, <2>6 DEF Abstract!Save, Known, Leading
<1>6. CASE Flush(ok)
  <2>1. phase = "up" /\ phase' = "up" /\ tip' = tip /\ forkChoice' = forkChoice
    BY <1>6 DEF Flush, memory
  <2>2. UNCHANGED <<Known, Leading>> /\ Known' = forkChoice /\ Leading' = tip
    BY <2>1 DEF Known, Leading
  <2>3. SaveLedger(tip) \/ UNCHANGED <<byHash, metaTip>>
    BY <1>6 DEF Flush, Write, tables, chainTables
  <2>4. /\ Durable = byHash /\ DurableHead = metaTip
        /\ Durable' = byHash' /\ DurableHead' = metaTip'
    BY <1>1, <2>1 DEF DurableGood, StorageInv, PhaseInv
  <2>5. Ancestors[tip] \subseteq forkChoice
    BY <2>1 DEF StorageInv, MemoryInv
  <2>6. /\ byHash \subseteq byHash' /\ byHash' \subseteq byHash \cup forkChoice
        /\ metaTip' \in {metaTip, tip}
    BY <2>3, <2>5 DEF SaveLedger
  <2>7. Abstract!Persist
    BY <1>2, <2>2, <2>4, <2>6, StepPersists
  <2> QED BY <2>2, <2>7 DEF Abstract!Save, Known, Leading
<1> QED BY <1>3, <1>4, <1>5, <1>6

\* Accepting a block is its Adopt.
LEMMA AcceptAdopts ==
  ASSUME StorageInv, StorageInv', NEW b \in Blocks, NEW ok \in BOOLEAN,
         AcceptSide(b, ok) \/ AcceptBest(b, ok)
  PROVE  b # Genesis /\ Abstract!Adopt(b)
<1>1. DurableGood /\ DurableGood'
  BY DurableFacts, PTL
<1>2. /\ Acceptable(b) /\ forkChoice' = forkChoice \cup {b} /\ phase' = phase
      /\ tip' = IF IsBest(b) THEN b ELSE tip
      /\ \/ IsBest(b) /\ SaveLedger(b)
         \/ SaveSideBlock(b)
         \/ UNCHANGED <<byHash, metaTip>>
  BY DEF AcceptSide, AcceptBest, Write, tables, chainTables
<1>3. faults > 0 => faults' > 0
  <2>1. faults' = faults \/ faults' = faults + 1
    BY DEF AcceptSide, AcceptBest, Write
  <2>2. faults \in 0..MaxFaults
    BY DEF StorageInv, CurrentInv
  <2> QED BY <2>1, <2>2, StorageAssumption
<1>4. phase = "up" /\ b \in Valid \ (forkChoice \cup {Genesis}) /\ Parent[b] \in forkChoice
  BY <1>2 DEF Acceptable
<1>5. /\ Known = forkChoice /\ Known' = forkChoice' /\ Leading = tip /\ Leading' = tip'
  BY <1>2, <1>4 DEF Known, Leading
<1>6. /\ Durable = byHash /\ DurableHead = metaTip
      /\ Durable' = byHash' /\ DurableHead' = metaTip'
  BY <1>1, <1>2, <1>4 DEF DurableGood, StorageInv, PhaseInv
<1>7. b \in forkChoice' /\ Ancestors[b] \subseteq forkChoice'
  BY <1>2 DEF StorageInv, MemoryInv
<1>8. /\ byHash \subseteq byHash' /\ byHash' \subseteq byHash \cup forkChoice'
      /\ metaTip' \in {metaTip, tip'}
  <2>1. CASE IsBest(b) /\ SaveLedger(b)
    BY <1>2, <1>7, <2>1 DEF SaveLedger
  <2>2. CASE SaveSideBlock(b)
    BY <1>7, <2>2 DEF SaveSideBlock, chainTables
  <2>3. CASE UNCHANGED <<byHash, metaTip>>
    BY <2>3
  <2> QED BY <1>2, <2>1, <2>2, <2>3
<1>9. Abstract!Persist
  BY <1>3, <1>5, <1>6, <1>8, StepPersists
<1>10. tip' = IF \A c \in forkChoice : <<b, c>> \in Better THEN b ELSE tip
  BY <1>2 DEF IsBest
<1> QED BY <1>2, <1>4, <1>9, <1>10 DEF Abstract!Adopt

\* The tables implement Follower: seen through them, every step of the program is
\* accepting a block, saving, or coming back with what was saved.
THEOREM StorageImplementsFollower == Spec => ImplementsFollower
<1>1. Init => Abstract!Init
  <2> SUFFICES ASSUME Init PROVE Abstract!Init
    OBVIOUS
  <2>1. Durable = {Genesis} /\ DurableHead = Genesis /\ phase # "up" /\ faults = 0
    BY DEF Init, Durable, DurableHead
  <2>2. {b \in {Genesis} : Ancestors[b] \subseteq {Genesis}} = {Genesis}
    BY AncestorsAssumption
  <2> QED BY <2>1, <2>2 DEF Abstract!Init
<1>2. StorageInv /\ StorageInv' /\ [Next]_vars => [Abstract!Next]_(Abstract!followerVars)
  <2> SUFFICES ASSUME StorageInv, StorageInv', [Next]_vars
               PROVE  Abstract!Next \/ UNCHANGED Abstract!followerVars
    OBVIOUS
  <2>1. ASSUME NEW ok \in BOOLEAN,
               Open(ok) \/ CreateLedger(ok) \/ CreateGenesisAccounts(ok) \/ Flush(ok)
        PROVE  Abstract!Next
    BY <2>1, StartAndFlushSave DEF Abstract!Next
  <2>2. ASSUME NEW b \in Blocks, NEW ok \in BOOLEAN, AcceptSide(b, ok) \/ AcceptBest(b, ok)
        PROVE  Abstract!Next
    BY <2>2, AcceptAdopts DEF Abstract!Next
  <2>3. CASE LoadLedger \/ (Crash /\ phase # "up")
    <3>1. TRUE \in BOOLEAN
      OBVIOUS
    <3>2. Abstract!Save
      BY <2>3, <3>1, StartAndFlushSave
    <3> QED BY <3>2 DEF Abstract!Next
  <2>4. CASE Crash /\ phase = "up"
    <3>1. phase' # "up" /\ UNCHANGED <<byHash, metaTip, faults>>
      BY <2>4 DEF Crash, tables, chainTables
    <3>2. UNCHANGED <<Durable, DurableHead>>
      BY <3>1 DEF Durable, DurableHead
    <3>3. Abstract!Recover
      BY <3>1, <3>2 DEF Abstract!Recover, Abstract!Linked
    <3> QED BY <3>3 DEF Abstract!Next
  <2>5. CASE UNCHANGED vars
    BY <2>5 DEF vars, memory, tables, chainTables, Abstract!followerVars, Durable, DurableHead
  <2> QED BY <2>1, <2>2, <2>3, <2>4, <2>5 DEF Next
<1> QED BY <1>1, <1>2, StorageSafe, PTL DEF Spec, ImplementsFollower, Abstract!Spec
=============================================================================
