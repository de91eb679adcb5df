------------------------------ MODULE Mempool ------------------------------
(* runtime/mempool/mempool.rs together with what moves the ledger under it:   *)
(* apply_known_parent_block and reorg_to_best_tip of node.rs, and the miner   *)
(* (mine_once_unlocked of main.rs), which prepares a block under the node     *)
(* mutex, searches for a nonce without it, and applies the block under it.    *)
(*                                                                            *)
(* A block is the sequence of its transactions, the ledger is the sequence of *)
(* its blocks above genesis; nonces and balances are computed from it.  Money *)
(* received and mining rewards are left out: senders spend what they had at   *)
(* genesis.  Dates of blocks and the LMDB file are left out too: where the    *)
(* code depends on them (a header refused, a failed write), both outcomes are *)
(* possible.                                                                  *)
EXTENDS Integers, FiniteSets, Sequences, Functions, FiniteSetsExt

CONSTANTS
  Txs,            \* every transaction, identified by its hash (a natural number)
  Sender, Nonce, Fee, Cost, Size, Stamp,  \* cost is amount plus fee
  Balance,        \* of every sender, at genesis
  MinRelayFee,    \* min_relay_fee, already raised to MIN_RELAY_FEE_FLOOR
  MarketFee, LowFeeTTL, FullTTL,
  MaxFuture, MaxAge,       \* MAX_RELAY_TRANSACTION_FUTURE_SECS, ..._AGE_SECS
  MaxTxs, MaxBytes,        \* max_transactions, max_bytes
  BlockLimit,     \* MAX_BLOCK_TXS
  MaxHeight,      \* bound: blocks above genesis
  MaxClock        \* bound: time

ASSUME MempoolAssumption ==
  /\ Txs \subseteq Nat /\ IsFiniteSet(Txs)
  /\ \A f \in {Nonce, Fee, Cost, Size, Stamp} : f \in [Txs -> Nat]
  /\ \A t \in Txs : Sender[t] \in DOMAIN Balance /\ Fee[t] <= Cost[t]
  /\ {MinRelayFee, MarketFee, LowFeeTTL, FullTTL, MaxFuture, MaxAge,
      MaxTxs, MaxBytes, BlockLimit, MaxHeight, MaxClock} \subseteq Nat

VARIABLES
  mempool,     \* transactions (pending, with insertedAt) and total_bytes
  chain,       \* the ledger
  mining,      \* whether a candidate is being mined, without the lock,
  candidate,   \* the chain it builds on and its transactions
  exit,        \* why run() returned an error, or "no"
  clock

vars == <<mempool, chain, mining, candidate, exit, clock>>

(******************************* the ledger ********************************)

\* The transactions of several blocks, in order.
Transactions(blocks) ==
  LET upTo[i \in 0..Len(blocks)] == IF i = 0 THEN <<>> ELSE upTo[i - 1] \o blocks[i]
  IN upTo[Len(blocks)]

Confirmed(ch) == Transactions(ch)

\* The places of a sender's transactions.
SpentBy(txs, a) == {i \in DOMAIN txs : Sender[txs[i]] = a}
LedgerNonce(ch, a) == Cardinality(SpentBy(Confirmed(ch), a))
LedgerBalance(ch, a) ==
  LET txs == Confirmed(ch) IN
  Balance[a] - MapThenSumSet(LAMBDA i : Cost[txs[i]], SpentBy(txs, a))

\* Whether a block with these transactions can follow ch: each spends the next
\* nonce of its sender, and no more than the sender has.
Applies(ch, txs) ==
  \A i \in 1..Len(txs) :
    LET before == Append(ch, SubSeq(txs, 1, i - 1)) IN
    /\ Nonce[txs[i]] = LedgerNonce(before, Sender[txs[i]])
    /\ Cost[txs[i]] <= LedgerBalance(before, Sender[txs[i]])

\* The bodies a block may have, and the chains of blocks that are ledgers.  (An
\* image, so that TLC enumerates the set once.)
Bodies == UNION {[1..n -> Txs] : n \in 0..BlockLimit}
Ledgers ==
  LET chains == UNION {[1..n -> Bodies] : n \in 0..MaxHeight} IN
  {ch : ch \in {c \in chains : \A i \in 1..Len(c) : Applies(SubSeq(c, 1, i - 1), c[i])}}

(******************************* the mempool *******************************)

EmptyPool == [pending |-> {}, insertedAt |-> [t \in Txs |-> 0], totalBytes |-> 0]

Monus(a, b) == IF a >= b THEN a - b ELSE 0
Bytes(S) == MapThenSumSet(LAMBDA t : Size[t], S)

Expires(m, t, now) ==
  now - m.insertedAt[t] > (IF Fee[t] < MarketFee THEN LowFeeTTL ELSE FullTTL)

\* prune_expired: total_bytes is counted again.
PruneExpired(m, now) ==
  LET kept == {t \in m.pending : ~Expires(m, t, now)} IN
  [pending |-> kept,
   insertedAt |-> [t \in Txs |-> IF t \in kept THEN m.insertedAt[t] ELSE 0],
   totalBytes |-> Bytes(kept)]

\* replacement_candidate: the first transaction with this sender and nonce.
Replacement(m, t) ==
  LET same == {p \in m.pending : Sender[p] = Sender[t] /\ Nonce[p] = Nonce[t]} IN
  {p \in same : \A q \in same : p <= q}

\* validate_timestamp_policy and validate_fee_policy; every transaction of Txs is
\* well signed.
Relayable(t, now) ==
  /\ Stamp[t] <= now + MaxFuture
  /\ Monus(now, Stamp[t]) <= MaxAge
  /\ Fee[t] >= MinRelayFee

\* The elements of S by increasing key.
Ascending(S, key) ==
  CHOOSE s \in Injection(1..Cardinality(S), S) : \A i, j \in DOMAIN s : i < j => key[s[i]] <= key[s[j]]

\* Mutant of ValidAgainstLedger: only the new transaction is compared with the
\* sender's balance.
ValidOnItsOwn(m, ch, t, excluded) ==
  LET mine == {p \in m.pending \ excluded : Sender[p] = Sender[t]} IN
  /\ {Nonce[p] : p \in mine} =
       LedgerNonce(ch, Sender[t]) .. (LedgerNonce(ch, Sender[t]) + Cardinality(mine) - 1)
  /\ Nonce[t] = LedgerNonce(ch, Sender[t]) + Cardinality(mine)
  /\ Cost[t] <= LedgerBalance(ch, Sender[t])

\* validate_against_ledger_excluding: the sender's other transactions, in the
\* order of their nonces, and then this one, must apply to the ledger.
ValidAgainstLedger(m, ch, t, excluded) ==
  LET mine == {p \in m.pending \ excluded : Sender[p] = Sender[t]} IN
  Applies(ch, Append(Ascending(mine, Nonce), t))

\* Mutants of InsertUnchecked: the replaced transaction stays; it is removed before
\* the byte limit is checked; > for >=.
InsertBeside(m, t, now, replaced) ==
  IF \/ t \in m.pending
     \/ replaced = {} /\ Cardinality(m.pending) >= MaxTxs
     \/ Monus(m.totalBytes, Bytes(replaced)) + Size[t] > MaxBytes
  THEN m
  ELSE [pending |-> m.pending \cup {t},
        insertedAt |-> [m.insertedAt EXCEPT ![t] = now],
        totalBytes |-> m.totalBytes + Size[t]]

InsertTooEager(m, t, now, replaced) ==
  LET room == [m EXCEPT !.pending = @ \ replaced,
                        !.totalBytes = Monus(@, Bytes(replaced))] IN
  IF t \in m.pending \/ (replaced = {} /\ Cardinality(m.pending) >= MaxTxs) THEN m
  ELSE IF room.totalBytes + Size[t] > MaxBytes THEN room
  ELSE [pending |-> room.pending \cup {t},
        insertedAt |-> [m.insertedAt EXCEPT ![t] = now],
        totalBytes |-> room.totalBytes + Size[t]]

InsertOneMore(m, t, now, replaced) ==
  IF \/ t \in m.pending
     \/ replaced = {} /\ Cardinality(m.pending) > MaxTxs
     \/ Monus(m.totalBytes, Bytes(replaced)) + Size[t] > MaxBytes
  THEN m
  ELSE [pending |-> (m.pending \ replaced) \cup {t},
        insertedAt |-> [m.insertedAt EXCEPT ![t] = now],
        totalBytes |-> Monus(m.totalBytes, Bytes(replaced)) + Size[t]]

\* insert_unchecked: the limits, then the replacement and the insertion.
InsertUnchecked(m, t, now, replaced) ==
  IF \/ t \in m.pending
     \/ replaced = {} /\ Cardinality(m.pending) >= MaxTxs
     \/ Monus(m.totalBytes, Bytes(replaced)) + Size[t] > MaxBytes
  THEN m
  ELSE [pending |-> (m.pending \ replaced) \cup {t},
        insertedAt |-> [x \in Txs |-> IF x = t THEN now
                                      ELSE IF x \in replaced THEN 0
                                      ELSE m.insertedAt[x]],
        totalBytes |-> Monus(m.totalBytes, Bytes(replaced)) + Size[t]]

\* insert_validated_at.  A refused transaction changes nothing but the pruning.
InsertValidated(m, ch, t, now) ==
  LET pruned   == PruneExpired(m, now)
      replaced == Replacement(pruned, t)
  IN IF /\ Relayable(t, now)
        /\ \A r \in replaced : Fee[t] > Fee[r]
        /\ ValidAgainstLedger(pruned, ch, t, replaced)
     THEN InsertUnchecked(pruned, t, now, replaced)
     ELSE pruned

\* Mutant of RemoveConfirmed: the size of every transaction of the block is
\* subtracted, pending or not.
RemoveConfirmedTwice(m, txs) ==
  [m EXCEPT !.pending = @ \ Range(txs),
            !.insertedAt = [t \in Txs |-> IF t \in Range(txs) THEN 0 ELSE @[t]],
            !.totalBytes = @ - Bytes(Range(txs))]

\* remove_confirmed: by hash, and total_bytes is left as it was.
RemoveConfirmed(m, txs) ==
  [m EXCEPT !.pending = @ \ Range(txs),
            !.insertedAt = [t \in Txs |-> IF t \in Range(txs) THEN 0 ELSE @[t]]]

\* select_for_block: of every sender's lowest nonce, the highest fee; then the
\* lower nonce, then the lower hash.
BeforeInBlock(t, u) ==
  \/ Fee[t] > Fee[u]
  \/ Fee[t] = Fee[u] /\ Nonce[t] < Nonce[u]
  \/ Fee[t] = Fee[u] /\ Nonce[t] = Nonce[u] /\ t < u

\* Mutant of Heads: the fee alone decides.
HeadsByFee(S) == S

Heads(S) ==
  {t \in S : \A u \in S \ {t} : Sender[u] = Sender[t] =>
     Nonce[t] < Nonce[u] \/ (Nonce[t] = Nonce[u] /\ t < u)}

Best(S) == CHOOSE h \in Heads(S) : \A g \in Heads(S) \ {h} : BeforeInBlock(h, g)

\* After n rounds of the loop.
SelectForBlock(S, limit) ==
  LET selected[n \in 0..limit] ==
        IF n = 0 THEN <<>>
        ELSE LET left == S \ Range(selected[n - 1]) IN
             IF left = {} THEN selected[n - 1] ELSE Append(selected[n - 1], Best(left))
  IN selected[limit]

(********************************* actions *********************************)

Init ==
  /\ mempool = EmptyPool
  /\ chain = <<>>
  /\ mining = FALSE /\ candidate = [parent |-> <<>>, txs |-> <<>>]
  /\ exit = "no"
  /\ clock = 0

\* Node::submit_transaction, from the RPC server or a peer.
Submit(t) ==
  /\ exit = "no"
  /\ mempool' = InsertValidated(mempool, chain, t, clock)
  /\ UNCHANGED <<chain, mining, candidate, exit, clock>>

\* What a block of another miner may contain.
Contents(ch) == {txs \in Bodies : Applies(ch, txs)}

\* apply_known_parent_block, for a block on the ledger's tip.  When save_ledger
\* fails, both have already changed.
BlockArrives(txs) ==
  /\ exit = "no"
  /\ Len(chain) < MaxHeight
  /\ chain' = Append(chain, txs)
  /\ mempool' = RemoveConfirmed(mempool, txs)
  /\ UNCHANGED <<mining, candidate, exit, clock>>

\* The ledgers that share exactly the first k blocks with this one.  The heaviest
\* may be shorter.
Branches(k) ==
  {br \in Ledgers : /\ Len(br) > k
                    /\ SubSeq(br, 1, k) = SubSeq(chain, 1, k)
                    /\ br[k + 1] # chain[k + 1]}

Abandoned(k) == Transactions(SubSeq(chain, k + 1, Len(chain)))

\* The mempool after txs have been offered to it in turn.
OfferAll(m, ch, txs, now) ==
  LET offered[i \in 0..Len(txs)] ==
        IF i = 0 THEN m ELSE InsertValidated(offered[i - 1], ch, txs[i], now)
  IN offered[Len(txs)]

\* reorg_to_best_tip: the ledger moves to the other branch and is saved, then the
\* abandoned transactions are offered to the mempool, lowest block first; when
\* save_ledger fails, they are not.  Nothing is removed from the mempool for the
\* blocks of the winning branch.
Reorg(k, branch, saved) ==
  /\ exit = "no"
  /\ chain' = branch
  /\ mempool' = IF saved THEN OfferAll(mempool, branch, Abandoned(k), clock) ELSE mempool
  /\ UNCHANGED <<mining, candidate, exit, clock>>

\* mine_once_unlocked up to the release of the lock: when the selected
\* transactions do not apply, create_candidate_block fails and run() returns
\* the error.
Prepare ==
  LET pruned == PruneExpired(mempool, clock)
      txs    == SelectForBlock(pruned.pending, BlockLimit)
  IN /\ exit = "no"
     /\ ~mining
     /\ Len(chain) < MaxHeight
     /\ mempool' = pruned
     /\ IF Applies(chain, txs)
          THEN /\ mining' = TRUE
               /\ candidate' = [parent |-> chain, txs |-> txs]
               /\ UNCHANGED exit
          ELSE exit' = "candidate" /\ UNCHANGED <<mining, candidate>>
     /\ UNCHANGED <<chain, clock>>

\* apply_block and flush_to_storage for the mined block.  Its header may be refused
\* (its parent is dated ahead of this node's clock), its transactions may not apply,
\* and a write may fail after ledger and mempool have changed; run() returns each
\* of these errors.
ApplyMined ==
  \/ exit' = "header" /\ UNCHANGED <<chain, mempool>>
  \/ IF Applies(chain, candidate.txs)
       THEN /\ chain' = Append(chain, candidate.txs)
            /\ mempool' = RemoveConfirmed(mempool, candidate.txs)
            /\ exit' \in {"no", "write"}
       ELSE exit' = "apply" /\ UNCHANGED <<chain, mempool>>

\* Mutant of Mined: the tip is not compared again after mining.
MinedBlindly == ApplyMined

\* mine_once_unlocked with the lock again: the block is dropped if the tip has
\* changed, applied otherwise.
Mined ==
  IF chain # candidate.parent THEN UNCHANGED <<chain, mempool, exit>> ELSE ApplyMined

\* The search ends with a block, or its attempts are exhausted, or computing the
\* hash fails.
FinishMining ==
  /\ exit = "no"
  /\ mining
  /\ mining' = FALSE
  /\ candidate' = [parent |-> <<>>, txs |-> <<>>]
  /\ \/ Mined
     \/ exit' \in {"no", "search"} /\ UNCHANGED <<chain, mempool>>
  /\ UNCHANGED clock

(******************************** the wallet *******************************)

\* The nonces of /mempool for one sender, sorted and without duplicates.
PendingNonces(a) ==
  LET nonces == {Nonce[t] : t \in {p \in mempool.pending : Sender[p] = a}} IN
  Ascending(nonces, [n \in nonces |-> n])

\* Mutant of ResolveWalletNonce: the loop breaks at a nonce below the next one too.
ResolveUntilMismatch(a, balanceNonce) ==
  LET p == PendingNonces(a)
      run == {n \in 0..Len(p) : \A i \in 1..n : p[i] = balanceNonce + i - 1}
  IN balanceNonce + Max(run)

\* src/mempool.rs, resolve_wallet_nonce: it starts from the nonce that /balance
\* answered and steps over the pending ones.  (The loop breaks at the first nonce
\* beyond the next one; none of the later ones can match either.)
ResolveWalletNonce(a, balanceNonce) ==
  LET p == PendingNonces(a)
      next[i \in 0..Len(p)] ==
        IF i = 0 THEN balanceNonce
        ELSE next[i - 1] + (IF p[i] = next[i - 1] THEN 1 ELSE 0)
  IN next[Len(p)]

(**************************** time and restarts ****************************)

Tick ==
  /\ clock < MaxClock
  /\ clock' = clock + 1
  /\ UNCHANGED <<mempool, chain, mining, candidate, exit>>

\* The process is gone, after an error or without one.
Stop ==
  /\ exit # "stopped"
  /\ exit' = "stopped"
  /\ mempool' = EmptyPool
  /\ mining' = FALSE /\ candidate' = [parent |-> <<>>, txs |-> <<>>]
  /\ UNCHANGED <<chain, clock>>

\* It is started again with the ledger on disk, which after a failed write need not
\* be the one that was in memory.
Start ==
  /\ exit = "stopped"
  /\ exit' = "no"
  /\ chain' \in Ledgers
  /\ UNCHANGED <<mempool, mining, candidate, clock>>

(****************************** specification ******************************)

Next ==
  \/ \E t \in Txs : Submit(t)
  \/ \E txs \in Contents(chain) : BlockArrives(txs)
  \/ \E k \in 0..(Len(chain) - 1) : \E branch \in Branches(k), saved \in BOOLEAN :
       Reorg(k, branch, saved)
  \/ Prepare
  \/ FinishMining
  \/ Tick
  \/ Stop
  \/ Start

Spec == Init /\ [][Next]_vars

(******************************* properties ********************************)

TypeOK ==
  /\ mempool.pending \subseteq Txs
  /\ mempool.insertedAt \in [Txs -> 0..MaxClock]
  /\ mempool.totalBytes \in Nat
  /\ Len(chain) <= MaxHeight
  /\ mining \in BOOLEAN
  /\ exit \in {"no", "candidate", "search", "header", "apply", "write", "stopped"}
  /\ clock \in 0..MaxClock

\* One pending transaction per sender and nonce: a second one replaces the
\* first, also when it comes back from an abandoned block.
UniqueNonce ==
  \A t, u \in mempool.pending : Sender[t] = Sender[u] /\ Nonce[t] = Nonce[u] => t = u

\* Neither limit is ever exceeded, although a replacement skips the check of
\* the number of transactions, and remove_confirmed leaves total_bytes alone: it
\* may be too high until the next pruning, never too low.
WithinLimits ==
  /\ Cardinality(mempool.pending) <= MaxTxs
  /\ Bytes(mempool.pending) <= MaxBytes

\* A transaction leaves the mempool because it was confirmed, because it
\* expired, or because another one with its nonce pays more; never because an
\* insertion failed half way.
LeavesForCause ==
  [][\A t \in mempool.pending \ mempool'.pending :
       \/ t \in Range(Confirmed(chain'))
       \/ Expires(mempool, t, clock)
       \/ \E r \in mempool'.pending :
            Sender[r] = Sender[t] /\ Nonce[r] = Nonce[t] /\ Fee[r] > Fee[t]
       \/ Stop]_vars

\* Whenever a transaction is admitted, everything its sender has pending can be
\* confirmed in the order of the nonces: no nonce is skipped and the balance
\* covers them together (the test
\* accounts_for_pending_transactions_when_validating_ledger_state).
AdmittedSpendable ==
  [][\A t \in mempool'.pending \ mempool.pending :
       Applies(chain', Ascending({p \in mempool'.pending : Sender[p] = Sender[t]}, Nonce))]_vars

\* select_for_block never puts a transaction before a pending one of the same
\* sender with a lower nonce, and never takes a smaller fee while a larger one
\* could be taken (the test
\* selects_transactions_by_fee_without_breaking_sender_nonce_order).
SelectionFair ==
  LET S == mempool.pending
      sel == SelectForBlock(S, BlockLimit)
      left(i) == S \ {sel[j] : j \in 1..(i - 1)}
      ready(i) == {t \in left(i) : \A u \in left(i) :
                     Sender[u] = Sender[t] => Nonce[t] <= Nonce[u]}
  IN /\ Len(sel) = Min({BlockLimit, Cardinality(S)})
     /\ \A i \in DOMAIN sel : sel[i] \in ready(i) /\ \A t \in ready(i) : Fee[t] <= Fee[sel[i]]

\* The transactions of a mined block never end the process: between the two locks
\* of mine_once_unlocked the ledger and the mempool may change, but the tip is
\* compared again, so that what was selected still applies.  (The parent's date or
\* a failed write may still end it.)
MinedBlockApplies == exit # "apply"

\* The wallet picks the first nonce that is neither confirmed nor pending, although
\* foreign blocks and reorgs leave used-up nonces in the mempool and expiry leaves
\* gaps; and when a block comes between its two RPC calls, so that the nonce from
\* /balance is too low, it never skips one.
WalletNonceFree ==
  \A a \in DOMAIN Balance :
    LET base  == LedgerNonce(chain, a)
        taken == {Nonce[t] : t \in {p \in mempool.pending : Sender[p] = a}}
        free  == Min((base..(base + Cardinality(taken))) \ taken)
    IN /\ ResolveWalletNonce(a, base) = free
       /\ \A stale \in 0..base : ResolveWalletNonce(a, stale) <= free

\* The transactions selected from the mempool always make a valid block, as in
\* the test creates_candidate_block_from_mempool_transactions.
CandidateApplies == exit # "candidate"

\* A transaction whose block is abandoned is pending again if it is the next one
\* of its sender on the new branch and nothing replaces it, as in the test
\* reorgs_state_when_side_fork_becomes_best_tip.
AbandonedReturns ==
  [][\A k \in 0..(Len(chain) - 1) :
       (\E branch \in Branches(k) : Reorg(k, branch, TRUE)) =>
         \A t \in Range(Abandoned(k)) \ Range(Confirmed(chain')) :
           \/ t \in mempool'.pending
           \/ ~Relayable(t, clock) \/ ~Applies(chain', <<t>>)
           \/ Cardinality(mempool'.pending) >= MaxTxs
           \/ mempool'.totalBytes + Size[t] > MaxBytes
           \/ \E r \in mempool'.pending : Sender[r] = Sender[t] /\ Nonce[r] = Nonce[t]]_vars
=============================================================================
