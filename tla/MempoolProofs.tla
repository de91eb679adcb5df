--------------------------- MODULE MempoolProofs ---------------------------
(* Theorems about Mempool, for every set of transactions, every limit and     *)
(* every interleaving of the miner with blocks, reorgs and submissions.       *)
EXTENDS Mempool, Induction

(***************************** one insertion *******************************)

\* The transactions of a pool have distinct senders or nonces.
Unique(S) == \A t, u \in S : Sender[t] = Sender[u] /\ Nonce[t] = Nonce[u] => t = u

\* prune_expired only removes.
LEMMA PruneRemoves ==
  ASSUME NEW m, NEW now
  PROVE  PruneExpired(m, now).pending = {t \in m.pending : ~Expires(m, t, now)}
BY DEF PruneExpired

\* insert_validated_at keeps one transaction per sender and nonce: the one that it
\* puts in takes the place of the only one that it could collide with.
THEOREM InsertKeepsUnique ==
  ASSUME NEW m, NEW ch, NEW t \in Txs, NEW now,
         m.pending \subseteq Txs, Unique(m.pending)
  PROVE  Unique(InsertValidated(m, ch, t, now).pending)
<1> DEFINE pruned == PruneExpired(m, now)
           replaced == Replacement(pruned, t)
           result == InsertValidated(m, ch, t, now)
<1>1. pruned.pending \subseteq m.pending
  BY PruneRemoves
<1>2. Unique(pruned.pending)
  BY <1>1 DEF Unique
<1>3. \A p \in pruned.pending :
        Sender[p] = Sender[t] /\ Nonce[p] = Nonce[t] => p \in replaced
  <2> SUFFICES ASSUME NEW p \in pruned.pending, Sender[p] = Sender[t], Nonce[p] = Nonce[t]
               PROVE  p \in replaced
    OBVIOUS
  <2> DEFINE same == {q \in pruned.pending : Sender[q] = Sender[t] /\ Nonce[q] = Nonce[t]}
  <2>1. \A q \in same : q = p
    BY <1>2 DEF Unique
  <2>2. p \in Nat
    BY <1>1, MempoolAssumption, Zenon
  <2>3. p \in same /\ \A q \in same : p <= q
    BY <2>1, <2>2
  <2> QED BY <2>3 DEF Replacement
<1>4. result.pending = pruned.pending \/ result.pending = (pruned.pending \ replaced) \cup {t}
  <2> HIDE DEF pruned, replaced
  <2>1. result = pruned \/ result = InsertUnchecked(pruned, t, now, replaced)
    BY DEF InsertValidated, pruned, replaced
  <2>2. \/ InsertUnchecked(pruned, t, now, replaced) = pruned
        \/ InsertUnchecked(pruned, t, now, replaced).pending
             = (pruned.pending \ replaced) \cup {t}
    BY DEF InsertUnchecked
  <2> QED BY <2>1, <2>2
<1> HIDE DEF pruned, replaced, result
<1>5. Unique((pruned.pending \ replaced) \cup {t})
  BY <1>2, <1>3 DEF Unique
<1>6. Unique(result.pending)
  BY <1>2, <1>4, <1>5
<1> QED BY <1>6 DEF result

(**************************** a pool within limits *************************)

Pools == [pending : SUBSET Txs, insertedAt : [Txs -> 0..MaxClock], totalBytes : Nat]

\* A pool with one transaction per sender and nonce and within both limits; its
\* total_bytes may be more than the bytes it holds.
PoolOK(m) ==
  /\ m \in Pools
  /\ Unique(m.pending)
  /\ Cardinality(m.pending) <= MaxTxs
  /\ Bytes(m.pending) <= m.totalBytes
  /\ m.totalBytes <= MaxBytes

\* The bytes of a set of transactions.
LEMMA BytesFacts ==
  ASSUME NEW S \in SUBSET Txs
  PROVE  /\ IsFiniteSet(S) /\ Cardinality(S) \in Nat
         /\ Bytes(S) \in Nat /\ Bytes({}) = 0
         /\ \A T \in SUBSET S : /\ Bytes(T) \in Nat /\ Bytes(T) <= Bytes(S)
                                /\ Cardinality(T) \in Nat /\ Cardinality(T) <= Cardinality(S)
         /\ \A x \in S : Size[x] \in Nat /\ Bytes(S) = Size[x] + Bytes(S \ {x})
<1>1. IsFiniteSet(S) /\ \A x \in S : Size[x] \in Nat
  BY FS_Subset, MempoolAssumption
<1>2. \A T : Bytes(T) = Total(Size, T)
  BY DEF Bytes, Total
<1>3. /\ Cardinality(S) \in Nat
      /\ \A T \in SUBSET S : Cardinality(T) \in Nat /\ Cardinality(T) <= Cardinality(S)
  BY <1>1, FS_Subset, FS_CardinalityType
<1>4. /\ Total(Size, S) \in Nat /\ Total(Size, {}) = 0
      /\ \A T \in SUBSET S : Total(Size, T) \in Nat /\ Total(Size, T) <= Total(Size, S)
      /\ \A x \in S : Total(Size, S) = Size[x] + Total(Size, S \ {x})
  BY <1>1, TotalFacts
<1> QED BY <1>1, <1>2, <1>3, <1>4

\* A transaction that was not in the set adds its size.
LEMMA BytesAdded ==
  ASSUME NEW S \in SUBSET Txs, NEW t \in Txs, t \notin S
  PROVE  /\ Bytes(S \cup {t}) = Bytes(S) + Size[t]
         /\ Cardinality(S \cup {t}) = Cardinality(S) + 1
<1>1. S \cup {t} \in SUBSET Txs /\ t \in S \cup {t} /\ (S \cup {t}) \ {t} = S
  OBVIOUS
<1>2. Bytes(S \cup {t}) = Size[t] + Bytes(S) /\ Size[t] \in Nat /\ Bytes(S) \in Nat
  BY <1>1, BytesFacts, Zenon
<1>3. IsFiniteSet(S)
  BY BytesFacts
<1>4. Cardinality(S \cup {t}) = Cardinality(S) + 1
  BY <1>3, FS_AddElement
<1> QED BY <1>2, <1>4

\* The pool of a new process.
LEMMA EmptyPoolOK == PoolOK(EmptyPool)
<1>1. EmptyPool \in Pools
  BY MempoolAssumption DEF EmptyPool, Pools
<1>2. EmptyPool.pending = {} /\ EmptyPool.totalBytes = 0
  BY DEF EmptyPool
<1>3. Bytes({}) = 0 /\ Cardinality({}) = 0
  BY BytesFacts, FS_EmptySet
<1>4. MaxTxs \in Nat /\ MaxBytes \in Nat
  BY MempoolAssumption
<1> QED BY <1>1, <1>2, <1>3, <1>4 DEF PoolOK, Unique

\* prune_expired: what is left keeps the limits, and total_bytes is exact.
LEMMA PruneKeeps ==
  ASSUME NEW m, PoolOK(m), NEW now
  PROVE  /\ PoolOK(PruneExpired(m, now))
         /\ PruneExpired(m, now).pending \subseteq m.pending
         /\ PruneExpired(m, now).totalBytes = Bytes(PruneExpired(m, now).pending)
         /\ \A t \in PruneExpired(m, now).pending :
              PruneExpired(m, now).insertedAt[t] = m.insertedAt[t]
<1> DEFINE kept == {t \in m.pending : ~Expires(m, t, now)}
           r == PruneExpired(m, now)
<1>1. /\ r.pending = kept /\ r.totalBytes = Bytes(kept)
      /\ r = [pending |-> kept,
              insertedAt |-> [t \in Txs |-> IF t \in kept THEN m.insertedAt[t] ELSE 0],
              totalBytes |-> Bytes(kept)]
  BY DEF PruneExpired
<1>2. kept \in SUBSET m.pending /\ m.pending \in SUBSET Txs
  BY DEF PoolOK, Pools
<1> HIDE DEF kept, r
<1>3. /\ Bytes(kept) \in Nat /\ Bytes(kept) <= Bytes(m.pending)
      /\ Cardinality(kept) \in Nat /\ Cardinality(kept) <= Cardinality(m.pending)
      /\ Bytes(m.pending) \in Nat /\ Cardinality(m.pending) \in Nat
  BY <1>2, BytesFacts
<1>4. MaxTxs \in Nat /\ MaxBytes \in Nat /\ MaxClock \in Nat
  BY MempoolAssumption
<1>5. r \in Pools
  BY <1>1, <1>2, <1>3, <1>4 DEF Pools, PoolOK
<1>6. Unique(kept)
  BY <1>2 DEF Unique, PoolOK
<1>7. m.totalBytes \in Nat
  BY DEF PoolOK, Pools
<1>8. PoolOK(r)
  BY <1>1, <1>3, <1>4, <1>5, <1>6, <1>7 DEF PoolOK
<1> QED BY <1>1, <1>2, <1>8 DEF r

\* The replaced transaction, if any, is the one with the sender and the nonce.
LEMMA ReplacedOne ==
  ASSUME NEW m, m.pending \subseteq Txs, NEW t
  PROVE  /\ Replacement(m, t) \subseteq m.pending
         /\ Replacement(m, t) = {} \/ \E r \in m.pending : Replacement(m, t) = {r}
         /\ \A r \in Replacement(m, t) : Sender[r] = Sender[t] /\ Nonce[r] = Nonce[t]
<1> DEFINE R == Replacement(m, t)
<1>1. \A r \in R : r \in m.pending /\ Sender[r] = Sender[t] /\ Nonce[r] = Nonce[t]
  BY DEF Replacement
<1>2. \A r, q \in R : r <= q
  BY DEF Replacement
<1>3. \A r \in R : r \in Nat
  BY <1>1, MempoolAssumption, Zenon
<1> HIDE DEF R
<1>4. \A r, q \in R : r = q
  BY <1>2, <1>3
<1>5. R = {} \/ \E r \in m.pending : R = {r}
  BY <1>1, <1>4
<1> QED BY <1>1, <1>5 DEF R

\* What insert_unchecked makes of an exact pool: nothing, or t in the place of what
\* it replaces.
LEMMA InsertUncheckedKeeps ==
  ASSUME NEW m, PoolOK(m), m.totalBytes = Bytes(m.pending), NEW t \in Txs,
         NEW now \in 0..MaxClock
  PROVE  LET R == Replacement(m, t)
             r == InsertUnchecked(m, t, now, R)
         IN \/ r = m
            \/ /\ r \in Pools /\ t \notin m.pending /\ r.pending = (m.pending \ R) \cup {t}
               /\ r.insertedAt[t] = now
               /\ \A x \in m.pending \ R : r.insertedAt[x] = m.insertedAt[x]
               /\ Cardinality(r.pending) <= MaxTxs
               /\ r.totalBytes = Bytes(r.pending) /\ r.totalBytes <= MaxBytes
<1> DEFINE R == Replacement(m, t)
           r == InsertUnchecked(m, t, now, R)
           P == m.pending
           total == Monus(m.totalBytes, Bytes(R)) + Size[t]
<1>1. /\ P \in SUBSET Txs /\ R \subseteq P
      /\ R = {} \/ \E x \in P : R = {x}
  BY ReplacedOne DEF PoolOK, Pools
<1> SUFFICES ASSUME r # m
             PROVE  /\ r \in Pools /\ t \notin P /\ r.pending = (P \ R) \cup {t}
                    /\ r.insertedAt[t] = now
                    /\ \A x \in P \ R : r.insertedAt[x] = m.insertedAt[x]
                    /\ Cardinality(r.pending) <= MaxTxs
                    /\ r.totalBytes = Bytes(r.pending) /\ r.totalBytes <= MaxBytes
  OBVIOUS
<1> HIDE DEF R
<1>2. /\ t \notin P /\ ~(R = {} /\ Cardinality(P) >= MaxTxs) /\ ~(total > MaxBytes)
      /\ r = [pending |-> (P \ R) \cup {t},
              insertedAt |-> [x \in Txs |-> IF x = t THEN now
                                            ELSE IF x \in R THEN 0
                                            ELSE m.insertedAt[x]],
              totalBytes |-> total]
  BY DEF InsertUnchecked
<1>3. MaxTxs \in Nat /\ MaxBytes \in Nat /\ MaxClock \in Nat /\ Size[t] \in Nat
  BY MempoolAssumption
<1>4. m.insertedAt \in [Txs -> 0..MaxClock] /\ Cardinality(P) <= MaxTxs
  BY DEF PoolOK, Pools
<1>5. /\ Monus(m.totalBytes, Bytes(R)) = Bytes(P \ R) /\ Bytes(P \ R) \in Nat
      /\ Cardinality(P \ R) \in Nat
      /\ Cardinality(P \ R) + 1 <= MaxTxs
  <2>1. CASE R = {}
    <3>1. Bytes(R) = 0 /\ P \ R = P /\ Bytes(P) \in Nat /\ Cardinality(P) \in Nat
      BY <1>1, <2>1, BytesFacts
    <3> QED BY <1>2, <1>3, <2>1, <3>1 DEF Monus
  <2>2. ASSUME NEW x \in P, R = {x} PROVE <1>5
    <3>1. Bytes(P) = Size[x] + Bytes(P \ {x}) /\ Size[x] \in Nat
      BY <1>1, BytesFacts
    <3>2. P \ {x} \in SUBSET P /\ {x} \in SUBSET Txs /\ x \in {x} /\ {x} \ {x} = {}
      BY <1>1
    <3>3. Bytes(P \ {x}) \in Nat /\ Cardinality(P \ {x}) \in Nat /\ IsFiniteSet(P)
          /\ Cardinality(P) \in Nat
      BY <1>1, <3>2, BytesFacts
    <3>4. Bytes({x}) = Size[x] + 0
      BY <3>2, BytesFacts
    <3>5. Cardinality(P \ {x}) = Cardinality(P) - 1
      BY <3>3, FS_RemoveElement, Zenon
    <3>6. Monus(m.totalBytes, Bytes(R)) = Bytes(P \ R)
      BY <2>2, <3>1, <3>3, <3>4 DEF Monus
    <3> QED BY <1>3, <1>4, <2>2, <3>3, <3>5, <3>6
  <2> QED BY <1>1, <2>1, <2>2
<1>6. /\ Bytes((P \ R) \cup {t}) = Bytes(P \ R) + Size[t]
      /\ Cardinality((P \ R) \cup {t}) = Cardinality(P \ R) + 1
  BY <1>1, <1>2, BytesAdded, Zenon
<1>7. total \in Nat /\ total = Bytes((P \ R) \cup {t})
  BY <1>3, <1>5, <1>6
<1> HIDE DEF total, r, P
<1>8. r \in Pools
  <2>1. (P \ R) \cup {t} \in SUBSET Txs
    BY <1>1
  <2>2. [x \in Txs |-> IF x = t THEN now ELSE IF x \in R THEN 0 ELSE m.insertedAt[x]]
          \in [Txs -> 0..MaxClock]
    BY <1>3, <1>4
  <2> QED BY <1>2, <1>7, <2>1, <2>2 DEF Pools
<1>9. r.pending = (P \ R) \cup {t} /\ r.totalBytes = total
  BY <1>2
<1>10. r.insertedAt[t] = now /\ \A x \in P \ R : r.insertedAt[x] = m.insertedAt[x]
  BY <1>1, <1>2
<1>11. Cardinality(r.pending) <= MaxTxs
  BY <1>5, <1>6, <1>9
<1>12. r.totalBytes = Bytes(r.pending) /\ r.totalBytes <= MaxBytes
  BY <1>2, <1>3, <1>7, <1>9
<1> QED BY <1>2, <1>8, <1>9, <1>10, <1>11, <1>12

\* What insert_validated_at makes of a pool: the pruned pool, or t in it in the
\* place of a transaction that pays less.
Inserted(p, ch, t, now, r) ==
  LET R == Replacement(p, t) IN
  /\ t \notin p.pending /\ r.pending = (p.pending \ R) \cup {t}
  /\ r.insertedAt[t] = now
  /\ \A x \in p.pending \ R : r.insertedAt[x] = p.insertedAt[x]
  /\ \A x \in R : Fee[t] > Fee[x]
  /\ ValidAgainstLedger(p, ch, t, R)

\* insert_validated_at keeps a pool within its limits, and leaves total_bytes exact.
LEMMA InsertKeeps ==
  ASSUME NEW m, PoolOK(m), NEW ch, NEW t \in Txs, NEW now \in 0..MaxClock
  PROVE  LET p == PruneExpired(m, now)
             r == InsertValidated(m, ch, t, now)
         IN PoolOK(r) /\ (r = p \/ Inserted(p, ch, t, now, r))
<1> DEFINE p == PruneExpired(m, now)
           R == Replacement(p, t)
           r == InsertValidated(m, ch, t, now)
<1>1. PoolOK(p) /\ p.totalBytes = Bytes(p.pending)
  BY PruneKeeps
<1>2. Unique(r.pending)
  BY InsertKeepsUnique DEF PoolOK, Pools
<1>3. CASE r = p
  BY <1>1, <1>3
<1>4. CASE r # p
  <2>1. /\ r = InsertUnchecked(p, t, now, R)
        /\ \A x \in R : Fee[t] > Fee[x]
        /\ ValidAgainstLedger(p, ch, t, R)
    <3> HIDE DEF p, R
    <3> QED BY <1>4 DEF InsertValidated, p, R
  <2> HIDE DEF p, r
  <2>2. /\ r \in Pools /\ t \notin p.pending /\ r.pending = (p.pending \ R) \cup {t}
        /\ r.insertedAt[t] = now
        /\ \A x \in p.pending \ R : r.insertedAt[x] = p.insertedAt[x]
        /\ Cardinality(r.pending) <= MaxTxs
        /\ r.totalBytes = Bytes(r.pending) /\ r.totalBytes <= MaxBytes
    BY <1>1, <1>4, <2>1, InsertUncheckedKeeps
  <2>3. Inserted(p, ch, t, now, r)
    BY <2>1, <2>2 DEF Inserted
  <2>4. Bytes(r.pending) \in Nat
    BY <2>2, BytesFacts DEF Pools
  <2>5. PoolOK(r)
    BY <1>2, <2>2, <2>4 DEF PoolOK
  <2> QED BY <2>3, <2>5 DEF p, r
<1> QED BY <1>3, <1>4

\* Offering several transactions in turn: the pools that it passes through.
Offering(m, ch, txs, now, g) ==
  /\ g \in [0..Len(txs) -> {x \in Pools : PoolOK(x)}]
  /\ g[0] = m
  /\ \A i \in 1..Len(txs) : g[i] = InsertValidated(g[i - 1], ch, txs[i], now)
  /\ OfferAll(m, ch, txs, now) = g[Len(txs)]

\* There are such pools, all within the limits.
LEMMA OfferLoop ==
  ASSUME NEW m, PoolOK(m), NEW ch, NEW txs \in Seq(Txs), NEW now \in 0..MaxClock
  PROVE  \E g : Offering(m, ch, txs, now, g)
<1> DEFINE n == Len(txs)
           X == {x \in Pools : PoolOK(x)}
           F == [q \in (1..n) \X X |-> InsertValidated(q[2], ch, txs[q[1]], now)]
           Eq(f) == f = [i \in 0..n |-> IF i = 0 THEN m
                                        ELSE InsertValidated(f[i - 1], ch, txs[i], now)]
           f == CHOOSE f : Eq(f)
<1>1. n \in Nat /\ \A i \in 1..n : txs[i] \in Txs
  OBVIOUS
<1>2. m \in X
  BY DEF PoolOK
<1>3. OfferAll(m, ch, txs, now) = f[n]
  BY DEF OfferAll
<1> HIDE DEF n
<1>4. ASSUME NEW i \in 1..n, NEW x \in X
      PROVE  /\ F[<<i, x>>] = InsertValidated(x, ch, txs[i], now)
             /\ InsertValidated(x, ch, txs[i], now) \in X
  <2>1. <<i, x>> \in (1..n) \X X
    OBVIOUS
  <2>2. F[<<i, x>>] = InsertValidated(x, ch, txs[i], now)
    BY <2>1
  <2>3. PoolOK(InsertValidated(x, ch, txs[i], now))
    BY <1>1, InsertKeeps
  <2> QED BY <2>2, <2>3 DEF PoolOK
<1> HIDE DEF X, F
<1>5. PICK g : Rounds(n, X, m, F, g)
  BY <1>1, <1>2, <1>4, LoopExists, Zenon
<1>6. /\ g \in [0..n -> X] /\ g[0] = m
      /\ \A i \in 1..n : g[i] = InsertValidated(g[i - 1], ch, txs[i], now)
  <2>1. ASSUME NEW i \in 1..n PROVE g[i] = InsertValidated(g[i - 1], ch, txs[i], now)
    <3>1. i - 1 \in 0..n
      BY <1>1
    <3>2. g[i - 1] \in X /\ g[i] = F[<<i, g[i - 1]>>]
      BY <1>5, <3>1 DEF Rounds
    <3> QED BY <1>4, <3>2
  <2> QED BY <1>5, <2>1 DEF Rounds
<1>7. Eq(g)
  <2>1. \A i \in 0..n : g[i] = IF i = 0 THEN m ELSE InsertValidated(g[i - 1], ch, txs[i], now)
    <3>1. \A i \in 0..n : i = 0 \/ i \in 1..n
      BY <1>1
    <3> QED BY <1>6, <3>1
  <2>2. g = [i \in 0..n |-> g[i]]
    BY <1>6
  <2> QED BY <2>1, <2>2, Zenon
<1>8. Eq(f)
  <2> HIDE DEF Eq
  <2> QED BY <1>7
<1> HIDE DEF f
<1>9. /\ f = [i \in 0..n |-> f[i]] /\ f[0] = m
      /\ \A i \in 1..n : f[i] = InsertValidated(f[i - 1], ch, txs[i], now)
  <2>1. \A i \in 0..n : f[i] = IF i = 0 THEN m ELSE InsertValidated(f[i - 1], ch, txs[i], now)
    BY <1>8, Zenon
  <2>2. 0 \in 0..n /\ \A i \in 1..n : i \in 0..n /\ i # 0
    BY <1>1
  <2>3. f = [i \in 0..n |-> f[i]]
    BY <1>8
  <2> QED BY <2>1, <2>2, <2>3, Zenon
<1> HIDE DEF Eq
<1> DEFINE T == {i \in 0..n : f[i] \in X}
<1>10. 0 \in T
  BY <1>1, <1>2, <1>9
<1>11. ASSUME NEW i \in 1..n, i - 1 \in T PROVE i \in T
  <2>1. i \in 0..n /\ f[i - 1] \in X
    BY <1>1, <1>11
  <2> QED BY <1>4, <1>9, <2>1, Zenon
<1> HIDE DEF T
<1>12. 0..n \subseteq T
  BY <1>1, <1>10, <1>11, UpTo, Zenon
<1>13. f \in [0..n -> X]
  BY <1>9, <1>12 DEF T
<1>14. Offering(m, ch, txs, now, f)
  BY <1>3, <1>9, <1>13, Zenon DEF Offering, n, X
<1> QED BY <1>14

(******************************* selection *********************************)

\* Every set of transactions with an element has a best head.
LEMMA BestExists ==
  ASSUME NEW S \in SUBSET Txs, S # {}
  PROVE  /\ Best(S) \in Heads(S) /\ Best(S) \in S
         /\ \A g \in Heads(S) \ {Best(S)} : BeforeInBlock(Best(S), g)
<1>1. \A t \in S : t \in Nat /\ Nonce[t] \in Nat /\ Fee[t] \in Nat
  BY MempoolAssumption
<1>2. IsFiniteSet(S) /\ Heads(S) \in SUBSET S
  BY BytesFacts DEF Heads
<1>3. IsFiniteSet(Heads(S))
  BY <1>2, FS_Subset
<1>4. Heads(S) # {}
  <2> DEFINE before(t, u) == /\ Sender[t] = Sender[u]
                             /\ Nonce[t] < Nonce[u] \/ (Nonce[t] = Nonce[u] /\ t < u)
             R == {tu \in S \X S : before(tu[1], tu[2])}
  <2>1. \A t, u \in S : <<t, u>> \in R <=> before(t, u)
    OBVIOUS
  <2>2. \A t \in S : ~before(t, t)
    BY <1>1
  <2>3. \A t, u, v \in S : before(t, u) /\ before(u, v) => before(t, v)
    BY <1>1
  <2>4. \A t, u \in S : t # u /\ Sender[t] = Sender[u] => before(t, u) \/ before(u, t)
    BY <1>1
  <2> HIDE DEF R, before
  <2>5. PICK t \in S : \A u \in S : <<u, t>> \notin R
    <3>1. \A u \in S : <<u, u>> \notin R
      BY <2>1, <2>2
    <3>2. \A u, v, w \in S : <<u, v>> \in R /\ <<v, w>> \in R => <<u, w>> \in R
      BY <2>1, <2>3
    <3> QED BY <1>2, <3>1, <3>2, FirstExists
  <2>6. \A u \in S \ {t} : Sender[u] = Sender[t] => before(t, u)
    BY <2>1, <2>4, <2>5, Zenon
  <2>7. t \in Heads(S)
    BY <2>6 DEF Heads, before
  <2> QED BY <2>7
<1>5. \E h \in Heads(S) : \A g \in Heads(S) \ {h} : BeforeInBlock(h, g)
  <2> DEFINE H == Heads(S)
             R == {tu \in H \X H : BeforeInBlock(tu[1], tu[2])}
  <2>1. \A t, u \in H : <<t, u>> \in R <=> BeforeInBlock(t, u)
    OBVIOUS
  <2>2. \A t \in H : ~BeforeInBlock(t, t)
    BY <1>1, <1>2 DEF BeforeInBlock
  <2>3. \A t, u, v \in H : BeforeInBlock(t, u) /\ BeforeInBlock(u, v) => BeforeInBlock(t, v)
    BY <1>1, <1>2 DEF BeforeInBlock
  <2>4. \A t, u \in H : t # u => BeforeInBlock(t, u) \/ BeforeInBlock(u, t)
    BY <1>1, <1>2 DEF BeforeInBlock
  <2> HIDE DEF R, H
  <2>5. PICK h \in H : \A u \in H : <<u, h>> \notin R
    <3>1. \A u \in H : <<u, u>> \notin R
      BY <2>1, <2>2
    <3>2. \A u, v, w \in H : <<u, v>> \in R /\ <<v, w>> \in R => <<u, w>> \in R
      BY <2>1, <2>3
    <3>3. IsFiniteSet(H) /\ H # {}
      BY <1>3, <1>4 DEF H
    <3> QED BY <3>1, <3>2, <3>3, FirstExists
  <2> QED BY <2>1, <2>4, <2>5, Zenon DEF H
<1> QED BY <1>2, <1>5 DEF Best

\* What is left of S for the i-th place.
LeftAt(S, sel, i) == S \ {sel[j] : j \in 1..(i - 1)}

\* The selection after n rounds takes, each time, the best head of what is left.
Selection(S, n, sel) ==
  /\ sel \in Seq(S)
  /\ Len(sel) = IF n <= Cardinality(S) THEN n ELSE Cardinality(S)
  /\ Cardinality(S \ Range(sel)) = Cardinality(S) - Len(sel)
  /\ \A i \in 1..Len(sel) : LeftAt(S, sel, i) # {} /\ sel[i] = Best(LeftAt(S, sel, i))

\* One more round.
Picked(S, sel) ==
  LET left == S \ Range(sel) IN IF left = {} THEN sel ELSE Append(sel, Best(left))

\* A round makes the selection of n + 1 rounds from the one of n.
LEMMA PickedOne ==
  ASSUME NEW S \in SUBSET Txs, NEW n \in Nat, NEW sel, Selection(S, n, sel)
  PROVE  Selection(S, n + 1, Picked(S, sel))
<1> DEFINE left == S \ Range(sel)
           b == Best(left)
           c == Cardinality(S)
           m == Len(sel)
<1>1. /\ sel \in Seq(S) /\ m \in Nat /\ IsFiniteSet(S) /\ c \in Nat
      /\ left \in SUBSET Txs /\ left \in SUBSET S
  BY BytesFacts DEF Selection
<1>2. /\ m = IF n <= c THEN n ELSE c
      /\ Cardinality(left) = c - m
      /\ \A i \in 1..m : LeftAt(S, sel, i) # {} /\ sel[i] = Best(LeftAt(S, sel, i))
  BY DEF Selection
<1>3. IsFiniteSet(left)
  BY <1>1, FS_Subset
<1>4. CASE left = {}
  <2>1. c - m = 0
    BY <1>2, <1>4, FS_EmptySet, Zenon
  <2>2. m = IF n + 1 <= c THEN n + 1 ELSE c
    BY <1>1, <1>2, <2>1
  <2>3. Picked(S, sel) = sel
    BY <1>4 DEF Picked
  <2>4. Selection(S, n + 1, sel)
    BY <1>1, <1>2, <2>2 DEF Selection
  <2> QED BY <2>3, <2>4
<1>5. CASE left # {}
  <2> DEFINE s == Append(sel, b)
  <2>1. b \in left /\ b \in S /\ Picked(S, sel) = s
    BY <1>1, <1>5, BestExists, Zenon DEF Picked
  <2>2. /\ s \in Seq(S) /\ Len(s) = m + 1 /\ s[m + 1] = b
        /\ \A i \in 1..m : s[i] = sel[i]
    BY <1>1, <2>1
  <2> HIDE DEF left, b, s
  <2>3. Cardinality(left) # 0 /\ Cardinality(left \ {b}) = Cardinality(left) - 1
    BY <1>3, <1>5, <2>1, FS_EmptySet, FS_RemoveElement
  <2>4. m + 1 = IF n + 1 <= c THEN n + 1 ELSE c
    BY <1>1, <1>2, <2>3
  <2>5. Range(s) = Range(sel) \cup {b}
    <3>1. DOMAIN s = 1..(m + 1) /\ DOMAIN sel = 1..m
      BY <1>1, <2>2
    <3>2. Range(s) \subseteq Range(sel) \cup {b}
      <4> SUFFICES ASSUME NEW i \in 1..(m + 1) PROVE s[i] \in Range(sel) \cup {b}
        BY <3>1 DEF Range
      <4>1. i \in 1..m \/ i = m + 1
        BY <1>1
      <4> QED BY <2>2, <3>1, <4>1 DEF Range
    <3>3. ASSUME NEW i \in 1..m PROVE sel[i] \in Range(s)
      <4>1. i \in 1..(m + 1)
        BY <1>1
      <4> QED BY <2>2, <3>1, <4>1 DEF Range
    <3>4. b \in Range(s)
      <4>1. m + 1 \in 1..(m + 1)
        BY <1>1
      <4> QED BY <2>2, <3>1, <4>1 DEF Range
    <3> QED BY <3>1, <3>2, <3>3, <3>4 DEF Range
  <2>6. S \ Range(s) = left \ {b}
    BY <2>5 DEF left
  <2>7. Cardinality(S \ Range(s)) = c - (m + 1)
    <3> HIDE DEF c, m
    <3>1. Cardinality(S \ Range(s)) = (c - m) - 1
      BY <1>2, <2>3, <2>6
    <3> QED BY <1>1, <3>1
  <2>8. ASSUME NEW i \in 1..(m + 1)
        PROVE  LeftAt(S, s, i) # {} /\ s[i] = Best(LeftAt(S, s, i))
    <3>1. LeftAt(S, s, i) = LeftAt(S, sel, i)
      <4>1. \A j \in 1..(i - 1) : j \in 1..m
        BY <1>1
      <4>2. {s[j] : j \in 1..(i - 1)} = {sel[j] : j \in 1..(i - 1)}
        BY <2>2, <4>1
      <4> QED BY <4>2, Zenon DEF LeftAt
    <3>2. CASE i \in 1..m
      BY <1>2, <2>2, <3>1, <3>2, Zenon
    <3>3. CASE i = m + 1
      <4>1. LeftAt(S, sel, i) = left
        <5>1. 1..(i - 1) = DOMAIN sel
          BY <1>1, <3>3
        <5> QED BY <5>1 DEF Range, LeftAt, left
      <4> QED BY <1>5, <2>2, <3>1, <3>3, <4>1 DEF b
    <3> QED BY <1>1, <3>2, <3>3
  <2>9. Selection(S, n + 1, s)
    BY <2>2, <2>4, <2>7, <2>8 DEF Selection
  <2> QED BY <2>1, <2>9
<1> QED BY <1>4, <1>5

\* select_for_block is that selection, for any limit.
LEMMA SelectionMade ==
  ASSUME NEW S \in SUBSET Txs, NEW limit \in Nat
  PROVE  Selection(S, limit, SelectForBlock(S, limit))
<1> DEFINE X == Seq(S)
           F == [q \in (1..limit) \X X |-> Picked(S, q[2])]
           Eq(f) == f = [n \in 0..limit |-> IF n = 0 THEN <<>> ELSE Picked(S, f[n - 1])]
           f == CHOOSE f : Eq(f)
<1>1. SelectForBlock(S, limit) = f[limit]
  BY DEF SelectForBlock, Picked
<1>2. <<>> \in X
  OBVIOUS
<1>3. ASSUME NEW i \in 1..limit, NEW x \in X
      PROVE  F[<<i, x>>] = Picked(S, x) /\ Picked(S, x) \in X
  <2>1. <<i, x>> \in (1..limit) \X X
    OBVIOUS
  <2>2. F[<<i, x>>] = Picked(S, x)
    BY <2>1
  <2>3. S \ Range(x) # {} => Best(S \ Range(x)) \in S
    BY BestExists
  <2>4. Picked(S, x) \in X
    BY <2>3 DEF Picked
  <2> QED BY <2>2, <2>4
<1> HIDE DEF X, F
<1>4. PICK g : Rounds(limit, X, <<>>, F, g)
  BY <1>2, <1>3, LoopExists, Zenon
<1>5. g \in [0..limit -> X] /\ g[0] = <<>> /\ \A i \in 1..limit : g[i] = Picked(S, g[i - 1])
  <2>1. ASSUME NEW i \in 1..limit PROVE g[i] = Picked(S, g[i - 1])
    <3>1. i - 1 \in 0..limit
      OBVIOUS
    <3>2. g[i - 1] \in X /\ g[i] = F[<<i, g[i - 1]>>]
      BY <1>4, <3>1 DEF Rounds
    <3> QED BY <1>3, <3>2
  <2> QED BY <1>4, <2>1 DEF Rounds
<1>6. Eq(g)
  <2>1. \A i \in 0..limit : g[i] = IF i = 0 THEN <<>> ELSE Picked(S, g[i - 1])
    <3>1. \A i \in 0..limit : i = 0 \/ i \in 1..limit
      OBVIOUS
    <3> QED BY <1>5, <3>1
  <2>2. g = [i \in 0..limit |-> g[i]]
    BY <1>5
  <2> QED BY <2>1, <2>2
<1>7. Eq(f)
  <2> HIDE DEF Eq
  <2> QED BY <1>6
<1> HIDE DEF f
<1>8. f[0] = <<>> /\ \A i \in 1..limit : f[i] = Picked(S, f[i - 1])
  <2>1. \A i \in 0..limit : f[i] = IF i = 0 THEN <<>> ELSE Picked(S, f[i - 1])
    BY <1>7
  <2>2. 0 \in 0..limit /\ \A i \in 1..limit : i \in 0..limit /\ i # 0
    OBVIOUS
  <2> QED BY <2>1, <2>2
<1> HIDE DEF Eq
<1> DEFINE T == {i \in 0..limit : Selection(S, i, f[i])}
<1>9. 0 \in T
  <2> DEFINE e == <<>>
  <2>1. e \in Seq(S) /\ Len(e) = 0 /\ S \ Range(e) = S
    BY DEF Range
  <2>2. Cardinality(S) \in Nat
    BY BytesFacts
  <2> HIDE DEF e
  <2>3. Cardinality(S \ Range(e)) = Cardinality(S) - Len(e)
    <3>1. Cardinality(S \ Range(e)) = Cardinality(S)
      BY <2>1, Zenon
    <3> QED BY <2>1, <2>2, <3>1
  <2>4. Selection(S, 0, e)
    BY <2>1, <2>2, <2>3 DEF Selection
  <2> QED BY <1>8, <2>4 DEF e
<1>10. ASSUME NEW i \in 1..limit, i - 1 \in T PROVE i \in T
  <2>1. i - 1 \in Nat /\ (i - 1) + 1 = i /\ i \in 0..limit
    OBVIOUS
  <2>2. Selection(S, i - 1, f[i - 1])
    BY <1>10
  <2>3. Selection(S, (i - 1) + 1, Picked(S, f[i - 1]))
    BY <2>1, <2>2, PickedOne
  <2>4. Selection(S, i, f[i])
    BY <1>8, <2>1, <2>3
  <2> QED BY <2>1, <2>4
<1> HIDE DEF T
<1>11. 0..limit \subseteq T
  BY <1>9, <1>10, UpTo
<1> QED BY <1>1, <1>11 DEF T

\* What may take the i-th place, and that it is taken by the highest fee.
ReadyAt(S, sel, i) ==
  {t \in LeftAt(S, sel, i) : \A u \in LeftAt(S, sel, i) :
     Sender[u] = Sender[t] => Nonce[t] <= Nonce[u]}

Fair(S, limit, sel) ==
  /\ sel \in Seq(S)
  /\ Len(sel) = Min({limit, Cardinality(S)})
  /\ \A i \in 1..Len(sel) :
       sel[i] \in ReadyAt(S, sel, i) /\ \A t \in ReadyAt(S, sel, i) : Fee[t] <= Fee[sel[i]]

\* Of a set with one transaction per sender and nonce, select_for_block takes as many
\* as it may, each time one with the lowest nonce of its sender among those left, and
\* of these one with the highest fee.
THEOREM SelectionIsFair ==
  ASSUME NEW S \in SUBSET Txs, Unique(S), NEW limit \in Nat
  PROVE  Fair(S, limit, SelectForBlock(S, limit))
<1> DEFINE sel == SelectForBlock(S, limit)
<1>1. Selection(S, limit, sel)
  BY SelectionMade
<1>2. Cardinality(S) \in Nat
  BY BytesFacts
<1>3. Len(sel) = Min({limit, Cardinality(S)})
  <2> DEFINE c == Cardinality(S)
             k == IF limit <= c THEN limit ELSE c
  <2>1. k \in {limit, c} /\ \A y \in {limit, c} : k <= y
    BY <1>2
  <2>2. \A x \in {limit, c} : (\A y \in {limit, c} : x <= y) => x = k
    BY <1>2
  <2>3. Min({limit, c}) = k
    <3> HIDE DEF c, k
    <3> QED BY <2>1, <2>2 DEF Min
  <2> QED BY <1>1, <2>3 DEF Selection
<1> HIDE DEF sel
<1>4. ASSUME NEW i \in 1..Len(sel)
      PROVE  /\ sel[i] \in ReadyAt(S, sel, i)
             /\ \A t \in ReadyAt(S, sel, i) : Fee[t] <= Fee[sel[i]]
  <2> DEFINE L == LeftAt(S, sel, i)
             b == Best(L)
  <2>1. L # {} /\ sel[i] = b
    BY <1>1 DEF Selection
  <2>2. L \in SUBSET S /\ L \in SUBSET Txs
    BY DEF LeftAt
  <2> HIDE DEF L, b
  <2>3. b \in Heads(L) /\ \A g \in Heads(L) \ {b} : BeforeInBlock(b, g)
    BY <2>1, <2>2, BestExists DEF b
  <2>4. \A t \in L : t \in Nat /\ Nonce[t] \in Nat /\ Fee[t] \in Nat
    BY <2>2, MempoolAssumption, Zenon
  <2>5. b \in {t \in L : \A u \in L : Sender[u] = Sender[t] => Nonce[t] <= Nonce[u]}
    BY <2>3, <2>4 DEF Heads
  <2>6. ASSUME NEW t \in L, \A u \in L : Sender[u] = Sender[t] => Nonce[t] <= Nonce[u]
        PROVE  Fee[t] <= Fee[b]
    <3>1. t \in Heads(L)
      <4> SUFFICES ASSUME NEW u \in L \ {t}, Sender[u] = Sender[t]
                   PROVE  Nonce[t] < Nonce[u]
        BY DEF Heads
      <4>1. Nonce[t] # Nonce[u]
        BY <2>2 DEF Unique
      <4> QED BY <2>4, <2>6, <4>1
    <3>2. CASE t = b
      BY <2>4, <3>2
    <3>3. CASE t # b
      <4>1. BeforeInBlock(b, t) /\ b \in L
        BY <2>3, <2>5, <3>1, <3>3
      <4> QED BY <2>4, <4>1 DEF BeforeInBlock
    <3> QED BY <3>2, <3>3
  <2> QED BY <2>1, <2>5, <2>6 DEF L, ReadyAt
<1>5. sel \in Seq(S)
  BY <1>1 DEF Selection
<1> QED BY <1>3, <1>4, <1>5, Zenon DEF sel, Fair

(***************************** the transactions ****************************)

\* The values that Transactions passes through, block by block.
Collecting(blocks, f) ==
  /\ f \in [0..Len(blocks) -> Seq(Txs)]
  /\ f[0] = <<>>
  /\ \A i \in 1..Len(blocks) : f[i] = f[i - 1] \o blocks[i]
  /\ Transactions(blocks) = f[Len(blocks)]

\* There are such values.
LEMMA CollectLoop ==
  ASSUME NEW blocks \in Seq(Seq(Txs))
  PROVE  \E f : Collecting(blocks, f)
<1> DEFINE n == Len(blocks)
           X == Seq(Txs)
           F == [p \in (1..n) \X X |-> p[2] \o blocks[p[1]]]
           Eq(f) == f = [i \in 0..n |-> IF i = 0 THEN <<>> ELSE f[i - 1] \o blocks[i]]
           f == CHOOSE f : Eq(f)
<1>1. n \in Nat /\ \A i \in 1..n : blocks[i] \in X
  OBVIOUS
<1>2. <<>> \in X /\ \A x, y \in X : x \o y \in X
  OBVIOUS
<1>3. Transactions(blocks) = f[n]
  BY DEF Transactions
<1> HIDE DEF n, X
<1>4. ASSUME NEW i \in 1..n, NEW x \in X
      PROVE  F[<<i, x>>] = x \o blocks[i] /\ x \o blocks[i] \in X
  <2>1. <<i, x>> \in (1..n) \X X
    OBVIOUS
  <2>2. F[<<i, x>>] = x \o blocks[i]
    BY <2>1
  <2> QED BY <1>1, <1>2, <2>2, Zenon
<1> HIDE DEF F
<1>5. PICK g : Rounds(n, X, <<>>, F, g)
  <2>1. \A i \in 1..n, x \in X : F[<<i, x>>] \in X
    BY <1>4, Zenon
  <2> HIDE DEF Eq
  <2> QED BY <1>1, <1>2, <2>1, LoopExists, Zenon
<1>6. /\ g \in [0..n -> X] /\ g[0] = <<>>
      /\ \A i \in 1..n : g[i] = g[i - 1] \o blocks[i]
  <2>1. ASSUME NEW i \in 1..n PROVE g[i] = g[i - 1] \o blocks[i]
    <3>1. i - 1 \in 0..n
      BY <1>1
    <3>2. g[i - 1] \in X /\ g[i] = F[<<i, g[i - 1]>>]
      BY <1>5, <3>1 DEF Rounds
    <3> QED BY <1>4, <3>2, Zenon
  <2> QED BY <1>5, <2>1, Zenon DEF Rounds
<1>7. Eq(g)
  <2>1. \A i \in 0..n : g[i] = IF i = 0 THEN <<>> ELSE g[i - 1] \o blocks[i]
    <3>1. \A i \in 0..n : i = 0 \/ i \in 1..n
      BY <1>1
    <3> QED BY <1>6, <3>1, Zenon
  <2>2. g = [i \in 0..n |-> g[i]]
    BY <1>6
  <2> QED BY <2>1, <2>2, Zenon
<1>8. Eq(f)
  <2> HIDE DEF Eq
  <2> QED BY <1>7
<1> HIDE DEF f
<1>9. /\ f = [i \in 0..n |-> f[i]] /\ f[0] = <<>>
      /\ \A i \in 1..n : f[i] = f[i - 1] \o blocks[i]
  <2>1. 0 \in 0..n /\ \A i \in 1..n : i \in 0..n /\ i # 0
    BY <1>1
  <2>2. \A i \in 0..n : f[i] = IF i = 0 THEN <<>> ELSE f[i - 1] \o blocks[i]
    BY <1>8, Zenon
  <2>3. f = [i \in 0..n |-> f[i]]
    BY <1>8
  <2> QED BY <2>1, <2>2, <2>3, Zenon
<1>10. \A i \in 0..n : f[i] \in X
  <2> DEFINE T == {i \in 0..n : f[i] \in X}
  <2> HIDE DEF Eq
  <2>1. 0 \in T
    BY <1>1, <1>2, <1>9
  <2>2. ASSUME NEW i \in 1..n, i - 1 \in T PROVE i \in T
    <3>1. f[i - 1] \in X /\ i \in 0..n
      BY <1>1, <2>2
    <3>2. f[i] = f[i - 1] \o blocks[i] /\ blocks[i] \in X
      BY <1>1, <1>9, Zenon
    <3>3. f[i] \in X
      BY <1>2, <3>1, <3>2
    <3> QED BY <3>1, <3>3
  <2> HIDE DEF T
  <2>3. 0..n \subseteq T
    BY <1>1, <2>1, <2>2, UpTo, Zenon
  <2> QED BY <2>3 DEF T
<1>11. f \in [0..n -> X]
  BY <1>9, <1>10
<1> QED BY <1>3, <1>9, <1>11 DEF n, X, Collecting

\* The transactions of one more block come after the others.
LEMMA CollectAppend ==
  ASSUME NEW blocks \in Seq(Seq(Txs)), NEW b \in Seq(Txs)
  PROVE  /\ Transactions(blocks) \in Seq(Txs)
         /\ Transactions(Append(blocks, b)) = Transactions(blocks) \o b
<1> DEFINE n == Len(blocks)
           more == Append(blocks, b)
<1>1. /\ n \in Nat /\ more \in Seq(Seq(Txs)) /\ Len(more) = n + 1
      /\ \A i \in 1..n : more[i] = blocks[i]
      /\ more[n + 1] = b
  OBVIOUS
<1> HIDE DEF more
<1>2. PICK f : Collecting(blocks, f)
  BY CollectLoop
<1>3. PICK g : Collecting(more, g)
  BY <1>1, CollectLoop
<1>4. /\ f \in [0..n -> Seq(Txs)] /\ f[0] = <<>> /\ Transactions(blocks) = f[n]
      /\ \A i \in 1..n : f[i] = f[i - 1] \o blocks[i]
  BY <1>2, Zenon DEF Collecting
<1>5. /\ g[0] = <<>> /\ Transactions(more) = g[n + 1]
      /\ \A i \in 1..(n + 1) : g[i] = g[i - 1] \o more[i]
  BY <1>1, <1>3, Zenon DEF Collecting
<1> HIDE DEF n
<1> DEFINE T == {i \in 0..n : f[i] = g[i]}
<1>6. 0 \in T
  <2>1. 0 \in 0..n /\ f[0] = g[0]
    BY <1>1, <1>4, <1>5
  <2> QED BY <2>1
<1>7. ASSUME NEW i \in 1..n, i - 1 \in T PROVE i \in T
  <2>1. i \in 1..(n + 1) /\ i \in 0..n /\ f[i - 1] = g[i - 1]
    BY <1>1, <1>7
  <2>2. g[i] = g[i - 1] \o more[i] /\ f[i] = f[i - 1] \o blocks[i] /\ more[i] = blocks[i]
    BY <1>1, <1>4, <1>5, <2>1, Zenon
  <2> QED BY <2>1, <2>2, Zenon
<1> HIDE DEF T
<1>8. 0..n \subseteq T
  BY <1>1, <1>6, <1>7, UpTo, Zenon
<1>9. f[n] = g[n] /\ n \in 0..n /\ n + 1 \in 1..(n + 1) /\ (n + 1) - 1 = n
  BY <1>1, <1>8 DEF T
<1>10. g[n + 1] = g[n] \o b
  BY <1>1, <1>5, <1>9, Zenon
<1> QED BY <1>4, <1>5, <1>9, <1>10 DEF more

(******************************** the blocks *******************************)

\* remove_confirmed: total_bytes stays, so it never says less than is held.
LEMMA RemoveKeeps ==
  ASSUME NEW m, PoolOK(m), NEW txs
  PROVE  /\ PoolOK(RemoveConfirmed(m, txs))
         /\ RemoveConfirmed(m, txs).pending = m.pending \ Range(txs)
<1> DEFINE r == RemoveConfirmed(m, txs)
           left == m.pending \ Range(txs)
           at == [t \in Txs |-> IF t \in Range(txs) THEN 0 ELSE m.insertedAt[t]]
<1>1. /\ m.pending \in SUBSET Txs /\ m.totalBytes \in Nat
      /\ m.insertedAt \in [Txs -> 0..MaxClock]
      /\ m = [pending |-> m.pending, insertedAt |-> m.insertedAt, totalBytes |-> m.totalBytes]
  BY DEF PoolOK, Pools
<1>2. r = [m EXCEPT !.pending = left, !.insertedAt = at]
  BY DEF RemoveConfirmed
<1>3. MaxTxs \in Nat /\ MaxBytes \in Nat /\ MaxClock \in Nat
  BY MempoolAssumption
<1>4. left \in SUBSET m.pending /\ at \in [Txs -> 0..MaxClock]
  BY <1>1, <1>3
<1> HIDE DEF left, at, r
<1>5. r = [pending |-> left, insertedAt |-> at, totalBytes |-> m.totalBytes]
  BY <1>1, <1>2, Zenon
<1>6. /\ Bytes(left) \in Nat /\ Bytes(left) <= Bytes(m.pending)
      /\ Cardinality(left) \in Nat /\ Cardinality(left) <= Cardinality(m.pending)
      /\ Bytes(m.pending) \in Nat /\ Cardinality(m.pending) \in Nat
  BY <1>1, <1>4, BytesFacts
<1>7. r \in Pools /\ r.pending = left /\ r.totalBytes = m.totalBytes
  BY <1>1, <1>4, <1>5 DEF Pools
<1>8. Unique(left)
  BY <1>4 DEF Unique, PoolOK
<1>9. PoolOK(r)
  BY <1>1, <1>3, <1>6, <1>7, <1>8 DEF PoolOK
<1> QED BY <1>7, <1>9 DEF r, left

\* A block is a sequence of transactions, and a ledger one of blocks.
Chains == {ch \in Seq(Seq(Txs)) : Len(ch) <= MaxHeight}

\* The bodies of blocks are sequences of transactions.
LEMMA BodiesTyped == Bodies \subseteq Seq(Txs)
<1> SUFFICES ASSUME NEW txs \in Bodies PROVE txs \in Seq(Txs)
  OBVIOUS
<1>1. PICK m \in 0..BlockLimit : txs \in [1..m -> Txs]
  BY DEF Bodies
<1>2. m \in Nat
  BY MempoolAssumption
<1> QED BY <1>1, <1>2

\* So are the blocks of other miners.
LEMMA ContentsTyped == \A ch : Contents(ch) \subseteq Seq(Txs)
BY BodiesTyped DEF Contents

\* A ledger is a chain.
LEMMA LedgersTyped == Ledgers \subseteq Chains
<1> SUFFICES ASSUME NEW ch \in Ledgers PROVE ch \in Chains
  OBVIOUS
<1>1. PICK m \in 0..MaxHeight : ch \in [1..m -> Bodies]
  BY Zenon DEF Ledgers
<1>2. m \in Nat /\ MaxHeight \in Nat /\ m <= MaxHeight
  BY MempoolAssumption
<1> DEFINE X == Seq(Txs)
<1>3. Bodies \subseteq X
  BY BodiesTyped
<1> HIDE DEF X
<1>4. ch \in Seq(X) /\ Len(ch) = m
  BY <1>1, <1>2, <1>3
<1> QED BY <1>2, <1>4 DEF Chains, X

\* A branch is a ledger, and what is abandoned for it are transactions.
LEMMA BranchTyped ==
  ASSUME chain \in Chains, NEW k \in 0..(Len(chain) - 1)
  PROVE  /\ \A branch \in Branches(k) : branch \in Chains
         /\ Abandoned(k) \in Seq(Txs)
<1> DEFINE X == Seq(Txs)
<1>1. chain \in Seq(X) /\ Len(chain) \in Nat
  BY DEF Chains
<1>2. SubSeq(chain, k + 1, Len(chain)) \in Seq(X)
  <2> HIDE DEF X
  <2> QED BY <1>1
<1>3. ASSUME NEW branch \in Branches(k) PROVE branch \in Chains
  BY LedgersTyped DEF Branches
<1>4. Abandoned(k) \in Seq(Txs)
  <2>1. <<>> \in Seq(Txs)
    OBVIOUS
  <2> QED BY <1>2, <2>1, CollectAppend, Zenon DEF Abandoned
<1> QED BY <1>3, <1>4

(***************************** the invariant *******************************)

Exits == {"no", "candidate", "search", "header", "apply", "write", "stopped"}

MempoolInv ==
  /\ PoolOK(mempool)
  /\ chain \in Chains
  /\ mining \in BOOLEAN
  /\ candidate.txs \in Seq(Txs)
  /\ mining = TRUE => Len(candidate.parent) < MaxHeight
  /\ exit \in Exits
  /\ clock \in 0..MaxClock

\* It holds of a node that starts.
LEMMA MempoolInvInit == Init => MempoolInv
<1> SUFFICES ASSUME Init PROVE MempoolInv
  OBVIOUS
<1>1. chain \in Chains /\ candidate.txs \in Seq(Txs) /\ clock \in 0..MaxClock
  BY MempoolAssumption DEF Init, Chains
<1> QED BY <1>1, EmptyPoolOK, Zenon DEF Init, MempoolInv, Exits

\* A block appended to the ledger.
LEMMA AppendLedger ==
  ASSUME NEW ch \in Chains, NEW b \in Seq(Txs), Len(ch) < MaxHeight
  PROVE  Append(ch, b) \in Chains
<1> DEFINE X == Seq(Txs)
<1>1. ch \in Seq(X) /\ b \in X /\ MaxHeight \in Nat
  BY MempoolAssumption DEF Chains
<1> HIDE DEF X
<1>2. Append(ch, b) \in Seq(X) /\ Len(Append(ch, b)) <= MaxHeight
  BY <1>1
<1> QED BY <1>2 DEF Chains, X

\* Every step keeps it.
LEMMA MempoolInvNext == MempoolInv /\ [Next]_vars => MempoolInv'
<1> SUFFICES ASSUME MempoolInv, [Next]_vars PROVE MempoolInv'
  OBVIOUS
<1>1. /\ PoolOK(mempool) /\ chain \in Chains /\ mining \in BOOLEAN
      /\ candidate.txs \in Seq(Txs) /\ (mining = TRUE => Len(candidate.parent) < MaxHeight)
      /\ exit \in Exits /\ clock \in 0..MaxClock
  BY DEF MempoolInv
<1>2. <<>> \in Seq(Txs)
  OBVIOUS
<1>3. ASSUME NEW t \in Txs, Submit(t) PROVE MempoolInv'
  <2>1. PoolOK(InsertValidated(mempool, chain, t, clock))
    BY <1>1, InsertKeeps
  <2> QED BY <1>1, <1>3, <2>1 DEF Submit, MempoolInv
<1>4. ASSUME NEW txs \in Contents(chain), BlockArrives(txs) PROVE MempoolInv'
  <2>1. PoolOK(RemoveConfirmed(mempool, txs))
    BY <1>1, RemoveKeeps
  <2>2. Append(chain, txs) \in Chains
    BY <1>1, <1>4, ContentsTyped, AppendLedger DEF BlockArrives
  <2> QED BY <1>1, <1>4, <2>1, <2>2 DEF BlockArrives, MempoolInv
<1>5. ASSUME NEW k \in 0..(Len(chain) - 1), NEW branch \in Branches(k), NEW saved \in BOOLEAN,
             Reorg(k, branch, saved)
      PROVE  MempoolInv'
  <2>1. branch \in Chains /\ Abandoned(k) \in Seq(Txs)
    BY <1>1, BranchTyped
  <2>2. PICK g : Offering(mempool, branch, Abandoned(k), clock, g)
    BY <1>1, <2>1, OfferLoop, Zenon
  <2>3. PoolOK(OfferAll(mempool, branch, Abandoned(k), clock))
    <3>1. Len(Abandoned(k)) \in 0..Len(Abandoned(k))
      BY <2>1
    <3> QED BY <2>2, <3>1 DEF Offering
  <2>4. PoolOK(mempool')
    BY <1>1, <1>5, <2>3 DEF Reorg
  <2> QED BY <1>1, <1>5, <2>1, <2>4 DEF Reorg, MempoolInv
<1>6. CASE Prepare
  <2> DEFINE pruned == PruneExpired(mempool, clock)
             txs == SelectForBlock(pruned.pending, BlockLimit)
  <2>1. PoolOK(pruned)
    BY <1>1, PruneKeeps
  <2>2. txs \in Seq(Txs)
    <3>1. pruned.pending \in SUBSET Txs /\ BlockLimit \in Nat
      BY <2>1, MempoolAssumption DEF PoolOK, Pools
    <3>2. txs \in Seq(pruned.pending)
      BY <3>1, SelectionMade, Zenon DEF Selection
    <3> HIDE DEF pruned, txs
    <3> QED BY <3>1, <3>2
  <2>3. /\ mempool' = pruned /\ UNCHANGED <<chain, clock>> /\ Len(chain) < MaxHeight
        /\ \/ /\ mining' = TRUE /\ candidate' = [parent |-> chain, txs |-> txs]
              /\ UNCHANGED exit
           \/ exit' = "candidate" /\ UNCHANGED <<mining, candidate>>
    BY <1>6 DEF Prepare
  <2> HIDE DEF pruned, txs
  <2>4. CASE mining' = TRUE /\ candidate' = [parent |-> chain, txs |-> txs] /\ UNCHANGED exit
    <3>1. candidate'.txs \in Seq(Txs) /\ candidate'.parent = chain
      BY <2>2, <2>4
    <3> QED BY <1>1, <2>1, <2>3, <2>4, <3>1 DEF MempoolInv
  <2>5. CASE exit' = "candidate" /\ UNCHANGED <<mining, candidate>>
    BY <1>1, <2>1, <2>3, <2>5 DEF MempoolInv, Exits
  <2> QED BY <2>3, <2>4, <2>5, Zenon
<1>7. CASE FinishMining
  <2>1. mining = TRUE /\ mining' = FALSE /\ candidate' = [parent |-> <<>>, txs |-> <<>>]
        /\ clock' = clock
    BY <1>7 DEF FinishMining
  <2>2. PoolOK(RemoveConfirmed(mempool, candidate.txs))
    BY <1>1, RemoveKeeps
  <2>3. \/ UNCHANGED <<chain, mempool>>
        \/ /\ chain = candidate.parent /\ chain' = Append(chain, candidate.txs)
           /\ mempool' = RemoveConfirmed(mempool, candidate.txs)
    BY <1>7 DEF FinishMining, Mined, ApplyMined
  <2>4. exit' \in Exits
    BY <1>1, <1>7 DEF FinishMining, Mined, ApplyMined, Exits
  <2>5. chain' \in Chains /\ PoolOK(mempool')
    <3>1. CASE UNCHANGED <<chain, mempool>>
      BY <1>1, <3>1
    <3>2. CASE /\ chain = candidate.parent /\ chain' = Append(chain, candidate.txs)
               /\ mempool' = RemoveConfirmed(mempool, candidate.txs)
      BY <1>1, <2>1, <2>2, <3>2, AppendLedger
    <3> QED BY <2>3, <3>1, <3>2
  <2>6. candidate'.txs \in Seq(Txs)
    BY <1>2, <2>1
  <2> QED BY <1>1, <2>1, <2>4, <2>5, <2>6, Zenon DEF MempoolInv
<1>8. CASE Tick
  <2>1. clock' \in 0..MaxClock
    BY <1>1, <1>8, MempoolAssumption DEF Tick
  <2> QED BY <1>1, <1>8, <2>1 DEF Tick, MempoolInv
<1>9. CASE Stop
  <2>1. candidate'.txs \in Seq(Txs) /\ mempool' = EmptyPool
    BY <1>2, <1>9 DEF Stop
  <2>2. exit' \in Exits
    BY <1>9 DEF Stop, Exits
  <2> QED BY <1>1, <1>9, <2>1, <2>2, EmptyPoolOK, Zenon DEF Stop, MempoolInv
<1>10. CASE Start
  <2>1. exit' \in Exits /\ chain' \in Chains
    BY <1>10, LedgersTyped DEF Start, Exits
  <2> QED BY <1>1, <1>10, <2>1, Zenon DEF Start, MempoolInv
<1>11. CASE UNCHANGED vars
  BY <1>1, <1>11 DEF vars, MempoolInv
<1> QED BY <1>3, <1>4, <1>5, <1>6, <1>7, <1>8, <1>9, <1>10, <1>11 DEF Next

\* The invariant holds in every reachable state.
LEMMA MempoolInvAlways == Spec => []MempoolInv
BY MempoolInvInit, MempoolInvNext, PTL DEF Spec

\* The variables keep their types, total_bytes a natural number among them.
THEOREM MempoolTyped == Spec => []TypeOK
<1>1. MempoolInv => TypeOK
  BY DEF MempoolInv, TypeOK, PoolOK, Pools, Chains, Exits
<1> QED BY <1>1, MempoolInvAlways, PTL

\* At most one pending transaction per sender and nonce, whatever is submitted,
\* mined, abandoned by a reorg and offered again, and however time passes.
THEOREM AlwaysUniqueNonce == Spec => []UniqueNonce
<1>1. MempoolInv => UniqueNonce
  BY DEF MempoolInv, UniqueNonce, PoolOK, Unique
<1> QED BY <1>1, MempoolInvAlways, PTL

\* The mempool never holds more transactions or bytes than its limits, for any
\* limits: total_bytes may say more than is held, after remove_confirmed, but never
\* less, so the check against it is safe.
THEOREM AlwaysWithinLimits == Spec => []WithinLimits
<1>1. ASSUME MempoolInv PROVE WithinLimits
  <2>1. /\ Cardinality(mempool.pending) <= MaxTxs /\ mempool.pending \in SUBSET Txs
        /\ Bytes(mempool.pending) <= mempool.totalBytes /\ mempool.totalBytes <= MaxBytes
        /\ mempool.totalBytes \in Nat /\ MaxBytes \in Nat
    BY <1>1, MempoolAssumption DEF MempoolInv, PoolOK, Pools
  <2>2. Bytes(mempool.pending) \in Nat
    BY <2>1, BytesFacts
  <2> QED BY <2>1, <2>2 DEF WithinLimits
<1>2. MempoolInv => WithinLimits
  BY <1>1
<1> QED BY <1>2, MempoolInvAlways, PTL

\* What select_for_block takes from the mempool of a running node is fair.
THEOREM AlwaysSelectsFairly == Spec => []SelectionFair
<1>1. ASSUME MempoolInv PROVE SelectionFair
  <2>1. mempool.pending \in SUBSET Txs /\ Unique(mempool.pending) /\ BlockLimit \in Nat
    BY <1>1, MempoolAssumption DEF MempoolInv, PoolOK, Pools
  <2> DEFINE S == mempool.pending
             sel == SelectForBlock(S, BlockLimit)
  <2>2. Fair(S, BlockLimit, sel)
    BY <2>1, SelectionIsFair
  <2> HIDE DEF S, sel
  <2>3. DOMAIN sel = 1..Len(sel)
    BY <2>2 DEF Fair
  <2>4. /\ Len(sel) = Min({BlockLimit, Cardinality(S)})
        /\ \A i \in DOMAIN sel : /\ sel[i] \in ReadyAt(S, sel, i)
                                /\ \A t \in ReadyAt(S, sel, i) : Fee[t] <= Fee[sel[i]]
    BY <2>2, <2>3, Zenon DEF Fair
  <2> QED BY <2>4 DEF SelectionFair, ReadyAt, LeftAt, S, sel
<1>2. MempoolInv => SelectionFair
  BY <1>1
<1> QED BY <1>2, MempoolInvAlways, PTL

(**************************** leaving the pool *****************************)

\* What has become of t, pending in m, once the pool is r: it is still there, or it
\* had expired, or one that pays more has its place.
Fate(m, r, t, now) ==
  \/ t \in r.pending /\ r.insertedAt[t] \in {m.insertedAt[t], now}
  \/ Expires(m, t, now)
  \/ \E q \in r.pending : /\ Sender[q] = Sender[t] /\ Nonce[q] = Nonce[t]
                          /\ Fee[q] > Fee[t] /\ r.insertedAt[q] = now

\* A transaction that has just been put in does not expire.
LEMMA FreshStays ==
  ASSUME NEW m, NEW t, NEW now \in Nat, m.insertedAt[t] = now
  PROVE  ~Expires(m, t, now)
<1>1. now - now = 0 /\ LowFeeTTL \in Nat /\ FullTTL \in Nat
  BY MempoolAssumption
<1> QED BY <1>1 DEF Expires

\* One offer.
LEMMA FateOfOne ==
  ASSUME NEW m, PoolOK(m), NEW ch, NEW x \in Txs, NEW now \in 0..MaxClock,
         NEW t \in m.pending
  PROVE  Fate(m, InsertValidated(m, ch, x, now), t, now)
<1> DEFINE p == PruneExpired(m, now)
           r == InsertValidated(m, ch, x, now)
           R == Replacement(p, x)
<1> SUFFICES ASSUME ~Expires(m, t, now) PROVE Fate(m, r, t, now)
  BY DEF Fate
<1>1. t \in p.pending /\ p.insertedAt[t] = m.insertedAt[t]
  BY PruneRemoves, PruneKeeps
<1>2. r = p \/ Inserted(p, ch, x, now, r)
  BY InsertKeeps
<1>3. \A q \in R : Sender[q] = Sender[x] /\ Nonce[q] = Nonce[x]
  BY DEF Replacement
<1> HIDE DEF p, r, R
<1>4. CASE r = p
  BY <1>1, <1>4 DEF Fate
<1>5. CASE Inserted(p, ch, x, now, r)
  <2>1. /\ r.pending = (p.pending \ R) \cup {x} /\ r.insertedAt[x] = now
        /\ \A y \in p.pending \ R : r.insertedAt[y] = p.insertedAt[y]
        /\ \A y \in R : Fee[x] > Fee[y]
    BY <1>5 DEF Inserted, R
  <2>2. CASE t \in R
    BY <1>3, <2>1, <2>2 DEF Fate
  <2>3. CASE t \notin R
    BY <1>1, <2>1, <2>3 DEF Fate
  <2> QED BY <2>2, <2>3
<1> QED BY <1>2, <1>4, <1>5

\* Two offers in a row.
LEMMA FateOfTwo ==
  ASSUME NEW m, NEW p, NEW r, NEW now \in Nat, NEW t \in m.pending,
         p.pending \subseteq Txs, r.pending \subseteq Txs, m.pending \subseteq Txs,
         Fate(m, p, t, now), \A q \in p.pending : Fate(p, r, q, now)
  PROVE  Fate(m, r, t, now)
<1>1. CASE t \in p.pending /\ p.insertedAt[t] \in {m.insertedAt[t], now}
  <2>1. Fate(p, r, t, now)
    BY <1>1
  <2>2. CASE Expires(p, t, now)
    <3>1. p.insertedAt[t] # now
      BY <2>2, FreshStays
    <3>2. p.insertedAt[t] = m.insertedAt[t]
      BY <1>1, <3>1
    <3> QED BY <2>2, <3>2 DEF Fate, Expires
  <2>3. CASE ~Expires(p, t, now)
    BY <1>1, <2>1, <2>3 DEF Fate
  <2> QED BY <2>2, <2>3
<1>2. CASE Expires(m, t, now)
  BY <1>2 DEF Fate
<1>3. ASSUME NEW q \in p.pending, Sender[q] = Sender[t], Nonce[q] = Nonce[t],
             Fee[q] > Fee[t], p.insertedAt[q] = now
      PROVE  Fate(m, r, t, now)
  <2>1. Fate(p, r, q, now) /\ ~Expires(p, q, now)
    BY <1>3, FreshStays
  <2>2. CASE q \in r.pending /\ r.insertedAt[q] = now
    BY <1>3, <2>2 DEF Fate
  <2>3. ASSUME NEW s \in r.pending, Sender[s] = Sender[q], Nonce[s] = Nonce[q],
               Fee[s] > Fee[q], r.insertedAt[s] = now
        PROVE  Fate(m, r, t, now)
    <3>1. Fee[s] \in Nat /\ Fee[q] \in Nat /\ Fee[t] \in Nat
      BY MempoolAssumption
    <3>2. Fee[s] > Fee[t]
      BY <1>3, <2>3, <3>1
    <3> QED BY <1>3, <2>3, <3>2 DEF Fate
  <2> QED BY <1>3, <2>1, <2>2, <2>3 DEF Fate
<1> QED BY <1>1, <1>2, <1>3 DEF Fate

\* Any number of offers, as reorg_to_best_tip makes them.
LEMMA FateOfOffers ==
  ASSUME NEW m, PoolOK(m), NEW ch, NEW txs \in Seq(Txs), NEW now \in 0..MaxClock,
         NEW t \in m.pending
  PROVE  Fate(m, OfferAll(m, ch, txs, now), t, now)
<1> DEFINE n == Len(txs)
<1>1. n \in Nat /\ \A i \in 1..n : txs[i] \in Txs
  OBVIOUS
<1>2. PICK g : Offering(m, ch, txs, now, g)
  BY OfferLoop, Zenon
<1>3. /\ \A i \in 0..n : PoolOK(g[i]) /\ g[i].pending \subseteq Txs
      /\ g[0] = m /\ OfferAll(m, ch, txs, now) = g[n]
      /\ \A i \in 1..n : g[i] = InsertValidated(g[i - 1], ch, txs[i], now)
  BY <1>2, Zenon DEF Offering, PoolOK, Pools
<1> HIDE DEF n
<1> DEFINE T == {i \in 0..n : Fate(m, g[i], t, now)}
<1>4. 0 \in T
  <2>1. Fate(m, m, t, now)
    BY DEF Fate
  <2>2. 0 \in 0..n
    BY <1>1
  <2> QED BY <1>3, <2>1, <2>2
<1>5. ASSUME NEW i \in 1..n, i - 1 \in T PROVE i \in T
  <2>1. i \in 0..n /\ i - 1 \in 0..n /\ Fate(m, g[i - 1], t, now)
    BY <1>1, <1>5
  <2>2. \A q \in g[i - 1].pending : Fate(g[i - 1], g[i], q, now)
    BY <1>1, <1>3, <2>1, FateOfOne
  <2>3. now \in Nat /\ m.pending \subseteq Txs
    BY MempoolAssumption DEF PoolOK, Pools
  <2>4. Fate(m, g[i], t, now)
    BY <1>3, <2>1, <2>2, <2>3, FateOfTwo
  <2> QED BY <2>1, <2>4
<1> HIDE DEF T
<1>6. 0..n \subseteq T
  BY <1>1, <1>4, <1>5, UpTo, Zenon
<1> QED BY <1>1, <1>3, <1>6 DEF T

\* The transactions of a block that is appended are confirmed.
LEMMA AppendedConfirmed ==
  ASSUME NEW ch \in Chains, NEW txs \in Seq(Txs)
  PROVE  Range(txs) \subseteq Range(Confirmed(Append(ch, txs)))
<1>1. /\ Transactions(ch) \in Seq(Txs)
      /\ Transactions(Append(ch, txs)) = Transactions(ch) \o txs
  BY CollectAppend DEF Chains
<1> DEFINE a == Transactions(ch)
<1> HIDE DEF a
<1>2. a \in Seq(Txs) /\ Confirmed(Append(ch, txs)) = a \o txs
  BY <1>1 DEF a, Confirmed
<1>3. ASSUME NEW i \in 1..Len(txs)
      PROVE  Len(a) + i \in DOMAIN (a \o txs) /\ (a \o txs)[Len(a) + i] = txs[i]
  BY <1>2
<1>4. DOMAIN txs = 1..Len(txs)
  OBVIOUS
<1> QED BY <1>2, <1>3, <1>4, Zenon DEF Range

\* What leaves the mempool in any step was confirmed, had expired, or gave way to
\* one that pays more; an abandoned transaction offered in a reorg is no exception.
THEOREM LeavesOnlyForCause == Spec => LeavesForCause
<1> DEFINE Cause(t) == \/ t \in Range(Confirmed(chain'))
                       \/ Expires(mempool, t, clock)
                       \/ \E r \in mempool'.pending :
                            Sender[r] = Sender[t] /\ Nonce[r] = Nonce[t] /\ Fee[r] > Fee[t]
                       \/ Stop
           Step == \A t \in mempool.pending \ mempool'.pending : Cause(t)
<1>1. ASSUME MempoolInv, Next PROVE Step
  <2> SUFFICES ASSUME NEW t \in mempool.pending, t \notin mempool'.pending PROVE Cause(t)
    OBVIOUS
  <2>1. /\ PoolOK(mempool) /\ chain \in Chains /\ clock \in 0..MaxClock
        /\ candidate.txs \in Seq(Txs)
    BY <1>1 DEF MempoolInv
  <2>2. ASSUME Fate(mempool, mempool', t, clock) PROVE Cause(t)
    BY <2>2 DEF Fate
  <2>3. ASSUME NEW txs \in Seq(Txs), mempool' = RemoveConfirmed(mempool, txs),
               chain' = Append(chain, txs)
        PROVE  Cause(t)
    <3>1. t \in Range(txs)
      BY <2>1, <2>3, RemoveKeeps
    <3> QED BY <2>1, <2>3, <3>1, AppendedConfirmed
  <2>4. ASSUME mempool' = mempool PROVE Cause(t)
    BY <2>4
  <2>5. ASSUME NEW x \in Txs, Submit(x) PROVE Cause(t)
    <3>1. Fate(mempool, InsertValidated(mempool, chain, x, clock), t, clock)
      BY <2>1, FateOfOne
    <3> HIDE DEF Cause
    <3> QED BY <2>2, <2>5, <3>1 DEF Submit
  <2>6. ASSUME NEW txs \in Contents(chain), BlockArrives(txs) PROVE Cause(t)
    <3> HIDE DEF Cause
    <3> QED BY <2>3, <2>6, ContentsTyped DEF BlockArrives
  <2>7. ASSUME NEW k \in 0..(Len(chain) - 1), NEW branch \in Branches(k), NEW saved \in BOOLEAN,
             Reorg(k, branch, saved)
        PROVE  Cause(t)
    <3>1. Abandoned(k) \in Seq(Txs)
      BY <2>1, BranchTyped
    <3>2. Fate(mempool, OfferAll(mempool, branch, Abandoned(k), clock), t, clock)
      BY <2>1, <3>1, FateOfOffers
    <3> HIDE DEF Cause
    <3> QED BY <2>2, <2>4, <2>7, <3>2 DEF Reorg
  <2>8. CASE Prepare
    <3>1. mempool'.pending = {u \in mempool.pending : ~Expires(mempool, u, clock)}
      BY <2>8, PruneRemoves DEF Prepare
    <3> QED BY <3>1
  <2>9. CASE FinishMining
    <3> HIDE DEF Cause
    <3>1. \/ mempool' = mempool
          \/ /\ mempool' = RemoveConfirmed(mempool, candidate.txs)
             /\ chain' = Append(chain, candidate.txs)
      BY <2>9 DEF FinishMining, Mined, ApplyMined
    <3> QED BY <2>1, <2>3, <2>4, <3>1
  <2>10. CASE Tick
    BY <2>4, <2>10 DEF Tick
  <2>11. CASE Stop
    BY <2>11
  <2>12. CASE Start
    BY <2>4, <2>12 DEF Start
  <2> HIDE DEF Cause
  <2> QED BY <1>1, <2>5, <2>6, <2>7, <2>8, <2>9, <2>10, <2>11, <2>12 DEF Next
<1>2. MempoolInv /\ [Next]_vars => [Step]_vars
  <2> HIDE DEF Step
  <2> QED BY <1>1
<1> QED BY <1>2, MempoolInvAlways, PTL DEF Spec, LeavesForCause

(******************************** sorting **********************************)

\* The elements of S, each once, by increasing key.
Sorted(S, key, q) ==
  /\ q \in Seq(S) /\ Len(q) = Cardinality(S)
  /\ \A x \in S : \E i \in 1..Len(q) : q[i] = x
  /\ \A i, j \in 1..Len(q) : i < j => key[q[i]] < key[q[j]]

Keys(S, key) ==
  /\ IsFiniteSet(S)
  /\ \A x \in S : key[x] \in Nat
  /\ \A x, y \in S : key[x] = key[y] => x = y

\* An element with a greater key goes to the end.
LEMMA SortedExtends ==
  ASSUME NEW S, NEW key, IsFiniteSet(S), NEW q, Sorted(S, key, q), NEW x, x \notin S,
         \A y \in S : key[y] < key[x]
  PROVE  Sorted(S \cup {x}, key, Append(q, x))
<1> DEFINE T == S \cup {x}
           r == Append(q, x)
           n == Len(q)
<1>1. /\ q \in Seq(S) /\ n \in Nat /\ n = Cardinality(S)
      /\ \A y \in S : \E i \in 1..n : q[i] = y
      /\ \A i, j \in 1..n : i < j => key[q[i]] < key[q[j]]
  BY DEF Sorted
<1>2. Cardinality(T) = n + 1
  BY <1>1, FS_AddElement
<1>3. /\ r \in Seq(T) /\ Len(r) = n + 1 /\ r[n + 1] = x
      /\ \A i \in 1..n : r[i] = q[i] /\ q[i] \in S
  BY <1>1
<1> HIDE DEF r, n
<1>4. ASSUME NEW y \in T PROVE \E i \in 1..(n + 1) : r[i] = y
  <2>1. CASE y = x
    <3>1. n + 1 \in 1..(n + 1)
      BY <1>1
    <3> QED BY <1>3, <2>1, <3>1
  <2>2. CASE y \in S
    <3>1. PICK i \in 1..n : q[i] = y
      BY <1>1, <2>2
    <3>2. i \in 1..(n + 1)
      BY <1>1
    <3> QED BY <1>3, <3>1, <3>2
  <2> QED BY <2>1, <2>2
<1>5. ASSUME NEW i \in 1..(n + 1), NEW j \in 1..(n + 1), i < j
      PROVE  key[r[i]] < key[r[j]]
  <2>1. i \in 1..n
    BY <1>1, <1>5
  <2>2. CASE j = n + 1
    BY <1>3, <2>1, <2>2
  <2>3. CASE j # n + 1
    <3>1. j \in 1..n
      BY <1>1, <2>3
    <3> QED BY <1>1, <1>3, <1>5, <2>1, <3>1
  <2> QED BY <2>2, <2>3
<1> HIDE DEF T
<1> QED BY <1>2, <1>3, <1>4, <1>5 DEF Sorted, T, r

\* Every finite set can be sorted.
LEMMA SortedExists ==
  ASSUME NEW S, NEW key, Keys(S, key)
  PROVE  \E q : Sorted(S, key, q)
<1> DEFINE P == {s \in SUBSET S : \E q : Sorted(s, key, q)}
<1>1. {} \in P
  <2>1. Sorted({}, key, <<>>)
    <3>1. <<>> \in Seq({}) /\ Len(<<>>) = 0
      OBVIOUS
    <3> QED BY <3>1, FS_EmptySet DEF Sorted
  <2> QED BY <2>1
<1>2. ASSUME NEW s \in SUBSET S, s # {}, \A x \in s : s \ {x} \in P PROVE s \in P
  <2>1. IsFiniteSet(s) /\ \A x \in s : key[x] \in Nat
    BY FS_Subset DEF Keys
  <2>2. PICK x \in s : \A y \in s : key[y] <= key[x]
    <3> DEFINE R == {yx \in s \X s : key[yx[1]] > key[yx[2]]}
    <3>1. \A y, z \in s : <<y, z>> \in R <=> key[y] > key[z]
      OBVIOUS
    <3> HIDE DEF R
    <3>2. \A y \in s : <<y, y>> \notin R
      BY <2>1, <3>1
    <3>3. \A u, v, w \in s : <<u, v>> \in R /\ <<v, w>> \in R => <<u, w>> \in R
      BY <2>1, <3>1
    <3>4. PICK x \in s : \A y \in s : <<y, x>> \notin R
      <4> HIDE DEF P
      <4> QED BY <1>2, <2>1, <3>2, <3>3, FirstExists
    <3>5. \A y \in s : ~(key[y] > key[x])
      BY <3>1, <3>4, Zenon
    <3>6. \A y \in s : key[y] <= key[x]
      BY <2>1, <3>5
    <3> QED BY <3>6
  <2>3. PICK q : Sorted(s \ {x}, key, q)
    BY <1>2
  <2>4. \A y \in s \ {x} : key[y] < key[x]
    BY <2>1, <2>2 DEF Keys
  <2>5. IsFiniteSet(s \ {x}) /\ x \notin s \ {x} /\ (s \ {x}) \cup {x} = s
    BY <2>1, FS_RemoveElement
  <2>6. Sorted((s \ {x}) \cup {x}, key, Append(q, x))
    BY <2>3, <2>4, <2>5, SortedExtends
  <2>7. Sorted(s, key, Append(q, x))
    BY <2>5, <2>6
  <2> QED BY <2>7
<1> HIDE DEF P
<1>3. IsFiniteSet(S)
  BY DEF Keys
<1>4. SUBSET S \subseteq P
  BY <1>1, <1>2, <1>3, OverSubsets, Zenon
<1> QED BY <1>4 DEF P

\* In one way.
LEMMA SortedOnce ==
  ASSUME NEW S, NEW key, Keys(S, key), NEW p, NEW q, Sorted(S, key, p), Sorted(S, key, q)
  PROVE  p = q
<1> DEFINE n == Cardinality(S)
           D == {i \in 1..n : p[i] # q[i]}
<1>1. /\ n \in Nat /\ p \in Seq(S) /\ q \in Seq(S) /\ Len(p) = n /\ Len(q) = n
      /\ \A x \in S : \E i \in 1..n : p[i] = x
      /\ \A x \in S : \E i \in 1..n : q[i] = x
      /\ \A i, j \in 1..n : i < j => key[p[i]] < key[p[j]]
      /\ \A i, j \in 1..n : i < j => key[q[i]] < key[q[j]]
      /\ \A x \in S : key[x] \in Nat
  BY FS_CardinalityType DEF Sorted, Keys
<1> HIDE DEF n
<1>2. \A i \in 1..n : p[i] \in S /\ q[i] \in S
  BY <1>1
<1>3. D = {}
  <2> SUFFICES ASSUME D # {} PROVE FALSE
    OBVIOUS
  <2>1. D \subseteq Nat
    BY <1>1
  <2>2. PICK i \in D : \A j \in D : i <= j
    <3> HIDE DEF D
    <3> QED BY <2>1, Least, Zenon
  <2>3. i \in 1..n /\ p[i] # q[i] /\ \A j \in 1..n : j < i => p[j] = q[j]
    BY <1>1, <2>2
  <2>4. PICK j \in 1..n : q[j] = p[i]
    BY <1>1, <1>2, <2>3
  <2>5. PICK k \in 1..n : p[k] = q[i]
    BY <1>1, <1>2, <2>3
  <2> HIDE DEF D
  <2>6. ~(j < i) /\ ~(k < i)
    <3>1. ASSUME j < i PROVE FALSE
      <4>1. p[j] = p[i] /\ key[p[j]] < key[p[i]] /\ key[p[i]] \in Nat
        BY <1>1, <1>2, <2>3, <2>4, <3>1
      <4> QED BY <4>1
    <3>2. ASSUME k < i PROVE FALSE
      <4>1. q[k] = q[i] /\ key[q[k]] < key[q[i]] /\ key[q[i]] \in Nat
        BY <1>1, <1>2, <2>3, <2>5, <3>2, Zenon
      <4> QED BY <4>1
    <3> QED BY <3>1, <3>2
  <2>7. i < j /\ i < k
    <3>1. j # i /\ k # i
      BY <2>3, <2>4, <2>5
    <3>2. i \in Int /\ j \in Int /\ k \in Int
      BY <1>1, <2>3
    <3> QED BY <2>6, <3>1, <3>2
  <2>8. key[q[i]] < key[p[i]] /\ key[p[i]] < key[q[i]]
    BY <1>1, <2>3, <2>4, <2>5, <2>7, Zenon
  <2>9. key[q[i]] \in Nat /\ key[p[i]] \in Nat
    BY <1>1, <1>2, <2>3
  <2> QED BY <2>8, <2>9
<1>4. \A i \in 1..n : p[i] = q[i]
  BY <1>3
<1> QED BY <1>1, <1>4

\* The code's sort, by the nonces of one sender's transactions, say.
LEMMA AscendingSorted ==
  ASSUME NEW S, NEW key, Keys(S, key)
  PROVE  Sorted(S, key, Ascending(S, key))
<1> DEFINE n == Cardinality(S)
           Up(s) == /\ s \in Injection(1..Cardinality(S), S)
                    /\ \A i, j \in DOMAIN s : i < j => key[s[i]] <= key[s[j]]
           a == Ascending(S, key)
<1>1. n \in Nat /\ IsFiniteSet(S) /\ \A x \in S : key[x] \in Nat
  BY FS_CardinalityType DEF Keys
<1>2. PICK q : Sorted(S, key, q)
  BY SortedExists
<1>3. Up(q)
  <2>1. /\ q \in Seq(S) /\ Len(q) = n
        /\ \A i, j \in 1..n : i < j => key[q[i]] < key[q[j]]
    BY <1>2 DEF Sorted
  <2> HIDE DEF n
  <2>2. q \in [1..n -> S] /\ DOMAIN q = 1..n
    BY <1>1, <2>1
  <2>3. \A i, j \in 1..n : i < j => key[q[i]] <= key[q[j]]
    BY <1>1, <2>1, <2>2
  <2>4. ASSUME NEW i \in 1..n, NEW j \in 1..n, i # j PROVE q[i] # q[j]
    <3>1. key[q[i]] \in Nat /\ key[q[j]] \in Nat
      BY <1>1, <2>2
    <3>2. i < j \/ j < i
      BY <1>1, <2>4
    <3> QED BY <2>1, <3>1, <3>2
  <2> QED BY <2>2, <2>3, <2>4 DEF Injection, IsInjective, n
<1>4. Up(a)
  <2>1. \E s : Up(s)
    BY <1>3
  <2> QED BY <2>1, Zenon DEF Ascending
<1> HIDE DEF a
<1>5. a \in [1..n -> S] /\ \A i, j \in 1..n : i # j => a[i] # a[j]
  BY <1>4 DEF Injection, IsInjective
<1>6. \A i, j \in 1..n : i < j => key[a[i]] <= key[a[j]]
  BY <1>4, <1>5
<1> HIDE DEF n, Up
<1>7. a \in Seq(S) /\ Len(a) = n
  BY <1>1, <1>5
<1>8. \A x \in S : \E i \in 1..n : a[i] = x
  <2>1. a \in Injection(1..n, S)
    BY <1>5 DEF Injection, IsInjective
  <2>2. Cardinality(1..n) = n
    BY <1>1, FS_Interval
  <2>3. a \in Surjection(1..n, S)
    BY <1>1, <2>1, <2>2, FS_Injection DEF n
  <2> QED BY <2>3 DEF Surjection
<1>9. ASSUME NEW i \in 1..n, NEW j \in 1..n, i < j PROVE key[a[i]] < key[a[j]]
  <2>1. a[i] # a[j] /\ a[i] \in S /\ a[j] \in S
    BY <1>1, <1>5, <1>9
  <2>2. key[a[i]] # key[a[j]]
    BY <2>1 DEF Keys
  <2> QED BY <1>1, <1>6, <1>9, <2>1, <2>2
<1> QED BY <1>7, <1>8, <1>9 DEF Sorted, n, a

(****************************** spendability *******************************)

\* The pending transactions of one sender, and that they apply in the order of
\* their nonces.
Mine(S, a) == {p \in S : Sender[p] = a}
Spendable(S, ch, a) == Applies(ch, Ascending(Mine(S, a), Nonce))

\* The transactions of one sender in a pool are told apart by their nonces.
LEMMA MineKeys ==
  ASSUME NEW S \in SUBSET Txs, Unique(S), NEW a
  PROVE  Keys(Mine(S, a), Nonce)
<1>1. Mine(S, a) \in SUBSET S
  BY DEF Mine
<1>2. IsFiniteSet(Mine(S, a))
  BY <1>1, BytesFacts, FS_Subset
<1>3. \A t \in S : Nonce[t] \in Nat
  BY MempoolAssumption
<1>4. \A t, u \in Mine(S, a) : Nonce[t] = Nonce[u] => t = u
  BY DEF Mine, Unique
<1> QED BY <1>1, <1>2, <1>3, <1>4 DEF Keys

\* In a sequence of one sender's transactions that applies, the last nonce is the
\* highest: every earlier one is spent before it.
LEMMA LastNonceHighest ==
  ASSUME NEW ch \in Chains, NEW txs \in Seq(Txs), NEW a,
         \A i \in 1..Len(txs) : Sender[txs[i]] = a, Applies(ch, txs)
  PROVE  \A i \in 1..Len(txs) : i < Len(txs) => Nonce[txs[i]] < Nonce[txs[Len(txs)]]
<1> SUFFICES ASSUME NEW i \in 1..Len(txs), i < Len(txs)
             PROVE  Nonce[txs[i]] < Nonce[txs[Len(txs)]]
  OBVIOUS
<1> DEFINE n == Len(txs)
           c == Confirmed(ch)
           prefix(k) == SubSeq(txs, 1, k - 1)
           spent(k) == SpentBy(c \o prefix(k), a)
<1>1. n \in Nat /\ n \in 1..n /\ \A k \in 1..n : txs[k] \in Txs /\ Sender[txs[k]] = a
  OBVIOUS
<1>2. \A k \in 1..n : prefix(k) \in Seq(Txs) /\ Len(prefix(k)) = k - 1
                      /\ \A j \in 1..(k - 1) : prefix(k)[j] = txs[j]
  OBVIOUS
<1>3. c \in Seq(Txs) /\ \A k \in 1..n : Confirmed(Append(ch, prefix(k))) = c \o prefix(k)
  <2> HIDE DEF prefix, n
  <2>1. ch \in Seq(Seq(Txs)) /\ <<>> \in Seq(Txs)
    BY DEF Chains
  <2>2. c \in Seq(Txs)
    BY <2>1, CollectAppend DEF Confirmed
  <2>3. ASSUME NEW k \in 1..n PROVE Confirmed(Append(ch, prefix(k))) = c \o prefix(k)
    BY <1>2, <2>1, CollectAppend DEF Confirmed
  <2> QED BY <2>2, <2>3
<1> HIDE DEF n, c
<1>4. \A k \in 1..n : Nonce[txs[k]] = Cardinality(spent(k))
  <2> SUFFICES ASSUME NEW k \in 1..n PROVE Nonce[txs[k]] = Cardinality(spent(k))
    OBVIOUS
  <2>1. Nonce[txs[k]] = LedgerNonce(Append(ch, prefix(k)), a)
    BY <1>1 DEF Applies, n
  <2> HIDE DEF prefix
  <2> QED BY <1>3, <2>1, Zenon DEF LedgerNonce
<1> HIDE DEF prefix
<1>5. ASSUME NEW k \in 1..n
      PROVE  /\ DOMAIN (c \o prefix(k)) = 1..(Len(c) + k - 1)
             /\ \A j \in 1..Len(c) : (c \o prefix(k))[j] = c[j]
             /\ \A j \in 1..(k - 1) : (c \o prefix(k))[Len(c) + j] = txs[j]
  <2>1. prefix(k) \in Seq(Txs) /\ Len(prefix(k)) = k - 1 /\ c \in Seq(Txs)
        /\ \A j \in 1..(k - 1) : prefix(k)[j] = txs[j]
    BY <1>2, <1>3
  <2> DEFINE b == prefix(k)
  <2> HIDE DEF b
  <2>2. b \in Seq(Txs) /\ Len(b) = k - 1 /\ \A j \in 1..(k - 1) : b[j] = txs[j]
    BY <2>1 DEF b
  <2>3. DOMAIN (c \o b) = 1..(Len(c) + Len(b))
    <3>0. c \in Seq(Txs) /\ b \in Seq(Txs)
      BY <1>3, <2>2
    <3>1. c \o b \in Seq(Txs) /\ Len(c \o b) = Len(c) + Len(b)
      BY <3>0
    <3> DEFINE cb == c \o b
    <3> HIDE DEF cb
    <3>2. cb \in Seq(Txs) /\ Len(cb) = Len(c) + Len(b)
      BY <3>1 DEF cb
    <3>3. DOMAIN cb = 1..(Len(c) + Len(b))
      BY <3>2
    <3> QED BY <3>3 DEF cb
  <2>4. \A j \in 1..Len(c) : (c \o b)[j] = c[j]
    BY <1>3, <2>2
  <2>5. \A j \in 1..Len(b) : (c \o b)[Len(c) + j] = b[j]
    BY <1>3, <2>2
  <2>6. Len(c) + (k - 1) = Len(c) + k - 1
    BY <1>1, <1>3
  <2> QED BY <2>2, <2>3, <2>4, <2>5, <2>6 DEF b
<1>6. i \in 1..n /\ i < n /\ Len(c) \in Nat
  BY <1>3 DEF n
<1>7. spent(i) \in SUBSET spent(n)
  <2> SUFFICES ASSUME NEW j \in spent(i) PROVE j \in spent(n)
    OBVIOUS
  <2>1. j \in 1..(Len(c) + i - 1) /\ Sender[(c \o prefix(i))[j]] = a
    BY <1>5, <1>6, Zenon DEF SpentBy
  <2>2. j \in 1..(Len(c) + n - 1)
    BY <1>1, <1>6, <2>1
  <2>3. (c \o prefix(n))[j] = (c \o prefix(i))[j]
    <3>1. CASE j \in 1..Len(c)
      BY <1>1, <1>5, <1>6, <3>1
    <3>2. CASE j \notin 1..Len(c)
      <4>1. j - Len(c) \in 1..(i - 1) /\ j - Len(c) \in 1..(n - 1) /\ Len(c) + (j - Len(c)) = j
        BY <1>1, <1>6, <2>1, <3>2
      <4>2. (c \o prefix(n))[Len(c) + (j - Len(c))] = txs[j - Len(c)]
        BY <1>1, <1>5, <4>1, Zenon
      <4>3. (c \o prefix(i))[Len(c) + (j - Len(c))] = txs[j - Len(c)]
        BY <1>5, <1>6, <4>1
      <4> QED BY <4>1, <4>2, <4>3, Zenon
    <3> QED BY <3>1, <3>2, Zenon
  <2> QED BY <1>1, <1>5, <2>1, <2>2, <2>3, Zenon DEF SpentBy
<1>8. Len(c) + i \in spent(n) /\ Len(c) + i \notin spent(i)
  <2>1. i \in 1..(n - 1) /\ Len(c) + i \in 1..(Len(c) + n - 1)
        /\ Len(c) + i \notin 1..(Len(c) + i - 1)
    BY <1>1, <1>6
  <2>2. (c \o prefix(n))[Len(c) + i] = txs[i]
    BY <1>1, <1>5, <2>1, Zenon
  <2> QED BY <1>1, <1>5, <1>6, <2>1, <2>2 DEF SpentBy
<1>9. IsFiniteSet(spent(n))
  <2>1. spent(n) \in SUBSET (1..(Len(c) + n - 1))
    BY <1>1, <1>5, Zenon DEF SpentBy
  <2>2. IsFiniteSet(1..(Len(c) + n - 1))
    BY <1>1, <1>6, FS_Interval
  <2> QED BY <2>1, <2>2, FS_Subset, Zenon
<1> HIDE DEF spent
<1>10. /\ Cardinality(spent(i)) <= Cardinality(spent(n))
       /\ Cardinality(spent(i)) # Cardinality(spent(n))
       /\ Cardinality(spent(n)) \in Nat /\ Cardinality(spent(i)) \in Nat
  BY <1>7, <1>8, <1>9, FS_Subset, FS_CardinalityType
<1> QED BY <1>1, <1>4, <1>6, <1>10 DEF n

\* When a transaction is put in, all its sender has pending can be spent.
LEMMA InsertSpendable ==
  ASSUME NEW p, PoolOK(p), NEW ch \in Chains, NEW x \in Txs, NEW now, NEW r,
         Inserted(p, ch, x, now, r)
  PROVE  Spendable(r.pending, ch, Sender[x])
<1> DEFINE a == Sender[x]
           R == Replacement(p, x)
           old == p.pending \ R
           mine == Mine(old, a)
           q == Ascending(mine, Nonce)
           txs == Append(q, x)
<1>1. /\ x \notin p.pending /\ r.pending = old \cup {x}
      /\ ValidAgainstLedger(p, ch, x, R)
  BY DEF Inserted
<1>2. Applies(ch, txs)
  BY <1>1 DEF ValidAgainstLedger, Mine
<1>3. old \in SUBSET Txs /\ Unique(old) /\ old \subseteq p.pending
  BY DEF PoolOK, Pools, Unique
<1>4. Keys(mine, Nonce)
  <2> HIDE DEF old
  <2> QED BY <1>3, MineKeys
<1>5. Mine(r.pending, a) = mine \cup {x} /\ x \notin mine /\ mine \in SUBSET Txs
  BY <1>1, <1>3 DEF Mine
<1>6. \A y \in mine : Sender[y] = a
  BY DEF Mine
<1> HIDE DEF mine
<1>7. Sorted(mine, Nonce, q)
  BY <1>4, AscendingSorted
<1> HIDE DEF q
<1> DEFINE n == Len(q)
<1>8. /\ q \in Seq(mine) /\ n \in Nat
      /\ \A y \in mine : \E i \in 1..n : q[i] = y
  BY <1>7 DEF Sorted
<1>9. /\ txs \in Seq(Txs) /\ Len(txs) = n + 1 /\ txs[n + 1] = x
      /\ \A i \in 1..n : txs[i] = q[i] /\ q[i] \in mine
  <2>1. q \in Seq(Txs)
    BY <1>5, <1>8
  <2>2. \A i \in 1..n : q[i] \in mine
    BY <1>8
  <2> QED BY <1>8, <2>1, <2>2
<1> HIDE DEF txs, n
<1>10. \A i \in 1..(n + 1) : Sender[txs[i]] = a
  <2>1. \A i \in 1..(n + 1) : i = n + 1 \/ i \in 1..n
    BY <1>8
  <2> QED BY <1>6, <1>9, <2>1
<1>11. \A i \in 1..(n + 1) : i < n + 1 => Nonce[txs[i]] < Nonce[x]
  <2>1. \A i \in 1..Len(txs) : Sender[txs[i]] = a
    BY <1>9, <1>10
  <2>2. \A i \in 1..Len(txs) : i < Len(txs) => Nonce[txs[i]] < Nonce[txs[Len(txs)]]
    BY <1>2, <1>9, <2>1, LastNonceHighest
  <2> QED BY <1>9, <2>2
<1>12. \A y \in mine : Nonce[y] < Nonce[x]
  <2> SUFFICES ASSUME NEW y \in mine PROVE Nonce[y] < Nonce[x]
    OBVIOUS
  <2>1. PICK i \in 1..n : q[i] = y
    BY <1>8
  <2>2. i \in 1..(n + 1) /\ i < n + 1
    BY <1>8
  <2> QED BY <1>9, <1>11, <2>1, <2>2
<1>13. Sorted(mine \cup {x}, Nonce, txs)
  BY <1>4, <1>5, <1>7, <1>12, SortedExtends DEF Keys, txs
<1>14. Keys(mine \cup {x}, Nonce)
  <2>1. IsFiniteSet(mine \cup {x})
    BY <1>4, FS_AddElement DEF Keys
  <2>2. Nonce[x] \in Nat /\ \A y \in mine : Nonce[y] \in Nat
    BY <1>5, MempoolAssumption
  <2>3. \A y, z \in mine : Nonce[y] = Nonce[z] => y = z
    BY <1>4 DEF Keys
  <2>4. \A y \in mine : Nonce[y] # Nonce[x]
    BY <1>12, <2>2
  <2> QED BY <2>1, <2>2, <2>3, <2>4 DEF Keys
<1>15. Ascending(mine \cup {x}, Nonce) = txs
  BY <1>13, <1>14, AscendingSorted, SortedOnce
<1> QED BY <1>2, <1>5, <1>15 DEF Spendable

\* What holds of the pool while abandoned transactions are offered to it: those that
\* have come in can be spent, and nothing is about to expire.
Admitted(m, r, ch, now) ==
  \A t \in r.pending \ m.pending :
    Spendable(r.pending, ch, Sender[t]) /\ \A q \in r.pending : ~Expires(r, q, now)

\* One more offer.
LEMMA AdmittedOne ==
  ASSUME NEW m, NEW g, PoolOK(g), NEW ch \in Chains, NEW x \in Txs,
         NEW now \in 0..MaxClock, Admitted(m, g, ch, now)
  PROVE  Admitted(m, InsertValidated(g, ch, x, now), ch, now)
<1> DEFINE p == PruneExpired(g, now)
           r == InsertValidated(g, ch, x, now)
           R == Replacement(p, x)
<1>1. /\ PoolOK(p) /\ p.pending = {t \in g.pending : ~Expires(g, t, now)}
      /\ \A t \in p.pending : p.insertedAt[t] = g.insertedAt[t]
  <2>1. PoolOK(p) /\ \A t \in p.pending : p.insertedAt[t] = g.insertedAt[t]
    BY PruneKeeps
  <2>2. p.pending = {t \in g.pending : ~Expires(g, t, now)}
    BY PruneRemoves
  <2> QED BY <2>1, <2>2
<1>2. PoolOK(r) /\ (r = p \/ Inserted(p, ch, x, now, r))
  BY InsertKeeps
<1>3. \A q \in R : Sender[q] = Sender[x]
  BY DEF Replacement
<1> HIDE DEF p, r, R
<1>4. \A q \in p.pending : ~Expires(p, q, now)
  BY <1>1 DEF Expires
<1>5. \A q \in r.pending : ~Expires(r, q, now)
  <2>1. CASE r = p
    BY <1>4, <2>1
  <2>2. CASE Inserted(p, ch, x, now, r)
    <3>1. /\ r.pending = (p.pending \ R) \cup {x} /\ r.insertedAt[x] = now
          /\ \A y \in p.pending \ R : r.insertedAt[y] = p.insertedAt[y]
      BY <2>2 DEF Inserted, R
    <3>2. now \in Nat
      BY MempoolAssumption
    <3>3. ~Expires(r, x, now)
      BY <3>1, <3>2, FreshStays
    <3>4. \A y \in p.pending \ R : ~Expires(r, y, now)
      BY <1>4, <3>1 DEF Expires
    <3> QED BY <3>1, <3>3, <3>4
  <2> QED BY <1>2, <2>1, <2>2
<1>6. ASSUME NEW t \in r.pending, t \notin m.pending PROVE Spendable(r.pending, ch, Sender[t])
  <2>1. CASE r.pending = p.pending
    <3>1. t \in g.pending
      BY <1>1, <2>1
    <3>2. Spendable(g.pending, ch, Sender[t]) /\ \A q \in g.pending : ~Expires(g, q, now)
      BY <1>6, <3>1 DEF Admitted
    <3>3. p.pending = g.pending
      BY <1>1, <3>2
    <3> QED BY <2>1, <3>2, <3>3
  <2>2. CASE Inserted(p, ch, x, now, r) /\ Sender[t] = Sender[x]
    BY <1>1, <2>2, InsertSpendable
  <2>3. CASE Inserted(p, ch, x, now, r) /\ Sender[t] # Sender[x]
    <3>1. r.pending = (p.pending \ R) \cup {x}
      BY <2>3 DEF Inserted, R
    <3>2. t \in g.pending
      BY <1>1, <2>3, <3>1
    <3>3. Spendable(g.pending, ch, Sender[t]) /\ \A q \in g.pending : ~Expires(g, q, now)
      BY <1>6, <3>2 DEF Admitted
    <3>4. p.pending = g.pending
      BY <1>1, <3>3
    <3>5. Mine(r.pending, Sender[t]) = Mine(g.pending, Sender[t])
      BY <1>3, <2>3, <3>1, <3>4 DEF Mine
    <3> QED BY <3>3, <3>5 DEF Spendable
  <2> QED BY <1>2, <2>1, <2>2, <2>3
<1> QED BY <1>5, <1>6 DEF Admitted, r

\* All of them.
LEMMA AdmittedAll ==
  ASSUME NEW m, PoolOK(m), NEW ch \in Chains, NEW txs \in Seq(Txs), NEW now \in 0..MaxClock
  PROVE  Admitted(m, OfferAll(m, ch, txs, now), ch, now)
<1> DEFINE n == Len(txs)
<1>1. n \in Nat /\ \A i \in 1..n : txs[i] \in Txs
  OBVIOUS
<1>2. PICK g : Offering(m, ch, txs, now, g)
  BY OfferLoop, Zenon
<1>3. /\ \A i \in 0..n : PoolOK(g[i])
      /\ g[0] = m /\ OfferAll(m, ch, txs, now) = g[n]
      /\ \A i \in 1..n : g[i] = InsertValidated(g[i - 1], ch, txs[i], now)
  BY <1>2 DEF Offering
<1> HIDE DEF n
<1> DEFINE T == {i \in 0..n : Admitted(m, g[i], ch, now)}
<1>4. 0 \in T
  <2>1. Admitted(m, m, ch, now)
    BY DEF Admitted
  <2>2. 0 \in 0..n
    BY <1>1
  <2> QED BY <1>3, <2>1, <2>2
<1>5. ASSUME NEW i \in 1..n, i - 1 \in T PROVE i \in T
  <2>1. i \in 0..n /\ i - 1 \in 0..n /\ Admitted(m, g[i - 1], ch, now)
    BY <1>1, <1>5
  <2> QED BY <1>1, <1>3, <2>1, AdmittedOne
<1> HIDE DEF T
<1>6. 0..n \subseteq T
  BY <1>1, <1>4, <1>5, UpTo
<1> QED BY <1>1, <1>3, <1>6 DEF T

\* Whenever a transaction comes in, submitted or returned by a reorg, everything its
\* sender has pending can be confirmed in the order of the nonces, for any
\* transactions and balances.
THEOREM AdmitsSpendable == Spec => AdmittedSpendable
<1> DEFINE Good(t) == Applies(chain', Ascending({p \in mempool'.pending : Sender[p] = Sender[t]}, Nonce))
           Step == \A t \in mempool'.pending \ mempool.pending : Good(t)
<1>1. ASSUME MempoolInv, Next PROVE Step
  <2> SUFFICES ASSUME NEW t \in mempool'.pending, t \notin mempool.pending PROVE Good(t)
    OBVIOUS
  <2>1. /\ PoolOK(mempool) /\ chain \in Chains /\ clock \in 0..MaxClock
    BY <1>1 DEF MempoolInv
  <2>2. ASSUME Spendable(mempool'.pending, chain', Sender[t]) PROVE Good(t)
    BY <2>2 DEF Spendable, Mine
  <2>3. ASSUME mempool'.pending \subseteq mempool.pending PROVE Good(t)
    BY <2>3
  <2> HIDE DEF Good
  <2>4. ASSUME NEW txs PROVE RemoveConfirmed(mempool, txs).pending \subseteq mempool.pending
    BY <2>1, RemoveKeeps
  <2>5. ASSUME NEW x \in Txs, Submit(x) PROVE Good(t)
    <3> DEFINE p == PruneExpired(mempool, clock)
               r == InsertValidated(mempool, chain, x, clock)
    <3>1. PoolOK(p) /\ p.pending \subseteq mempool.pending
      BY <2>1, PruneKeeps
    <3>2. r = p \/ Inserted(p, chain, x, clock, r)
      BY <2>1, InsertKeeps
    <3> HIDE DEF p, r
    <3>3. mempool' = r /\ chain' = chain
      BY <2>5 DEF Submit, r
    <3>4. Inserted(p, chain, x, clock, r)
      BY <3>1, <3>2, <3>3
    <3>5. t = x
      BY <3>1, <3>3, <3>4 DEF Inserted
    <3>6. Spendable(r.pending, chain, Sender[x])
      BY <2>1, <3>1, <3>4, InsertSpendable
    <3> QED BY <2>2, <3>3, <3>5, <3>6
  <2>6. ASSUME NEW txs \in Contents(chain), BlockArrives(txs) PROVE Good(t)
    BY <2>3, <2>4, <2>6 DEF BlockArrives
  <2>7. ASSUME NEW k \in 0..(Len(chain) - 1), NEW branch \in Branches(k), NEW saved \in BOOLEAN,
             Reorg(k, branch, saved)
        PROVE  Good(t)
    <3>1. Abandoned(k) \in Seq(Txs) /\ branch \in Chains
      BY <2>1, BranchTyped
    <3>2. Admitted(mempool, OfferAll(mempool, branch, Abandoned(k), clock), branch, clock)
      BY <2>1, <3>1, AdmittedAll
    <3>3. mempool' = OfferAll(mempool, branch, Abandoned(k), clock) /\ chain' = branch
      <4>1. mempool' # mempool
        OBVIOUS
      <4> QED BY <2>7, <4>1 DEF Reorg
    <3>4. Spendable(mempool'.pending, chain', Sender[t])
      BY <3>2, <3>3 DEF Admitted
    <3> QED BY <2>2, <3>4
  <2>8. CASE Prepare
    <3>1. mempool' = PruneExpired(mempool, clock)
      BY <2>8 DEF Prepare
    <3> QED BY <2>1, <2>3, <3>1, PruneKeeps
  <2>9. CASE FinishMining
    <3>1. mempool' = mempool \/ mempool' = RemoveConfirmed(mempool, candidate.txs)
      BY <2>9 DEF FinishMining, Mined, ApplyMined
    <3> QED BY <2>3, <2>4, <3>1
  <2>10. CASE Tick
    BY <2>3, <2>10 DEF Tick
  <2>11. CASE Stop
    <3>1. mempool'.pending = {}
      BY <2>11 DEF Stop, EmptyPool
    <3> QED BY <2>3, <3>1
  <2>12. CASE Start
    BY <2>3, <2>12 DEF Start
  <2> QED BY <1>1, <2>5, <2>6, <2>7, <2>8, <2>9, <2>10, <2>11, <2>12 DEF Next
<1>2. MempoolInv /\ [Next]_vars => [Step]_vars
  <2> HIDE DEF Step
  <2> QED BY <1>1
<1> QED BY <1>2, MempoolInvAlways, PTL DEF Spec, AdmittedSpendable

(******************************** the wallet *******************************)

\* n is the first number from s on that is not in S.
FirstFree(S, s, n) ==
  /\ n \in Nat /\ s <= n /\ n \notin S
  /\ \A k \in Nat : s <= k /\ k < n => k \in S

\* The nonces that a sender has pending.
Taken(a) == {Nonce[t] : t \in {p \in mempool.pending : Sender[p] = a}}

\* They are finitely many numbers, and PendingNonces sorts them.
LEMMA TakenSorted ==
  ASSUME MempoolInv, NEW a
  PROVE  /\ Taken(a) \subseteq Nat /\ IsFiniteSet(Taken(a))
         /\ Sorted(Taken(a), [n \in Taken(a) |-> n], PendingNonces(a))
<1> DEFINE S == Taken(a)
           M == {p \in mempool.pending : Sender[p] = a}
           f == [t \in M |-> Nonce[t]]
           id == [n \in S |-> n]
<1>1. M \in SUBSET Txs
  BY DEF MempoolInv, PoolOK, Pools
<1>2. S \subseteq Nat
  BY <1>1, MempoolAssumption DEF Taken
<1>3. IsFiniteSet(S)
  <2>1. IsFiniteSet(M)
    BY <1>1, BytesFacts
  <2>2. f \in Surjection(M, S)
    BY DEF Surjection, Taken
  <2> HIDE DEF M, f, S
  <2> QED BY <2>1, <2>2, FS_Surjection
<1>4. PendingNonces(a) = Ascending(S, id)
  BY DEF PendingNonces, Taken
<1> HIDE DEF S
<1>5. Keys(S, id)
  BY <1>2, <1>3 DEF Keys
<1>6. Sorted(S, id, Ascending(S, id))
  BY <1>5, AscendingSorted
<1> QED BY <1>2, <1>3, <1>4, <1>6 DEF S

\* resolve_wallet_nonce steps from the nonce of /balance over the pending ones to
\* the first that is free.
LEMMA ResolvesFirstFree ==
  ASSUME MempoolInv, NEW a, NEW s \in Nat
  PROVE  FirstFree(Taken(a), s, ResolveWalletNonce(a, s))
<1> DEFINE S == Taken(a)
           p == PendingNonces(a)
           n == Len(p)
           F == [q \in (1..n) \X Nat |-> q[2] + (IF p[q[1]] = q[2] THEN 1 ELSE 0)]
           Eq(f) == f = [i \in 0..n |-> IF i = 0 THEN s
                                        ELSE f[i - 1] + (IF p[i] = f[i - 1] THEN 1 ELSE 0)]
           f == CHOOSE f : Eq(f)
<1>1. /\ S \subseteq Nat /\ n \in Nat
      /\ \A i \in 1..n : p[i] \in S
      /\ \A x \in S : \E i \in 1..n : p[i] = x
      /\ \A i, j \in 1..n : i < j => p[i] < p[j]
  <2> DEFINE id == [k \in S |-> k]
  <2>1. S \subseteq Nat /\ Sorted(S, id, p)
    BY TakenSorted
  <2> HIDE DEF S, p
  <2>2. /\ p \in Seq(S) /\ \A x \in S : \E i \in 1..n : p[i] = x
        /\ \A i, j \in 1..n : i < j => id[p[i]] < id[p[j]]
    <3> HIDE DEF id
    <3> QED BY <2>1 DEF Sorted
  <2>3. n \in Nat /\ \A i \in 1..n : p[i] \in S
    BY <2>2
  <2> HIDE DEF n
  <2> QED BY <2>1, <2>2, <2>3
<1>2. ResolveWalletNonce(a, s) = f[n]
  BY DEF ResolveWalletNonce
<1> HIDE DEF S, p, n
<1>3. ASSUME NEW i \in 1..n, NEW x \in Nat
      PROVE  F[<<i, x>>] = x + (IF p[i] = x THEN 1 ELSE 0) /\ F[<<i, x>>] \in Nat
  <2>1. <<i, x>> \in (1..n) \X Nat
    OBVIOUS
  <2>2. F[<<i, x>>] = x + (IF p[i] = x THEN 1 ELSE 0)
    BY <2>1
  <2> QED BY <2>2
<1> HIDE DEF F
<1>4. PICK g : Rounds(n, Nat, s, F, g)
  BY <1>1, <1>3, LoopExists, Zenon
<1>5. Eq(g)
  <2>1. g \in [0..n -> Nat] /\ g[0] = s /\ \A i \in 1..n : g[i] = F[<<i, g[i - 1]>>]
    BY <1>4 DEF Rounds
  <2>2. ASSUME NEW i \in 1..n PROVE g[i] = g[i - 1] + (IF p[i] = g[i - 1] THEN 1 ELSE 0)
    <3>1. i - 1 \in 0..n
      BY <1>1
    <3>2. g[i - 1] \in Nat
      BY <2>1, <3>1
    <3> QED BY <1>3, <2>1, <3>2, Zenon
  <2>3. \A i \in 0..n : g[i] = IF i = 0 THEN s
                               ELSE g[i - 1] + (IF p[i] = g[i - 1] THEN 1 ELSE 0)
    <3>1. \A i \in 0..n : i = 0 \/ i \in 1..n
      BY <1>1
    <3> QED BY <2>1, <2>2, <3>1
  <2>4. g = [i \in 0..n |-> g[i]]
    BY <2>1
  <2> QED BY <2>3, <2>4, Zenon
<1>6. Eq(f)
  <2> HIDE DEF Eq
  <2> QED BY <1>5
<1> HIDE DEF f
<1>7. f[0] = s /\ \A i \in 1..n : f[i] = f[i - 1] + (IF p[i] = f[i - 1] THEN 1 ELSE 0)
  <2>1. \A i \in 0..n : f[i] = IF i = 0 THEN s
                               ELSE f[i - 1] + (IF p[i] = f[i - 1] THEN 1 ELSE 0)
    BY <1>6, Zenon
  <2>2. 0 \in 0..n /\ \A i \in 1..n : i \in 0..n /\ i # 0
    BY <1>1
  <2> QED BY <2>1, <2>2
<1> HIDE DEF Eq
<1> DEFINE seen(i) == {p[j] : j \in 1..i}
           T == {i \in 0..n : FirstFree(seen(i), s, f[i])}
<1>8. 0 \in T
  BY <1>1, <1>7 DEF FirstFree
<1>9. ASSUME NEW i \in 1..n, i - 1 \in T PROVE i \in T
  <2>1. i \in 0..n /\ i - 1 \in 0..n /\ FirstFree(seen(i - 1), s, f[i - 1])
    BY <1>1, <1>9
  <2>2. seen(i) = seen(i - 1) \cup {p[i]}
    <3>1. \A j \in 1..i : j \in 1..(i - 1) \/ j = i
      BY <1>1
    <3>2. i \in 1..i /\ \A j \in 1..(i - 1) : j \in 1..i
      BY <1>1
    <3> QED BY <3>1, <3>2
  <2>3. \A x \in seen(i - 1) : x < p[i] /\ x \in Nat
    <3> SUFFICES ASSUME NEW j \in 1..(i - 1) PROVE p[j] < p[i] /\ p[j] \in Nat
      OBVIOUS
    <3>1. j \in 1..n /\ j < i
      BY <1>1
    <3> QED BY <1>1, <3>1, Zenon
  <2> HIDE DEF seen
  <2>4. p[i] \in Nat /\ f[i - 1] \in Nat
    BY <1>1, <2>1, Zenon DEF FirstFree
  <2>5. CASE p[i] = f[i - 1]
    <3>1. f[i] = f[i - 1] + 1
      BY <1>7, <2>4, <2>5
    <3>2. f[i] \in Nat /\ s <= f[i] /\ f[i] \notin seen(i)
      BY <2>1, <2>2, <2>3, <2>4, <2>5, <3>1 DEF FirstFree
    <3>3. ASSUME NEW k \in Nat, s <= k, k < f[i] PROVE k \in seen(i)
      <4>1. CASE k = f[i - 1]
        BY <2>2, <2>5, <4>1
      <4>2. CASE k # f[i - 1]
        <5>1. k < f[i - 1]
          BY <2>4, <3>1, <3>3, <4>2
        <5> QED BY <2>1, <2>2, <3>3, <5>1 DEF FirstFree
      <4> QED BY <4>1, <4>2
    <3>4. FirstFree(seen(i), s, f[i])
      BY <3>2, <3>3 DEF FirstFree
    <3> QED BY <2>1, <3>4
  <2>6. CASE p[i] # f[i - 1]
    <3>1. f[i] = f[i - 1]
      BY <1>7, <2>4, <2>6
    <3>2. FirstFree(seen(i), s, f[i])
      BY <2>1, <2>2, <2>6, <3>1 DEF FirstFree
    <3> QED BY <2>1, <3>2
  <2> QED BY <2>5, <2>6
<1> HIDE DEF T
<1>10. 0..n \subseteq T
  BY <1>1, <1>8, <1>9, UpTo
<1>11. FirstFree(seen(n), s, f[n])
  BY <1>1, <1>10 DEF T
<1>12. seen(n) = S
  BY <1>1, Zenon
<1> QED BY <1>2, <1>11, <1>12 DEF S

\* The nonce of an account is a natural number.
LEMMA LedgerNonceType ==
  ASSUME NEW ch \in Chains, NEW a
  PROVE  LedgerNonce(ch, a) \in Nat
<1> DEFINE c == Confirmed(ch)
<1>1. c \in Seq(Txs)
  <2>1. ch \in Seq(Seq(Txs)) /\ <<>> \in Seq(Txs)
    BY DEF Chains
  <2> QED BY <2>1, CollectAppend DEF Confirmed
<1> HIDE DEF c
<1>2. SpentBy(c, a) \in SUBSET (1..Len(c)) /\ Len(c) \in Nat
  BY <1>1 DEF SpentBy
<1>3. IsFiniteSet(SpentBy(c, a))
  <2>1. IsFiniteSet(1..Len(c))
    BY <1>2, FS_Interval
  <2> QED BY <1>2, <2>1, FS_Subset
<1> QED BY <1>3, FS_CardinalityType DEF LedgerNonce, c

\* The wallet picks the first nonce that is neither confirmed nor pending, and with
\* an outdated answer of /balance never skips one.
THEOREM WalletNonceAlwaysFree == Spec => []WalletNonceFree
<1>1. ASSUME MempoolInv PROVE WalletNonceFree
  <2> SUFFICES ASSUME NEW a \in DOMAIN Balance
               PROVE  LET base  == LedgerNonce(chain, a)
                          taken == {Nonce[t] : t \in {p \in mempool.pending : Sender[p] = a}}
                          free  == Min((base..(base + Cardinality(taken))) \ taken)
                      IN /\ ResolveWalletNonce(a, base) = free
                         /\ \A stale \in 0..base : ResolveWalletNonce(a, stale) <= free
    BY Zenon DEF WalletNonceFree
  <2> DEFINE base == LedgerNonce(chain, a)
             S == Taken(a)
             c == Cardinality(S)
             W == (base..(base + c)) \ S
             N == ResolveWalletNonce(a, base)
  <2>1. base \in Nat
    BY <1>1, LedgerNonceType DEF MempoolInv
  <2>2. S \subseteq Nat /\ IsFiniteSet(S) /\ c \in Nat
    BY <1>1, TakenSorted, FS_CardinalityType, Zenon
  <2>3. FirstFree(S, base, N)
    BY <1>1, <2>1, ResolvesFirstFree
  <2>4. \A stale \in 0..base : FirstFree(S, stale, ResolveWalletNonce(a, stale))
    <3>1. \A stale \in 0..base : stale \in Nat
      BY <2>1
    <3> QED BY <1>1, <3>1, ResolvesFirstFree
  <2> HIDE DEF base, S, N
  <2>5. N \in Nat /\ base <= N /\ N \notin S /\ \A k \in Nat : base <= k /\ k < N => k \in S
    BY <2>3 DEF FirstFree
  <2>6. N <= base + c
    <3>1. base..(N - 1) \in SUBSET S
      BY <2>1, <2>5
    <3>2. Cardinality(base..(N - 1)) <= c
      BY <2>2, <3>1, FS_Subset, Zenon
    <3>3. Cardinality(base..(N - 1)) = N - base
      <4>1. base \in Int /\ N - 1 \in Int
        BY <2>1, <2>5
      <4>2. Cardinality(base..(N - 1)) = IF base > N - 1 THEN 0 ELSE (N - 1) - base + 1
        BY <4>1, FS_Interval
      <4> QED BY <2>1, <2>5, <4>2
    <3> HIDE DEF c
    <3> QED BY <2>1, <2>2, <2>5, <3>2, <3>3
  <2> HIDE DEF c
  <2>7. N \in W /\ \A y \in W : N <= y /\ y \in Nat
    BY <2>1, <2>2, <2>5, <2>6
  <2> HIDE DEF W
  <2>8. Min(W) = N
    <3>1. \E x \in W : \A y \in W : x <= y
      BY <2>7
    <3>2. Min(W) \in W /\ \A y \in W : Min(W) <= y
      BY <3>1 DEF Min
    <3>3. Min(W) \in Nat /\ N \in Nat /\ Min(W) <= N /\ N <= Min(W)
      BY <2>5, <2>7, <3>2, Zenon
    <3> QED BY <3>3
  <2>9. ASSUME NEW stale \in 0..base PROVE ResolveWalletNonce(a, stale) <= N
    <3> DEFINE n == ResolveWalletNonce(a, stale)
    <3>1. n \in Nat /\ stale \in Nat /\ \A k \in Nat : stale <= k /\ k < n => k \in S
      BY <2>1, <2>4 DEF FirstFree
    <3> HIDE DEF n
    <3>2. ~(N < n)
      BY <2>1, <2>5, <3>1
    <3> QED BY <2>5, <3>1, <3>2 DEF n
  <2>10. N = Min(W) /\ \A stale \in 0..base : ResolveWalletNonce(a, stale) <= Min(W)
    BY <2>8, <2>9
  <2> QED BY <2>10, Zenon DEF W, N, base, S, c, Taken
<1>2. MempoolInv => WalletNonceFree
  BY <1>1
<1> QED BY <1>2, MempoolInvAlways, PTL

(******************************** the miner ********************************)

\* What the miner works on applies to the chain that it was prepared for, and
\* that is the chain it is compared with in the end.
MinerInv ==
  /\ mining = TRUE => Applies(candidate.parent, candidate.txs)
  /\ exit # "apply"

\* Every step keeps it; the ones of other threads leave the candidate alone.
LEMMA MinerKeeps == MinerInv /\ [Next]_vars => MinerInv'
<1> SUFFICES ASSUME MinerInv, [Next]_vars PROVE MinerInv'
  OBVIOUS
<1>1. ASSUME UNCHANGED <<mining, candidate, exit>> PROVE MinerInv'
  BY <1>1 DEF MinerInv
<1>2. ASSUME NEW t \in Txs, Submit(t) PROVE MinerInv'
  BY <1>1, <1>2 DEF Submit
<1>3. ASSUME NEW txs, BlockArrives(txs) PROVE MinerInv'
  BY <1>1, <1>3 DEF BlockArrives
<1>4. ASSUME NEW k, NEW branch, NEW saved, Reorg(k, branch, saved) PROVE MinerInv'
  BY <1>1, <1>4 DEF Reorg
<1>5. CASE Prepare
  <2> DEFINE txs == SelectForBlock(PruneExpired(mempool, clock).pending, BlockLimit)
  <2>1. CASE Applies(chain, txs)
    <3>1. candidate' = [parent |-> chain, txs |-> txs] /\ exit' = exit
      BY <1>5, <2>1 DEF Prepare
    <3> QED BY <2>1, <3>1 DEF MinerInv
  <2>2. CASE ~Applies(chain, txs)
    <3>1. exit' = "candidate" /\ UNCHANGED <<mining, candidate>>
      BY <1>5, <2>2 DEF Prepare
    <3> QED BY <3>1 DEF MinerInv
  <2> QED BY <2>1, <2>2
<1>6. CASE FinishMining
  <2>1. mining = TRUE /\ mining' = FALSE /\ exit = "no"
    BY <1>6 DEF FinishMining
  <2>2. exit' # "apply"
    <3>1. Applies(candidate.parent, candidate.txs)
      BY <2>1 DEF MinerInv
    <3>2. ASSUME Mined PROVE exit' # "apply"
      BY <2>1, <3>1, <3>2 DEF Mined, ApplyMined
    <3> QED BY <1>6, <3>2 DEF FinishMining
  <2> QED BY <2>1, <2>2 DEF MinerInv
<1>7. CASE Tick
  BY <1>1, <1>7 DEF Tick
<1>8. CASE Stop
  BY <1>8 DEF Stop, MinerInv
<1>9. CASE Start
  BY <1>9 DEF Start, MinerInv
<1>10. CASE UNCHANGED vars
  BY <1>1, <1>10 DEF vars
<1> QED BY <1>2, <1>3, <1>4, <1>5, <1>6, <1>7, <1>8, <1>9, <1>10 DEF Next

\* A mined block that is not dropped is never refused for its transactions, whatever
\* the other threads did between the two locks of mine_once_unlocked: its header
\* and the writes are all that can still end the process there.
THEOREM MinedAlwaysApplies == Spec => []MinedBlockApplies
<1>1. Init => MinerInv
  BY DEF Init, MinerInv
<1>2. MinerInv => MinedBlockApplies
  BY DEF MinerInv, MinedBlockApplies
<1> QED BY <1>1, <1>2, MinerKeeps, PTL DEF Spec
=============================================================================
