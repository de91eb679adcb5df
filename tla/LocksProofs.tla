---------------------------- MODULE LocksProofs ----------------------------
(* NoCircularWait for any number of inbound connections and RPC handlers.     *)
EXTENDS Locks, SequenceTheorems, TLAPS

(****************************** well-formed scripts ************************)

Steps == {"lock", "unlock"} \X Mutexes

\* Between the positions i and j of s nothing is done to m.
Untouched(s, m, i, j) == \A k \in (i + 1)..(j - 1) : s[k][2] # m

\* What the rest of a well-formed script is: whatever is locked in it is unlocked
\* again, and what is unlocked was locked in it or is held at its beginning.
Proper(s) ==
  /\ s \in Seq(Steps)
  /\ \A i \in 1..Len(s) : s[i][1] = "lock" =>
       \E j \in (i + 1)..Len(s) : s[j] = U(s[i][2]) /\ Untouched(s, s[i][2], i, j)
  /\ \A j \in 1..Len(s) : s[j][1] = "unlock" =>
       \/ Untouched(s, s[j][2], 0, j)
       \/ \E i \in 1..(j - 1) : s[i] = L(s[j][2]) /\ Untouched(s, s[j][2], i, j)

\* A whole script holds nothing at its beginning.
Whole(s) ==
  /\ Proper(s)
  /\ \A j \in 1..Len(s) : s[j][1] = "unlock" =>
       \E i \in 1..(j - 1) : s[i] = L(s[j][2]) /\ Untouched(s, s[j][2], i, j)

\* The mutexes that a thread with the script s before it holds.
Holds(s) == {m \in Mutexes : \E j \in 1..Len(s) : s[j] = U(m) /\ Untouched(s, m, 0, j)}

\* No mutex is held while another is taken.
Flat(s) ==
  \A j \in 1..Len(s) : s[j][1] = "unlock" => j = 1 \/ s[j - 1] = L(s[j][2])

\* One mutex taken and released.
LEMMA UseWhole ==
  ASSUME NEW m \in Mutexes
  PROVE  Whole(Use(m)) /\ Flat(Use(m)) /\ \A k \in 1..Len(Use(m)) : Use(m)[k][2] = m
<1> DEFINE s == Use(m)
<1>1. s \in Seq(Steps) /\ Len(s) = 2 /\ s[1] = <<"lock", m>> /\ s[2] = <<"unlock", m>>
  BY DEF Use, L, U, Steps
<1> HIDE DEF s
<1>2. \A i \in 1..Len(s) : i = 1 \/ i = 2
  BY <1>1
<1>3. Untouched(s, m, 1, 2)
  BY DEF Untouched
<1>4. Proper(s)
  BY <1>1, <1>2, <1>3 DEF Proper, L, U
<1>5. Whole(s) /\ Flat(s)
  BY <1>1, <1>2, <1>3, <1>4 DEF Whole, Flat, L
<1> QED BY <1>1, <1>2, <1>5 DEF s

\* One script after another.
LEMMA ThenWhole ==
  ASSUME NEW s, NEW r, Whole(s), Whole(r)
  PROVE  Whole(s \o r) /\ (Flat(s) /\ Flat(r) => Flat(s \o r))
<1> DEFINE q == s \o r
           n == Len(s)
<1>1. s \in Seq(Steps) /\ r \in Seq(Steps) /\ n \in Nat /\ Len(r) \in Nat
  BY DEF Whole, Proper
<1>2. /\ q \in Seq(Steps) /\ Len(q) = n + Len(r)
      /\ \A i \in 1..n : q[i] = s[i]
      /\ \A i \in 1..Len(r) : q[n + i] = r[i]
  BY <1>1
<1>3. \A i \in 1..Len(q) : i \in 1..n \/ (i - n \in 1..Len(r) /\ q[i] = r[i - n])
  BY <1>1, <1>2
<1> HIDE DEF q, n
<1>4. ASSUME NEW m, NEW i \in 1..n, NEW j \in 1..n, Untouched(s, m, i, j)
      PROVE  Untouched(q, m, i, j)
  <2> SUFFICES ASSUME NEW k \in (i + 1)..(j - 1) PROVE q[k][2] # m
    BY DEF Untouched
  <2>1. k \in 1..n
    BY <1>1
  <2> QED BY <1>2, <1>4, <2>1 DEF Untouched
<1>5. ASSUME NEW m, NEW i \in 1..Len(r), NEW j \in 1..Len(r), Untouched(r, m, i, j)
      PROVE  Untouched(q, m, n + i, n + j)
  <2> SUFFICES ASSUME NEW k \in (n + i + 1)..(n + j - 1) PROVE q[k][2] # m
    BY <1>1 DEF Untouched
  <2>1. k - n \in (i + 1)..(j - 1) /\ k - n \in 1..Len(r) /\ n + (k - n) = k
    BY <1>1
  <2>2. q[k] = r[k - n]
    BY <1>2, <2>1
  <2> QED BY <1>5, <2>1, <2>2 DEF Untouched
<1>6. ASSUME NEW i \in 1..Len(q), q[i][1] = "lock"
      PROVE  \E j \in (i + 1)..Len(q) : q[j] = U(q[i][2]) /\ Untouched(q, q[i][2], i, j)
  <2>1. CASE i \in 1..n
    <3>1. PICK j \in (i + 1)..n : s[j] = U(s[i][2]) /\ Untouched(s, s[i][2], i, j)
      BY <1>2, <1>6, <2>1, Zenon DEF Whole, Proper, n
    <3>2. j \in 1..n /\ j \in (i + 1)..Len(q) /\ q[j] = U(q[i][2])
      BY <1>1, <1>2, <2>1, <3>1
    <3>3. Untouched(q, q[i][2], i, j)
      BY <1>2, <1>4, <2>1, <3>1, <3>2
    <3> QED BY <3>2, <3>3
  <2>2. CASE i - n \in 1..Len(r) /\ q[i] = r[i - n]
    <3>1. PICK j \in (i - n + 1)..Len(r) :
                 r[j] = U(r[i - n][2]) /\ Untouched(r, r[i - n][2], i - n, j)
      BY <1>6, <2>2 DEF Whole, Proper
    <3>2. j \in 1..Len(r) /\ n + j \in (i + 1)..Len(q) /\ n + (i - n) = i
      <4>1. n \in Nat /\ Len(r) \in Nat /\ Len(q) = n + Len(r) /\ i \in Int /\ i - n \in 1..Len(r)
        BY <1>1, <1>2, <2>2
      <4> HIDE DEF Steps
      <4> QED BY <3>1, <4>1
    <3>3. q[n + j] = U(q[i][2]) /\ Untouched(q, q[i][2], i, n + j)
      BY <1>2, <1>5, <2>2, <3>1, <3>2
    <3> QED BY <3>2, <3>3
  <2> QED BY <1>3, <2>1, <2>2
<1>7. ASSUME NEW j \in 1..Len(q), q[j][1] = "unlock"
      PROVE  \E i \in 1..(j - 1) : q[i] = L(q[j][2]) /\ Untouched(q, q[j][2], i, j)
  <2>1. CASE j \in 1..n
    <3>1. PICK i \in 1..(j - 1) : s[i] = L(s[j][2]) /\ Untouched(s, s[j][2], i, j)
      BY <1>2, <1>7, <2>1 DEF Whole, n
    <3>2. i \in 1..n /\ q[i] = L(q[j][2])
      BY <1>1, <1>2, <2>1, <3>1
    <3> QED BY <1>2, <1>4, <2>1, <3>1, <3>2
  <2>2. CASE j - n \in 1..Len(r) /\ q[j] = r[j - n]
    <3>1. PICK i \in 1..(j - n - 1) :
                 r[i] = L(r[j - n][2]) /\ Untouched(r, r[j - n][2], i, j - n)
      BY <1>7, <2>2 DEF Whole
    <3>2. i \in 1..Len(r) /\ n + i \in 1..(j - 1) /\ n + (j - n) = j
      BY <1>1, <1>2, <2>2, <3>1
    <3>3. q[n + i] = L(q[j][2]) /\ Untouched(q, q[j][2], n + i, j)
      BY <1>2, <1>5, <2>2, <3>1, <3>2
    <3> QED BY <3>2, <3>3
  <2> QED BY <1>3, <2>1, <2>2
<1>8. Whole(q)
  BY <1>2, <1>6, <1>7 DEF Whole, Proper
<1>9. ASSUME Flat(s), Flat(r) PROVE Flat(q)
  <2> SUFFICES ASSUME NEW j \in 1..Len(q), q[j][1] = "unlock"
               PROVE  j = 1 \/ q[j - 1] = L(q[j][2])
    BY DEF Flat
  <2>1. CASE j \in 1..n
    <3>1. j = 1 \/ s[j - 1] = L(s[j][2])
      BY <1>2, <1>9, <2>1 DEF Flat, n
    <3>2. j = 1 \/ j - 1 \in 1..n
      BY <1>1, <2>1
    <3> QED BY <1>2, <2>1, <3>1, <3>2
  <2>2. CASE j - n \in 1..Len(r) /\ q[j] = r[j - n]
    <3>1. \E i \in 1..(j - n - 1) : TRUE
      BY <2>2 DEF Whole
    <3>2. j - n # 1 /\ j - n - 1 \in 1..Len(r) /\ n + (j - n - 1) = j - 1
      BY <1>1, <2>2, <3>1
    <3>3. r[j - n - 1] = L(r[j - n][2])
      BY <1>9, <2>2, <3>2 DEF Flat
    <3> QED BY <1>2, <2>2, <3>2, <3>3
  <2> QED BY <1>3, <2>1, <2>2
<1> QED BY <1>8, <1>9 DEF q

\* A script run while m, which it never touches, is held.
LEMMA WrapWhole ==
  ASSUME NEW m \in Mutexes, NEW s, Whole(s), \A k \in 1..Len(s) : s[k][2] # m
  PROVE  Whole(<<L(m)>> \o s \o <<U(m)>>)
<1> DEFINE q == <<L(m)>> \o s \o <<U(m)>>
           n == Len(s)
<1>1. s \in Seq(Steps) /\ n \in Nat
  BY DEF Whole, Proper
<1>2. <<L(m)>> \in Seq(Steps) /\ <<U(m)>> \in Seq(Steps)
  BY DEF Steps, L, U
<1>3. /\ q \in Seq(Steps) /\ Len(q) = n + 2
      /\ q[1] = L(m) /\ q[n + 2] = U(m)
      /\ \A i \in 1..n : q[i + 1] = s[i]
  BY <1>1, <1>2
<1>4. \A i \in 1..Len(q) : \/ i = 1 \/ i = n + 2
                           \/ i - 1 \in 1..n /\ q[i] = s[i - 1]
  BY <1>1, <1>3
<1> HIDE DEF q, n
<1>5. ASSUME NEW l, NEW i \in 1..n, NEW j \in 1..n, Untouched(s, l, i, j)
      PROVE  Untouched(q, l, i + 1, j + 1)
  <2> SUFFICES ASSUME NEW k \in (i + 2)..j PROVE q[k][2] # l
    BY <1>1 DEF Untouched
  <2>1. k - 1 \in (i + 1)..(j - 1) /\ k - 1 \in 1..n /\ (k - 1) + 1 = k
    BY <1>1
  <2>2. q[k] = s[k - 1]
    BY <1>3, <2>1
  <2> QED BY <1>5, <2>1, <2>2 DEF Untouched
<1>6. Untouched(q, m, 1, n + 2)
  <2> SUFFICES ASSUME NEW k \in 2..(n + 1) PROVE q[k][2] # m
    BY <1>1 DEF Untouched
  <2>1. k - 1 \in 1..n /\ (k - 1) + 1 = k
    BY <1>1
  <2> QED BY <1>3, <2>1 DEF n
<1>7. ASSUME NEW i \in 1..Len(q), q[i][1] = "lock"
      PROVE  \E j \in (i + 1)..Len(q) : q[j] = U(q[i][2]) /\ Untouched(q, q[i][2], i, j)
  <2>1. CASE i = 1
    <3>1. n + 2 \in (i + 1)..Len(q) /\ q[i][2] = m
      BY <1>1, <1>3, <2>1 DEF L
    <3> QED BY <1>3, <1>6, <2>1, <3>1
  <2>2. CASE i = n + 2
    BY <1>3, <1>7, <2>2 DEF U
  <2>3. CASE i - 1 \in 1..n /\ q[i] = s[i - 1]
    <3>1. PICK j \in (i - 1 + 1)..n :
                 s[j] = U(s[i - 1][2]) /\ Untouched(s, s[i - 1][2], i - 1, j)
      BY <1>7, <2>3 DEF Whole, Proper, n
    <3>2. j \in 1..n /\ j + 1 \in (i + 1)..Len(q) /\ (i - 1) + 1 = i
      BY <1>1, <1>3, <2>3, <3>1
    <3>3. q[j + 1] = U(q[i][2]) /\ Untouched(q, q[i][2], i, j + 1)
      BY <1>3, <1>5, <2>3, <3>1, <3>2
    <3> QED BY <3>2, <3>3
  <2> QED BY <1>4, <2>1, <2>2, <2>3
<1>8. ASSUME NEW j \in 1..Len(q), q[j][1] = "unlock"
      PROVE  \E i \in 1..(j - 1) : q[i] = L(q[j][2]) /\ Untouched(q, q[j][2], i, j)
  <2>1. CASE j = 1
    BY <1>3, <1>8, <2>1 DEF L
  <2>2. CASE j = n + 2
    <3>1. 1 \in 1..(j - 1) /\ q[j][2] = m
      BY <1>1, <1>3, <2>2 DEF U
    <3> QED BY <1>3, <1>6, <2>2, <3>1
  <2>3. CASE j - 1 \in 1..n /\ q[j] = s[j - 1]
    <3>1. PICK i \in 1..(j - 1 - 1) :
                 s[i] = L(s[j - 1][2]) /\ Untouched(s, s[j - 1][2], i, j - 1)
      BY <1>8, <2>3 DEF Whole, n
    <3>2. i \in 1..n /\ i + 1 \in 1..(j - 1) /\ (j - 1) + 1 = j
      BY <1>1, <1>3, <2>3, <3>1
    <3>3. q[i + 1] = L(q[j][2]) /\ Untouched(q, q[j][2], i + 1, j)
      BY <1>3, <1>5, <2>3, <3>1, <3>2
    <3> QED BY <3>2, <3>3
  <2> QED BY <1>4, <2>1, <2>2, <2>3
<1> QED BY <1>3, <1>7, <1>8, Zenon DEF Whole, Proper, q

\* The rest of a script after its first step: what that step took is held, and
\* what it released is not.
LEMMA RestProper ==
  ASSUME NEW s, Proper(s), s # <<>>
  PROVE  /\ Proper(Tail(s)) /\ (Flat(s) => Flat(Tail(s)))
         /\ s[1] \in Steps
         /\ s[1][1] = "lock" =>
              s[1][2] \notin Holds(s) /\ Holds(Tail(s)) = Holds(s) \cup {s[1][2]}
         /\ s[1][1] = "unlock" =>
              s[1][2] \in Holds(s) /\ Holds(Tail(s)) = Holds(s) \ {s[1][2]}
<1> DEFINE r == Tail(s)
           n == Len(r)
           a == s[1][2]
<1>1. s \in Seq(Steps) /\ n \in Nat /\ r \in Seq(Steps) /\ Len(s) = n + 1 /\ s[1] \in Steps
  BY DEF Proper
<1>2. \A i \in 1..n : r[i] = s[i + 1]
  BY <1>1
<1> HIDE DEF r, n
<1>3. ASSUME NEW m, NEW i \in 0..n, NEW j \in 1..n
      PROVE  Untouched(r, m, i, j) <=> Untouched(s, m, i + 1, j + 1)
  <2>1. ASSUME Untouched(r, m, i, j), NEW k \in (i + 2)..j PROVE s[k][2] # m
    <3>1. k - 1 \in (i + 1)..(j - 1) /\ k - 1 \in 1..n /\ (k - 1) + 1 = k
      BY <1>1
    <3> QED BY <1>2, <2>1, <3>1 DEF Untouched
  <2>2. ASSUME Untouched(s, m, i + 1, j + 1), NEW k \in (i + 1)..(j - 1) PROVE r[k][2] # m
    <3>1. k + 1 \in (i + 2)..j /\ k \in 1..n
      BY <1>1
    <3>2. k + 1 \in (i + 1 + 1)..(j + 1 - 1)
      BY <1>1
    <3> QED BY <1>2, <2>2, <3>1, <3>2 DEF Untouched
  <2>3. (i + 1 + 1)..(j + 1 - 1) = (i + 2)..j
    BY <1>1
  <2> QED BY <2>1, <2>2, <2>3 DEF Untouched
<1>4. \A m : \A j \in 1..n : Untouched(s, m, 1, j + 1) <=> Untouched(r, m, 0, j)
  BY <1>1, <1>3
<1>5. \A m : \A j \in Nat : Untouched(s, m, 0, j) => Untouched(s, m, 1, j)
  BY DEF Untouched
<1>6. \A m : \A j \in Nat : m # a /\ Untouched(s, m, 1, j) => Untouched(s, m, 0, j)
  BY DEF Untouched
<1>7. ASSUME NEW j \in 2..Len(s) PROVE j - 1 \in 1..n /\ (j - 1) + 1 = j /\ r[j - 1] = s[j]
  BY <1>1, <1>2
<1>8. Proper(r)
  <2>1. ASSUME NEW i \in 1..n, r[i][1] = "lock"
        PROVE  \E j \in (i + 1)..n : r[j] = U(r[i][2]) /\ Untouched(r, r[i][2], i, j)
    <3>1. i + 1 \in 1..Len(s) /\ s[i + 1] = r[i]
      BY <1>1, <1>2
    <3>2. PICK j \in (i + 1 + 1)..Len(s) :
                 s[j] = U(s[i + 1][2]) /\ Untouched(s, s[i + 1][2], i + 1, j)
      BY <2>1, <3>1 DEF Proper
    <3>3. j \in 2..Len(s) /\ j - 1 \in (i + 1)..n
      BY <1>1, <3>2
    <3>4. r[j - 1] = U(r[i][2]) /\ Untouched(r, r[i][2], i, j - 1)
      BY <1>1, <1>3, <1>7, <3>1, <3>2, <3>3
    <3> QED BY <3>3, <3>4
  <2>2. ASSUME NEW j \in 1..n, r[j][1] = "unlock"
        PROVE  \/ Untouched(r, r[j][2], 0, j)
               \/ \E i \in 1..(j - 1) : r[i] = L(r[j][2]) /\ Untouched(r, r[j][2], i, j)
    <3>1. j + 1 \in 1..Len(s) /\ s[j + 1] = r[j] /\ j + 1 \in Nat /\ (j + 1) - 1 = j
      BY <1>1, <1>2
    <3>2. CASE Untouched(s, s[j + 1][2], 0, j + 1)
      BY <1>4, <1>5, <3>1, <3>2
    <3>3. CASE \E i \in 1..j : s[i] = L(s[j + 1][2]) /\ Untouched(s, s[j + 1][2], i, j + 1)
      <4>1. PICK i \in 1..j : s[i] = L(s[j + 1][2]) /\ Untouched(s, s[j + 1][2], i, j + 1)
        BY <3>3
      <4>2. CASE i = 1
        BY <1>4, <3>1, <4>1, <4>2
      <4>3. CASE i # 1
        <5>1. i \in 2..Len(s) /\ i - 1 \in 1..(j - 1) /\ i - 1 \in 0..n
          BY <1>1, <4>3
        <5>2. r[i - 1] = L(r[j][2]) /\ Untouched(r, r[j][2], i - 1, j)
          BY <1>3, <1>7, <3>1, <4>1, <5>1
        <5> QED BY <5>1, <5>2
      <4> QED BY <4>2, <4>3
    <3> QED BY <2>2, <3>1, <3>2, <3>3 DEF Proper
  <2> QED BY <1>1, <2>1, <2>2 DEF Proper, n
<1>9. ASSUME Flat(s) PROVE Flat(r)
  <2> SUFFICES ASSUME NEW j \in 1..n, r[j][1] = "unlock"
               PROVE  j = 1 \/ r[j - 1] = L(r[j][2])
    BY DEF Flat, n
  <2>1. j + 1 \in 1..Len(s) /\ s[j + 1] = r[j] /\ j + 1 # 1 /\ (j + 1) - 1 = j
    BY <1>1, <1>2
  <2>2. s[j] = L(r[j][2])
    BY <1>9, <2>1 DEF Flat
  <2>3. j = 1 \/ j \in 2..Len(s)
    BY <1>1
  <2> QED BY <1>7, <2>2, <2>3
<1>10. \A m : m \in Holds(r) <=>
                m \in Mutexes /\ \E j \in 2..Len(s) : s[j] = U(m) /\ Untouched(s, m, 1, j)
  <2> SUFFICES ASSUME NEW m \in Mutexes
               PROVE  (\E j \in 1..n : r[j] = U(m) /\ Untouched(r, m, 0, j)) <=>
                      (\E j \in 2..Len(s) : s[j] = U(m) /\ Untouched(s, m, 1, j))
    BY DEF Holds, n
  <2>1. ASSUME NEW j \in 1..n, r[j] = U(m), Untouched(r, m, 0, j)
        PROVE  j + 1 \in 2..Len(s) /\ s[j + 1] = U(m) /\ Untouched(s, m, 1, j + 1)
    BY <1>1, <1>2, <1>4, <2>1
  <2>2. ASSUME NEW j \in 2..Len(s), s[j] = U(m), Untouched(s, m, 1, j)
        PROVE  j - 1 \in 1..n /\ r[j - 1] = U(m) /\ Untouched(r, m, 0, j - 1)
    BY <1>4, <1>7, <2>2
  <2> QED BY <2>1, <2>2
<1>11. \A m : \A j \in 1..Len(s) : s[j] = U(m) => s[j][1] = "unlock" /\ s[j][2] = m
  BY DEF U
<1>12. \A j \in 2..Len(s) : ~Untouched(s, a, 0, j)
  BY <1>1 DEF Untouched
<1>13. 1 \in 1..Len(s) /\ a \in Mutexes
  BY <1>1 DEF Steps
<1>14. ASSUME s[1][1] = "lock"
       PROVE  a \notin Holds(s) /\ Holds(r) = Holds(s) \cup {a}
  <2>1. ASSUME NEW m, NEW j \in 1..Len(s), s[j] = U(m) PROVE j \in 2..Len(s)
    <3>1. s[j][1] = "unlock"
      BY <1>11, <2>1
    <3> QED BY <1>1, <1>14, <3>1
  <2>2. a \notin Holds(s)
    BY <1>12, <2>1 DEF Holds
  <2>3. a \in Holds(r)
    <3>1. PICK j \in (1 + 1)..Len(s) : s[j] = U(a) /\ Untouched(s, a, 1, j)
      BY <1>13, <1>14 DEF Proper
    <3> QED BY <1>10, <1>13, <3>1
  <2>4. ASSUME NEW m \in Holds(s) PROVE m \in Holds(r)
    <3>1. PICK j \in 1..Len(s) : s[j] = U(m) /\ Untouched(s, m, 0, j)
      BY DEF Holds
    <3>2. m \in Mutexes /\ j \in Nat
      BY <1>1 DEF Holds
    <3> QED BY <1>5, <1>10, <2>1, <3>1, <3>2
  <2>5. ASSUME NEW m \in Holds(r), m # a PROVE m \in Holds(s)
    <3>1. PICK j \in 2..Len(s) : s[j] = U(m) /\ Untouched(s, m, 1, j)
      BY <1>10
    <3>2. j \in 1..Len(s) /\ j \in Nat /\ m \in Mutexes
      BY <1>1, <1>10
    <3> QED BY <1>6, <2>5, <3>1, <3>2 DEF Holds
  <2> QED BY <2>2, <2>3, <2>4, <2>5
<1>15. ASSUME s[1][1] = "unlock"
       PROVE  a \in Holds(s) /\ Holds(r) = Holds(s) \ {a}
  <2>1. s[1] = U(a)
    BY <1>1, <1>15 DEF Steps, U
  <2>2. a \in Holds(s)
    <3>1. Untouched(s, a, 0, 1)
      BY DEF Untouched
    <3> QED BY <1>13, <2>1, <3>1 DEF Holds
  <2>3. a \notin Holds(r)
    <3> SUFFICES ASSUME a \in Holds(r) PROVE FALSE
      OBVIOUS
    <3>1. PICK j \in 2..Len(s) : s[j] = U(a) /\ Untouched(s, a, 1, j)
      BY <1>10
    <3>2. j \in 1..Len(s) /\ s[j][1] = "unlock" /\ s[j][2] = a
      BY <1>1, <1>11, <3>1
    <3>3. PICK i \in 1..(j - 1) : s[i] = L(a)
      BY <1>12, <3>1, <3>2 DEF Proper
    <3>4. i # 1
      BY <1>15, <3>3 DEF L
    <3>5. i \in (1 + 1)..(j - 1) /\ s[i][2] = a
      BY <1>1, <3>3, <3>4 DEF L
    <3> QED BY <3>1, <3>5 DEF Untouched
  <2>4. ASSUME NEW m \in Holds(s), m # a PROVE m \in Holds(r)
    <3>1. PICK j \in 1..Len(s) : s[j] = U(m) /\ Untouched(s, m, 0, j)
      BY DEF Holds
    <3>2. m \in Mutexes /\ j \in Nat /\ s[j][2] = m
      BY <1>1, <1>11, <3>1 DEF Holds
    <3>3. j \in 2..Len(s)
      BY <1>1, <2>4, <3>2
    <3> QED BY <1>5, <1>10, <3>1, <3>2, <3>3
  <2>5. ASSUME NEW m \in Holds(r), m # a PROVE m \in Holds(s)
    <3>1. PICK j \in 2..Len(s) : s[j] = U(m) /\ Untouched(s, m, 1, j)
      BY <1>10
    <3>2. j \in 1..Len(s) /\ j \in Nat /\ m \in Mutexes
      BY <1>1, <1>10
    <3> QED BY <1>6, <2>5, <3>1, <3>2 DEF Holds
  <2> QED BY <2>2, <2>3, <2>4, <2>5
<1> QED BY <1>1, <1>8, <1>9, <1>14, <1>15 DEF r

(******************************* the scripts *******************************)

\* A script of a thread other than main: whole and flat, on the mutexes M.
Plain(s, M) == Whole(s) /\ Flat(s) /\ \A k \in 1..Len(s) : s[k][2] \in M

\* One mutex taken and released is plain on any set with it.
LEMMA PlainUse ==
  ASSUME NEW M, NEW m \in Mutexes, m \in M PROVE Plain(Use(m), M)
BY UseWhole DEF Plain

\* Plain scripts follow each other.
LEMMA PlainThen ==
  ASSUME NEW M, NEW s, NEW r, Plain(s, M), Plain(r, M) PROVE Plain(s \o r, M)
<1>1. Whole(s \o r) /\ Flat(s \o r)
  BY ThenWhole DEF Plain
<1>2. s \in Seq(Steps) /\ r \in Seq(Steps)
  BY DEF Plain, Whole, Proper
<1>3. ASSUME NEW k \in 1..Len(s \o r) PROVE (s \o r)[k][2] \in M
  <2>1. CASE k \in 1..Len(s)
    BY <1>2, <2>1 DEF Plain
  <2>2. CASE k \notin 1..Len(s)
    <3>1. k - Len(s) \in 1..Len(r) /\ (s \o r)[k] = r[k - Len(s)]
      BY <1>2, <2>2
    <3> QED BY <3>1 DEF Plain
  <2> QED BY <2>1, <2>2
<1> QED BY <1>1, <1>3 DEF Plain

\* A poll looks at the node only, so it may hold the outbound connections.
LEMMA PollScript == Whole(PollPeer)
<1>1. Plain(Use(Node), {Node})
  BY PlainUse DEF Mutexes
<1>2. Plain(RequestMissingParentBlocks, {Node})
  BY <1>1, PlainThen DEF RequestMissingParentBlocks
<1>3. Plain(HandshakePeer, {Node}) /\ Plain(RequestBlock, {Node})
  BY <1>1 DEF HandshakePeer, RequestBlock
<1>4. Plain(HandshakePeer \o Use(Node), {Node})
  BY <1>1, <1>3, PlainThen
<1>5. Plain(HandshakePeer \o Use(Node) \o RequestBlock, {Node})
  BY <1>3, <1>4, PlainThen
<1>6. Plain(PollPeerConnection, {Node})
  BY <1>2, <1>5, PlainThen DEF PollPeerConnection
<1>7. \A k \in 1..Len(PollPeerConnection) : PollPeerConnection[k][2] # Out
  BY <1>6 DEF Plain, Node, Out
<1>8. Out \in Mutexes
  BY DEF Mutexes
<1> QED BY <1>6, <1>7, <1>8, WrapWhole DEF PollPeer, Plain

\* Any of the four mutexes, taken and released.
LEMMA UsesPlain == \A m \in Mutexes : Plain(Use(m), Mutexes)
BY PlainUse

\* broadcast_to_peers takes its mutexes one at a time.
LEMMA BroadcastPlain == Plain(Broadcast, Mutexes)
<1>1. Plain(Use(Table), Mutexes) /\ Plain(Use(Out), Mutexes) /\ Plain(Use(In), Mutexes)
  BY UsesPlain DEF Mutexes
<1>2. Plain(Use(Table) \o Use(Out), Mutexes)
  BY <1>1, PlainThen
<1>3. Plain(Use(Table) \o Use(Out) \o Use(Out), Mutexes)
  BY <1>1, <1>2, PlainThen
<1>4. Plain(Use(Table) \o Use(Out) \o Use(Out) \o Use(In), Mutexes)
  BY <1>1, <1>3, PlainThen
<1>5. Plain(Use(Table) \o Use(Out) \o Use(Out) \o Use(In) \o Use(In), Mutexes)
  BY <1>1, <1>4, PlainThen
<1> QED BY <1>1, <1>5, PlainThen DEF Broadcast

\* The inbound threads and the RPC handlers, but for the status request, take one
\* mutex at a time.
LEMMA OtherScripts ==
  /\ \A s \in InboundScripts : Whole(s) /\ Flat(s)
  /\ \A route : route # "status" => Whole(Script(route)) /\ Flat(Script(route))
<1>1. Plain(Use(Table), Mutexes) /\ Plain(Use(Node), Mutexes) /\ Plain(Use(In), Mutexes)
  BY UsesPlain DEF Mutexes
<1>2. Plain(Use(Table) \o Use(Table), Mutexes)
  BY <1>1, PlainThen
<1>3. Plain(RpcSubmitTx, Mutexes)
  BY <1>1, BroadcastPlain, PlainThen DEF RpcSubmitTx
<1>4. \A route : route # "status" => Script(route) \in {RpcSubmitTx, RpcPeers, RpcQuery}
  BY DEF Script
<1>5. Plain(RpcPeers, Mutexes) /\ Plain(RpcQuery, Mutexes)
  BY <1>1 DEF RpcPeers, RpcQuery
<1>6. \A s \in InboundScripts : Plain(s, Mutexes)
  BY <1>1, <1>2, Zenon DEF InboundScripts
<1>7. \A route : route # "status" => Plain(Script(route), Mutexes)
  BY <1>3, <1>4, <1>5
<1> QED BY <1>6, <1>7 DEF Plain

\* The two ways of a sync round: the poll holds the connections, the rest nothing.
LEMMA SyncScripts == Whole(SyncOk) /\ Whole(SyncFail)
<1>1. Whole(Use(Table)) /\ Whole(Use(Out))
  BY UseWhole DEF Mutexes
<1>2. Whole(Use(Table) \o PollPeer)
  BY <1>1, PollScript, ThenWhole
<1>3. Whole(Use(Table) \o PollPeer \o Use(Table))
  BY <1>1, <1>2, ThenWhole
<1>4. Whole(Use(Table) \o PollPeer \o Use(Table) \o Use(Out))
  BY <1>1, <1>3, ThenWhole
<1>5. Whole(SyncFail)
  BY <1>1, <1>4, ThenWhole DEF SyncFail
<1>6. Whole(SyncOk)
  BY <1>1, <1>5, ThenWhole DEF SyncOk, SyncFail
<1> QED BY <1>5, <1>6

\* Two scripts that hold the node and look at the others in turn.
LEMMA HeldScripts == Whole(StatusLine) /\ Whole(Shutdown)
<1> DEFINE M == {Table, Out, In}
<1>1. Plain(Use(Table), M) /\ Plain(Use(Out), M) /\ Plain(Use(In), M)
  BY PlainUse DEF Mutexes
<1>2. Plain(Use(Table) \o Use(Out), M) /\ Plain(Use(Table) \o Use(Table), M)
  BY <1>1, PlainThen
<1>3. Plain(Use(Table) \o Use(Out) \o Use(In), M)
  BY <1>1, <1>2, PlainThen
<1>4. ASSUME NEW s, Plain(s, M) PROVE Whole(<<L(Node)>> \o s \o <<U(Node)>>)
  <2>1. Node \notin M /\ Node \in Mutexes
    BY DEF Node, Table, Out, In, Mutexes
  <2> QED BY <1>4, <2>1, WrapWhole DEF Plain
<1>5. /\ <<L(Node)>> \in Seq(Steps)
      /\ \A m \in Mutexes : Use(m) \in Seq(Steps)
  BY DEF Steps, L, U, Use, Mutexes
<1>6. Table \in Mutexes /\ Out \in Mutexes /\ In \in Mutexes
  BY DEF Mutexes
<1>7. Use(Table) \o Use(Out) \in Seq(Steps)
  BY <1>2 DEF Plain, Whole, Proper
<1>8. <<L(Node)>> \o Use(Table) \o Use(Out) \o Use(In)
        = <<L(Node)>> \o (Use(Table) \o Use(Out) \o Use(In))
  <2>1. <<L(Node)>> \o Use(Table) \o Use(Out) = <<L(Node)>> \o (Use(Table) \o Use(Out))
    BY <1>5, <1>6, ConcatAssociative
  <2>2. (<<L(Node)>> \o (Use(Table) \o Use(Out))) \o Use(In)
          = <<L(Node)>> \o (Use(Table) \o Use(Out) \o Use(In))
    BY <1>5, <1>6, <1>7, ConcatAssociative
  <2> QED BY <2>1, <2>2
<1>9. <<L(Node)>> \o Use(Table) \o Use(Table) = <<L(Node)>> \o (Use(Table) \o Use(Table))
  BY <1>5, <1>6, ConcatAssociative
<1> QED BY <1>2, <1>3, <1>4, <1>8, <1>9, Zenon DEF StatusLine, Shutdown

\* Every function of the main thread releases what it takes.
LEMMA MainWhole == \A s \in MainScripts : Whole(s)
<1>1. /\ Plain(Use(Table), Mutexes) /\ Plain(Use(Node), Mutexes)
      /\ Plain(Use(In), Mutexes) /\ Plain(AcceptP2p, Mutexes)
  BY UsesPlain DEF Mutexes, AcceptP2p
<1>2. Plain(Use(Node) \o Use(Table), Mutexes) /\ Plain(Use(Node) \o Use(Node), Mutexes)
  BY <1>1, PlainThen
<1>3. Plain(NeedsHandshake, Mutexes) /\ Plain(PeerAhead, Mutexes) /\ Plain(MineOnce, Mutexes)
  BY <1>1, <1>2 DEF NeedsHandshake, PeerAhead, MineOnce
<1>4. Plain(Use(Node) \o Use(Table) \o Use(Table), Mutexes)
  BY <1>1, <1>2, PlainThen
<1>5. Plain(RefreshGatewayPeers, Mutexes)
  BY <1>1, <1>4, PlainThen DEF RefreshGatewayPeers
<1>6. /\ Plain(Use(Node) \o Use(Table) \o NeedsHandshake, Mutexes)
      /\ Plain(Use(Node) \o NeedsHandshake, Mutexes)
  BY <1>1, <1>2, <1>3, PlainThen
<1>7. Plain(LogActivity, Mutexes) /\ Plain(MiningWaitReason, Mutexes)
  BY <1>3, <1>6, PlainThen DEF LogActivity, MiningWaitReason
<1>8. Plain(MineOnce \o Broadcast, Mutexes)
  BY <1>3, BroadcastPlain, PlainThen
<1> QED BY <1>1, <1>5, <1>7, <1>8, SyncScripts, HeldScripts, Zenon DEF MainScripts, Plain

(***************************** the invariant *******************************)

\* What a thread owns is what the rest of its script releases first; only the
\* main thread takes a mutex while it holds another.
LocksInv ==
  /\ script \in [Threads -> Seq(Steps)]
  /\ owner \in [Mutexes -> Threads \cup {Nobody}]
  /\ \A t \in Threads : Proper(script[t]) /\ (t # "main" => Flat(script[t]))
  /\ \A t \in Threads, m \in Mutexes : owner[m] = t <=> m \in Holds(script[t])

\* A whole script starts with nothing held, and so does the empty one.
LEMMA StartsFree ==
  /\ \A s : Whole(s) => Proper(s) /\ Holds(s) = {}
  /\ Proper(<<>>) /\ Flat(<<>>) /\ Holds(<<>>) = {}
<1>1. ASSUME NEW s, Whole(s) PROVE Holds(s) = {}
  <2> SUFFICES ASSUME NEW m \in Holds(s) PROVE FALSE
    OBVIOUS
  <2>1. PICK j \in 1..Len(s) : s[j] = U(m) /\ Untouched(s, m, 0, j)
    BY DEF Holds
  <2>2. s[j][1] = "unlock" /\ s[j][2] = m
    BY <2>1 DEF U
  <2>3. PICK i \in 1..(j - 1) : s[i] = L(m)
    BY <1>1, <2>2 DEF Whole
  <2>4. i \in (0 + 1)..(j - 1) /\ s[i][2] = m
    BY <2>3 DEF L
  <2> QED BY <2>1, <2>4 DEF Untouched
<1>2. Proper(<<>>) /\ Flat(<<>>) /\ Holds(<<>>) = {}
  <2>1. <<>> \in Seq(Steps) /\ \A i : i \notin 1..Len(<<>>)
    OBVIOUS
  <2> QED BY <2>1 DEF Proper, Flat, Holds
<1> QED BY <1>1, <1>2 DEF Whole

\* The scripts that a thread may begin.
LEMMA BegunScripts ==
  ASSUME "status" \notin Routes, NEW t \in Threads, NEW s \in Scripts(t)
  PROVE  Whole(s) /\ (t # "main" => Flat(s))
<1>1. CASE t = "main"
  BY <1>1, MainWhole DEF Scripts
<1>2. CASE t # "main" /\ t \in Inbound
  BY <1>2, OtherScripts DEF Scripts
<1>3. CASE t # "main" /\ t \notin Inbound
  <2>1. PICK route \in Routes : s = Script(route)
    BY <1>3 DEF Scripts
  <2> QED BY <1>3, <2>1, OtherScripts
<1> QED BY <1>1, <1>2, <1>3

\* LocksInv holds at the start and every step keeps it.
LEMMA LocksInvInit == Init => LocksInv
<1> SUFFICES ASSUME Init PROVE LocksInv
  OBVIOUS
<1>1. \A t \in Threads : t # Nobody
  BY ThreadNames DEF Threads, Nobody
<1> QED BY <1>1, StartsFree DEF Init, LocksInv

\* Every step of every thread keeps LocksInv.
LEMMA LocksInvNext == "status" \notin Routes /\ LocksInv /\ [Next]_vars => LocksInv'
<1> SUFFICES ASSUME "status" \notin Routes, LocksInv, [Next]_vars PROVE LocksInv'
  OBVIOUS
<1>1. \A t \in Threads : t # Nobody
  BY ThreadNames DEF Threads, Nobody
<1>2. ASSUME NEW t \in Threads, Begin(t) PROVE LocksInv'
  <2>1. PICK s \in Scripts(t) : script' = [script EXCEPT ![t] = s]
    BY <1>2, Zenon DEF Begin
  <2>2. Whole(s) /\ (t # "main" => Flat(s)) /\ Proper(s) /\ Holds(s) = {} /\ s \in Seq(Steps)
    BY BegunScripts, StartsFree DEF Proper
  <2>3. Holds(script[t]) = {} /\ owner' = owner
    BY <1>2, StartsFree DEF Begin
  <2> QED BY <2>1, <2>2, <2>3 DEF LocksInv
<1>3. ASSUME NEW t \in Threads, script[t] # <<>>,
             script' = [script EXCEPT ![t] = Tail(@)]
      PROVE  /\ script' \in [Threads -> Seq(Steps)]
             /\ \A u \in Threads : Proper(script'[u]) /\ (u # "main" => Flat(script'[u]))
             /\ \A u \in Threads \ {t} : script'[u] = script[u]
             /\ script'[t] = Tail(script[t])
  <2>1. Proper(script[t])
    BY DEF LocksInv
  <2>2. Proper(Tail(script[t])) /\ (Flat(script[t]) => Flat(Tail(script[t])))
    BY <1>3, <2>1, RestProper
  <2>3. Tail(script[t]) \in Seq(Steps)
    BY <2>2 DEF Proper
  <2> QED BY <1>3, <2>2, <2>3 DEF LocksInv
<1>4. ASSUME NEW t \in Threads, Lock(t) PROVE LocksInv'
  <2> DEFINE m == Head(script[t])[2]
  <2>1. Head(script[t]) = script[t][1] /\ Proper(script[t])
    BY <1>4 DEF LocksInv, Lock
  <2>2. m \in Mutexes /\ Holds(Tail(script[t])) = Holds(script[t]) \cup {m}
    BY <1>4, <2>1, RestProper DEF Lock, Steps
  <2>3. owner[m] = Nobody /\ owner' = [owner EXCEPT ![m] = t]
    BY <1>4 DEF Lock
  <2> HIDE DEF m
  <2>4. \A u \in Threads : m \notin Holds(script[u])
    BY <1>1, <2>2, <2>3 DEF LocksInv
  <2>5. owner' \in [Mutexes -> Threads \cup {Nobody}]
    BY <2>2, <2>3 DEF LocksInv
  <2>6. ASSUME NEW u \in Threads, NEW l \in Mutexes
        PROVE  owner'[l] = u <=> l \in Holds(script'[u])
    <3>1. CASE u = t
      BY <1>3, <1>4, <2>2, <2>3, <3>1 DEF LocksInv, Lock
    <3>2. CASE u # t
      <4>1. script'[u] = script[u]
        BY <1>3, <1>4, <3>2 DEF Lock
      <4> QED BY <2>2, <2>3, <2>4, <3>2, <4>1 DEF LocksInv
    <3> QED BY <3>1, <3>2
  <2> QED BY <1>3, <1>4, <2>5, <2>6, Zenon DEF LocksInv, Lock
<1>5. ASSUME NEW t \in Threads, Unlock(t) PROVE LocksInv'
  <2> DEFINE m == Head(script[t])[2]
  <2>1. Head(script[t]) = script[t][1] /\ Proper(script[t])
    BY <1>5 DEF LocksInv, Unlock
  <2>2. /\ m \in Mutexes /\ m \in Holds(script[t])
        /\ Holds(Tail(script[t])) = Holds(script[t]) \ {m}
    BY <1>5, <2>1, RestProper DEF Unlock, Steps
  <2>3. owner' = [owner EXCEPT ![m] = Nobody]
    BY <1>5 DEF Unlock
  <2> HIDE DEF m
  <2>4. owner[m] = t
    BY <2>2 DEF LocksInv
  <2>5. owner' \in [Mutexes -> Threads \cup {Nobody}]
    BY <2>2, <2>3 DEF LocksInv
  <2>6. ASSUME NEW u \in Threads, NEW l \in Mutexes
        PROVE  owner'[l] = u <=> l \in Holds(script'[u])
    <3>1. CASE u = t
      BY <1>1, <1>3, <1>5, <2>2, <2>3, <3>1 DEF LocksInv, Unlock
    <3>2. CASE u # t
      <4>1. script'[u] = script[u]
        BY <1>3, <1>5, <3>2 DEF Unlock
      <4> QED BY <1>1, <2>2, <2>3, <2>4, <3>2, <4>1 DEF LocksInv
    <3> QED BY <3>1, <3>2
  <2> QED BY <1>3, <1>5, <2>5, <2>6, Zenon DEF LocksInv, Unlock
<1>6. CASE UNCHANGED vars
  BY <1>6 DEF vars, LocksInv
<1> QED BY <1>2, <1>4, <1>5, <1>6 DEF Next

\* A thread other than main that waits holds nothing, and no thread waits for
\* itself: so whoever is waited for by a waiting thread, and waits, is main, and
\* main cannot be waiting for main.
LEMMA NoCircle == LocksInv => NoCircularWait
<1> SUFFICES ASSUME LocksInv, NEW S \in SUBSET Threads, S # {},
                    \A t \in S : \E u \in S : Waits(t, u)
             PROVE  FALSE
  BY DEF NoCircularWait
<1>1. ASSUME NEW t \in S, NEW u \in S, Waits(t, u)
      PROVE  \E m \in Mutexes : /\ script[t][1] = L(m) /\ owner[m] = u
                                /\ m \in Holds(script[u])
                                /\ m \notin Holds(script[t])
  <2>1. Proper(script[t]) /\ script[t] # <<>> /\ Head(script[t]) = script[t][1]
    BY <1>1 DEF LocksInv, Waits
  <2>2. script[t][1][1] = "lock" /\ script[t][1] \in Steps
    BY <1>1, <2>1, RestProper DEF Waits
  <2>3. script[t][1][2] \in Mutexes /\ script[t][1] = L(script[t][1][2])
    BY <2>2 DEF Steps, L
  <2>4. script[t][1][2] \notin Holds(script[t])
    BY <2>1, <2>2, RestProper
  <2>5. owner[script[t][1][2]] = u
    BY <1>1, <2>1 DEF Waits
  <2>6. script[t][1][2] \in Holds(script[u])
    BY <2>3, <2>5, Zenon DEF LocksInv
  <2> QED BY <2>3, <2>4, <2>5, <2>6
<1>2. ASSUME NEW t \in S, t # "main" PROVE Holds(script[t]) = {}
  <2>1. PICK m : script[t][1] = L(m)
    BY <1>1
  <2>2. script[t] \in Seq(Steps) /\ Flat(script[t])
    BY <1>2 DEF LocksInv
  <2> SUFFICES ASSUME NEW l \in Holds(script[t]) PROVE FALSE
    OBVIOUS
  <2>3. PICK j \in 1..Len(script[t]) : script[t][j] = U(l) /\ Untouched(script[t], l, 0, j)
    BY DEF Holds
  <2>4. script[t][j][1] = "unlock" /\ script[t][j][2] = l /\ j # 1
    BY <2>1, <2>3 DEF U, L
  <2>5. script[t][j - 1] = L(l)
    BY <2>2, <2>4 DEF Flat
  <2>6. j - 1 \in (0 + 1)..(j - 1) /\ script[t][j - 1][2] = l
    BY <2>2, <2>4, <2>5 DEF L
  <2> QED BY <2>3, <2>6 DEF Untouched
<1>3. \A t, u \in S : Waits(t, u) => u = "main"
  BY <1>1, <1>2, Zenon
<1>4. PICK t \in S : TRUE
  OBVIOUS
<1>5. "main" \in S
  BY <1>3, <1>4
<1>6. Waits("main", "main")
  BY <1>3, <1>5
<1> QED BY <1>1, <1>5, <1>6

\* Whatever the number of inbound connections and RPC handlers, and whatever
\* requests other than the status they serve, no threads of the node wait for each
\* other in a circle: the main thread is the only one that takes a mutex (the node,
\* or a mutex under the node) while it holds one.
THEOREM NeverCircular == "status" \notin Routes /\ Spec => []NoCircularWait
<1> SUFFICES ASSUME "status" \notin Routes PROVE Spec => []NoCircularWait
  OBVIOUS
<1>1. LocksInv /\ [Next]_vars => LocksInv'
  BY LocksInvNext
<1> QED BY <1>1, LocksInvInit, NoCircle, PTL DEF Spec
=============================================================================
