--------------------------- MODULE TtlCacheProofs ---------------------------
(***************************************************************************)
(* The cache's bookkeeping, for every set of keys, capacity, budget and    *)
(* TTL: map and list agree, the weight is exact and within its budget, the *)
(* eviction loop spares the entry it works for, and every key is a slot.   *)
(*                                                                         *)
(* A sum over the list would need induction.  Runs(p, s, st, total) says   *)
(* it without: p is a running total of the weights of s.  Each operation   *)
(* is then matched by an explicit new running total (RunsDrop, RunsAppend).*)
(***************************************************************************)
EXTENDS TtlCache, TLAPS

Runs(p, s, st, total) ==
  /\ p \in [0..Len(s) -> Nat]
  /\ p[0] = 0
  /\ \A i \in 1..Len(s) : /\ st[s[i]].weight \in Nat
                          /\ p[i] = p[i - 1] + st[s[i]].weight
  /\ \A i, j \in 0..Len(s) : i <= j => p[i] <= p[j]
  /\ p[Len(s)] = total

\* The list s holds exactly the keys stored in st, each once.
Lists(s, st) ==
  /\ \A i, j \in 1..Len(s) : s[i] = s[j] => i = j
  /\ \A k \in Key : st[k] # NoEntry <=> \E i \in 1..Len(s) : s[i] = k

\* A list, a map and a weight that agree.
Agree(s, st, total) ==
  /\ s \in Seq(Key)
  /\ st \in [Key -> Entry \cup {NoEntry}]
  /\ total \in Nat
  /\ Lists(s, st)
  /\ \E p : Runs(p, s, st, total)

\* The entry an insert is making room for is the youngest of the list, and alone
\* it is within the budget.
Youngest ==
  held => /\ lru # <<>>
          /\ lru[Len(lru)] = inserting
          /\ store[inserting].weight <= MaxWeight

\* The inductive invariant.
IInv ==
  /\ Agree(lru, store, weight)
  /\ Len(lru) <= Capacity
  /\ ~held => weight <= MaxWeight
  /\ Youngest
  /\ inserting \in Key \cup {NoEntry}
  /\ out \in [key : Key \cup {NoEntry}, value : Value \cup {NoEntry}]

-----------------------------------------------------------------------------
\* What DropAt returns: one key less, the others in their order.
LEMMA DropAtSeq ==
  ASSUME NEW S, NEW s \in Seq(S), NEW j \in 1..Len(s)
  PROVE  /\ DropAt(s, j) \in Seq(S)
         /\ Len(DropAt(s, j)) = Len(s) - 1
         /\ \A i \in 1..(Len(s) - 1) :
               DropAt(s, j)[i] = IF i < j THEN s[i] ELSE s[i + 1]
<1>1. Len(s) - 1 \in Nat
  OBVIOUS
<1>2. \A i \in 1..(Len(s) - 1) : i \in 1..Len(s) /\ i + 1 \in 1..Len(s)
  OBVIOUS
<1> QED BY <1>1, <1>2 DEF DropAt

\* A listed key has a position, and only one.
LEMMA PositionOf ==
  ASSUME IInv, NEW k \in Key, Present(k)
  PROVE  /\ Position(k) \in 1..Len(lru)
         /\ lru[Position(k)] = k
         /\ \A i \in 1..Len(lru) : lru[i] = k => i = Position(k)
<1>1. DOMAIN lru = 1..Len(lru)
  BY DEF IInv, Agree
<1>2. \E i \in 1..Len(lru) : lru[i] = k
  BY DEF IInv, Agree, Lists, Present
<1>3. Position(k) \in 1..Len(lru) /\ lru[Position(k)] = k
  BY <1>1, <1>2 DEF Position
<1> QED BY <1>3 DEF IInv, Agree, Lists

\* Taking the j-th key out takes its weight out of the running total.
LEMMA RunsDrop ==
  ASSUME NEW s \in Seq(Key), NEW j \in 1..Len(s), NEW st, NEW st2, NEW total,
         NEW p, Runs(p, s, st, total),
         \A i \in 1..Len(s) : i # j => st2[s[i]] = st[s[i]]
  PROVE  /\ \E r : Runs(r, DropAt(s, j), st2, total - st[s[j]].weight)
         /\ st[s[j]].weight <= total
<1> DEFINE w == st[s[j]].weight
           n == Len(s)
           d == DropAt(s, j)
           r == [i \in 0..(n - 1) |-> IF i < j THEN p[i] ELSE p[i + 1] - w]
<1>0. /\ n \in Nat /\ j \in 1..n /\ n - 1 \in Nat /\ j - 1 \in 0..n /\ j \in 0..n
      /\ w \in Nat
  BY DEF Runs
<1>a. \A i \in 0..(n - 1) : r[i] = IF i < j THEN p[i] ELSE p[i + 1] - w
  OBVIOUS
<1>1. p \in [0..n -> Nat] /\ p[j] = p[j - 1] + w /\ p[j - 1] \in Nat
  BY <1>0 DEF Runs
<1>2. \A i \in 0..n : i >= j => p[i] \in Nat /\ p[i] >= p[j]
  BY <1>0 DEF Runs
<1>w. w \in Nat
  BY <1>0
<1>b. p[j] \in Nat /\ p[n] \in Nat /\ p[j] <= p[n] /\ p[n] = total
  BY <1>0, <1>2 DEF Runs
<1>c. w <= p[j]
  BY <1>1, <1>b, <1>w
<1>3. w <= total
  BY <1>b, <1>c, <1>w
<1>4. r \in [0..(n - 1) -> Nat]
  <2> SUFFICES ASSUME NEW i \in 0..(n - 1) PROVE r[i] \in Nat
    OBVIOUS
  <2> HIDE DEF r, w, n
  <2>1. CASE i < j
    <3>1. i \in 0..n
      BY <1>0
    <3>2. r[i] = p[i]
      BY <1>a, <2>1
    <3> QED BY <1>1, <3>1, <3>2
  <2>2. CASE ~(i < j)
    <3>1. i + 1 \in 0..n /\ i + 1 >= j
      BY <1>0, <2>2
    <3>2. p[i + 1] \in Nat /\ p[i + 1] >= p[j] /\ p[j] \in Nat /\ p[j] >= w
      BY <1>0, <1>1, <1>2, <3>1
    <3>3. p[i + 1] - w \in Nat
      BY <1>0, <3>2
    <3> QED BY <1>a, <2>2, <3>3
  <2> QED BY <2>1, <2>2
<1> HIDE DEF r
<1>5. Len(d) = n - 1 /\ \A i \in 1..(n - 1) : d[i] = IF i < j THEN s[i] ELSE s[i + 1]
  BY DropAtSeq
<1>6. r[0] = 0
  BY <1>0, <1>a DEF Runs
<1> HIDE DEF w, n, d
<1>7. ASSUME NEW i \in 1..(n - 1)
      PROVE  /\ st2[d[i]].weight \in Nat
             /\ r[i] = r[i - 1] + st2[d[i]].weight
  <2>1. i - 1 \in 0..(n - 1) /\ i \in 0..(n - 1) /\ i \in 1..n /\ i + 1 \in 1..n
    BY <1>0
  <2>2. st[s[i]].weight \in Nat /\ p[i] = p[i - 1] + st[s[i]].weight
    BY <2>1 DEF Runs, n
  <2>a. /\ st[s[i + 1]].weight \in Nat
        /\ p[i + 1] = p[(i + 1) - 1] + st[s[i + 1]].weight
    BY <2>1 DEF Runs, n
  <2>b. (i + 1) - 1 = i /\ p[i] \in Nat /\ p[i + 1] \in Nat /\ p[i - 1] \in Nat
    BY <1>0, <1>1, <2>1
  <2>c. p[i + 1] = p[i] + st[s[i + 1]].weight
    BY <2>a, <2>b
  <2> DEFINE x == p[i - 1]
             y == p[i]
             z == p[i + 1]
             u == st[s[i + 1]].weight
  <2>d. x \in Nat /\ y \in Nat /\ z \in Nat /\ u \in Nat /\ z = y + u
    BY <2>a, <2>b, <2>c
  <2> HIDE DEF x, y, z, u
  <2>3. CASE i < j
    <3>1. st2[d[i]] = st[s[i]] /\ i - 1 < j
      BY <1>0, <1>5, <2>1, <2>3 DEF n
    <3> QED BY <1>a, <2>1, <2>2, <2>3, <3>1
  <2>4. CASE i = j
    <3>1. st2[d[i]] = st[s[i + 1]]
      BY <1>0, <1>5, <2>1, <2>4 DEF n
    <3>2. r[i] = p[i + 1] - w /\ r[i - 1] = p[i - 1]
      BY <1>0, <1>a, <2>1, <2>4
    <3>3. y = x + w
      BY <1>1, <2>4 DEF x, y
    <3>4. z - w = x + u
      BY <1>w, <2>d, <3>3
    <3> QED BY <2>a, <3>1, <3>2, <3>4 DEF x, z, u
  <2>5. CASE i > j
    <3>1. st2[d[i]] = st[s[i + 1]]
      BY <1>0, <1>5, <2>1, <2>5 DEF n
    <3>2. r[i] = p[i + 1] - w /\ r[i - 1] = p[i] - w
      <4>1. ~(i < j) /\ ~(i - 1 < j) /\ (i - 1) + 1 = i
        BY <1>0, <2>5
      <4> QED BY <1>a, <2>1, <4>1
    <3>3. z - w = (y - w) + u
      BY <1>w, <2>d
    <3> QED BY <2>a, <3>1, <3>2, <3>3 DEF y, z, u
  <2> QED BY <1>0, <2>3, <2>4, <2>5
<1>8. ASSUME NEW a \in 0..(n - 1), NEW b \in 0..(n - 1), a <= b PROVE r[a] <= r[b]
  <2>1. \A x, y \in 0..n : x <= y => p[x] <= p[y]
    BY DEF Runs, n
  <2>2. a + 1 \in 0..n /\ b + 1 \in 0..n /\ a \in 0..n /\ b \in 0..n
    BY <1>0
  <2>3. CASE b < j
    BY <1>0, <1>a, <1>8, <2>1, <2>2, <2>3
  <2>4. CASE a < j /\ ~(b < j)
    <3>1. p[a] <= p[j - 1] /\ p[j] <= p[b + 1]
      BY <1>0, <2>1, <2>2, <2>4
    <3>2. r[a] = p[a] /\ r[b] = p[b + 1] - w
      BY <1>a, <2>4
    <3>3. p[a] \in Nat /\ p[b + 1] \in Nat /\ p[j] \in Nat
      BY <1>0, <1>1, <2>2
    <3>4. p[a] <= p[b + 1] - w
      <4> DEFINE x == p[a]
                 y == p[j]
                 z == p[b + 1]
                 u == p[j - 1]
      <4>1. j - 1 \in 0..n
        BY <1>0
      <4>2. u \in Nat /\ y = u + w
        BY <1>1, <4>1
      <4>3. x \in Nat /\ y \in Nat /\ z \in Nat /\ x <= u /\ y <= z
        BY <3>1, <3>3
      <4> HIDE DEF x, y, z, u
      <4>4. x <= z - w
        BY <1>w, <4>2, <4>3
      <4> QED BY <4>4 DEF x, z
    <3> QED BY <3>2, <3>4
  <2>5. CASE ~(a < j)
    <3>1. p[a + 1] <= p[b + 1] /\ ~(b < j)
      BY <1>0, <1>8, <2>1, <2>2, <2>5
    <3>2. r[a] = p[a + 1] - w /\ r[b] = p[b + 1] - w
      BY <1>a, <2>5, <3>1
    <3>3. p[a + 1] \in Nat /\ p[b + 1] \in Nat
      BY <1>1, <2>2
    <3>4. p[a + 1] - w <= p[b + 1] - w
      BY <1>w, <3>1, <3>3
    <3> QED BY <3>2, <3>4
  <2> QED BY <2>3, <2>4, <2>5
<1>9. r[n - 1] = total - w
  <2>1. p[n] = total /\ n \in 0..n /\ n - 1 \in 0..(n - 1)
    BY <1>0 DEF Runs, n
  <2>2. CASE n - 1 < j
    <3>1. n = j
      BY <1>0, <2>2
    <3>2. r[n - 1] = p[j - 1]
      BY <1>0, <1>a, <2>1, <2>2, <3>1
    <3> QED BY <1>0, <1>1, <2>1, <3>1, <3>2
  <2>3. CASE ~(n - 1 < j)
    BY <1>0, <1>a, <2>1, <2>3
  <2> QED BY <2>2, <2>3
<1>10. Runs(r, d, st2, total - w)
  BY <1>4, <1>5, <1>6, <1>7, <1>8, <1>9 DEF Runs
<1> QED BY <1>3, <1>10 DEF d, w

\* Appending a key adds its weight to the running total.
LEMMA RunsAppend ==
  ASSUME NEW s \in Seq(Key), NEW k \in Key, NEW st, NEW st2, NEW total \in Nat,
         NEW p, Runs(p, s, st, total), st2[k].weight \in Nat,
         \A i \in 1..Len(s) : st2[s[i]] = st[s[i]]
  PROVE  \E r : Runs(r, Append(s, k), st2, total + st2[k].weight)
<1> DEFINE w == st2[k].weight
           n == Len(s)
           a == Append(s, k)
           r == [i \in 0..(n + 1) |-> IF i <= n THEN p[i] ELSE total + w]
<1>0. n \in Nat /\ Len(a) = n + 1 /\ a[n + 1] = k /\ \A i \in 1..n : a[i] = s[i]
  OBVIOUS
<1>1. p \in [0..n -> Nat] /\ p[n] = total /\ p[0] = 0
  BY DEF Runs
<1>2. r \in [0..(n + 1) -> Nat] /\ r[0] = 0 /\ r[n + 1] = total + w
  BY <1>0, <1>1
<1>3. ASSUME NEW i \in 1..(n + 1)
      PROVE  /\ st2[a[i]].weight \in Nat
             /\ r[i] = r[i - 1] + st2[a[i]].weight
  <2>1. CASE i <= n
    <3>1. i \in 1..n /\ i - 1 \in 0..n
      BY <1>0, <2>1
    <3>2. st[s[i]].weight \in Nat /\ p[i] = p[i - 1] + st[s[i]].weight
      BY <3>1 DEF Runs
    <3> QED BY <1>0, <2>1, <3>1, <3>2
  <2>2. CASE i = n + 1
    BY <1>0, <1>1, <2>2
  <2> QED BY <1>0, <2>1, <2>2
<1>4. ASSUME NEW x \in 0..(n + 1), NEW y \in 0..(n + 1), x <= y PROVE r[x] <= r[y]
  <2>1. \A v, z \in 0..n : v <= z => p[v] <= p[z]
    BY DEF Runs
  <2>2. CASE y <= n
    BY <1>0, <1>4, <2>1, <2>2
  <2>3. CASE x <= n /\ y = n + 1
    <3>1. p[x] \in Nat /\ p[x] <= total
      BY <1>0, <1>1, <2>1, <2>3
    <3> QED BY <1>0, <2>3, <3>1
  <2>4. CASE x = n + 1
    BY <1>0, <1>4, <2>4
  <2> QED BY <1>0, <1>4, <2>2, <2>3, <2>4
<1> HIDE DEF r, a
<1>5. Runs(r, a, st2, total + w)
  BY <1>0, <1>2, <1>3, <1>4 DEF Runs
<1> QED BY <1>5 DEF a

\* Dropping the j-th key from list and map keeps them in agreement.
LEMMA AgreeDrop ==
  ASSUME NEW s, NEW st, NEW total, Agree(s, st, total), NEW j \in 1..Len(s)
  PROVE  /\ Agree(DropAt(s, j), [st EXCEPT ![s[j]] = NoEntry],
                  total - st[s[j]].weight)
         /\ st[s[j]] \in Entry /\ st[s[j]].weight <= total
<1> DEFINE d == DropAt(s, j)
           k == s[j]
           st2 == [st EXCEPT ![k] = NoEntry]
<1>0. /\ s \in Seq(Key) /\ st \in [Key -> Entry \cup {NoEntry}] /\ total \in Nat
      /\ Lists(s, st)
  BY DEF Agree
<1>1. k \in Key /\ st[k] \in Entry
  BY <1>0 DEF Lists
<1>2. st[k].weight \in Nat
  BY <1>1, CacheAssumption DEF Entry
<1>3. /\ d \in Seq(Key) /\ Len(d) = Len(s) - 1 /\ Len(s) \in Nat
      /\ \A i \in 1..(Len(s) - 1) : d[i] = IF i < j THEN s[i] ELSE s[i + 1]
  BY <1>0, DropAtSeq
<1>4. \A i \in 1..Len(s) : i # j => st2[s[i]] = st[s[i]]
  BY <1>0 DEF Lists
<1>5. st2 \in [Key -> Entry \cup {NoEntry}] /\ st2[k] = NoEntry
  BY <1>0, <1>1
<1>6. PICK p : Runs(p, s, st, total)
  BY DEF Agree
<1>7. /\ \E r : Runs(r, d, st2, total - st[k].weight)
      /\ st[k].weight <= total
  BY <1>0, <1>4, <1>6, RunsDrop
<1>8. Lists(d, st2)
  <2>1. ASSUME NEW x \in 1..Len(d), NEW y \in 1..Len(d), d[x] = d[y] PROVE x = y
    <3>1. /\ x \in 1..Len(s) /\ x + 1 \in 1..Len(s) /\ y \in 1..Len(s)
          /\ y + 1 \in 1..Len(s)
      BY <1>3
    <3>2. d[x] = (IF x < j THEN s[x] ELSE s[x + 1])
          /\ d[y] = (IF y < j THEN s[y] ELSE s[y + 1])
      BY <1>3
    <3>3. \A a, b \in 1..Len(s) : s[a] = s[b] => a = b
      BY <1>0 DEF Lists
    <3>4. CASE x < j /\ y < j
      BY <2>1, <3>1, <3>2, <3>3, <3>4
    <3>5. CASE x < j /\ ~(y < j)
      <4>1. s[x] = s[y + 1]
        BY <2>1, <3>2, <3>5
      <4>2. x = y + 1
        BY <3>1, <3>3, <4>1
      <4> QED BY <3>1, <3>5, <4>2
    <3>6. CASE ~(x < j) /\ y < j
      <4>1. s[x + 1] = s[y]
        BY <2>1, <3>2, <3>6
      <4>2. x + 1 = y
        BY <3>1, <3>3, <4>1
      <4> QED BY <3>1, <3>6, <4>2
    <3>7. CASE ~(x < j) /\ ~(y < j)
      <4>1. s[x + 1] = s[y + 1]
        BY <2>1, <3>2, <3>7
      <4>2. x + 1 = y + 1
        BY <3>1, <3>3, <4>1
      <4> QED BY <3>1, <4>2
    <3> QED BY <3>4, <3>5, <3>6, <3>7
  <2>2. ASSUME NEW c \in Key
        PROVE  st2[c] # NoEntry <=> \E i \in 1..Len(d) : d[i] = c
    <3>1. CASE c = k
      <4>1. ASSUME NEW i \in 1..Len(d), d[i] = k PROVE FALSE
        <5>1. /\ i \in 1..Len(s) /\ i + 1 \in 1..Len(s)
              /\ d[i] = IF i < j THEN s[i] ELSE s[i + 1]
          BY <1>3
        <5>2. \A x \in 1..Len(s) : s[x] = s[j] => x = j
          BY <1>0 DEF Lists
        <5>3. CASE i < j
          BY <4>1, <5>1, <5>2, <5>3
        <5>4. CASE ~(i < j)
          <6>1. s[i + 1] = s[j]
            BY <4>1, <5>1, <5>4
          <6>2. i + 1 = j
            BY <5>1, <5>2, <6>1
          <6> QED BY <5>1, <5>4, <6>2
        <5> QED BY <5>3, <5>4
      <4> QED BY <1>5, <3>1, <4>1
    <3>2. CASE c # k
      <4>1. st2[c] = st[c]
        BY <1>0, <3>2
      <4>2. ASSUME NEW i \in 1..Len(s), s[i] = c PROVE \E x \in 1..Len(d) : d[x] = c
        <5>1. i # j
          BY <3>2, <4>2
        <5>2. CASE i < j
          <6>1. i \in 1..Len(d) /\ d[i] = s[i]
            BY <1>3, <5>2
          <6> QED BY <4>2, <6>1
        <5>3. CASE i > j
          <6>1. i - 1 \in 1..Len(d) /\ ~(i - 1 < j) /\ (i - 1) + 1 = i
            BY <1>3, <5>3
          <6>2. d[i - 1] = s[i]
            BY <1>3, <6>1
          <6> QED BY <4>2, <6>1, <6>2
        <5> QED BY <5>1, <5>2, <5>3
      <4>3. ASSUME NEW x \in 1..Len(d), d[x] = c PROVE \E i \in 1..Len(s) : s[i] = c
        <5>1. x \in 1..Len(s) /\ x + 1 \in 1..Len(s)
          BY <1>3
        <5> QED BY <1>3, <4>3, <5>1
      <4>4. st[c] # NoEntry <=> \E i \in 1..Len(s) : s[i] = c
        BY <1>0 DEF Lists
      <4> QED BY <4>1, <4>2, <4>3, <4>4
    <3> QED BY <3>1, <3>2
  <2> QED BY <2>1, <2>2 DEF Lists
<1>9. total - st[k].weight \in Nat
  BY <1>0, <1>2, <1>7
<1> QED BY <1>1, <1>3, <1>5, <1>7, <1>8, <1>9 DEF Agree

\* Appending a key that is not stored, and storing its entry, keeps them so too.
LEMMA AgreeAppend ==
  ASSUME NEW s, NEW st, NEW total, Agree(s, st, total),
         NEW k \in Key, st[k] = NoEntry, NEW e \in Entry
  PROVE  Agree(Append(s, k), [st EXCEPT ![k] = e], total + e.weight)
<1> DEFINE a == Append(s, k)
           st2 == [st EXCEPT ![k] = e]
           n == Len(s)
<1>0. /\ s \in Seq(Key) /\ st \in [Key -> Entry \cup {NoEntry}] /\ total \in Nat
      /\ Lists(s, st) /\ e # NoEntry
  BY CacheAssumption DEF Agree
<1>1. e.weight \in Nat
  BY CacheAssumption DEF Entry
<1>2. /\ a \in Seq(Key) /\ Len(a) = n + 1 /\ n \in Nat /\ a[n + 1] = k
      /\ \A i \in 1..n : a[i] = s[i]
  BY <1>0
<1>3. \A i \in 1..n : s[i] # k /\ s[i] \in Key
  BY <1>0 DEF Lists
<1>4. /\ st2 \in [Key -> Entry \cup {NoEntry}] /\ st2[k] = e
      /\ \A i \in 1..n : st2[s[i]] = st[s[i]]
  BY <1>0, <1>3
<1>5. PICK p : Runs(p, s, st, total)
  BY DEF Agree
<1>6. \E r : Runs(r, a, st2, total + e.weight)
  <2>1. \E r : Runs(r, Append(s, k), st2, total + st2[k].weight)
    BY <1>0, <1>1, <1>4, <1>5, RunsAppend
  <2> QED BY <1>4, <2>1
<1>7. Lists(a, st2)
  <2>1. ASSUME NEW x \in 1..(n + 1), NEW y \in 1..(n + 1), a[x] = a[y] PROVE x = y
    <3>1. CASE x \in 1..n /\ y \in 1..n
      BY <1>0, <1>2, <2>1, <3>1 DEF Lists
    <3>2. CASE x = n + 1 /\ y \in 1..n
      BY <1>2, <1>3, <2>1, <3>2
    <3>3. CASE y = n + 1 /\ x \in 1..n
      BY <1>2, <1>3, <2>1, <3>3
    <3> QED BY <1>2, <3>1, <3>2, <3>3
  <2>2. ASSUME NEW c \in Key
        PROVE  st2[c] # NoEntry <=> \E i \in 1..(n + 1) : a[i] = c
    <3>1. CASE c = k
      BY <1>0, <1>2, <1>4, <3>1
    <3>2. CASE c # k
      <4>1. st2[c] = st[c]
        BY <1>0, <3>2
      <4>2. (\E i \in 1..(n + 1) : a[i] = c) <=> (\E i \in 1..n : s[i] = c)
        BY <1>2, <3>2
      <4> QED BY <1>0, <4>1, <4>2 DEF Lists
    <3> QED BY <3>1, <3>2
  <2> QED BY <1>2, <2>1, <2>2 DEF Lists
<1>8. total + e.weight \in Nat
  BY <1>0, <1>1
<1> HIDE DEF a, st2
<1>9. Agree(a, st2, total + e.weight)
  BY <1>2, <1>4, <1>6, <1>7, <1>8 DEF Agree
<1> QED BY <1>9 DEF a, st2

\* LruCache::pop of a stored key.
LEMMA PopAgrees ==
  ASSUME IInv, NEW k \in Key, Present(k), Pop(k)
  PROVE  /\ Agree(lru', store', weight')
         /\ weight' <= weight
         /\ Len(lru') = Len(lru) - 1
         /\ lru' = DropAt(lru, Position(k))
<1>1. Position(k) \in 1..Len(lru) /\ lru[Position(k)] = k
  BY PositionOf
<1>2. /\ Agree(DropAt(lru, Position(k)), [store EXCEPT ![k] = NoEntry],
               weight - store[k].weight)
      /\ store[k] \in Entry /\ store[k].weight <= weight
  BY <1>1, AgreeDrop DEF IInv
<1>3. store[k].weight \in Nat /\ weight \in Nat /\ lru \in Seq(Key)
  BY <1>2, CacheAssumption DEF Entry, IInv, Agree
<1>4. Len(DropAt(lru, Position(k))) = Len(lru) - 1
  BY <1>1, <1>3, DropAtSeq
<1> QED BY <1>2, <1>3, <1>4 DEF Pop

\* A key moved to the most recently used end, with a new entry or its old one.
LEMMA TouchAgrees ==
  ASSUME IInv, NEW k \in Key, Present(k), NEW e \in Entry
  PROVE  LET s == Append(DropAt(lru, Position(k)), k)
         IN  /\ Agree(s, [store EXCEPT ![k] = e], weight - store[k].weight + e.weight)
             /\ Len(s) = Len(lru) /\ s[Len(s)] = k
<1> DEFINE d == DropAt(lru, Position(k))
           st == [store EXCEPT ![k] = NoEntry]
<1>1. Position(k) \in 1..Len(lru) /\ lru[Position(k)] = k
  BY PositionOf
<1>2. Agree(d, st, weight - store[k].weight)
  BY <1>1, AgreeDrop DEF IInv
<1>3. st[k] = NoEntry /\ [st EXCEPT ![k] = e] = [store EXCEPT ![k] = e]
  BY DEF IInv, Agree
<1>4. Agree(Append(d, k), [st EXCEPT ![k] = e], weight - store[k].weight + e.weight)
  BY <1>2, <1>3, AgreeAppend
<1>5. d \in Seq(Key) /\ Len(d) = Len(lru) - 1 /\ Len(lru) \in Nat
  <2>1. lru \in Seq(Key) /\ Len(lru) \in Nat
    BY DEF IInv, Agree
  <2> QED BY <1>1, <2>1, DropAtSeq
<1>6. Len(Append(d, k)) = Len(lru) /\ Append(d, k)[Len(lru)] = k
  BY <1>5
<1> QED BY <1>3, <1>4, <1>6

\* With the list full, push drops the least recently used key first.
LEMMA ReplaceHeadAgrees ==
  ASSUME IInv, lru # <<>>, NEW k \in Key, ~Present(k), NEW e \in Entry
  PROVE  LET s == Append(Tail(lru), k)
         IN  /\ Agree(s, [store EXCEPT ![Head(lru)] = NoEntry, ![k] = e],
                      weight - store[Head(lru)].weight + e.weight)
             /\ Len(s) = Len(lru) /\ s[Len(s)] = k
<1> DEFINE d == DropAt(lru, 1)
           h == lru[1]
           st == [store EXCEPT ![h] = NoEntry]
<1>1. lru \in Seq(Key) /\ 1 \in 1..Len(lru) /\ Head(lru) = h /\ h \in Key
  BY DEF IInv, Agree
<1>2. Agree(d, st, weight - store[h].weight)
  BY <1>1, AgreeDrop DEF IInv
<1>3. d \in Seq(Key) /\ Len(d) = Len(lru) - 1 /\ Len(lru) \in Nat
      /\ \A i \in 1..(Len(lru) - 1) : d[i] = lru[i + 1]
  BY <1>1, DropAtSeq
<1>4. Tail(lru) = d
  BY <1>1, <1>3
<1>5. st[k] = NoEntry
        /\ [st EXCEPT ![k] = e] = [store EXCEPT ![h] = NoEntry, ![k] = e]
  BY DEF IInv, Agree, Present
<1>6. Agree(Append(d, k), [st EXCEPT ![k] = e], weight - store[h].weight + e.weight)
  BY <1>2, <1>5, AgreeAppend
<1>7. Len(Append(d, k)) = Len(lru) /\ Append(d, k)[Len(lru)] = k
  BY <1>3
<1> QED BY <1>1, <1>4, <1>5, <1>6, <1>7

-----------------------------------------------------------------------------
\* The empty cache satisfies the invariant.
LEMMA InitIInv == Init => IInv
<1> SUFFICES ASSUME Init PROVE IInv
  OBVIOUS
<1>1. Runs([i \in {0} |-> 0], <<>>, store, 0)
  BY DEF Runs
<1>2. /\ lru = <<>> /\ weight = 0 /\ Len(lru) = 0 /\ lru \in Seq(Key)
      /\ store \in [Key -> Entry \cup {NoEntry}]
      /\ \A k \in Key : store[k] = NoEntry
  BY DEF Init
<1>3. Lists(lru, store)
  BY <1>2 DEF Lists
<1>4. \E p : Runs(p, lru, store, weight)
  BY <1>1, <1>2
<1>5. Agree(lru, store, weight)
  BY <1>2, <1>3, <1>4 DEF Agree
<1>6. Len(lru) <= Capacity /\ weight <= MaxWeight
  BY <1>2, CacheAssumption
<1>7. Youngest /\ ~held /\ inserting \in Key \cup {NoEntry}
  BY DEF Init, Youngest, held
<1>8. out \in [key : Key \cup {NoEntry}, value : Value \cup {NoEntry}]
  BY DEF Init
<1> QED BY <1>5, <1>6, <1>7, <1>8 DEF IInv

\* A get that finds nothing to serve, or drops what expired.
LEMMA GetMissInv ==
  ASSUME IInv, NEW k \in Key, GetMiss(k)
  PROVE  IInv'
  BY DEF IInv, GetMiss, Youngest, held

\* remove, and a get of an expired entry: map, list and weight shrink together.
LEMMA PopInv ==
  ASSUME IInv, NEW k \in Key, GetExpired(k) \/ Remove(k)
  PROVE  IInv'
<1>1. Present(k) /\ Pop(k) /\ ~held /\ ~held' /\ inserting' = inserting
  BY DEF GetExpired, Remove, Expired, held
<1>2. /\ Agree(lru', store', weight') /\ weight' <= weight
      /\ Len(lru') = Len(lru) - 1
  BY <1>1, PopAgrees
<1>3. weight \in Nat /\ weight' \in Nat /\ Len(lru) \in Nat
  BY <1>2 DEF IInv, Agree
<1>4. Len(lru') <= Capacity /\ weight' <= MaxWeight
  BY <1>1, <1>2, <1>3, CacheAssumption DEF IInv
<1>5. out' \in [key : Key \cup {NoEntry}, value : Value \cup {NoEntry}]
  BY DEF GetExpired, Remove, IInv
<1> QED BY <1>1, <1>2, <1>4, <1>5 DEF IInv, Youngest

\* A hit only moves its key to the young end of the list.
LEMMA GetHitInv ==
  ASSUME IInv, NEW k \in Key, GetHit(k)
  PROVE  IInv'
<1>1. store[k] \in Entry /\ store \in [Key -> Entry \cup {NoEntry}] /\ Present(k)
  BY DEF GetHit, Present, IInv, Agree
<1>2. store[k].weight \in Nat /\ weight \in Nat /\ store[k].value \in Value
  BY <1>1, CacheAssumption DEF Entry, IInv, Agree
<1> DEFINE s == Append(DropAt(lru, Position(k)), k)
<1>3. /\ Agree(s, [store EXCEPT ![k] = store[k]],
               weight - store[k].weight + store[k].weight)
      /\ Len(s) = Len(lru)
  BY <1>1, TouchAgrees
<1>4. /\ [store EXCEPT ![k] = store[k]] = store
      /\ weight - store[k].weight + store[k].weight = weight
  BY <1>1, <1>2
<1>5. Agree(s, store, weight)
  BY <1>3, <1>4
<1>6. lru' = s /\ UNCHANGED <<store, weight, inserting>> /\ ~held /\ ~held'
  BY DEF GetHit, held
<1>7. out' \in [key : Key \cup {NoEntry}, value : Value \cup {NoEntry}]
  BY <1>2 DEF GetHit
<1> HIDE DEF s
<1> QED BY <1>3, <1>5, <1>6, <1>7 DEF IInv, Youngest

\* insert: whatever it replaces or pushes out, the new entry is the youngest.
LEMMA InsertInv ==
  ASSUME IInv, NEW k \in Key, NEW v \in Value, NEW w \in Weight, Insert(k, v, w)
  PROVE  IInv'
<1> DEFINE e == [value |-> v, weight |-> w, age |-> 0]
<1>1. e \in Entry /\ e.weight = w /\ w <= MaxWeight /\ e # NoEntry
  BY CacheAssumption DEF Insert, Entry
<1>2. lru \in Seq(Key) /\ Len(lru) \in Nat /\ Len(lru) <= Capacity
      /\ store \in [Key -> Entry \cup {NoEntry}]
  BY DEF IInv, Agree
<1> HIDE DEF e
<1>3. /\ Agree(lru', store', weight') /\ Len(lru') <= Capacity
      /\ lru' # <<>> /\ lru'[Len(lru')] = k /\ store'[k] = e
  <2>1. CASE Present(k)
    <3>1. InsertOver(k, e)
      BY <2>1 DEF Insert, e
    <3> DEFINE s == Append(DropAt(lru, Position(k)), k)
    <3>2. /\ Agree(s, [store EXCEPT ![k] = e], weight - store[k].weight + e.weight)
          /\ Len(s) = Len(lru) /\ s[Len(s)] = k
      BY <1>1, <2>1, TouchAgrees
    <3>3. Len(lru) # 0
      BY <1>2, <2>1, PositionOf
    <3>4. lru' = s /\ store'[k] = e
      BY <1>2, <3>1 DEF InsertOver
    <3>5. s # <<>>
      BY <3>2, <3>3
    <3> QED BY <1>2, <3>1, <3>2, <3>4, <3>5 DEF InsertOver
  <2>2. CASE ~Present(k) /\ Len(lru) = Capacity
    <3>1. InsertNew(k, e)
      BY <2>2 DEF Insert, e
    <3> DEFINE s == Append(Tail(lru), k)
    <3>2. lru # <<>>
      BY <1>2, <2>2, CacheAssumption
    <3>3. /\ Agree(s, [store EXCEPT ![Head(lru)] = NoEntry, ![k] = e],
                   weight - store[Head(lru)].weight + e.weight)
          /\ Len(s) = Len(lru) /\ s[Len(s)] = k
      BY <1>1, <2>2, <3>2, ReplaceHeadAgrees
    <3>4. /\ lru' = s /\ store'[k] = e
          /\ store' = [store EXCEPT ![Head(lru)] = NoEntry, ![k] = e]
          /\ weight' = weight - store[Head(lru)].weight + e.weight
      BY <1>2, <2>2, <3>1 DEF InsertNew
    <3>5. s # <<>>
      BY <1>2, <3>2, <3>3
    <3> QED BY <1>2, <3>3, <3>4, <3>5
  <2>3. CASE ~Present(k) /\ Len(lru) # Capacity
    <3>1. InsertNew(k, e)
      BY <2>3 DEF Insert, e
    <3>2. /\ lru' = Append(lru, k) /\ store' = [store EXCEPT ![k] = e]
          /\ weight' = weight + e.weight
      BY <2>3, <3>1 DEF InsertNew
    <3>3. Agree(lru', store', weight')
      BY <1>1, <2>3, <3>2, AgreeAppend DEF IInv, Present
    <3>4. Len(lru') = Len(lru) + 1 /\ lru'[Len(lru) + 1] = k /\ lru' # <<>>
      BY <1>2, <3>2
    <3> QED BY <1>2, <2>3, <3>2, <3>3, <3>4, CacheAssumption
  <2> QED BY <2>1, <2>2, <2>3
<1>4. inserting' = k /\ held' /\ out' = out
  BY CacheAssumption DEF Insert, held
<1>5. Youngest'
  BY <1>1, <1>3, <1>4 DEF Youngest
<1> QED BY <1>3, <1>4, <1>5 DEF IInv

\* The last entry alone is within the budget, so the loop stops before it.
LEMMA ShrinkInv ==
  ASSUME IInv, Shrink
  PROVE  IInv'
<1> DEFINE k == Head(lru)
           n == Len(lru)
<1>1. /\ lru \in Seq(Key) /\ lru # <<>> /\ n \in Nat \ {0} /\ k = lru[1] /\ k \in Key
      /\ store \in [Key -> Entry \cup {NoEntry}]
  BY DEF Shrink, IInv, Agree
<1>2. Present(k)
  BY <1>1 DEF IInv, Agree, Lists, Present
<1>3. /\ Pop(k) /\ held /\ held' /\ inserting' = inserting /\ out' = out
      /\ weight > MaxWeight
  BY DEF Shrink, held
<1>4. /\ Agree(lru', store', weight') /\ Len(lru') = n - 1
      /\ lru' = DropAt(lru, Position(k))
  BY <1>1, <1>2, <1>3, PopAgrees
<1>5. Position(k) = 1
  BY <1>1, <1>2, PositionOf
<1>6. n # 1
  <2> SUFFICES ASSUME n = 1 PROVE FALSE
    OBVIOUS
  <2>1. PICK p : Runs(p, lru, store, weight)
    BY DEF IInv, Agree
  <2>2. weight = store[lru[1]].weight
    BY <1>1, <2>1 DEF Runs
  <2>3. store[lru[1]].weight <= MaxWeight
    BY <1>3 DEF IInv, Youngest
  <2> QED BY <1>3, <2>2, <2>3, CacheAssumption DEF IInv, Agree
<1> HIDE DEF n
<1>7. lru' # <<>> /\ lru'[n - 1] = lru[n]
  <2>1. n - 1 \in 1..(n - 1) /\ ~(n - 1 < 1) /\ (n - 1) + 1 = n /\ 1 \in 1..n
    <3>1. n > 1
      BY <1>1, <1>6
    <3> QED BY <1>1, <3>1
  <2>2. lru'[n - 1] = lru[n]
    <3>1. \A i \in 1..(n - 1) :
             DropAt(lru, 1)[i] = IF i < 1 THEN lru[i] ELSE lru[i + 1]
      BY <1>1, <2>1, DropAtSeq DEF n
    <3> QED BY <1>4, <1>5, <2>1, <3>1
  <2> QED BY <1>4, <2>1, <2>2
<1>8. store'[lru[n]] = store[lru[n]]
  <2>1. n \in 1..n /\ 1 \in 1..n
    BY <1>1
  <2>2. lru[n] # lru[1] /\ lru[n] \in Key
    <3>1. \A i, j \in 1..n : lru[i] = lru[j] => i = j
      BY DEF IInv, Agree, Lists, n
    <3>2. \A i \in 1..n : lru[i] \in Key
      BY <1>1 DEF n
    <3> QED BY <1>6, <2>1, <3>1, <3>2
  <2> QED BY <1>1, <1>3, <2>2 DEF Pop
<1>9. Youngest'
  BY <1>3, <1>4, <1>7, <1>8 DEF Youngest, IInv, n
<1>10. Len(lru') <= Capacity
  BY <1>1, <1>4, CacheAssumption DEF IInv, n
<1> QED BY <1>3, <1>4, <1>9, <1>10 DEF IInv

\* Leaving the eviction loop restores the budget.
LEMMA ReleaseInv ==
  ASSUME IInv, Release
  PROVE  IInv'
  BY DEF IInv, Release, Youngest, held

\* An entry grows older and stays one.
LEMMA AgedEntry ==
  ASSUME NEW e \in Entry
  PROVE  Aged(e) \in Entry /\ Aged(e).weight = e.weight /\ Aged(e) # NoEntry
<1>1. e.age \in Nat /\ e.age <= Ttl /\ Ttl \in Nat
  BY CacheAssumption DEF Entry
<1>2. Aged(e) \in Entry /\ Aged(e).weight = e.weight
  BY <1>1 DEF Aged, Entry
<1> QED BY <1>2, CacheAssumption

\* Ages change, weights and presence do not.
LEMMA TickInv ==
  ASSUME IInv, Tick
  PROVE  IInv'
<1>1. store \in [Key -> Entry \cup {NoEntry}] /\ lru \in Seq(Key)
  BY DEF IInv, Agree
<1>2. \A e \in Entry : Aged(e) \in Entry /\ Aged(e).weight = e.weight /\ Aged(e) # NoEntry
  BY AgedEntry
<1>3. ASSUME NEW k \in Key
      PROVE  /\ store'[k] \in Entry \cup {NoEntry}
             /\ store'[k] # NoEntry <=> store[k] # NoEntry
             /\ store[k] # NoEntry => store'[k].weight = store[k].weight
  BY <1>1, <1>2 DEF Tick, Present
<1>4. store' \in [Key -> Entry \cup {NoEntry}]
  BY <1>3 DEF Tick
<1>5. Lists(lru, store')
  BY <1>3 DEF IInv, Agree, Lists
<1>6. PICK p : Runs(p, lru, store, weight)
  BY DEF IInv, Agree
<1>7. \A i \in 1..Len(lru) : store'[lru[i]].weight = store[lru[i]].weight
  BY <1>1, <1>3 DEF IInv, Agree, Lists
<1>8. Runs(p, lru, store', weight)
  BY <1>6, <1>7 DEF Runs
<1>9. Agree(lru, store', weight)
  BY <1>1, <1>4, <1>5, <1>8 DEF IInv, Agree
<1>10. Youngest' /\ (held' <=> held)
  <2>1. inserting' = inserting /\ lru' = lru /\ (held' <=> held)
    BY DEF Tick, held
  <2>2. ASSUME held
        PROVE  store'[inserting].weight <= MaxWeight
    <3>1. lru # <<>> /\ lru[Len(lru)] = inserting /\ store[inserting].weight <= MaxWeight
      BY <2>2 DEF IInv, Youngest
    <3>2. Len(lru) \in 1..Len(lru)
      BY <1>1, <3>1
    <3> QED BY <1>7, <3>1, <3>2
  <2> QED BY <2>1, <2>2 DEF IInv, Youngest
<1> QED BY <1>9, <1>10 DEF IInv, Tick

\* Every step preserves the invariant.
LEMMA NextIInv == IInv /\ [Next]_vars => IInv'
<1> SUFFICES ASSUME IInv, [Next]_vars PROVE IInv'
  OBVIOUS
<1>1. CASE UNCHANGED vars
  BY <1>1 DEF vars, IInv, Youngest, held
<1> QED BY <1>1, GetMissInv, PopInv, GetHitInv, InsertInv, ShrinkInv, ReleaseInv,
          TickInv DEF Next, Loop

\* Every reachable state of the cache satisfies the inductive invariant.
THEOREM Invariance == Spec => []IInv
  BY InitIInv, NextIInv, PTL DEF Spec

\* The weight counter never underflows; map, list and results keep their type.
THEOREM TypeCorrect == Spec => []TypeOK
<1>1. IInv => TypeOK
  BY DEF IInv, Agree, TypeOK
<1> QED BY <1>1, Invariance, PTL

\* The hash map and the LRU list never disagree, and never exceed the capacity.
THEOREM ListAndMapAgree == Spec => []ListMatchesMap
<1>1. IInv => ListMatchesMap
  BY DEF IInv, Agree, Lists, ListMatchesMap, Present
<1> QED BY <1>1, Invariance, PTL

\* Inner.weight is the sum of the stored weights, and within max_weight whenever
\* the mutex is free.
THEOREM WeightIsExact == Spec => []WeightExact
<1>1. IInv => WeightExact
  <2> SUFFICES ASSUME IInv PROVE WeightExact
    OBVIOUS
  <2>1. PICK p : Runs(p, lru, store, weight)
    BY DEF IInv, Agree
  <2>2. weight \in Nat /\ Len(lru) \in Nat
    BY DEF IInv, Agree
  <2>3. p \in [0..Len(lru) -> 0..weight]
    BY <2>1, <2>2 DEF Runs
  <2>4. RunningWeight(p) /\ p[Len(lru)] = weight
    BY <2>1 DEF Runs, RunningWeight
  <2> QED BY <2>3, <2>4 DEF WeightExact, IInv
<1> QED BY <1>1, Invariance, PTL

\* insert never gives up the entry it inserts: its key is stored in every state
\* up to the release of the mutex.
THEOREM InsertSurvives == Spec => []InsertKeepsItsEntry
<1>1. IInv => InsertKeepsItsEntry
  <2> SUFFICES ASSUME IInv, held PROVE Present(inserting)
    BY DEF InsertKeepsItsEntry
  <2>1. lru \in Seq(Key) /\ lru # <<>> /\ lru[Len(lru)] = inserting
    BY DEF IInv, Youngest, Agree
  <2>2. Len(lru) \in 1..Len(lru) /\ inserting \in Key
    BY <2>1
  <2> QED BY <2>1, <2>2 DEF IInv, Agree, Lists, Present
<1> QED BY <1>1, Invariance, PTL

-----------------------------------------------------------------------------
(* Eviction follows recency.                                               *)

\* The step leaves x in the cache.
Keeps(x) == store'[x] # NoEntry

\* In an insert, or in its eviction loop, only the front of the list may go.
LEMMA OnlyFrontGoes ==
  ASSUME IInv, Next, held \/ held', NEW j \in 1..Len(lru), j # 1
  PROVE  Keeps(lru[j])
<1>1. /\ store \in [Key -> Entry \cup {NoEntry}] /\ lru \in Seq(Key) /\ Len(lru) \in Nat
      /\ \A i, m \in 1..Len(lru) : lru[i] = lru[m] => i = m
      /\ lru[j] \in Key /\ store[lru[j]] # NoEntry
  BY DEF IInv, Agree, Lists
<1>2. 1 \in 1..Len(lru) /\ Head(lru) = lru[1] /\ lru[1] # lru[j]
  BY <1>1
<1>3. ASSUME NEW k \in Key, NEW v \in Value, NEW w \in Weight, Insert(k, v, w)
      PROVE  Keeps(lru[j])
  <2> DEFINE e == [value |-> v, weight |-> w, age |-> 0]
  <2>1. e \in Entry /\ e # NoEntry
    BY CacheAssumption DEF Entry
  <2> HIDE DEF e
  <2>2. \/ store' = [store EXCEPT ![k] = e]
        \/ store' = [store EXCEPT ![lru[1]] = NoEntry, ![k] = e]
    BY <1>2, <1>3 DEF Insert, InsertOver, InsertNew, e
  <2> QED BY <1>1, <1>2, <2>1, <2>2 DEF Keeps
<1>4. CASE Shrink
  <2>1. store' = [store EXCEPT ![lru[1]] = NoEntry]
    BY <1>2, <1>4 DEF Shrink, Pop
  <2> QED BY <1>1, <1>2, <2>1 DEF Keeps
<1>5. CASE Release
  BY <1>1, <1>5 DEF Release, Keeps
<1>6. CASE Tick
  <2>1. store[lru[j]] \in Entry
    BY <1>1
  <2>2. Aged(store[lru[j]]) # NoEntry
    BY <2>1, AgedEntry
  <2> QED BY <1>1, <1>6, <2>2 DEF Tick, Present, Keeps
<1>7. ASSUME NEW k \in Key, GetMiss(k) \/ GetExpired(k) \/ GetHit(k) \/ Remove(k)
      PROVE  FALSE
  BY <1>7 DEF GetMiss, GetExpired, GetHit, Remove, held
<1> QED BY <1>3, <1>4, <1>5, <1>6, <1>7 DEF Next, Loop

\* Whatever an insert drops, for the capacity or for the weight budget, was used
\* before everything it keeps.
THEOREM EvictionFollowsRecency == Spec => EvictsOldestFirst
<1>1. IInv /\ [Next]_vars =>
        [(held' \/ held) =>
           \A i, j \in 1..Len(lru) :
              i < j /\ store[lru[i]] # NoEntry /\ store'[lru[j]] = NoEntry
                 => store'[lru[i]] = NoEntry]_vars
  <2> SUFFICES ASSUME IInv, Next, held' \/ held, NEW i \in 1..Len(lru),
                      NEW j \in 1..Len(lru), i < j, store'[lru[j]] = NoEntry
               PROVE  FALSE
    OBVIOUS
  <2>1. j # 1
    BY DEF IInv, Agree
  <2> QED BY <2>1, OnlyFrontGoes DEF Keeps
<1> QED BY <1>1, Invariance, PTL DEF Spec, EvictsOldestFirst

-----------------------------------------------------------------------------
(* Each key refines the lossy slot.                                        *)

SlotStep(k) == Slot(k)!Next \/ UNCHANGED Slot(k)!vars

\* A fresh cache is an empty slot for every key.
LEMMA SlotInit ==
  ASSUME Init, NEW k \in Key
  PROVE  Slot(k)!Init
<1>1. store[k] = NoEntry
  BY DEF Init
<1>2. out.value = NoEntry
  BY DEF Init
<1> QED BY <1>1, <1>2 DEF Slot!Init

\* A step that leaves a key's entry and the last answer alone is a stutter.
LEMMA SlotStutter ==
  ASSUME NEW k \in Key, store'[k] = store[k], out' = out
  PROVE  SlotStep(k)
  BY DEF SlotStep, Slot!vars

\* An entry may vanish.
LEMMA SlotLose ==
  ASSUME NEW k \in Key, store'[k] = NoEntry, out' = out
  PROVE  SlotStep(k)
  BY DEF SlotStep, Slot!Next, Slot!Lose

\* A lookup: of this key, or of another one, which forgets this key's answer.
LEMMA SlotGet ==
  ASSUME IInv, NEW g \in Key, GetMiss(g) \/ GetExpired(g) \/ GetHit(g), NEW k \in Key
  PROVE  SlotStep(k)
<1>0. store \in [Key -> Entry \cup {NoEntry}]
  BY DEF IInv, Agree
<1>1. CASE GetMiss(g)
  <2>1. store' = store /\ out' = [key |-> g, value |-> NoEntry]
    BY <1>1 DEF GetMiss
  <2> QED BY <2>1 DEF SlotStep, Slot!Next, Slot!Miss
<1>2. CASE GetExpired(g)
  <2>1. /\ out' = [key |-> g, value |-> NoEntry]
        /\ store' = [store EXCEPT ![g] = NoEntry]
        /\ store[g] # NoEntry /\ store[g].age >= Ttl
    BY <1>2 DEF GetExpired, Expired, Present, Pop
  <2>2. store[g].age = Ttl
    BY <1>0, <2>1, CacheAssumption DEF Entry
  <2>3. CASE k = g
    BY <1>0, <2>1, <2>2, <2>3 DEF SlotStep, Slot!Next, Slot!Miss
  <2>4. CASE k # g
    BY <1>0, <2>1, <2>4 DEF SlotStep, Slot!Next, Slot!Miss
  <2> QED BY <2>3, <2>4
<1>3. CASE GetHit(g)
  <2>1. /\ out' = [key |-> g, value |-> store[g].value] /\ store' = store
        /\ store[g] # NoEntry /\ ~(store[g].age >= Ttl)
    BY <1>3 DEF GetHit, Expired, Present
  <2>2. store[g].age < Ttl
    BY <1>0, <2>1, CacheAssumption DEF Entry
  <2>3. CASE k = g
    BY <2>1, <2>2, <2>3 DEF SlotStep, Slot!Next, Slot!Hit
  <2>4. CASE k # g
    BY <2>1, <2>4 DEF SlotStep, Slot!Next, Slot!Miss
  <2> QED BY <2>3, <2>4
<1> QED BY <1>1, <1>2, <1>3

\* An insert stores one key and may lose others.
LEMMA SlotInsert ==
  ASSUME IInv, NEW c \in Key, NEW v \in Value, NEW w \in Weight, Insert(c, v, w),
         NEW k \in Key
  PROVE  SlotStep(k)
<1> DEFINE e == [value |-> v, weight |-> w, age |-> 0]
<1>0. store \in [Key -> Entry \cup {NoEntry}] /\ lru \in Seq(Key) /\ out' = out
  BY DEF IInv, Agree, Insert
<1>1. CASE k = c
  <2>1. store'[c] = e
    BY <1>0 DEF Insert, InsertOver, InsertNew
  <2>2. Ttl > 0
    BY CacheAssumption DEF Insert, is_enabled
  <2> QED BY <1>0, <1>1, <2>1, <2>2 DEF SlotStep, Slot!Next, Slot!Store
<1>2. CASE k # c
  <2>1. store'[k] = store[k] \/ store'[k] = NoEntry
    BY <1>0, <1>2 DEF Insert, InsertOver, InsertNew
  <2> QED BY <1>0, <2>1, SlotStutter, SlotLose
<1> QED BY <1>1, <1>2

\* Time passes for every key alike.
LEMMA SlotTick ==
  ASSUME IInv, Tick, NEW k \in Key
  PROVE  SlotStep(k)
<1>1. store \in [Key -> Entry \cup {NoEntry}] /\ out' = out
  BY DEF IInv, Agree, Tick
<1>2. CASE store[k] = NoEntry
  BY <1>1, <1>2, SlotStutter DEF Tick, Present
<1>3. CASE store[k] # NoEntry
  BY <1>1, <1>3, CacheAssumption
     DEF Tick, Present, Aged, Entry, SlotStep, Slot!Next, Slot!Age, Slot!vars
<1> QED BY <1>2, <1>3

\* Every step of the cache is a step of each key's slot, or none.
LEMMA SlotNext ==
  ASSUME IInv, [Next]_vars, NEW k \in Key
  PROVE  SlotStep(k)
<1>0. store \in [Key -> Entry \cup {NoEntry}] /\ lru \in Seq(Key)
  BY DEF IInv, Agree
<1>1. ASSUME NEW c \in Key, Remove(c) PROVE SlotStep(k)
  BY <1>0, <1>1, SlotStutter, SlotLose DEF Remove, Pop
<1>2. CASE Shrink
  BY <1>0, <1>2, SlotStutter, SlotLose DEF Shrink, Pop
<1>3. CASE Release
  BY <1>3, SlotStutter DEF Release
<1>4. CASE UNCHANGED vars
  BY <1>4, SlotStutter DEF vars
<1> QED BY <1>1, <1>2, <1>3, <1>4, SlotGet, SlotInsert, SlotTick DEF Next, Loop

\* The cache implements a lossy TTL slot for every key: what the request handlers
\* rely on holds whatever the other keys do.
THEOREM CacheRefinesSlots == Spec => EachKeyIsASlot
<1>1. Init => \A k \in Key : Slot(k)!Init
  BY SlotInit
<1>2. IInv /\ [Next]_vars
        => [\A k \in Key : Slot(k)!Next \/ UNCHANGED Slot(k)!vars]_vars
  BY SlotNext DEF SlotStep
<1> QED BY <1>1, <1>2, Invariance, PTL DEF Spec, EachKeyIsASlot
=============================================================================
