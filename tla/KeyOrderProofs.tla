--------------------------- MODULE KeyOrderProofs ---------------------------
(***************************************************************************)
(* The key comparisons of core/listing.rs and s3/sorted_listing.rs for     *)
(* keys of any length over any bytes.                                      *)
(*                                                                         *)
(* Two keys part at one place (Parts): the first one where one of them     *)
(* ends or their bytes differ.  Byte order is decided there (CmpAt), and   *)
(* each comparison of the code is shown to look at that place.             *)
(***************************************************************************)
EXTENDS KeyOrder, TLAPS, SequenceTheorems, WellFoundedInduction

\* The keys a and b agree before place i and not at it.
Parts(a, b, i) ==
  /\ i \in Nat \ {0} /\ i <= Len(a) + 1 /\ i <= Len(b) + 1
  /\ \A j \in 1..(i - 1) : a[j] = b[j]
  /\ i > Len(a) \/ i > Len(b) \/ a[i] # b[i]

-----------------------------------------------------------------------------
\* A set of naturals that is not empty has a least member.
LEMMA LeastNat ==
  ASSUME NEW T, T \subseteq Nat, T # {}
  PROVE  \E x \in T : \A y \in T : x <= y
<1>1. \E x \in T : \A y \in T : ~(<<y, x>> \in OpToRel(<, Nat))
  BY NatLessThanWellFounded, WFMin
<1>2. \A x, y \in Nat : y < x => <<y, x>> \in OpToRel(<, Nat)
  <2> SUFFICES ASSUME NEW x \in Nat, NEW y \in Nat, y < x
               PROVE  <<y, x>> \in OpToRel(<, Nat)
    OBVIOUS
  <2>1. <<y, x>> \in Nat \X Nat /\ <<y, x>>[1] < <<y, x>>[2]
    OBVIOUS
  <2> QED BY <2>1, Zenon DEF OpToRel
<1>3. PICK x \in T : \A y \in T : ~(<<y, x>> \in OpToRel(<, Nat))
  BY <1>1
<1>4. \A y \in T : ~(y < x)
  BY <1>2, <1>3, Zenon
<1> QED BY <1>4

\* And a bounded one has a greatest.
LEMMA GreatestIndex ==
  ASSUME NEW L \in Nat, NEW T, T \subseteq 1..L, T # {}
  PROVE  \E x \in T : \A y \in T : y <= x
<1> DEFINE U == {L - y : y \in T}
<1>1. U \subseteq Nat
  OBVIOUS
<1>2. U # {}
  <2>1. PICK y \in T : TRUE
    OBVIOUS
  <2>2. L - y \in U
    OBVIOUS
  <2> QED BY <2>2
<1>3. PICK u \in U : \A v \in U : u <= v
  BY <1>1, <1>2, LeastNat
<1>4. PICK x \in T : u = L - x
  BY <1>3
<1>5. \A y \in T : L - x <= L - y
  BY <1>3, <1>4
<1>6. \A y \in T : y \in Nat
  OBVIOUS
<1> HIDE DEF U
<1>7. \A y \in T : y <= x
  BY <1>5, <1>6
<1> QED BY <1>7

LEMMA KeysPart ==
  ASSUME NEW a \in Key, NEW b \in Key
  PROVE  \E i \in Nat \ {0} : Parts(a, b, i)
<1> DEFINE T == {i \in Nat \ {0} : i > Len(a) \/ i > Len(b) \/ a[i] # b[i]}
<1>1. Len(a) \in Nat /\ Len(b) \in Nat
  BY DEF Key
<1>2. Len(a) + 1 \in T /\ Len(b) + 1 \in T
  BY <1>1
<1>3. PICK i \in T : \A y \in T : i <= y
  BY <1>2, LeastNat
<1>4. \A j \in 1..(i - 1) : a[j] = b[j]
  <2> SUFFICES ASSUME NEW j \in 1..(i - 1) PROVE a[j] = b[j]
    OBVIOUS
  <2>1. j \in Nat \ {0} /\ j < i
    OBVIOUS
  <2>2. j \notin T
    BY <1>3, <2>1
  <2> QED BY <2>1, <2>2
<1> QED BY <1>2, <1>3, <1>4 DEF Parts

\* Byte order is decided at the place the keys part.
LEMMA OrderAt ==
  ASSUME NEW a \in Key, NEW b \in Key, NEW i \in Nat \ {0}, Parts(a, b, i)
  PROVE  /\ a = b <=> i > Len(a) /\ i > Len(b)
         /\ Before(a, b) <=> i <= Len(b) /\ (i <= Len(a) => a[i] < b[i])
<1>1. Len(a) \in Nat /\ Len(b) \in Nat /\ a \in Seq(Nat) /\ b \in Seq(Nat)
  BY DEF Key
<1>2. ASSUME i > Len(a), i > Len(b) PROVE a = b
  <2>1. Len(a) = Len(b) /\ \A j \in 1..Len(a) : a[j] = b[j]
    BY <1>1, <1>2 DEF Parts
  <2> QED BY <1>1, <2>1, SeqEqual
<1>3. ASSUME a = b PROVE i > Len(a) /\ i > Len(b)
  BY <1>1, <1>3 DEF Parts
<1>4. ASSUME i <= Len(b), i <= Len(a) => a[i] < b[i] PROVE Before(a, b)
  BY <1>1, <1>4 DEF Before, Parts
<1>5. ASSUME Before(a, b) PROVE i <= Len(b) /\ (i <= Len(a) => a[i] < b[i])
  <2>1. PICK k \in 1..Len(b) : /\ k <= Len(a) + 1
                               /\ \A j \in 1..(k - 1) : a[j] = b[j]
                               /\ k <= Len(a) => a[k] < b[k]
    BY <1>5 DEF Before
  <2>2. k \in Nat
    BY <1>1
  <2>3. CASE k < i
    <3>1. k \in 1..(i - 1) /\ k <= Len(a)
      BY <1>1, <2>1, <2>3 DEF Parts
    <3>2. a[k] = b[k] /\ a[k] < b[k]
      BY <2>1, <3>1 DEF Parts
    <3>3. a[k] \in Nat
      BY <1>1, <2>1, <3>1, ElementOfSeq
    <3> QED BY <3>2, <3>3
  <2>4. CASE k = i
    BY <1>1, <2>1, <2>4
  <2>5. CASE k > i
    <3>1. i \in 1..(k - 1) /\ i <= Len(a) /\ i <= Len(b)
      BY <1>1, <2>1, <2>5
    <3>2. a[i] = b[i]
      BY <2>1, <3>1
    <3> QED BY <1>1, <3>1, <3>2 DEF Parts
  <2> QED BY <2>2, <2>3, <2>4, <2>5
<1> QED BY <1>2, <1>3, <1>4, <1>5

\* The same of Cmp.
LEMMA CmpAt ==
  ASSUME NEW a \in Key, NEW b \in Key, NEW i \in Nat \ {0}, Parts(a, b, i)
  PROVE  Cmp(a, b) = IF i > Len(a) THEN IF i > Len(b) THEN "Equal" ELSE "Less"
                     ELSE IF i > Len(b) THEN "Greater" ELSE CmpByte(a[i], b[i])
<1>1. Len(a) \in Nat /\ Len(b) \in Nat
  BY DEF Key
<1>2. i <= Len(a) /\ i <= Len(b) => a[i] \in Nat /\ b[i] \in Nat /\ a[i] # b[i]
  BY <1>1, ElementOfSeq DEF Parts, Key
<1>3. /\ a = b <=> i > Len(a) /\ i > Len(b)
      /\ Before(a, b) <=> i <= Len(b) /\ (i <= Len(a) => a[i] < b[i])
  BY OrderAt
<1> QED BY <1>1, <1>2, <1>3 DEF Cmp, CmpByte

-----------------------------------------------------------------------------
(* Before is a strict total order.                                         *)

LEMMA BeforeIrreflexive ==
  ASSUME NEW a \in Key
  PROVE  ~Before(a, a)
BY ElementOfSeq DEF Before, Key

LEMMA BeforeTransitive ==
  ASSUME NEW a \in Key, NEW b \in Key, NEW c \in Key, Before(a, b), Before(b, c)
  PROVE  Before(a, c)
<1>1. /\ Len(a) \in Nat /\ Len(b) \in Nat /\ Len(c) \in Nat
      /\ \A k \in 1..Len(a) : a[k] \in Nat
      /\ \A k \in 1..Len(b) : b[k] \in Nat
      /\ \A k \in 1..Len(c) : c[k] \in Nat
  BY ElementOfSeq DEF Key
<1>2. PICK i \in 1..Len(b) : /\ i <= Len(a) + 1
                             /\ \A j \in 1..(i - 1) : a[j] = b[j]
                             /\ i <= Len(a) => a[i] < b[i]
  BY DEF Before
<1>3. PICK k \in 1..Len(c) : /\ k <= Len(b) + 1
                             /\ \A j \in 1..(k - 1) : b[j] = c[j]
                             /\ k <= Len(b) => b[k] < c[k]
  BY DEF Before
<1>4. CASE i < k
  <2>1. i \in 1..(k - 1) /\ i \in 1..Len(c)
    BY <1>1, <1>4
  <2>2. b[i] = c[i] /\ \A j \in 1..(i - 1) : a[j] = c[j]
    BY <1>1, <1>2, <1>3, <2>1
  <2> QED BY <1>1, <1>2, <2>1, <2>2 DEF Before
<1>5. CASE i >= k
  <2>1. k <= Len(a) + 1 /\ k <= Len(b)
    BY <1>1, <1>2, <1>5
  <2>2. \A j \in 1..(k - 1) : a[j] = c[j]
    BY <1>1, <1>2, <1>3, <1>5
  <2>3. k <= Len(a) => a[k] < c[k]
    <3>1. CASE k = i
      BY <1>1, <1>2, <1>3, <2>1, <3>1
    <3>2. CASE k < i
      BY <1>1, <1>2, <1>3, <2>1, <3>2
    <3> QED BY <1>1, <1>5, <3>1, <3>2
  <2> QED BY <2>1, <2>2, <2>3 DEF Before
<1> QED BY <1>1, <1>4, <1>5

LEMMA BeforeTotal ==
  ASSUME NEW a \in Key, NEW b \in Key
  PROVE  a = b \/ Before(a, b) \/ Before(b, a)
<1>1. PICK i \in Nat \ {0} : Parts(a, b, i)
  BY KeysPart
<1>2. /\ Len(a) \in Nat /\ Len(b) \in Nat
      /\ i <= Len(a) => a[i] \in Nat
      /\ i <= Len(b) => b[i] \in Nat
  BY ElementOfSeq DEF Key
<1>3. Parts(b, a, i)
  BY <1>1 DEF Parts
<1> QED BY <1>1, <1>2, <1>3, OrderAt DEF Parts

LEMMA BeforeAsymmetric ==
  ASSUME NEW a \in Key, NEW b \in Key, Before(a, b)
  PROVE  ~Before(b, a) /\ a # b
BY BeforeIrreflexive, BeforeTransitive

LEMMA CmpIsOrder ==
  ASSUME NEW a \in Key, NEW b \in Key
  PROVE  /\ Cmp(a, b) = "Equal" <=> a = b
         /\ Cmp(a, b) = "Less" <=> Before(a, b)
         /\ Cmp(a, b) = "Greater" <=> Before(b, a)
BY BeforeAsymmetric, BeforeTotal DEF Cmp

-----------------------------------------------------------------------------
(* Keys as byte strings.                                                   *)

LEMMA KeyType ==
  ASSUME NEW a \in Key
  PROVE  Len(a) \in Nat /\ \A i \in 1..Len(a) : a[i] \in Nat
BY ElementOfSeq DEF Key

LEMMA OutputKey ==
  ASSUME NEW d \in Key
  PROVE  /\ Output(d) \in Key /\ Len(Output(d)) = Len(d) + 1
         /\ \A i \in 1..Len(d) : Output(d)[i] = d[i]
         /\ Output(d)[Len(d) + 1] = Slash
<1>1. Slash \in Nat
  BY DEF Slash
<1> QED BY <1>1, AppendProperties DEF Output, Key

LEMMA PrefixKey ==
  ASSUME NEW a \in Key, NEW n \in 0..Len(a)
  PROVE  /\ Prefix(a, n) \in Key /\ Len(Prefix(a, n)) = n
         /\ \A i \in 1..n : Prefix(a, n)[i] = a[i]
<1>1. \A i \in 1..n : a[i] \in Nat
  BY KeyType
<1>2. /\ Prefix(a, n) \in Seq(Nat) /\ Len(Prefix(a, n)) = n
      /\ \A i \in 1..n : Prefix(a, n)[i] = a[i]
  BY <1>1, KeyType DEF Prefix, Key
<1> QED BY <1>2 DEF Key

LEMMA ConcatKey ==
  ASSUME NEW a \in Key, NEW b \in Key
  PROVE  /\ a \o b \in Key /\ Len(a \o b) = Len(a) + Len(b)
         /\ \A i \in 1..Len(a) : (a \o b)[i] = a[i]
BY KeyType, ConcatProperties DEF Key

\* An output key identifies its directory.
LEMMA OutputInjective ==
  ASSUME NEW d \in Key, NEW e \in Key, Output(d) = Output(e)
  PROVE  d = e
BY AppendInjective DEF Output, Key, Slash

\* The first comparison of each of the code's: up to the length of the shorter key.
LEMMA CommonPart ==
  ASSUME NEW a \in Key, NEW b \in Key, NEW i \in Nat \ {0}, Parts(a, b, i),
         NEW c, c = Shorter(Len(a), Len(b))
  PROVE  /\ c \in Nat /\ c <= Len(a) /\ c <= Len(b) /\ (c = Len(a) \/ c = Len(b))
         /\ i <= c + 1
         /\ i <= c => /\ Cmp(Prefix(a, c), Prefix(b, c)) = CmpByte(a[i], b[i])
                      /\ CmpByte(a[i], b[i]) # "Equal"
         /\ i > c => Cmp(Prefix(a, c), Prefix(b, c)) = "Equal"
<1> DEFINE x == Prefix(a, c)
           y == Prefix(b, c)
<1>1. Len(a) \in Nat /\ Len(b) \in Nat
  BY KeyType
<1>2. c \in 0..Len(a) /\ c \in 0..Len(b) /\ (c = Len(a) \/ c = Len(b))
  BY <1>1 DEF Shorter
<1>3. /\ x \in Key /\ y \in Key /\ Len(x) = c /\ Len(y) = c
      /\ \A j \in 1..c : x[j] = a[j] /\ y[j] = b[j]
  BY <1>2, PrefixKey
<1>4. i <= c + 1
  BY <1>1, <1>2 DEF Parts
<1>5. Parts(x, y, i)
  BY <1>1, <1>2, <1>3, <1>4 DEF Parts
<1> HIDE DEF x, y
<1>6. Cmp(x, y) = IF i > c THEN "Equal" ELSE CmpByte(x[i], y[i])
  BY <1>1, <1>2, <1>3, <1>5, CmpAt
<1>7. i <= c => x[i] = a[i] /\ y[i] = b[i] /\ CmpByte(a[i], b[i]) # "Equal"
  <2> SUFFICES ASSUME i <= c PROVE x[i] = a[i] /\ y[i] = b[i] /\ CmpByte(a[i], b[i]) # "Equal"
    OBVIOUS
  <2>1. x[i] = a[i] /\ y[i] = b[i]
    BY <1>2, <1>3
  <2>2. a[i] # b[i]
    BY <1>1, <1>2 DEF Parts
  <2> QED BY <2>1, <2>2 DEF CmpByte
<1> QED BY <1>1, <1>2, <1>4, <1>6, <1>7 DEF x, y

-----------------------------------------------------------------------------
(* The comparisons.                                                        *)

\* cmp_dir_output compares the output key with any other key.
THEOREM CmpDirOutputExact ==
  ASSUME NEW d \in Key, NEW o \in Key
  PROVE  cmp_dir_output(d, o) = Cmp(Output(d), o)
<1>1. PICK i \in Nat \ {0} : Parts(d, o, i)
  BY KeysPart
<1> DEFINE c     == Shorter(Len(d), Len(o))
           order == Cmp(Prefix(d, c), Prefix(o, c))
           next  == CmpByte(Slash, o[Len(d) + 1])
           w     == Output(d)
<1>2. cmp_dir_output(d, o) =
        CASE order # "Equal" -> order
          [] order = "Equal" /\ Len(d) >= Len(o) -> "Greater"
          [] order = "Equal" /\ Len(d) < Len(o) /\ next # "Equal" -> next
          [] OTHER -> IF Len(o) = Len(d) + 1 THEN "Equal" ELSE "Less"
  BY DEF cmp_dir_output
<1>3. Len(d) \in Nat /\ Len(o) \in Nat
  BY KeyType
<1>4. /\ c \in Nat /\ c <= Len(d) /\ c <= Len(o) /\ (c = Len(d) \/ c = Len(o))
      /\ i <= c + 1
      /\ i <= c => order = CmpByte(d[i], o[i]) /\ CmpByte(d[i], o[i]) # "Equal"
      /\ i > c => order = "Equal"
  BY <1>1, CommonPart
<1>5. /\ w \in Key /\ Len(w) = Len(d) + 1 /\ w[Len(d) + 1] = Slash
      /\ \A j \in 1..Len(d) : w[j] = d[j]
  BY OutputKey
<1>6. next = IF Slash = o[Len(d) + 1] THEN "Equal" ELSE IF Slash < o[Len(d) + 1]
                                      THEN "Less" ELSE "Greater"
  BY DEF CmpByte
<1>7. CmpByte(Slash, o[Len(d) + 1]) = next
  OBVIOUS
<1> HIDE DEF c, order, next, w
<1>8. CASE i <= c
  <2>1. Parts(w, o, i)
    BY <1>1, <1>3, <1>4, <1>5, <1>8 DEF Parts
  <2>2. Cmp(w, o) = CmpByte(w[i], o[i])
    BY <1>3, <1>4, <1>5, <1>8, <2>1, CmpAt
  <2>3. w[i] = d[i]
    BY <1>3, <1>4, <1>5, <1>8
  <2>4. cmp_dir_output(d, o) = order
    BY <1>2, <1>4, <1>8
  <2> QED BY <1>4, <1>8, <2>2, <2>3, <2>4 DEF w
<1>9. CASE i > c /\ Len(d) >= Len(o)
  <2>1. i = Len(o) + 1 /\ c = Len(o)
    BY <1>3, <1>4, <1>9
  <2>2. Parts(w, o, i)
    BY <1>1, <1>3, <1>4, <1>5, <1>9, <2>1 DEF Parts
  <2>3. Cmp(w, o) = "Greater"
    BY <1>3, <1>5, <1>9, <2>1, <2>2, CmpAt
  <2>4. cmp_dir_output(d, o) = "Greater"
    BY <1>2, <1>4, <1>9
  <2> QED BY <2>3, <2>4 DEF w
<1>10. CASE i > c /\ Len(d) < Len(o)
  <2>1. i = Len(d) + 1 /\ c = Len(d)
    BY <1>3, <1>4, <1>10
  <2>2. CASE next # "Equal"
    <3>1. Parts(w, o, i)
      BY <1>1, <1>3, <1>5, <1>6, <1>10, <2>1, <2>2 DEF Parts
    <3>2. Cmp(w, o) = CmpByte(Slash, o[Len(d) + 1])
      BY <1>3, <1>5, <1>10, <2>1, <3>1, CmpAt
    <3>3. cmp_dir_output(d, o) = next
      BY <1>2, <1>3, <1>4, <1>10, <2>2
    <3> QED BY <1>7, <3>2, <3>3 DEF w
  <2>3. CASE next = "Equal"
    <3>1. o[Len(d) + 1] = Slash
      BY <1>6, <2>3
    <3>2. Parts(w, o, i + 1)
      BY <1>1, <1>3, <1>5, <1>10, <2>1, <3>1 DEF Parts
    <3>3. Cmp(w, o) = IF i + 1 > Len(o) THEN "Equal" ELSE "Less"
      BY <1>3, <1>5, <1>10, <2>1, <3>2, CmpAt
    <3>4. cmp_dir_output(d, o) = IF Len(o) = Len(d) + 1 THEN "Equal" ELSE "Less"
      BY <1>2, <1>3, <1>4, <1>10, <2>3
    <3> QED BY <1>3, <1>10, <2>1, <3>3, <3>4 DEF w
  <2> QED BY <2>2, <2>3
<1> QED BY <1>3, <1>4, <1>8, <1>9, <1>10

\* cmp_file_dir compares a file's key with an output key.
THEOREM CmpFileDirExact ==
  ASSUME NEW f \in Key, NEW d \in Key
  PROVE  cmp_file_dir(f, d) = Cmp(f, Output(d))
<1> DEFINE w == Output(d)
<1>1. w \in Key
  BY OutputKey
<1>2. cmp_file_dir(f, d) = Reverse(Cmp(w, f))
  BY CmpDirOutputExact DEF cmp_file_dir
<1> HIDE DEF w
<1>3. /\ Cmp(w, f) = "Equal" <=> w = f
      /\ Cmp(w, f) = "Less" <=> Before(w, f)
      /\ Cmp(w, f) = "Greater" <=> Before(f, w)
      /\ Cmp(f, w) = "Equal" <=> f = w
      /\ Cmp(f, w) = "Less" <=> Before(f, w)
      /\ Cmp(f, w) = "Greater" <=> Before(w, f)
      /\ f = w \/ Before(f, w) \/ Before(w, f)
  BY <1>1, CmpIsOrder, BeforeTotal
<1> QED BY <1>2, <1>3 DEF Reverse, w

\* cmp_dir_keys compares two output keys.
THEOREM CmpDirKeysExact ==
  ASSUME NEW a \in Key, NEW b \in Key
  PROVE  cmp_dir_keys(a, b) = Cmp(Output(a), Output(b))
<1>1. PICK i \in Nat \ {0} : Parts(a, b, i)
  BY KeysPart
<1> DEFINE c     == Shorter(Len(a), Len(b))
           order == Cmp(Prefix(a, c), Prefix(b, c))
           up    == CmpByte(Slash, b[Len(a) + 1])
           down  == CmpByte(a[Len(b) + 1], Slash)
           v     == Output(a)
           w     == Output(b)
<1>2. cmp_dir_keys(a, b) =
        CASE order # "Equal" -> order
          [] order = "Equal" /\ Len(a) = Len(b) -> "Equal"
          [] order = "Equal" /\ Len(a) < Len(b) -> IF up = "Equal" THEN "Less" ELSE up
          [] OTHER -> IF down = "Equal" THEN "Greater" ELSE down
  BY DEF cmp_dir_keys
<1>3. Len(a) \in Nat /\ Len(b) \in Nat
  BY KeyType
<1>4. /\ c \in Nat /\ c <= Len(a) /\ c <= Len(b) /\ (c = Len(a) \/ c = Len(b))
      /\ i <= c + 1
      /\ i <= c => order = CmpByte(a[i], b[i]) /\ CmpByte(a[i], b[i]) # "Equal"
      /\ i > c => order = "Equal"
  BY <1>1, CommonPart
<1>5. /\ v \in Key /\ Len(v) = Len(a) + 1 /\ v[Len(a) + 1] = Slash
      /\ \A j \in 1..Len(a) : v[j] = a[j]
      /\ w \in Key /\ Len(w) = Len(b) + 1 /\ w[Len(b) + 1] = Slash
      /\ \A j \in 1..Len(b) : w[j] = b[j]
  BY OutputKey
<1>6. /\ up = "Equal" <=> b[Len(a) + 1] = Slash
      /\ down = "Equal" <=> a[Len(b) + 1] = Slash
  BY DEF CmpByte
<1>7. CmpByte(Slash, b[Len(a) + 1]) = up /\ CmpByte(a[Len(b) + 1], Slash) = down
  OBVIOUS
<1> HIDE DEF c, order, up, down, v, w
<1>8. CASE i <= c
  <2>1. v[i] = a[i] /\ w[i] = b[i]
    BY <1>3, <1>4, <1>5, <1>8
  <2>2. Parts(v, w, i)
    BY <1>1, <1>3, <1>4, <1>5, <1>8, <2>1 DEF Parts
  <2>3. Cmp(v, w) = CmpByte(v[i], w[i])
    BY <1>3, <1>4, <1>5, <1>8, <2>2, CmpAt
  <2>4. cmp_dir_keys(a, b) = order
    BY <1>2, <1>4, <1>8
  <2> QED BY <1>4, <1>8, <2>1, <2>3, <2>4 DEF v, w
<1>9. CASE i > c /\ Len(a) = Len(b)
  <2>1. a = b
    BY <1>1, <1>3, <1>4, <1>9, OrderAt
  <2>2. cmp_dir_keys(a, b) = "Equal"
    BY <1>2, <1>4, <1>9
  <2> QED BY <2>1, <2>2 DEF Cmp
<1>10. CASE i > c /\ Len(a) < Len(b)
  <2>1. i = Len(a) + 1 /\ c = Len(a) /\ w[i] = b[i]
    BY <1>3, <1>4, <1>5, <1>10
  <2>2. cmp_dir_keys(a, b) = IF up = "Equal" THEN "Less" ELSE up
    BY <1>2, <1>3, <1>4, <1>10
  <2>3. CASE up # "Equal"
    <3>1. Parts(v, w, i)
      BY <1>1, <1>3, <1>5, <1>6, <1>10, <2>1, <2>3 DEF Parts
    <3>2. Cmp(v, w) = CmpByte(Slash, b[Len(a) + 1])
      BY <1>3, <1>5, <1>10, <2>1, <3>1, CmpAt
    <3> QED BY <1>7, <2>2, <2>3, <3>2 DEF v, w
  <2>4. CASE up = "Equal"
    <3>1. b[Len(a) + 1] = Slash
      BY <1>6, <2>4
    <3>2. Parts(v, w, i + 1)
      BY <1>1, <1>3, <1>5, <1>10, <2>1, <3>1 DEF Parts
    <3>3. Cmp(v, w) = "Less"
      BY <1>3, <1>5, <1>10, <2>1, <3>2, CmpAt
    <3> QED BY <2>2, <2>4, <3>3 DEF v, w
  <2> QED BY <2>3, <2>4
<1>11. CASE i > c /\ Len(a) > Len(b)
  <2>1. i = Len(b) + 1 /\ c = Len(b) /\ v[i] = a[i]
    BY <1>3, <1>4, <1>5, <1>11
  <2>2. cmp_dir_keys(a, b) = IF down = "Equal" THEN "Greater" ELSE down
    BY <1>2, <1>3, <1>4, <1>11
  <2>3. CASE down # "Equal"
    <3>1. Parts(v, w, i)
      BY <1>1, <1>3, <1>5, <1>6, <1>11, <2>1, <2>3 DEF Parts
    <3>2. Cmp(v, w) = CmpByte(a[Len(b) + 1], Slash)
      BY <1>3, <1>5, <1>11, <2>1, <3>1, CmpAt
    <3> QED BY <1>7, <2>2, <2>3, <3>2 DEF v, w
  <2>4. CASE down = "Equal"
    <3>1. a[Len(b) + 1] = Slash
      BY <1>6, <2>4
    <3>2. Parts(v, w, i + 1)
      BY <1>1, <1>3, <1>5, <1>11, <2>1, <3>1 DEF Parts
    <3>3. Cmp(v, w) = "Greater"
      BY <1>3, <1>5, <1>11, <2>1, <3>2, CmpAt
    <3> QED BY <2>2, <2>4, <3>3 DEF v, w
  <2> QED BY <2>3, <2>4
<1> QED BY <1>3, <1>4, <1>8, <1>9, <1>10, <1>11

\* dir_output_starts_with looks for a prefix of the output key.
THEOREM DirOutputPrefixExact ==
  ASSUME NEW d \in Key, NEW p \in Key
  PROVE  dir_output_starts_with(d, p) <=> StartsWith(Output(d), p)
<1> DEFINE w == Output(d)
<1>1. /\ w \in Key /\ Len(w) = Len(d) + 1 /\ w[Len(d) + 1] = Slash
      /\ \A j \in 1..Len(d) : w[j] = d[j]
  BY OutputKey
<1>2. Len(d) \in Nat /\ Len(p) \in Nat
  BY KeyType
<1> HIDE DEF w
<1>3. CASE Len(p) <= Len(d)
  BY <1>1, <1>2, <1>3 DEF dir_output_starts_with, StartsWith, w
<1>4. CASE Len(p) = Len(d) + 1
  <2>1. dir_output_starts_with(d, p) <=>
          (\A j \in 1..Len(d) : p[j] = d[j]) /\ p[Len(d) + 1] = Slash
    BY <1>2, <1>4 DEF dir_output_starts_with, StartsWith
  <2>2. StartsWith(w, p) <=> \A j \in 1..(Len(d) + 1) : w[j] = p[j]
    BY <1>1, <1>2, <1>4 DEF StartsWith
  <2>3. ASSUME dir_output_starts_with(d, p) PROVE StartsWith(w, p)
    BY <1>1, <1>2, <2>1, <2>2, <2>3
  <2>4. ASSUME StartsWith(w, p) PROVE dir_output_starts_with(d, p)
    <3>1. Len(d) + 1 \in 1..(Len(d) + 1)
      BY <1>2
    <3>2. p[Len(d) + 1] = Slash
      BY <1>1, <2>2, <2>4, <3>1
    <3>3. \A j \in 1..Len(d) : p[j] = d[j]
      BY <1>1, <1>2, <2>2, <2>4
    <3> QED BY <2>1, <3>2, <3>3
  <2> QED BY <2>3, <2>4 DEF w
<1>5. CASE Len(p) > Len(d) + 1
  BY <1>1, <1>2, <1>5 DEF dir_output_starts_with, StartsWith, w
<1> QED BY <1>2, <1>3, <1>4, <1>5

\* dir_children_all_before: what a directory holds, whatever its name, sorts before the
\* marker, and the marker is not inside the directory.
THEOREM ChildrenBeforeExact ==
  ASSUME NEW d \in Key, NEW m \in Key, NEW n \in Key
  PROVE  dir_children_all_before(d, m)
           <=> ~StartsWith(m, Output(d)) /\ Before(Output(d) \o n, m)
<1>1. PICK i \in Nat \ {0} : Parts(d, m, i)
  BY KeysPart
<1> DEFINE c     == Shorter(Len(d), Len(m))
           order == Cmp(Prefix(d, c), Prefix(m, c))
           w     == Output(d)
           k     == w \o n
<1>2. dir_children_all_before(d, m) <=>
        \/ order = "Less"
        \/ order = "Equal" /\ Len(d) < Len(m) /\ m[Len(d) + 1] > Slash
  BY DEF dir_children_all_before
<1>3. Len(d) \in Nat /\ Len(m) \in Nat /\ Len(n) \in Nat
  BY KeyType
<1>4. /\ c \in Nat /\ c <= Len(d) /\ c <= Len(m) /\ (c = Len(d) \/ c = Len(m))
      /\ i <= c + 1
      /\ i <= c => order = CmpByte(d[i], m[i]) /\ CmpByte(d[i], m[i]) # "Equal"
      /\ i > c => order = "Equal"
  BY <1>1, CommonPart
<1>5. /\ w \in Key /\ Len(w) = Len(d) + 1 /\ w[Len(d) + 1] = Slash
      /\ \A j \in 1..Len(d) : w[j] = d[j]
  BY OutputKey
<1>6. /\ k \in Key /\ Len(k) = Len(w) + Len(n)
      /\ \A j \in 1..Len(w) : k[j] = w[j]
  BY <1>5, ConcatKey
<1>7. /\ Len(k) \in Nat /\ Len(k) >= Len(d) + 1 /\ k[Len(d) + 1] = Slash
      /\ \A j \in 1..Len(d) : k[j] = d[j]
  BY <1>3, <1>5, <1>6
<1>8. i <= Len(d) /\ i <= Len(m) => d[i] \in Nat /\ m[i] \in Nat
  BY KeyType
<1>9. StartsWith(m, w) <=> /\ Len(d) + 1 <= Len(m)
                           /\ \A j \in 1..(Len(d) + 1) : m[j] = w[j]
  BY <1>3, <1>5 DEF StartsWith
<1> HIDE DEF c, order, w, k
<1>10. CASE i <= c
  <2>1. Parts(k, m, i) /\ k[i] = d[i]
    BY <1>1, <1>3, <1>4, <1>7, <1>10 DEF Parts
  <2>2. Before(k, m) <=> d[i] < m[i]
    BY <1>3, <1>4, <1>6, <1>7, <1>10, <2>1, OrderAt
  <2>3. i \in 1..(Len(d) + 1) /\ m[i] # w[i]
    BY <1>1, <1>3, <1>4, <1>5, <1>10 DEF Parts
  <2>4. ~StartsWith(m, w)
    BY <1>9, <2>3
  <2>5. order = "Less" <=> d[i] < m[i]
    BY <1>4, <1>8, <1>10 DEF CmpByte
  <2> QED BY <1>2, <1>4, <1>10, <2>2, <2>4, <2>5 DEF k, w
<1>11. CASE i > c /\ Len(d) >= Len(m)
  <2>1. i = Len(m) + 1
    BY <1>3, <1>4, <1>11
  <2>2. Parts(k, m, i)
    BY <1>1, <1>3, <1>7, <1>11, <2>1 DEF Parts
  <2>3. ~Before(k, m)
    BY <1>3, <1>6, <2>1, <2>2, OrderAt
  <2> QED BY <1>2, <1>3, <1>4, <1>11, <2>3 DEF k, w
<1>12. CASE i > c /\ Len(d) < Len(m)
  <2>1. i = Len(d) + 1 /\ m[i] \in Nat /\ Slash \in Nat
    BY <1>3, <1>4, <1>12, KeyType DEF Slash
  <2>2. CASE m[i] = Slash
    <3>1. StartsWith(m, w)
      BY <1>1, <1>3, <1>5, <1>9, <1>12, <2>1, <2>2 DEF Parts
    <3> QED BY <1>2, <1>4, <1>12, <2>1, <2>2, <3>1 DEF w
  <2>3. CASE m[i] # Slash
    <3>1. Parts(k, m, i)
      BY <1>1, <1>3, <1>7, <1>12, <2>1, <2>3 DEF Parts
    <3>2. Before(k, m) <=> Slash < m[i]
      BY <1>3, <1>6, <1>7, <1>12, <2>1, <3>1, OrderAt
    <3>3. ~StartsWith(m, w)
      BY <1>3, <1>5, <1>9, <2>1, <2>3
    <3> QED BY <1>2, <1>4, <1>12, <2>1, <3>2, <3>3 DEF k, w
  <2> QED BY <2>2, <2>3
<1> QED BY <1>3, <1>4, <1>10, <1>11, <1>12

-----------------------------------------------------------------------------
(* Positions in sorted arrays.                                             *)

\* There is a place up to which all indices are in T.
LEMMA SplitPoint ==
  ASSUME NEW L \in Nat, NEW T
  PROVE  \E n \in 0..L : (\A i \in 1..n : i \in T) /\ (n < L => n + 1 \notin T)
<1> DEFINE U == {n \in 0..L : n < L => n + 1 \notin T}
<1>1. L \in U /\ U \subseteq Nat
  OBVIOUS
<1>2. PICK n \in U : \A y \in U : n <= y
  BY <1>1, LeastNat
<1>3. \A i \in 1..n : i \in T
  <2> SUFFICES ASSUME NEW i \in 1..n, i \notin T PROVE FALSE
    OBVIOUS
  <2>1. i - 1 \in 0..L /\ i - 1 < n /\ (i - 1) + 1 = i
    BY <1>1
  <2>2. i - 1 \in U
    BY <2>1
  <2> QED BY <1>2, <2>1, <2>2
<1> QED BY <1>2, <1>3

\* What sorts between a key and one that extends it extends it as well.
LEMMA Between ==
  ASSUME NEW p \in Key, NEW x \in Key, NEW m \in Key,
         StartsWith(m, p), Before(p, x), x = m \/ Before(x, m)
  PROVE  StartsWith(x, p)
<1>1. PICK i \in Nat \ {0} : Parts(p, x, i)
  BY KeysPart
<1>2. Len(p) \in Nat /\ Len(x) \in Nat /\ Len(m) \in Nat
  BY KeyType
<1>3. i <= Len(x) /\ (i <= Len(p) => p[i] < x[i])
  BY <1>1, OrderAt
<1>4. CASE i > Len(p)
  BY <1>1, <1>2, <1>3, <1>4 DEF Parts, StartsWith
<1>5. CASE i <= Len(p)
  <2>1. i \in 1..Len(p) /\ i \in 1..Len(m) /\ m[i] = p[i]
    BY <1>2, <1>5 DEF StartsWith
  <2>2. p[i] \in Nat /\ x[i] \in Nat
    BY <1>2, <1>3, <2>1, KeyType
  <2>3. Parts(m, x, i)
    BY <1>1, <1>2, <1>3, <1>5, <2>1 DEF Parts, StartsWith
  <2>4. Before(m, x)
    BY <1>2, <1>3, <1>5, <2>1, <2>3, OrderAt
  <2> QED BY <2>4, BeforeIrreflexive, BeforeAsymmetric
<1> QED BY <1>2, <1>4, <1>5

\* The marker is inside d, or is d's output key.
LEMMA StraddlerExact ==
  ASSUME NEW d \in Key, NEW m \in Key
  PROVE  StartsWith(m, Output(d)) <=>
           Len(m) > Len(d) /\ StartsWith(m, d) /\ m[Len(d) + 1] = Slash
<1> DEFINE w == Output(d)
<1>1. /\ w \in Key /\ Len(w) = Len(d) + 1 /\ w[Len(d) + 1] = Slash
      /\ \A j \in 1..Len(d) : w[j] = d[j]
  BY OutputKey
<1>2. Len(d) \in Nat /\ Len(m) \in Nat
  BY KeyType
<1> HIDE DEF w
<1>3. ASSUME StartsWith(m, w)
      PROVE  Len(m) > Len(d) /\ StartsWith(m, d) /\ m[Len(d) + 1] = Slash
  <2>1. Len(d) + 1 \in 1..Len(w)
    BY <1>1, <1>2
  <2> QED BY <1>1, <1>2, <1>3, <2>1 DEF StartsWith
<1>4. ASSUME Len(m) > Len(d), StartsWith(m, d), m[Len(d) + 1] = Slash
      PROVE  StartsWith(m, w)
  BY <1>1, <1>2, <1>4 DEF StartsWith
<1> QED BY <1>3, <1>4 DEF w

\* dirs_start_after passes over exactly the directories of a sorted array that
\* dir_children_all_before rules out, when none of them is inside another: the one
\* that holds the marker is kept.
THEOREM DirsStartExact ==
  ASSUME NEW dirs \in Seq(Key), NEW m \in Key,
         \A i, j \in 1..Len(dirs) : i < j => DirBefore(dirs[i], dirs[j]),
         \A i, j \in 1..Len(dirs) : i # j => ~StartsWith(Output(dirs[j]), Output(dirs[i]))
  PROVE  /\ dirs_start_after(dirs, m) \in 0..Len(dirs)
         /\ \A i \in 1..Len(dirs) :
              i <= dirs_start_after(dirs, m) <=> dir_children_all_before(dirs[i], m)
<1> DEFINE L     == Len(dirs)
           AtOrBefore(d) == cmp_dir_output(d, m) # "Greater"
           start == PartitionPoint(dirs, AtOrBefore)
           T     == {i \in 1..L : AtOrBefore(dirs[i])}
           Out(i) == Output(dirs[i])
<1>1. L \in Nat /\ \A i \in 1..L : dirs[i] \in Key /\ Out(i) \in Key
  BY ElementOfSeq, OutputKey
<1>2. start \in 0..L /\ (\A i \in 1..start : i \in T) /\ (start < L => start + 1 \notin T)
  <2>1. \E n \in 0..L : (\A i \in 1..n : i \in T) /\ (n < L => n + 1 \notin T)
    BY <1>1, SplitPoint
  <2>2. \A n \in 0..L : /\ (\A i \in 1..n : i \in T) <=> \A i \in 1..n : AtOrBefore(dirs[i])
                        /\ (n < L => n + 1 \notin T) <=> (n < L => ~AtOrBefore(dirs[n + 1]))
    BY <1>1
  <2>3. start = CHOOSE n \in 0..L : /\ \A i \in 1..n : AtOrBefore(dirs[i])
                                    /\ n < L => ~AtOrBefore(dirs[n + 1])
    BY DEF PartitionPoint
  <2> HIDE DEF AtOrBefore, T, start, L
  <2>4. \E n \in 0..L : /\ \A i \in 1..n : AtOrBefore(dirs[i])
                        /\ n < L => ~AtOrBefore(dirs[n + 1])
    BY <2>1, <2>2
  <2>5. /\ start \in 0..L /\ \A i \in 1..start : AtOrBefore(dirs[i])
        /\ start < L => ~AtOrBefore(dirs[start + 1])
    BY <2>3, <2>4
  <2> QED BY <2>2, <2>5
<1>3. \A i \in 1..L : i \in T <=> Out(i) = m \/ Before(Out(i), m)
  <2> SUFFICES ASSUME NEW i \in 1..L PROVE i \in T <=> Out(i) = m \/ Before(Out(i), m)
    OBVIOUS
  <2>1. i \in T <=> Cmp(Out(i), m) # "Greater"
    BY <1>1, CmpDirOutputExact
  <2>2. Out(i) \in Key
    BY <1>1
  <2> HIDE DEF Out, T
  <2> QED BY <2>1, <2>2, CmpIsOrder, BeforeTotal, BeforeAsymmetric, BeforeIrreflexive
<1>4. \A i, j \in 1..L : i < j => Before(Out(i), Out(j))
  <2> SUFFICES ASSUME NEW i \in 1..L, NEW j \in 1..L, i < j PROVE Before(Out(i), Out(j))
    OBVIOUS
  <2>1. cmp_dir_keys(dirs[i], dirs[j]) = "Less"
    BY DEF DirBefore
  <2>2. Cmp(Out(i), Out(j)) = "Less"
    BY <1>1, <2>1, CmpDirKeysExact
  <2> QED BY <1>1, <2>2, CmpIsOrder
<1>5. \A i \in 1..L : dir_children_all_before(dirs[i], m)
                        <=> ~StartsWith(m, Out(i)) /\ Before(Out(i), m)
  <2> SUFFICES ASSUME NEW i \in 1..L
               PROVE  dir_children_all_before(dirs[i], m)
                        <=> ~StartsWith(m, Out(i)) /\ Before(Out(i), m)
    OBVIOUS
  <2>1. <<>> \in Key /\ Out(i) \o <<>> = Out(i)
    BY <1>1, ConcatEmptySeq DEF Key
  <2> QED BY <1>1, <2>1, ChildrenBeforeExact
<1>6. dirs_start_after(dirs, m) =
        IF start > 0 /\ StartsWith(m, Out(start)) THEN start - 1 ELSE start
  <2>1. dirs_start_after(dirs, m) =
          IF /\ start > 0
             /\ Len(m) > Len(dirs[start]) /\ StartsWith(m, dirs[start])
             /\ m[Len(dirs[start]) + 1] = Slash
            THEN start - 1 ELSE start
    BY DEF dirs_start_after
  <2>2. start > 0 => dirs[start] \in Key
    BY <1>1, <1>2
  <2> HIDE DEF start
  <2> QED BY <2>1, <2>2, StraddlerExact
<1> HIDE DEF T, start, L
<1>7. \A i \in 1..L : i <= start <=> i \in T
  <2> SUFFICES ASSUME NEW i \in 1..L, i > start, i \in T PROVE FALSE
    BY <1>1, <1>2
  <2>1. start + 1 \in 1..L /\ start + 1 \notin T
    BY <1>1, <1>2
  <2>2. start + 1 = i \/ Before(Out(start + 1), Out(i))
    BY <1>1, <1>2, <1>4, <2>1
  <2>3. Out(i) = m \/ Before(Out(i), m)
    BY <1>3
  <2>4. Out(start + 1) = m \/ Before(Out(start + 1), m)
    BY <1>1, <2>1, <2>2, <2>3, BeforeTransitive
  <2> QED BY <1>3, <2>1, <2>4
<1>8. \A i \in 1..L : i < start => ~StartsWith(m, Out(i))
  <2> SUFFICES ASSUME NEW i \in 1..L, i < start, StartsWith(m, Out(i)) PROVE FALSE
    OBVIOUS
  <2>1. start \in 1..L /\ start \in T
    BY <1>1, <1>2
  <2>2. Before(Out(i), Out(start)) /\ (Out(start) = m \/ Before(Out(start), m))
    BY <1>3, <1>4, <2>1
  <2>3. StartsWith(Out(start), Out(i))
    BY <1>1, <2>1, <2>2, Between
  <2> QED BY <2>1, <2>3 DEF L
<1>9. \A i \in 1..L : Out(i) = m => StartsWith(m, Out(i))
  BY <1>1, KeyType DEF StartsWith
<1>10. dirs_start_after(dirs, m) \in 0..L
  BY <1>1, <1>2, <1>6
<1>11. ASSUME NEW i \in 1..L
       PROVE  i <= dirs_start_after(dirs, m) <=> dir_children_all_before(dirs[i], m)
  <2>1. i \in T <=> i <= start
    BY <1>7
  <2>2. dir_children_all_before(dirs[i], m) <=> ~StartsWith(m, Out(i)) /\ i \in T
    BY <1>3, <1>5, <1>9
  <2>3. CASE i < start
    BY <1>1, <1>2, <1>6, <1>8, <2>1, <2>2, <2>3
  <2>4. CASE i = start
    BY <1>1, <1>2, <1>6, <2>1, <2>2, <2>4
  <2>5. CASE i > start
    BY <1>1, <1>2, <1>6, <2>1, <2>2, <2>5
  <2> QED BY <1>1, <1>2, <2>3, <2>4, <2>5
<1> QED BY <1>10, <1>11 DEF L
=============================================================================
