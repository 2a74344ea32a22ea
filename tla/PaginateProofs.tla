--------------------------- MODULE PaginateProofs ---------------------------
(***************************************************************************)
(* The delimited listing for listings, prefixes, delimiters, markers and   *)
(* page sizes of any kind.                                                 *)
(*                                                                         *)
(* Two arguments.  Inside paginate_slash, MergeInv: what is on the page    *)
(* sorts before what the two cursors have left, and together they are what *)
(* paginate lists after the marker; so wherever the loop ends, the page is *)
(* the smallest keys of paginate's.  Between the pages, GotInv: the client *)
(* has what sorts up to the marker, no more and no less.                   *)
(***************************************************************************)
EXTENDS Paginate, KeyOrderProofs, FiniteSetTheorems

\* What the listing is, from the start: sorted arrays, and with "/" the children of
\* one directory.
ListingInv ==
  /\ query \in [prefix : Key, delimiter : Nat, size : Nat, first : Key \cup {NoMarker}]
  /\ files \in Seq(Key) /\ dirs \in Seq(Key)
  /\ \A i, j \in 1..Len(files) : i < j => Before(files[i], files[j])
  /\ \A i, j \in 1..Len(dirs) : i < j => DirBefore(dirs[i], dirs[j])
  /\ \A i \in 1..Len(files) : InScope(query, files[i])
  /\ \A i \in 1..Len(dirs) : query.delimiter = Slash /\ InScope(query, dirs[i])

Page == [contents : SUBSET Key, prefixes : SUBSET Key, truncated : BOOLEAN,
         token : Key \cup {NoMarker}]

\* The marker moves forward only.
MarkerInv ==
  /\ marker \in Key \cup {NoMarker}
  /\ query.first # NoMarker =>
       marker # NoMarker /\ (query.first = marker \/ Before(query.first, marker))

\* What the arrays hold for the prefix, and what is left of it at the cursors.
MatchF == {files[i] : i \in {i \in 1..Len(files) : StartsWith(files[i], query.prefix)}}
MatchD == {Output(dirs[i]) :
             i \in {i \in 1..Len(dirs) : StartsWith(Output(dirs[i]), query.prefix)}}
LeftF == {files[i] : i \in {i \in 1..Len(files) : i > fi /\ StartsWith(files[i], query.prefix)}}
LeftD == {Output(dirs[i]) :
            i \in {i \in 1..Len(dirs) : i > di /\ StartsWith(Output(dirs[i]), query.prefix)}}

\* The merge loop: page and rest make up what is to be listed, in this order.
MergeInv ==
  pc = "merge" =>
    /\ query.delimiter = Slash /\ query.size # 0
    /\ fi \in 0..Len(files) /\ di \in 0..Len(dirs)
    /\ page.contents \subseteq {k \in MatchF : Past(k)}
    /\ page.prefixes \subseteq {k \in MatchD : Past(k)}
    /\ {k \in MatchF : Past(k)} = page.contents \cup LeftF
    /\ {k \in MatchD : Past(k)} = page.prefixes \cup LeftD
    /\ \A k \in Keys(page), l \in LeftF \cup LeftD : Before(k, l)
    /\ Count(page) <= query.size
    /\ ~page.truncated
    /\ Keys(page) # {} => /\ page.token \in Keys(page)
                          /\ \A k \in Keys(page) : k = page.token \/ Before(k, page.token)

\* The client has everything up to the marker, or all of it.
GotInv ==
  /\ pc # "done" =>
       got = {k \in AllOutputs : After(query.first, k) /\ ~Past(k)}
  /\ pc = "done" /\ query.size > 0 => got = {k \in AllOutputs : After(query.first, k)}

PageInv == pc = "page" => page = paginate(query)

\* The inductive invariant.
IInv ==
  /\ ListingInv /\ MarkerInv /\ MergeInv /\ PageInv /\ GotInv
  /\ pc \in {"ask", "merge", "page", "done"}
  /\ page \in Page
  /\ ~backwards

-----------------------------------------------------------------------------
(* Finite sets of keys.                                                    *)

\* The keys of S that sort before k, and after it.
Lower(S, k) == {l \in S : Before(l, k)}
Upper(S, k) == {l \in S : Before(k, l)}

LEMMA FewerBelow ==
  ASSUME NEW S, S \subseteq Key, IsFiniteSet(S), NEW k \in S, NEW l \in S, Before(l, k)
  PROVE  /\ Cardinality(Lower(S, l)) \in Nat /\ Cardinality(Lower(S, k)) \in Nat
         /\ Cardinality(Lower(S, l)) < Cardinality(Lower(S, k))
         /\ Cardinality(Upper(S, l)) \in Nat /\ Cardinality(Upper(S, k)) \in Nat
         /\ Cardinality(Upper(S, k)) < Cardinality(Upper(S, l))
<1> DEFINE A == Lower(S, l)
           B == Lower(S, k)
           C == Upper(S, k)
           D == Upper(S, l)
<1>1. A \subseteq B /\ l \in B /\ l \notin A
  BY BeforeTransitive, BeforeIrreflexive DEF Lower
<1>2. C \subseteq D /\ k \in D /\ k \notin C
  BY BeforeTransitive, BeforeIrreflexive DEF Upper
<1>3. A \subseteq S /\ B \subseteq S /\ C \subseteq S /\ D \subseteq S
  BY DEF Lower, Upper
<1>4. IsFiniteSet(A) /\ IsFiniteSet(B) /\ IsFiniteSet(C) /\ IsFiniteSet(D)
  BY <1>3, FS_Subset
<1> HIDE DEF A, B, C, D
<1>5. /\ Cardinality(A) \in Nat /\ Cardinality(B) \in Nat
      /\ Cardinality(C) \in Nat /\ Cardinality(D) \in Nat
  BY <1>4, FS_CardinalityType
<1>6. Cardinality(A) <= Cardinality(B) /\ Cardinality(A) # Cardinality(B)
  BY <1>1, <1>4, FS_Subset
<1>7. Cardinality(C) <= Cardinality(D) /\ Cardinality(C) # Cardinality(D)
  BY <1>2, <1>4, FS_Subset
<1> QED BY <1>5, <1>6, <1>7 DEF A, B, C, D

LEMMA FiniteBelow ==
  ASSUME NEW S, IsFiniteSet(S), NEW k
  PROVE  /\ IsFiniteSet(Lower(S, k)) /\ Cardinality(Lower(S, k)) \in Nat
         /\ IsFiniteSet(Upper(S, k)) /\ Cardinality(Upper(S, k)) \in Nat
<1>1. Lower(S, k) \subseteq S /\ Upper(S, k) \subseteq S
  BY DEF Lower, Upper
<1> QED BY <1>1, FS_Subset, FS_CardinalityType

\* A finite set of keys has a first and a last one.
LEMMA FirstAndLast ==
  ASSUME NEW S, S \subseteq Key, IsFiniteSet(S), S # {}
  PROVE  /\ \E k \in S : \A l \in S : l = k \/ Before(k, l)
         /\ \E k \in S : \A l \in S : l = k \/ Before(l, k)
<1>1. \E k \in S : \A l \in S : l = k \/ Before(k, l)
  <2> DEFINE N == {Cardinality(Lower(S, k)) : k \in S}
  <2>1. N \subseteq Nat /\ N # {}
    BY FiniteBelow
  <2>2. PICK x \in N : \A y \in N : x <= y
    BY <2>1, LeastNat
  <2>3. PICK k \in S : x = Cardinality(Lower(S, k))
    BY <2>2
  <2>4. \A l \in S : Cardinality(Lower(S, k)) <= Cardinality(Lower(S, l))
    BY <2>2, <2>3
  <2> HIDE DEF N
  <2>5. ASSUME NEW l \in S PROVE l = k \/ Before(k, l)
    <3>1. ~Before(l, k)
      BY <2>4, FewerBelow
    <3> QED BY <3>1, BeforeTotal
  <2> QED BY <2>5
<1>2. \E k \in S : \A l \in S : l = k \/ Before(l, k)
  <2> DEFINE N == {Cardinality(Upper(S, k)) : k \in S}
  <2>1. N \subseteq Nat /\ N # {}
    BY FiniteBelow
  <2>2. PICK x \in N : \A y \in N : x <= y
    BY <2>1, LeastNat
  <2>3. PICK k \in S : x = Cardinality(Upper(S, k))
    BY <2>2
  <2>4. \A l \in S : Cardinality(Upper(S, k)) <= Cardinality(Upper(S, l))
    BY <2>2, <2>3
  <2> HIDE DEF N
  <2>5. ASSUME NEW l \in S PROVE l = k \/ Before(l, k)
    <3>1. ~Before(k, l)
      BY <2>4, FewerBelow
    <3> QED BY <3>1, BeforeTotal
  <2> QED BY <2>5
<1> QED BY <1>1, <1>2

LEMMA GreatestOf ==
  ASSUME NEW S, S \subseteq Key, IsFiniteSet(S), S # {}
  PROVE  Greatest(S) \in S /\ \A l \in S : l = Greatest(S) \/ Before(l, Greatest(S))
BY FirstAndLast DEF Greatest

LEMMA GreatestIs ==
  ASSUME NEW S, S \subseteq Key, NEW g \in S, \A l \in S : l = g \/ Before(l, g)
  PROVE  Greatest(S) = g
<1> DEFINE h == Greatest(S)
<1>1. h \in S /\ \A l \in S : l = h \/ Before(l, h)
  BY DEF Greatest
<1> HIDE DEF h
<1>2. h = g
  BY <1>1, BeforeAsymmetric
<1> QED BY <1>2 DEF h

\* What PageOf takes: a first part of S, and not nothing.
LEMMA SmallestOf ==
  ASSUME NEW S, S \subseteq Key, IsFiniteSet(S), NEW n \in Nat \ {0}
  PROVE  /\ Smallest(S, n) \subseteq S /\ IsFiniteSet(Smallest(S, n))
         /\ \A k \in Smallest(S, n), l \in S : Before(l, k) => l \in Smallest(S, n)
         /\ S # {} => Smallest(S, n) # {}
<1> DEFINE K == Smallest(S, n)
<1>1. \A k : k \in K <=> k \in S /\ Cardinality(Lower(S, k)) < n
  BY DEF Smallest, Lower
<1> HIDE DEF K
<1>2. K \subseteq S /\ IsFiniteSet(K)
  BY <1>1, FS_Subset
<1>3. ASSUME NEW k \in K, NEW l \in S, Before(l, k) PROVE l \in K
  BY <1>1, <1>3, FewerBelow
<1>4. ASSUME S # {} PROVE K # {}
  <2>1. PICK k \in S : \A l \in S : l = k \/ Before(k, l)
    BY <1>4, FirstAndLast
  <2>2. Lower(S, k) = {}
    BY <2>1, BeforeAsymmetric, BeforeIrreflexive DEF Lower
  <2>3. Cardinality(Lower(S, k)) = 0
    BY <2>2, FS_EmptySet
  <2> QED BY <1>1, <2>3
<1> QED BY <1>2, <1>3, <1>4 DEF K

\* A first part T of at most n keys, with n of them if it is not all.
LEMMA SmallestIs ==
  ASSUME NEW T, NEW R, T \cup R \subseteq Key, IsFiniteSet(T \cup R), NEW n \in Nat,
         \A k \in T, l \in R : Before(k, l),
         Cardinality(T) <= n, R # {} => Cardinality(T) = n
  PROVE  Smallest(T \cup R, n) = T
<1> DEFINE S == T \cup R
           K == Smallest(S, n)
<1>0. IsFiniteSet(T) /\ Cardinality(T) \in Nat
  BY FS_Subset, FS_CardinalityType
<1>1. \A k : k \in K <=> k \in S /\ Cardinality(Lower(S, k)) < n
  BY DEF Smallest, Lower
<1>2. ASSUME NEW k \in T PROVE Cardinality(Lower(S, k)) < n
  <2> DEFINE A == Lower(S, k)
  <2>1. A \subseteq T /\ k \notin A
    BY BeforeAsymmetric, BeforeIrreflexive DEF Lower
  <2> HIDE DEF A
  <2>2. A # T
    BY <2>1
  <2>3. IsFiniteSet(A) /\ Cardinality(A) <= Cardinality(T) /\ Cardinality(A) # Cardinality(T)
    BY <1>0, <2>1, <2>2, FS_Subset
  <2>4. Cardinality(A) \in Nat
    BY <2>3, FS_CardinalityType
  <2>5. Cardinality(A) < n
    BY <1>0, <2>3, <2>4
  <2> QED BY <2>5 DEF A
<1>3. ASSUME NEW k \in R PROVE ~(Cardinality(Lower(S, k)) < n)
  <2> DEFINE A == Lower(S, k)
  <2>1. T \subseteq A
    BY DEF Lower
  <2>2. IsFiniteSet(A) /\ Cardinality(A) \in Nat
    BY FiniteBelow
  <2> HIDE DEF A
  <2>3. Cardinality(T) <= Cardinality(A) /\ Cardinality(T) = n
    BY <1>3, <2>1, <2>2, FS_Subset
  <2>4. ~(Cardinality(A) < n)
    BY <1>0, <2>2, <2>3
  <2> QED BY <2>4 DEF A
<1> HIDE DEF K, S
<1>4. \A k : k \in S <=> k \in T \/ k \in R
  BY DEF S
<1>5. K = T
  BY <1>1, <1>2, <1>3, <1>4
<1> QED BY <1>5 DEF K, S

LEMMA ImageFinite ==
  ASSUME NEW S, IsFiniteSet(S), NEW f, f = [x \in S |-> f[x]]
  PROVE  IsFiniteSet({f[x] : x \in S})
<1> DEFINE T == {f[x] : x \in S}
<1>1. f \in [S -> T]
  OBVIOUS
<1>2. \A t \in T : \E x \in S : f[x] = t
  OBVIOUS
<1> HIDE DEF T
<1>3. f \in Surjection(S, T)
  BY <1>1, <1>2 DEF Surjection
<1>4. IsFiniteSet(T)
  BY <1>3, FS_Surjection
<1> QED BY <1>4 DEF T

-----------------------------------------------------------------------------
(* Cutting keys at delimiters.                                             *)

LEMMA FindFirst ==
  ASSUME NEW k \in Key, NEW c, NEW n \in Nat \ {0}, NEW i, i = Find(k, c, n)
  PROVE  \/ i = 0 /\ \A j \in n..Len(k) : k[j] # c
         \/ i \in n..Len(k) /\ k[i] = c /\ \A j \in n..Len(k) : k[j] = c => i <= j
<1> DEFINE T == {j \in n..Len(k) : k[j] = c}
<1>1. Len(k) \in Nat
  BY KeyType
<1>2. CASE T = {}
  BY <1>2 DEF Find
<1>3. CASE T # {}
  <2>1. T \subseteq Nat
    BY <1>1
  <2>2. \E x \in T : \A y \in T : x <= y
    BY <1>3, <2>1, LeastNat
  <2>3. i = CHOOSE x \in T : \A y \in T : x <= y
    BY <1>3 DEF Find
  <2>4. i \in T /\ \A y \in T : i <= y
    BY <2>2, <2>3
  <2> QED BY <2>4
<1> QED BY <1>2, <1>3

\* The directory part of a prefix.
LEMMA ListStartIs ==
  ASSUME NEW p \in Key, NEW s, s = ListStart(p)
  PROVE  /\ s \in Key /\ Len(s) \in Nat /\ Len(s) <= Len(p) /\ StartsWith(p, s)
         /\ \A j \in 1..Len(p) : p[j] = Slash => j <= Len(s)
         /\ Len(s) # 0 => p[Len(s)] = Slash
<1> DEFINE T == {j \in 1..Len(p) : p[j] = Slash}
           m == IF T = {} THEN 0 ELSE CHOOSE x \in T : \A y \in T : y <= x
<1>1. Len(p) \in Nat
  BY KeyType
<1>2. s = Prefix(p, m)
  BY DEF ListStart
<1>3. T # {} => m \in T /\ \A y \in T : y <= m
  BY <1>1, GreatestIndex
<1>a. T = {} => m = 0
  OBVIOUS
<1> HIDE DEF m
<1>4. m \in 0..Len(p) /\ (\A j \in 1..Len(p) : p[j] = Slash => j <= m) /\ (m # 0 => p[m] = Slash)
  BY <1>1, <1>3, <1>a
<1> HIDE DEF T
<1>5. s \in Key /\ Len(s) = m /\ \A i \in 1..m : s[i] = p[i]
  BY <1>2, <1>4, PrefixKey
<1>6. m \in Nat /\ m <= Len(p)
  BY <1>1, <1>4
<1> QED BY <1>4, <1>5, <1>6 DEF StartsWith

\* A key cut after the first delimiter behind the prefix.
Chopped(x) ==
  LET i == Find(x, query.delimiter, Len(query.prefix) + 1)
  IN  IF i = 0 THEN x ELSE Prefix(x, i)

AllKeys == Elems(files) \cup {Output(d) : d \in Elems(dirs)}

LEMMA ListingTypes ==
  ASSUME ListingInv
  PROVE  /\ query.prefix \in Key /\ Len(query.prefix) \in Nat /\ query.delimiter \in Nat
         /\ query.size \in Nat /\ query.first \in Key \cup {NoMarker}
         /\ Len(files) \in Nat /\ Len(dirs) \in Nat
         /\ \A i \in 1..Len(files) : files[i] \in Key
         /\ \A i \in 1..Len(dirs) : dirs[i] \in Key /\ Output(dirs[i]) \in Key
         /\ Elems(files) \subseteq Key /\ Elems(dirs) \subseteq Key /\ AllKeys \subseteq Key
<1>1. /\ query.prefix \in Key /\ query.delimiter \in Nat
      /\ query.size \in Nat /\ query.first \in Key \cup {NoMarker}
  BY DEF ListingInv
<1>2. Len(query.prefix) \in Nat
  BY <1>1, KeyType
<1>3. files \in Seq(Key) /\ dirs \in Seq(Key)
  BY DEF ListingInv
<1>4. /\ Len(files) \in Nat /\ Len(dirs) \in Nat
      /\ \A i \in 1..Len(files) : files[i] \in Key
      /\ \A i \in 1..Len(dirs) : dirs[i] \in Key
  BY <1>3, ElementOfSeq, LenProperties
<1>5. \A i \in 1..Len(dirs) : Output(dirs[i]) \in Key
  BY <1>4, OutputKey
<1>6. Elems(files) \subseteq Key /\ Elems(dirs) \subseteq Key
  BY <1>4 DEF Elems
<1>7. AllKeys \subseteq Key
  BY <1>6, OutputKey DEF AllKeys
<1> QED BY <1>1, <1>2, <1>4, <1>5, <1>6, <1>7

LEMMA ChoppedKey ==
  ASSUME ListingInv, NEW x \in Key, StartsWith(x, query.prefix)
  PROVE  /\ Chopped(x) \in Key /\ StartsWith(x, Chopped(x))
         /\ Chopped(x) = x \/ Before(Chopped(x), x)
<1> DEFINE n == Len(query.prefix) + 1
           i == Find(x, query.delimiter, n)
<1>1. n \in Nat \ {0} /\ Len(x) \in Nat
  BY ListingTypes, KeyType
<1>2. i = 0 \/ i \in n..Len(x)
  BY <1>1, FindFirst
<1>3. CASE i = 0
  BY <1>1, <1>3 DEF Chopped, StartsWith
<1>4. CASE i # 0
  <2>1. i \in 0..Len(x)
    BY <1>1, <1>2, <1>4
  <2>2. Chopped(x) = Prefix(x, i)
    BY <1>4 DEF Chopped
  <2> HIDE DEF i, n
  <2>3. Prefix(x, i) \in Key /\ Len(Prefix(x, i)) = i /\ \A j \in 1..i : Prefix(x, i)[j] = x[j]
    BY <2>1, PrefixKey
  <2> DEFINE c == Prefix(x, i)
  <2>4. c \in Key /\ Len(c) = i /\ (\A j \in 1..i : c[j] = x[j]) /\ i \in Nat /\ i <= Len(x)
    BY <1>1, <2>1, <2>3
  <2> HIDE DEF c
  <2>5. StartsWith(x, c)
    BY <2>4 DEF StartsWith
  <2>6. CASE i = Len(x)
    <3>1. c = x
      BY <2>4, <2>6, SeqEqual DEF Key
    <3> QED BY <2>2, <2>4, <2>5, <3>1 DEF c
  <2>7. CASE i < Len(x)
    <3>1. i + 1 \in 1..Len(x) /\ i + 1 <= Len(c) + 1 /\ ~(i + 1 <= Len(c)) /\ (i + 1) - 1 = i
      BY <1>1, <2>4, <2>7
    <3>2. Before(c, x)
      BY <2>4, <3>1 DEF Before
    <3> QED BY <2>2, <2>4, <2>5, <3>2 DEF c
  <2> QED BY <1>1, <2>4, <2>6, <2>7
<1> QED BY <1>3, <1>4

\* Everything there is to list: each matching key, cut.
LEMMA AllOutputsAre ==
  ASSUME ListingInv
  PROVE  /\ AllOutputs = {Chopped(x) : x \in {x \in AllKeys : StartsWith(x, query.prefix)}}
         /\ AllOutputs \subseteq Key
         /\ IsFiniteSet(AllOutputs)
<1> DEFINE P == query.prefix
           n == Len(P) + 1
           M == {x \in AllKeys : StartsWith(x, P)}
           Cuts(x) == {i \in n..Len(x) : x[i] = query.delimiter}
           C == {Chopped(x) : x \in M}
<1>1. n \in Nat \ {0} /\ AllKeys \subseteq Key
  BY ListingTypes
<1>2. AllOutputs = {x \in AllKeys : StartsWith(x, P) /\ Cuts(x) = {}}
                     \cup UNION {{Prefix(x, i) : i \in {i \in Cuts(x) : \A j \in Cuts(x) : i <= j}} :
                                    x \in M}
  BY DEF AllOutputs, AllKeys
<1>3. ASSUME NEW x \in M
      PROVE  LET c == Chopped(x)
             IN  \/ Cuts(x) = {} /\ c = x
                 \/ Cuts(x) # {} /\ \E i \in Cuts(x) : (\A j \in Cuts(x) : i <= j) /\ c = Prefix(x, i)
  <2> DEFINE i == Find(x, query.delimiter, n)
  <2>1. \/ i = 0 /\ \A j \in n..Len(x) : x[j] # query.delimiter
        \/ i \in n..Len(x) /\ x[i] = query.delimiter
             /\ \A j \in n..Len(x) : x[j] = query.delimiter => i <= j
    BY <1>1, FindFirst
  <2>2. Chopped(x) = IF i = 0 THEN x ELSE Prefix(x, i)
    BY DEF Chopped
  <2>3. i \in n..Len(x) => i # 0
    BY <1>1
  <2> HIDE DEF i, n
  <2> QED BY <2>1, <2>2, <2>3
<1>4. ASSUME NEW x \in M, NEW i \in Cuts(x), \A j \in Cuts(x) : i <= j
      PROVE  Prefix(x, i) = Chopped(x)
  <2>1. PICK h \in Cuts(x) : (\A j \in Cuts(x) : h <= j) /\ Chopped(x) = Prefix(x, h)
    BY <1>3
  <2>2. h \in Nat /\ i \in Nat
    BY <1>1
  <2>3. h <= i /\ i <= h
    BY <1>4, <2>1
  <2>4. h = i
    BY <2>2, <2>3
  <2> QED BY <2>1, <2>4
<1> HIDE DEF Cuts, n
<1>5. AllOutputs \subseteq C
  <2> SUFFICES ASSUME NEW k \in AllOutputs PROVE k \in C
    OBVIOUS
  <2>1. CASE k \in M /\ Cuts(k) = {}
    BY <1>3, <2>1
  <2>2. CASE \E x \in M : \E i \in Cuts(x) : (\A j \in Cuts(x) : i <= j) /\ k = Prefix(x, i)
    BY <1>4, <2>2
  <2> QED BY <1>2, <2>1, <2>2
<1>6. C \subseteq AllOutputs
  <2> SUFFICES ASSUME NEW x \in M PROVE Chopped(x) \in AllOutputs
    OBVIOUS
  <2>1. CASE Cuts(x) = {} /\ Chopped(x) = x
    BY <1>2, <2>1
  <2>2. CASE \E i \in Cuts(x) : (\A j \in Cuts(x) : i <= j) /\ Chopped(x) = Prefix(x, i)
    BY <1>2, <2>2
  <2> QED BY <1>3, <2>1, <2>2
<1>7. C \subseteq Key
  BY <1>1, ChoppedKey
<1>8. IsFiniteSet(AllKeys)
  <2>1. IsFiniteSet(1..Len(files)) /\ IsFiniteSet(1..Len(dirs))
    BY ListingTypes, FS_Interval
  <2> DEFINE f == [i \in 1..Len(files) |-> files[i]]
             g == [i \in 1..Len(dirs) |-> Output(dirs[i])]
  <2>2. IsFiniteSet({f[i] : i \in 1..Len(files)}) /\ IsFiniteSet({g[i] : i \in 1..Len(dirs)})
    <3>1. f = [i \in 1..Len(files) |-> f[i]] /\ g = [i \in 1..Len(dirs) |-> g[i]]
      OBVIOUS
    <3> HIDE DEF f, g
    <3> QED BY <2>1, <3>1, ImageFinite
  <2>3. AllKeys = {f[i] : i \in 1..Len(files)} \cup {g[i] : i \in 1..Len(dirs)}
    BY DEF AllKeys, Elems
  <2> QED BY <2>2, <2>3, FS_Union
<1>9. IsFiniteSet(C)
  <2>1. IsFiniteSet(M)
    BY <1>8, FS_Subset
  <2> DEFINE f == [x \in M |-> Chopped(x)]
  <2>2. f = [x \in M |-> f[x]] /\ C = {f[x] : x \in M}
    OBVIOUS
  <2> HIDE DEF f, M, C
  <2> QED BY <2>1, <2>2, ImageFinite
<1> QED BY <1>5, <1>6, <1>7, <1>9

-----------------------------------------------------------------------------
(* With "/": the children of one directory.                                *)

\* A child of the directory the listing starts at has no slash behind the prefix, and
\* matches it as its output key does.
LEMMA ScopeFacts ==
  ASSUME ListingInv, query.delimiter = Slash, NEW k \in Key, InScope(query, k)
  PROVE  /\ \A j \in (Len(query.prefix) + 1)..Len(k) : k[j] # Slash
         /\ Find(k, Slash, Len(query.prefix) + 1) = 0
         /\ Len(k) # 0 /\ k[Len(k)] # Slash
         /\ StartsWith(k, query.prefix) <=> StartsWith(Output(k), query.prefix)
         /\ StartsWith(Output(k), query.prefix) =>
              Find(Output(k), Slash, Len(query.prefix) + 1) = Len(k) + 1
<1> DEFINE P == query.prefix
           s == ListStart(P)
           w == Output(k)
<1>1. P \in Key /\ Len(P) \in Nat /\ Len(k) \in Nat
  BY ListingTypes, KeyType
<1>2. /\ s \in Key /\ Len(s) \in Nat /\ Len(s) <= Len(P)
      /\ Len(s) # 0 => P[Len(s)] = Slash
  BY <1>1, ListStartIs
<1>3. StartsWith(k, s) /\ Len(k) > Len(s) /\ Find(k, Slash, Len(s) + 1) = 0
  BY DEF InScope, DirectChild
<1>4. \A j \in (Len(s) + 1)..Len(k) : k[j] # Slash
  <2>1. Len(s) + 1 \in Nat \ {0} /\ 0 \notin (Len(s) + 1)..Len(k)
    BY <1>2
  <2> QED BY <1>3, <2>1, FindFirst
<1>a. /\ \A j \in 1..Len(P) : P[j] = Slash => j <= Len(s)
  BY <1>1, ListStartIs
<1> HIDE DEF s, P
<1>5. \A j \in (Len(P) + 1)..Len(k) : k[j] # Slash
  BY <1>1, <1>2, <1>4
<1>6. Find(k, Slash, Len(P) + 1) = 0
  <2>1. Len(P) + 1 \in Nat \ {0}
    BY <1>1
  <2> QED BY <1>5, <2>1, FindFirst
<1>7. Len(k) # 0 /\ k[Len(k)] # Slash
  BY <1>1, <1>2, <1>3, <1>4
<1>8. /\ w \in Key /\ Len(w) = Len(k) + 1 /\ (\A i \in 1..Len(k) : w[i] = k[i])
      /\ w[Len(k) + 1] = Slash
  BY OutputKey
<1> HIDE DEF w
<1>9. StartsWith(k, P) => StartsWith(w, P)
  BY <1>1, <1>8 DEF StartsWith
<1>10. StartsWith(w, P) => StartsWith(k, P)
  <2> SUFFICES ASSUME StartsWith(w, P) PROVE StartsWith(k, P)
    OBVIOUS
  <2>1. Len(P) <= Len(k)
    <3> SUFFICES ASSUME ~(Len(P) <= Len(k)) PROVE FALSE
      OBVIOUS
    <3>1. Len(P) = Len(k) + 1
      BY <1>1, <1>8 DEF StartsWith
    <3>2. P[Len(k) + 1] = Slash /\ Len(k) + 1 \in 1..Len(P)
      BY <1>1, <1>8, <3>1 DEF StartsWith
    <3>3. Len(k) + 1 <= Len(s)
      BY <1>a, <3>2
    <3> QED BY <1>1, <1>2, <1>3, <3>3
  <2> QED BY <1>1, <1>8, <2>1 DEF StartsWith
<1>11. ASSUME StartsWith(w, P) PROVE Find(w, Slash, Len(P) + 1) = Len(k) + 1
  <2>1. Len(P) <= Len(k)
    BY <1>10, <1>11 DEF StartsWith
  <2>2. Len(k) + 1 \in (Len(P) + 1)..Len(w) /\ Len(P) + 1 \in Nat \ {0}
    BY <1>1, <1>8, <2>1
  <2>3. \A j \in (Len(P) + 1)..Len(w) : w[j] = Slash => j = Len(k) + 1
    <3> SUFFICES ASSUME NEW j \in (Len(P) + 1)..Len(w), w[j] = Slash, j # Len(k) + 1
                 PROVE  FALSE
      OBVIOUS
    <3>1. j \in (Len(P) + 1)..Len(k) /\ j \in 1..Len(k)
      BY <1>1, <1>8
    <3> QED BY <1>5, <1>8, <3>1
  <2> DEFINE i == Find(w, Slash, Len(P) + 1)
  <2>4. \/ i = 0 /\ \A j \in (Len(P) + 1)..Len(w) : w[j] # Slash
        \/ i \in (Len(P) + 1)..Len(w) /\ w[i] = Slash
    BY <1>8, <2>2, FindFirst
  <2> HIDE DEF i
  <2>5. i = Len(k) + 1
    BY <1>8, <2>2, <2>3, <2>4
  <2> QED BY <2>5 DEF i
<1> QED BY <1>5, <1>6, <1>7, <1>9, <1>10, <1>11 DEF P, w

LEMMA ChoppedInScope ==
  ASSUME ListingInv, query.delimiter = Slash, NEW k \in Key, InScope(query, k)
  PROVE  /\ Chopped(k) = k
         /\ StartsWith(Output(k), query.prefix) => Chopped(Output(k)) = Output(k)
<1>1. Chopped(k) = k
  BY ScopeFacts DEF Chopped
<1>2. ASSUME StartsWith(Output(k), query.prefix) PROVE Chopped(Output(k)) = Output(k)
  <2> DEFINE w == Output(k)
  <2>1. Len(k) \in Nat /\ w \in Key /\ Len(w) = Len(k) + 1
    BY KeyType, OutputKey
  <2>2. Find(w, query.delimiter, Len(query.prefix) + 1) = Len(k) + 1
    BY <1>2, ScopeFacts
  <2> HIDE DEF w
  <2>3. Chopped(w) = Prefix(w, Len(w))
    BY <2>1, <2>2 DEF Chopped
  <2>4. /\ Prefix(w, Len(w)) \in Key /\ Len(Prefix(w, Len(w))) = Len(w)
        /\ \A i \in 1..Len(w) : Prefix(w, Len(w))[i] = w[i]
    <3>1. Len(w) \in 0..Len(w)
      BY <2>1
    <3> QED BY <2>1, <3>1, PrefixKey
  <2>5. Prefix(w, Len(w)) = w
    BY <2>1, <2>4, SeqEqual DEF Key
  <2> QED BY <2>3, <2>5 DEF w
<1> QED BY <1>1, <1>2

\* paginate on such a directory: contents are files, common prefixes are directories.
LEMMA SlashOutputs ==
  ASSUME ListingInv, query.delimiter = Slash
  PROVE  /\ ContentsOf(query.prefix, Slash) = MatchF
         /\ CommonPrefixes(query.prefix, Slash) = MatchD
         /\ AllOutputs = MatchF \cup MatchD
         /\ MatchF \cap MatchD = {}
<1> DEFINE P == query.prefix
<1>1. /\ \A f \in Elems(files) : f \in Key /\ InScope(query, f)
      /\ \A d \in Elems(dirs) : d \in Key /\ InScope(query, d)
  BY ListingTypes DEF ListingInv, Elems
<1>2. MatchF = {f \in Elems(files) : StartsWith(f, P)}
  BY DEF MatchF, Elems
<1>3. MatchD = {Output(d) : d \in {d \in Elems(dirs) : StartsWith(Output(d), P)}}
  BY DEF MatchD, Elems
<1>4. Entries = Elems(files)
  BY DEF Entries
<1>5. ContentsOf(P, Slash) = MatchF
  BY <1>1, <1>2, <1>4, ScopeFacts DEF ContentsOf, Matching
<1>6. CollapsedFiles(P, Slash) = {}
  BY <1>2, <1>4, <1>5 DEF CollapsedFiles, Matching
<1>7. CollapsedDirs(P) = MatchD
  <2>1. {d \in Elems(dirs) : StartsWith(d, P)} = {d \in Elems(dirs) : StartsWith(Output(d), P)}
    BY <1>1, ScopeFacts
  <2>2. \A d \in Elems(dirs) : Find(d, Slash, Len(P) + 1) = 0
    BY <1>1, ScopeFacts
  <2>3. CollapsedDirs(P) = {Output(d) : d \in {d \in Elems(dirs) : StartsWith(d, P)}}
    BY <2>2 DEF CollapsedDirs
  <2> QED BY <1>3, <2>1, <2>3
<1>8. CommonPrefixes(P, Slash) = MatchD
  BY <1>6, <1>7 DEF CommonPrefixes
<1>9. AllOutputs = MatchF \cup MatchD
  <2>1. AllOutputs = {Chopped(x) : x \in {x \in AllKeys : StartsWith(x, P)}}
    BY AllOutputsAre
  <2>2. {x \in AllKeys : StartsWith(x, P)} = MatchF \cup MatchD
    BY <1>2, <1>3 DEF AllKeys
  <2>3. \A x \in MatchF : Chopped(x) = x
    BY <1>1, <1>2, ChoppedInScope
  <2>4. \A x \in MatchD : Chopped(x) = x
    BY <1>1, <1>3, ChoppedInScope
  <2> QED BY <2>1, <2>2, <2>3, <2>4
<1>10. MatchF \cap MatchD = {}
  <2> SUFFICES ASSUME NEW f \in Elems(files), NEW d \in Elems(dirs), f = Output(d) PROVE FALSE
    BY <1>2, <1>3
  <2>1. Len(f) = Len(d) + 1 /\ f[Len(d) + 1] = Slash
    BY <1>1, OutputKey
  <2>2. f[Len(f)] # Slash
    BY <1>1, ScopeFacts
  <2> QED BY <2>1, <2>2
<1> QED BY <1>5, <1>8, <1>9, <1>10

\* What paginate lists after the marker.
LEMMA OutputsAre ==
  ASSUME ListingInv, marker \in Key \cup {NoMarker}
  PROVE  /\ Outputs(query) = {k \in AllOutputs : Past(k)}
         /\ Outputs(query) \subseteq Key /\ IsFiniteSet(Outputs(query))
         /\ Outputs(query) \subseteq ContentsOf(query.prefix, query.delimiter)
                                       \cup CommonPrefixes(query.prefix, query.delimiter)
<1> DEFINE P == query.prefix
           D == query.delimiter
<1>1. Outputs(query) = {k \in ContentsOf(P, D) \cup CommonPrefixes(P, D) : Past(k)}
  BY DEF Outputs
<1>2. ASSUME D = Slash PROVE Outputs(query) = {k \in AllOutputs : Past(k)}
  <2>1. query.delimiter = Slash
    BY <1>2
  <2>2. /\ ContentsOf(query.prefix, Slash) = MatchF /\ CommonPrefixes(query.prefix, Slash) = MatchD
        /\ AllOutputs = MatchF \cup MatchD
    BY <2>1, SlashOutputs
  <2>3. ContentsOf(P, D) = MatchF /\ CommonPrefixes(P, D) = MatchD
    BY <1>2, <2>2
  <2> QED BY <1>1, <2>2, <2>3
<1>3. ASSUME D # Slash PROVE Outputs(query) = {k \in AllOutputs : Past(k)}
  <2> DEFINE E == {f \in Elems(files) : StartsWith(f, P) /\ Past(f)}
  <2>1. AllKeys = Elems(files)
    <3>1. Len(dirs) = 0
      BY <1>3, ListingTypes DEF ListingInv
    <3> QED BY <3>1 DEF AllKeys, Elems
  <2>2. Matching(P) = E
    BY <1>3 DEF Matching, Entries
  <2>3. CommonPrefixes(P, D) = CollapsedFiles(P, D)
    BY <1>3 DEF CommonPrefixes
  <2>4. ContentsOf(P, D) \cup CommonPrefixes(P, D) = {Chopped(f) : f \in E}
    <3>1. ContentsOf(P, D) = {f \in E : Find(f, D, Len(P) + 1) = 0}
      BY <2>2 DEF ContentsOf
    <3>2. CollapsedFiles(P, D) =
            {Prefix(f, Find(f, D, Len(P) + 1)) : f \in {f \in E : Find(f, D, Len(P) + 1) # 0}}
      BY <2>2, <3>1 DEF CollapsedFiles
    <3>3. \A f \in E : Chopped(f) = IF Find(f, D, Len(P) + 1) = 0 THEN f
                                   ELSE Prefix(f, Find(f, D, Len(P) + 1))
      BY DEF Chopped
    <3> QED BY <2>3, <3>1, <3>2, <3>3
  <2>5. AllOutputs = {Chopped(f) : f \in {f \in Elems(files) : StartsWith(f, P)}}
    BY <2>1, AllOutputsAre
  <2>6. ASSUME NEW f \in Elems(files), StartsWith(f, P), Past(Chopped(f)) PROVE Past(f)
    <3>1. f \in Key
      BY ListingTypes
    <3>2. Chopped(f) \in Key /\ (Chopped(f) = f \/ Before(Chopped(f), f))
      BY <2>6, <3>1, ChoppedKey
    <3> QED BY <2>6, <3>1, <3>2, BeforeTransitive DEF Past, After
  <2>7. {k \in {Chopped(f) : f \in E} : Past(k)} = {k \in AllOutputs : Past(k)}
    <3>1. ASSUME NEW k \in {Chopped(f) : f \in E} PROVE k \in AllOutputs
      BY <2>5
    <3>2. ASSUME NEW k \in AllOutputs, Past(k) PROVE k \in {Chopped(f) : f \in E}
      <4>1. PICK f \in Elems(files) : StartsWith(f, P) /\ k = Chopped(f)
        BY <2>5
      <4>2. f \in E
        BY <2>6, <3>2, <4>1
      <4> QED BY <4>1, <4>2
    <3> HIDE DEF E
    <3> QED BY <3>1, <3>2
  <2> QED BY <1>1, <2>4, <2>7
<1>4. Outputs(query) = {k \in AllOutputs : Past(k)}
  BY <1>2, <1>3
<1>5. Outputs(query) \subseteq AllOutputs
  BY <1>4
<1> QED BY <1>1, <1>4, <1>5, AllOutputsAre, FS_Subset


\* A page of paginate, read off its definition.
LEMMA PageFacts ==
  ASSUME ListingInv, marker \in Key \cup {NoMarker}, NEW p, p = paginate(query),
         NEW out, out = Outputs(query), NEW K, K = Smallest(out, query.size)
  PROVE  /\ p \in Page
         /\ query.size = 0 => Keys(p) = {} /\ ~p.truncated
         /\ query.size # 0 => /\ Keys(p) = K
                              /\ p.truncated <=> K # out
                              /\ K # out => p.token = Greatest(K)
                              /\ p.token # NoMarker => K # out
                              /\ K \subseteq out /\ out \subseteq Key /\ IsFiniteSet(K)
                              /\ \A k \in K, l \in out : Before(l, k) => l \in K
                              /\ out # {} => K # {}
<1> DEFINE C == ContentsOf(query.prefix, query.delimiter)
           X == CommonPrefixes(query.prefix, query.delimiter)
<1>1. out \subseteq Key /\ IsFiniteSet(out) /\ out \subseteq C \cup X
  BY OutputsAre
<1>2. p = IF query.size = 0 THEN EmptyPage
          ELSE [contents |-> K \cap C, prefixes |-> K \cap X, truncated |-> K # out,
                token |-> IF K # out THEN Greatest(K) ELSE NoMarker]
  BY DEF paginate, PageOf
<1> HIDE DEF C, X
<1>3. CASE query.size = 0
  BY <1>2, <1>3 DEF EmptyPage, Page, Keys
<1>4. CASE query.size # 0
  <2>1. query.size \in Nat \ {0}
    BY <1>4, ListingTypes
  <2>2. /\ K \subseteq out /\ IsFiniteSet(K)
        /\ \A k \in K, l \in out : Before(l, k) => l \in K
        /\ out # {} => K # {}
    BY <1>1, <2>1, SmallestOf
  <2>3. K # out => Greatest(K) \in Key
    BY <1>1, <2>2, GreatestOf
  <2>4. /\ p.contents = K \cap C /\ p.prefixes = K \cap X /\ p.truncated = (K # out)
        /\ p.token = IF K # out THEN Greatest(K) ELSE NoMarker
    BY <1>2, <1>4
  <2>5. Keys(p) = K
    BY <1>1, <2>2, <2>4 DEF Keys
  <2>6. p \in Page
    <3> DEFINE c == K \cap C
               x == K \cap X
               t == (K # out)
               g == IF K # out THEN Greatest(K) ELSE NoMarker
    <3>1. c \in SUBSET Key /\ x \in SUBSET Key /\ t \in BOOLEAN /\ g \in Key \cup {NoMarker}
      BY <1>1, <2>2, <2>3
    <3>2. p = [contents |-> c, prefixes |-> x, truncated |-> t, token |-> g]
      BY <1>2, <1>4
    <3> HIDE DEF c, x, t, g
    <3> QED BY <3>1, <3>2 DEF Page
  <2> QED BY <1>1, <1>4, <2>2, <2>4, <2>5, <2>6
<1> QED BY <1>3, <1>4

-----------------------------------------------------------------------------
(* From page to page.                                                      *)

\* An action that leaves the listing and the question alone.
LEMMA ListingKept ==
  ASSUME ListingInv, UNCHANGED <<files, dirs, query>>
  PROVE  ListingInv' /\ AllOutputs' = AllOutputs
<1>1. ListingInv'
  BY DEF ListingInv
<1>2. AllOutputs' = AllOutputs
  BY DEF AllOutputs, Elems
<1> QED BY <1>1, <1>2

\* The marker and what is past it.
LEMMA PastFirst ==
  ASSUME ListingInv, MarkerInv, NEW k \in Key, Past(k)
  PROVE  After(query.first, k)
<1>1. query.first \in Key \cup {NoMarker}
  BY ListingTypes
<1> QED BY <1>1, BeforeTransitive DEF MarkerInv, Past, After

\* The next page begins where this one ended.
LEMMA ReceiveInv ==
  ASSUME IInv, Receive
  PROVE  IInv'
<1> DEFINE out == Outputs(query)
           K   == Smallest(out, query.size)
           cont == page.truncated /\ page.token # NoMarker
<1>1. /\ ListingInv /\ MarkerInv /\ marker \in Key \cup {NoMarker} /\ page \in Page /\ ~backwards
      /\ page = paginate(query) /\ pc = "page"
      /\ got = {k \in AllOutputs : After(query.first, k) /\ ~Past(k)}
  BY DEF IInv, MarkerInv, PageInv, GotInv, Receive
<1>2. /\ query.size = 0 => Keys(page) = {} /\ ~page.truncated
      /\ query.size # 0 => /\ Keys(page) = K
                           /\ page.truncated <=> K # out
                           /\ K # out => page.token = Greatest(K)
                           /\ K \subseteq out /\ out \subseteq Key /\ IsFiniteSet(K)
                           /\ \A k \in K, l \in out : Before(l, k) => l \in K
                           /\ out # {} => K # {}
  BY <1>1, PageFacts
<1>3. out = {k \in AllOutputs : Past(k)} /\ AllOutputs \subseteq Key /\ query.size \in Nat
  BY <1>1, OutputsAre, AllOutputsAre, ListingTypes
<1>4. /\ ListingInv' /\ AllOutputs' = AllOutputs /\ query' = query
      /\ page' = page
      /\ got' = got \cup Keys(page)
      /\ backwards' = (backwards \/ \E k \in Keys(page), l \in got : ~Before(l, k))
      /\ pc' = IF cont THEN "ask" ELSE "done"
      /\ marker' = IF cont THEN page.token ELSE marker
  BY <1>1, ListingKept DEF Receive
<1> HIDE DEF K, out
<1>5. ~backwards'
  <2> SUFFICES ASSUME NEW k \in Keys(page), NEW l \in got PROVE Before(l, k)
    BY <1>1, <1>4
  <2>1. k \in Key /\ Past(k) /\ l \in Key /\ ~Past(l)
    BY <1>1, <1>2, <1>3
  <2> QED BY <1>1, <2>1, BeforeTotal, BeforeTransitive DEF Past, After
<1>6. CASE cont
  <2> DEFINE g == page.token
  <2>1. query.size # 0 /\ K # out
    BY <1>2, <1>6
  <2>2. K # {} /\ K \subseteq Key
    BY <1>2, <2>1
  <2>3. g = Greatest(K)
    BY <1>2, <2>1
  <2>4. g \in K /\ \A l \in K : l = g \/ Before(l, g)
    BY <1>2, <2>1, <2>2, <2>3, GreatestOf
  <2>5. marker' = g /\ pc' = "ask" /\ g # NoMarker /\ g \in Key /\ Past(g)
    BY <1>2, <1>3, <1>4, <1>6, <2>1, <2>4
  <2> HIDE DEF g
  <2>6. MarkerInv'
    <3>1. query.first # NoMarker => Before(query.first, g)
      BY <1>1, <2>5, PastFirst DEF After
    <3> QED BY <1>4, <2>5, <3>1 DEF MarkerInv
  <2>7. \A k \in AllOutputs : Past(k)' <=> Before(g, k)
    BY <2>5 DEF Past, After
  <2>8. got' = {k \in AllOutputs : After(query.first, k) /\ ~Before(g, k)}
    <3>1. ASSUME NEW k \in got PROVE ~Before(g, k)
      <4>1. k \in Key /\ ~Past(k)
        BY <1>1, <1>3
      <4> QED BY <1>1, <2>5, <4>1, BeforeTransitive DEF Past, After
    <3>2. ASSUME NEW k \in K PROVE k \in AllOutputs /\ After(query.first, k) /\ ~Before(g, k)
      <4>1. k \in Key /\ Past(k) /\ k \in AllOutputs
        BY <1>2, <1>3, <2>1
      <4>2. ~Before(g, k)
        BY <2>4, <2>5, <4>1, BeforeIrreflexive, BeforeAsymmetric
      <4> QED BY <1>1, <4>1, <4>2, PastFirst
    <3>3. ASSUME NEW k \in AllOutputs, After(query.first, k), ~Before(g, k)
          PROVE  k \in got \/ k \in K
      <4>1. CASE ~Past(k)
        BY <1>1, <3>3, <4>1
      <4>2. CASE Past(k)
        <5>1. k \in out /\ k \in Key
          BY <1>3, <4>2
        <5>2. k = g \/ Before(k, g)
          BY <2>5, <3>3, <5>1, BeforeTotal
        <5> QED BY <1>2, <2>1, <2>4, <5>1, <5>2
      <4> QED BY <4>1, <4>2
    <3>4. got' = got \cup K
      BY <1>2, <1>4, <2>1
    <3> QED BY <1>1, <3>1, <3>2, <3>3, <3>4
  <2>9. GotInv'
    <3>1. \A k : After(query.first, k)' <=> After(query.first, k)
      BY <1>4 DEF After
    <3> QED BY <1>4, <2>5, <2>7, <2>8, <3>1 DEF GotInv
  <2> QED BY <1>1, <1>4, <1>5, <2>5, <2>6, <2>9 DEF IInv, MergeInv, PageInv
<1>7. CASE ~cont
  <2>1. marker' = marker /\ pc' = "done"
    BY <1>4, <1>7
  <2>2. MarkerInv'
    BY <1>1, <1>4, <2>1 DEF MarkerInv
  <2>3. ASSUME query.size # 0 PROVE got' = {k \in AllOutputs : After(query.first, k)}
    <3>1. K = out
      <4> SUFFICES ASSUME K # out PROVE FALSE
        OBVIOUS
      <4>1. page.truncated /\ page.token = Greatest(K) /\ K # {} /\ K \subseteq Key
        BY <1>2, <2>3
      <4>2. Greatest(K) \in Key
        BY <1>2, <2>3, <4>1, GreatestOf
      <4> QED BY <1>7, <4>1, <4>2, PaginateAssumption
    <3>2. got' = got \cup out
      BY <1>2, <1>4, <2>3, <3>1
    <3>3. \A k \in out : After(query.first, k)
      BY <1>1, <1>3, PastFirst
    <3> QED BY <1>1, <1>3, <3>2, <3>3
  <2>4. GotInv'
    <3>1. \A k : After(query.first, k)' <=> After(query.first, k)
      BY <1>4 DEF After
    <3> QED BY <1>3, <1>4, <2>1, <2>3, <3>1 DEF GotInv
  <2> QED BY <1>1, <1>4, <1>5, <2>1, <2>2, <2>4 DEF IInv, MergeInv, PageInv
<1> QED BY <1>6, <1>7


\* The arrays of Init are sequences of keys.
LEMMA ArrayOfKeys ==
  ASSUME NEW S, S \subseteq Key, IsFiniteSet(S), NEW s \in [1..Cardinality(S) -> S]
  PROVE  /\ s \in Seq(Key) /\ Len(s) = Cardinality(S)
         /\ \A i \in 1..Len(s) : s[i] \in S
<1> DEFINE n == Cardinality(S)
<1>1. n \in Nat
  BY FS_CardinalityType
<1> HIDE DEF n
<1>2. s \in [1..n -> S]
  BY DEF n
<1>3. s \in Seq(S) /\ Len(s) = n
  BY <1>1, <1>2
<1>4. s \in Seq(Key) /\ \A i \in 1..n : s[i] \in S
  BY <1>2, <1>3, SeqMonotonic
<1> QED BY <1>3, <1>4 DEF n

LEMMA InitInv ==
  ASSUME Init
  PROVE  IInv
<1>1. query \in [prefix : Key, delimiter : Nat, size : Nat, first : Key \cup {NoMarker}]
  <2>1. query \in [prefix : Prefixes, delimiter : Delimiters, size : PageSizes, first : Markers]
    BY DEF Init
  <2> QED BY <2>1, PaginateAssumption
<1>2. PICK F \in SUBSET {f \in FileKeys : InScope(query, f)},
           D \in SUBSET {d \in DirKeys : query.delimiter = Slash /\ InScope(query, d)} :
             files \in Sorted(F, Cardinality(F), Before) /\ dirs \in Sorted(D, Cardinality(D), DirBefore)
  BY DEF Init
<1>3. F \subseteq Key /\ IsFiniteSet(F) /\ D \subseteq Key /\ IsFiniteSet(D)
  BY PaginateAssumption, FS_Subset
<1>4. /\ files \in [1..Cardinality(F) -> F]
      /\ \A i, j \in 1..Cardinality(F) : i < j => Before(files[i], files[j])
  BY <1>2 DEF Sorted
<1>5. /\ dirs \in [1..Cardinality(D) -> D]
      /\ \A i, j \in 1..Cardinality(D) : i < j => DirBefore(dirs[i], dirs[j])
  BY <1>2 DEF Sorted
<1>6. files \in Seq(Key) /\ Len(files) = Cardinality(F) /\ \A i \in 1..Len(files) : files[i] \in F
  BY <1>3, <1>4, ArrayOfKeys
<1>7. dirs \in Seq(Key) /\ Len(dirs) = Cardinality(D) /\ \A i \in 1..Len(dirs) : dirs[i] \in D
  BY <1>3, <1>5, ArrayOfKeys
<1>8. /\ \A i \in 1..Len(files) : InScope(query, files[i])
      /\ \A i \in 1..Len(dirs) : query.delimiter = Slash /\ InScope(query, dirs[i])
  BY <1>2, <1>6, <1>7
<1>9. ListingInv
  BY <1>1, <1>4, <1>5, <1>6, <1>7, <1>8 DEF ListingInv
<1>10. marker = query.first /\ pc = "ask" /\ page = EmptyPage /\ got = {} /\ ~backwards
  BY DEF Init
<1>11. MarkerInv
  BY <1>1, <1>10 DEF MarkerInv
<1>12. GotInv
  BY <1>10 DEF GotInv, Past
<1>13. page \in Page
  BY <1>10 DEF EmptyPage, Page
<1> QED BY <1>9, <1>10, <1>11, <1>12, <1>13 DEF IInv, MergeInv, PageInv

-----------------------------------------------------------------------------
(* The lower bounds of paginate_slash.                                     *)

LEMMA BelowPrefix ==
  ASSUME NEW p \in Key, NEW x \in Key, Before(x, p)
  PROVE  ~StartsWith(x, p)
<1>1. Len(p) \in Nat /\ Len(x) \in Nat /\ \A i \in 1..Len(p) : p[i] \in Nat
  BY KeyType
<1>2. PICK i \in 1..Len(p) : i <= Len(x) + 1 /\ (i <= Len(x) => x[i] < p[i])
  BY DEF Before
<1> QED BY <1>1, <1>2 DEF StartsWith

\* Above the prefix range, and everything after it as well.
LEMMA AbovePrefix ==
  ASSUME NEW p \in Key, NEW x \in Key, NEW y \in Key,
         Before(p, x), ~StartsWith(x, p), Before(x, y)
  PROVE  ~StartsWith(y, p)
BY Between

\* The larger of two lower bounds of an ascending array o.
LEMMA BoundIs ==
  ASSUME NEW L \in Nat, NEW o, \A i \in 1..L : o[i] \in Key,
         \A i, j \in 1..L : i < j => Before(o[i], o[j]),
         NEW p \in Key, marker \in Key \cup {NoMarker},
         NEW m \in 0..L, \A i \in 1..m : Before(o[i], p),
         NEW n \in 0..L, \A i \in 1..n : ~Past(o[i]),
         marker # NoMarker /\ n < L => Past(o[n + 1]),
         NEW b, b = IF m >= n THEN m ELSE n
  PROVE  /\ b \in 0..L
         /\ \A i \in 1..L : i <= b => ~(StartsWith(o[i], p) /\ Past(o[i]))
         /\ \A i \in 1..L : i > b => Past(o[i])
<1>1. b \in 0..L /\ b >= n /\ \A i \in 1..L : i <= b => i \in 1..m \/ i \in 1..n
  OBVIOUS
<1>2. ASSUME NEW i \in 1..L, i <= b PROVE ~(StartsWith(o[i], p) /\ Past(o[i]))
  <2>1. CASE i \in 1..m
    BY <2>1, BelowPrefix
  <2>2. CASE i \in 1..n
    BY <2>2
  <2> QED BY <1>1, <1>2, <2>1, <2>2
<1>3. ASSUME NEW i \in 1..L, i > b PROVE Past(o[i])
  <2>1. CASE marker = NoMarker
    BY <2>1 DEF Past, After
  <2>2. CASE marker # NoMarker
    <3>1. n < L /\ n + 1 \in 1..L /\ (i = n + 1 \/ n + 1 < i)
      BY <1>1, <1>3
    <3>2. Before(marker, o[n + 1])
      BY <2>2, <3>1 DEF Past, After
    <3>3. i = n + 1 \/ Before(o[n + 1], o[i])
      BY <3>1
    <3>4. Before(marker, o[i])
      BY <2>2, <3>1, <3>2, <3>3, BeforeTransitive
    <3> QED BY <3>4 DEF Past, After
  <2> QED BY <2>1, <2>2
<1> QED BY <1>1, <1>2, <1>3

\* Where the merge begins in the files: behind it nothing is to be listed, ahead of it
\* everything is past the marker.
LEMMA FirstFileIs ==
  ASSUME ListingInv, marker \in Key \cup {NoMarker}
  PROVE  /\ FirstFile \in 0..Len(files)
         /\ \A i \in 1..Len(files) :
              i <= FirstFile => ~(StartsWith(files[i], query.prefix) /\ Past(files[i]))
         /\ \A i \in 1..Len(files) : i > FirstFile => Past(files[i])
<1> DEFINE L == Len(files)
           Below(f) == Before(f, query.prefix)
           Behind(f) == ~Past(f)
           m == PartitionPoint(files, Below)
           k == PartitionPoint(files, Behind)
           n == IF marker = NoMarker THEN 0 ELSE k
<1>1. FirstFile = IF m >= n THEN m ELSE n
  BY DEF FirstFile, Bound
<1>2. L \in Nat /\ query.prefix \in Key /\ \A i \in 1..L : files[i] \in Key
  BY ListingTypes
<1>3. m \in 0..L /\ \A i \in 1..m : Below(files[i])
  <2>1. \E x \in 0..L : /\ \A i \in 1..x : i \in {h \in 1..L : Below(files[h])}
                        /\ x < L => x + 1 \notin {h \in 1..L : Below(files[h])}
    BY <1>2, SplitPoint
  <2>2. \E x \in 0..L : (\A i \in 1..x : Below(files[i])) /\ (x < L => ~Below(files[x + 1]))
    <3>1. PICK x \in 0..L : /\ \A i \in 1..x : i \in {h \in 1..L : Below(files[h])}
                            /\ x < L => x + 1 \notin {h \in 1..L : Below(files[h])}
      BY <2>1
    <3>2. x < L => x + 1 \in 1..L
      BY <1>2
    <3> HIDE DEF Below
    <3> QED BY <3>1, <3>2
  <2>3. m = CHOOSE x \in 0..L : (\A i \in 1..x : Below(files[i])) /\ (x < L => ~Below(files[x + 1]))
    BY DEF PartitionPoint
  <2> HIDE DEF m, Below
  <2> QED BY <2>2, <2>3
<1>4. k \in 0..L /\ (\A i \in 1..k : Behind(files[i])) /\ (k < L => ~Behind(files[k + 1]))
  <2>1. \E x \in 0..L : /\ \A i \in 1..x : i \in {h \in 1..L : Behind(files[h])}
                        /\ x < L => x + 1 \notin {h \in 1..L : Behind(files[h])}
    BY <1>2, SplitPoint
  <2>2. \E x \in 0..L : (\A i \in 1..x : Behind(files[i])) /\ (x < L => ~Behind(files[x + 1]))
    <3>1. PICK x \in 0..L : /\ \A i \in 1..x : i \in {h \in 1..L : Behind(files[h])}
                            /\ x < L => x + 1 \notin {h \in 1..L : Behind(files[h])}
      BY <2>1
    <3>2. x < L => x + 1 \in 1..L
      BY <1>2
    <3> HIDE DEF Behind
    <3> QED BY <3>1, <3>2
  <2>3. k = CHOOSE x \in 0..L : (\A i \in 1..x : Behind(files[i])) /\ (x < L => ~Behind(files[x + 1]))
    BY DEF PartitionPoint
  <2> HIDE DEF k, Behind
  <2> QED BY <2>2, <2>3
<1>5. \A i, j \in 1..L : i < j => Before(files[i], files[j])
  BY DEF ListingInv
<1> HIDE DEF m, k
<1>6. n \in 0..L /\ (\A i \in 1..n : ~Past(files[i])) /\ (marker # NoMarker /\ n < L => Past(files[n + 1]))
  BY <1>2, <1>4
<1> HIDE DEF n
<1> QED BY <1>1, <1>2, <1>3, <1>5, <1>6, BoundIs


\* A sorted array of directories ascends by their output keys.
LEMMA DirsAscend ==
  ASSUME ListingInv, NEW i \in 1..Len(dirs), NEW j \in 1..Len(dirs), i < j
  PROVE  Before(Output(dirs[i]), Output(dirs[j]))
<1>1. dirs[i] \in Key /\ dirs[j] \in Key /\ Output(dirs[i]) \in Key /\ Output(dirs[j]) \in Key
  BY ListingTypes
<1>2. cmp_dir_keys(dirs[i], dirs[j]) = "Less"
  BY DEF ListingInv, DirBefore
<1>3. Cmp(Output(dirs[i]), Output(dirs[j])) = "Less"
  BY <1>1, <1>2, CmpDirKeysExact
<1> QED BY <1>1, <1>3, CmpIsOrder

LEMMA FirstDirIs ==
  ASSUME ListingInv, marker \in Key \cup {NoMarker}
  PROVE  /\ FirstDir \in 0..Len(dirs)
         /\ \A i \in 1..Len(dirs) :
              i <= FirstDir => ~(StartsWith(Output(dirs[i]), query.prefix) /\ Past(Output(dirs[i])))
         /\ \A i \in 1..Len(dirs) : i > FirstDir => Past(Output(dirs[i]))
<1> DEFINE L == Len(dirs)
           Below(d) == cmp_dir_output(d, query.prefix) = "Less"
           Behind(d) == cmp_dir_output(d, marker) # "Greater"
           m == PartitionPoint(dirs, Below)
           k == PartitionPoint(dirs, Behind)
           n == IF marker = NoMarker THEN 0 ELSE k
           o == [i \in 1..L |-> Output(dirs[i])]
<1>1. FirstDir = IF m >= n THEN m ELSE n
  BY DEF FirstDir, Bound
<1>2. L \in Nat /\ query.prefix \in Key /\ \A i \in 1..L : dirs[i] \in Key /\ Output(dirs[i]) \in Key
  BY ListingTypes
<1>3. m \in 0..L /\ \A i \in 1..m : Below(dirs[i])
  <2>1. \E x \in 0..L : /\ \A i \in 1..x : i \in {h \in 1..L : Below(dirs[h])}
                        /\ x < L => x + 1 \notin {h \in 1..L : Below(dirs[h])}
    BY <1>2, SplitPoint
  <2>2. \E x \in 0..L : (\A i \in 1..x : Below(dirs[i])) /\ (x < L => ~Below(dirs[x + 1]))
    <3>1. PICK x \in 0..L : /\ \A i \in 1..x : i \in {h \in 1..L : Below(dirs[h])}
                            /\ x < L => x + 1 \notin {h \in 1..L : Below(dirs[h])}
      BY <2>1
    <3>2. x < L => x + 1 \in 1..L
      BY <1>2
    <3> HIDE DEF Below
    <3> QED BY <3>1, <3>2
  <2>3. m = CHOOSE x \in 0..L : (\A i \in 1..x : Below(dirs[i])) /\ (x < L => ~Below(dirs[x + 1]))
    BY DEF PartitionPoint
  <2> HIDE DEF m, Below
  <2> QED BY <2>2, <2>3
<1>4. k \in 0..L /\ (\A i \in 1..k : Behind(dirs[i])) /\ (k < L => ~Behind(dirs[k + 1]))
  <2>1. \E x \in 0..L : /\ \A i \in 1..x : i \in {h \in 1..L : Behind(dirs[h])}
                        /\ x < L => x + 1 \notin {h \in 1..L : Behind(dirs[h])}
    BY <1>2, SplitPoint
  <2>2. \E x \in 0..L : (\A i \in 1..x : Behind(dirs[i])) /\ (x < L => ~Behind(dirs[x + 1]))
    <3>1. PICK x \in 0..L : /\ \A i \in 1..x : i \in {h \in 1..L : Behind(dirs[h])}
                            /\ x < L => x + 1 \notin {h \in 1..L : Behind(dirs[h])}
      BY <2>1
    <3>2. x < L => x + 1 \in 1..L
      BY <1>2
    <3> HIDE DEF Behind
    <3> QED BY <3>1, <3>2
  <2>3. k = CHOOSE x \in 0..L : (\A i \in 1..x : Behind(dirs[i])) /\ (x < L => ~Behind(dirs[x + 1]))
    BY DEF PartitionPoint
  <2> HIDE DEF k, Behind
  <2> QED BY <2>2, <2>3
<1>5. (\A i \in 1..L : o[i] = Output(dirs[i])) /\ (\A i \in 1..L : o[i] \in Key)
  BY <1>2
<1>6. \A i, j \in 1..L : i < j => Before(o[i], o[j])
  BY <1>5, DirsAscend
<1>7. \A i \in 1..L : Below(dirs[i]) => Before(o[i], query.prefix)
  <2> SUFFICES ASSUME NEW i \in 1..L, Below(dirs[i]) PROVE Before(Output(dirs[i]), query.prefix)
    BY <1>5
  <2>1. Cmp(Output(dirs[i]), query.prefix) = "Less"
    BY <1>2, CmpDirOutputExact
  <2> QED BY <1>2, <2>1, CmpIsOrder
<1>8. ASSUME marker # NoMarker PROVE \A i \in 1..L : Behind(dirs[i]) <=> ~Past(o[i])
  <2> SUFFICES ASSUME NEW i \in 1..L PROVE Behind(dirs[i]) <=> ~Past(Output(dirs[i]))
    BY <1>5
  <2>1. marker \in Key
    BY <1>8
  <2>2. Behind(dirs[i]) <=> Cmp(Output(dirs[i]), marker) # "Greater"
    BY <1>2, <2>1, CmpDirOutputExact
  <2>3. Cmp(Output(dirs[i]), marker) = "Greater" <=> Before(marker, Output(dirs[i]))
    BY <1>2, <2>1, CmpIsOrder
  <2> QED BY <1>8, <2>2, <2>3 DEF Past, After
<1> HIDE DEF m, k, o, Below, Behind
<1>9. \A i \in 1..m : i \in 1..L
  BY <1>2, <1>3
<1>10. \A i \in 1..m : Before(o[i], query.prefix)
  BY <1>3, <1>7, <1>9
<1>11. n \in 0..L /\ (\A i \in 1..n : ~Past(o[i])) /\ (marker # NoMarker /\ n < L => Past(o[n + 1]))
  <2>1. CASE marker = NoMarker
    BY <1>2, <2>1
  <2>2. CASE marker # NoMarker
    <3>1. n = k /\ (\A i \in 1..k : i \in 1..L) /\ (k < L => k + 1 \in 1..L)
      BY <1>2, <1>4, <2>2
    <3> QED BY <1>4, <1>8, <2>2, <3>1
  <2> QED BY <2>1, <2>2
<1> HIDE DEF n
<1>12. /\ FirstDir \in 0..L
       /\ \A i \in 1..L : i <= FirstDir => ~(StartsWith(o[i], query.prefix) /\ Past(o[i]))
       /\ \A i \in 1..L : i > FirstDir => Past(o[i])
  BY <1>1, <1>2, <1>3, <1>5, <1>6, <1>10, <1>11, BoundIs
<1> QED BY <1>5, <1>12

-----------------------------------------------------------------------------
(* The steps of a page.                                                    *)

\* What of the state paginate depends on.
LEMMA PaginateKept ==
  ASSUME UNCHANGED <<files, dirs, query, marker>>
  PROVE  /\ paginate(query)' = paginate(query)
         /\ \A k : Past(k)' <=> Past(k)
         /\ MatchF' = MatchF /\ MatchD' = MatchD
<1>1. \A k : Past(k)' <=> Past(k)
  BY DEF Past, After
<1>2. Elems(files)' = Elems(files) /\ Elems(dirs)' = Elems(dirs)
  BY DEF Elems
<1>3. Entries' = Entries
  BY <1>1, <1>2 DEF Entries
<1>4. Matching(query.prefix)' = Matching(query.prefix)
  BY <1>3 DEF Matching
<1>5. ContentsOf(query.prefix, query.delimiter)' = ContentsOf(query.prefix, query.delimiter)
  BY <1>4 DEF ContentsOf
<1>6. CollapsedFiles(query.prefix, query.delimiter)' = CollapsedFiles(query.prefix, query.delimiter)
  BY <1>4, <1>5 DEF CollapsedFiles
<1>7. CollapsedDirs(query.prefix)' = CollapsedDirs(query.prefix)
  BY <1>2 DEF CollapsedDirs
<1>8. CommonPrefixes(query.prefix, query.delimiter)' = CommonPrefixes(query.prefix, query.delimiter)
  BY <1>6, <1>7 DEF CommonPrefixes
<1>9. Outputs(query)' = Outputs(query)
  BY <1>1, <1>5, <1>8 DEF Outputs
<1>10. paginate(query)' = paginate(query)
  BY <1>5, <1>8, <1>9 DEF paginate, PageOf
<1>11. MatchF' = MatchF /\ MatchD' = MatchD
  BY DEF MatchF, MatchD
<1> QED BY <1>1, <1>10, <1>11

\* What every step but Receive keeps.
LEMMA PageStepKeeps ==
  ASSUME IInv, UNCHANGED <<files, dirs, query, marker, got, backwards>>,
         pc # "done", pc' \in {"merge", "page"}, page' \in Page, MergeInv', PageInv'
  PROVE  IInv'
<1>1. ListingInv /\ MarkerInv /\ ~backwards /\ GotInv
  BY DEF IInv
<1>2. ListingInv' /\ AllOutputs' = AllOutputs
  BY <1>1, ListingKept
<1>3. MarkerInv'
  BY <1>1 DEF MarkerInv
<1>4. \A k : (Past(k)' <=> Past(k)) /\ (After(query.first, k)' <=> After(query.first, k))
  BY DEF Past, After
<1>5. GotInv'
  <2>1. got' = {k \in AllOutputs : After(query.first, k) /\ ~Past(k)} /\ pc' # "done"
    BY <1>1 DEF GotInv
  <2> QED BY <1>2, <1>4, <2>1 DEF GotInv
<1> QED BY <1>1, <1>2, <1>3, <1>5 DEF IInv

LEMMA AskPaginateInv ==
  ASSUME IInv, AskPaginate
  PROVE  IInv'
<1>1. /\ UNCHANGED <<files, dirs, query, marker, got, backwards>>
      /\ pc = "ask" /\ pc' = "page" /\ page' = paginate(query)
  BY DEF AskPaginate
<1>2. page' \in Page
  BY <1>1, PageFacts DEF IInv, MarkerInv
<1>3. PageInv'
  BY <1>1, PaginateKept DEF PageInv
<1>4. MergeInv'
  BY <1>1 DEF MergeInv
<1> QED BY <1>1, <1>2, <1>3, <1>4, PageStepKeeps

LEMMA AskSlashInv ==
  ASSUME IInv, AskSlash
  PROVE  IInv'
<1>1. /\ UNCHANGED <<files, dirs, query, marker, got, backwards>>
      /\ pc = "ask" /\ query.delimiter = Slash /\ page' = EmptyPage
  BY DEF AskSlash
<1>2. ListingInv /\ marker \in Key \cup {NoMarker}
  BY DEF IInv, MarkerInv
<1>3. page' \in Page
  BY <1>1 DEF EmptyPage, Page
<1>4. CASE query.size = 0
  <2>1. pc' = "page"
    BY <1>4 DEF AskSlash
  <2>2. page' = paginate(query)
    BY <1>1, <1>4 DEF paginate, PageOf
  <2>3. PageInv'
    BY <1>1, <2>1, <2>2, PaginateKept DEF PageInv
  <2>4. MergeInv'
    BY <2>1 DEF MergeInv
  <2> QED BY <1>1, <1>3, <2>1, <2>3, <2>4, PageStepKeeps
<1>5. CASE query.size # 0
  <2>1. pc' = "merge" /\ fi' = FirstFile /\ di' = FirstDir
    BY <1>5 DEF AskSlash
  <2>2. PageInv'
    BY <2>1 DEF PageInv
  <2>3. {k \in MatchF : Past(k)} = LeftF'
    <3>1. LeftF' = {files[i] : i \in {i \in 1..Len(files) : i > FirstFile /\ StartsWith(files[i], query.prefix)}}
      BY <1>1, <2>1 DEF LeftF
    <3>2. \A i \in 1..Len(files) : StartsWith(files[i], query.prefix) => (Past(files[i]) <=> i > FirstFile)
      <4>1. FirstFile \in Nat /\ \A i \in 1..Len(files) : i > FirstFile \/ i <= FirstFile
        BY <1>2, FirstFileIs, ListingTypes
      <4> QED BY <1>2, <4>1, FirstFileIs
    <3> QED BY <3>1, <3>2 DEF MatchF
  <2>4. {k \in MatchD : Past(k)} = LeftD'
    <3>1. LeftD' = {Output(dirs[i]) :
                      i \in {i \in 1..Len(dirs) : i > FirstDir /\ StartsWith(Output(dirs[i]), query.prefix)}}
      BY <1>1, <2>1 DEF LeftD
    <3>2. \A i \in 1..Len(dirs) : StartsWith(Output(dirs[i]), query.prefix) =>
                                    (Past(Output(dirs[i])) <=> i > FirstDir)
      <4>1. FirstDir \in Nat /\ \A i \in 1..Len(dirs) : i > FirstDir \/ i <= FirstDir
        BY <1>2, FirstDirIs, ListingTypes
      <4> QED BY <1>2, <4>1, FirstDirIs
    <3> QED BY <3>1, <3>2 DEF MatchD
  <2>5. fi' \in 0..Len(files) /\ di' \in 0..Len(dirs)
    BY <1>2, <2>1, FirstFileIs, FirstDirIs
  <2>6. page'.contents = {} /\ page'.prefixes = {} /\ page'.truncated = FALSE
    BY <1>1 DEF EmptyPage
  <2>7. Keys(page)' = {} /\ Count(page)' = 0
    BY <2>6, FS_EmptySet DEF Keys, Count
  <2>8. query.size \in Nat
    BY <1>2, ListingTypes
  <2>9. MergeInv'
    BY <1>1, <1>5, <2>1, <2>3, <2>4, <2>5, <2>6, <2>7, <2>8, PaginateKept DEF MergeInv
  <2> QED BY <1>1, <1>3, <2>1, <2>2, <2>9, PageStepKeeps
<1> QED BY <1>4, <1>5


\* A step that only passes over what is not to be listed.
LEMMA SkipInv ==
  ASSUME IInv, pc = "merge", UNCHANGED <<files, dirs, query, marker, got, backwards, page, pc>>,
         fi' \in 0..Len(files), di' \in 0..Len(dirs), LeftF' = LeftF, LeftD' = LeftD
  PROVE  IInv'
<1>1. MergeInv /\ page \in Page
  BY DEF IInv
<1>2. Keys(page)' = Keys(page) /\ Count(page)' = Count(page)
  BY DEF Keys, Count
<1>3. MergeInv'
  <2>1. /\ query.delimiter = Slash /\ query.size # 0
        /\ page.contents \subseteq {k \in MatchF : Past(k)}
        /\ page.prefixes \subseteq {k \in MatchD : Past(k)}
        /\ {k \in MatchF : Past(k)} = page.contents \cup LeftF
        /\ {k \in MatchD : Past(k)} = page.prefixes \cup LeftD
        /\ \A k \in Keys(page), l \in LeftF \cup LeftD : Before(k, l)
        /\ Count(page) <= query.size
        /\ ~page.truncated
        /\ Keys(page) # {} => /\ page.token \in Keys(page)
                              /\ \A k \in Keys(page) : k = page.token \/ Before(k, page.token)
    BY <1>1 DEF MergeInv
  <2> QED BY <1>2, <2>1, PaginateKept DEF MergeInv
<1>4. PageInv'
  BY DEF PageInv
<1> QED BY <1>1, <1>3, <1>4, PageStepKeeps

LEMMA SkipFileInv ==
  ASSUME IInv, pc = "merge", SkipFile, UNCHANGED <<files, dirs, query, marker, got, backwards>>
  PROVE  IInv'
<1> DEFINE L == Len(files)
           x == files[fi + 1]
           P == query.prefix
<1>1. /\ ListingInv /\ fi \in 0..L /\ di \in 0..Len(dirs) /\ L \in Nat
      /\ P \in Key /\ \A i \in 1..L : files[i] \in Key
  BY ListingTypes DEF IInv, MergeInv
<1>2. /\ fi < L /\ ~StartsWith(x, P) /\ UNCHANGED <<di, page, pc>>
      /\ fi' = IF Before(P, x) THEN L ELSE fi + 1
  BY DEF SkipFile
<1>3. fi + 1 \in 1..L /\ fi' \in 0..L /\ fi' >= fi
  BY <1>1, <1>2
<1>4. LeftD' = LeftD
  BY <1>2 DEF LeftD
<1>5. \A i \in 1..L : i > fi /\ StartsWith(files[i], P) => i > fi'
  <2> SUFFICES ASSUME NEW i \in 1..L, i > fi, StartsWith(files[i], P), ~(i > fi') PROVE FALSE
    OBVIOUS
  <2>1. i # fi + 1
    BY <1>2
  <2>2. i > fi + 1
    BY <1>1, <2>1
  <2>3. Before(x, files[i])
    BY <1>1, <1>3, <2>2 DEF ListingInv
  <2>4. Before(P, x)
    BY <1>1, <1>2, <2>2
  <2> QED BY <1>1, <1>2, <1>3, <2>3, <2>4, AbovePrefix
<1>6. {i \in 1..L : i > fi /\ StartsWith(files[i], P)} = {i \in 1..L : i > fi' /\ StartsWith(files[i], P)}
  BY <1>1, <1>3, <1>5
<1>7. LeftF' = LeftF
  BY <1>6 DEF LeftF
<1>8. di' \in 0..Len(dirs)
  BY <1>1, <1>2
<1> QED BY <1>2, <1>3, <1>4, <1>7, <1>8, SkipInv

LEMMA SkipDirInv ==
  ASSUME IInv, pc = "merge", SkipDir, UNCHANGED <<files, dirs, query, marker, got, backwards>>
  PROVE  IInv'
<1> DEFINE L == Len(dirs)
           x == Output(dirs[di + 1])
           P == query.prefix
<1>1. /\ ListingInv /\ fi \in 0..Len(files) /\ di \in 0..L /\ L \in Nat
      /\ P \in Key /\ \A i \in 1..L : dirs[i] \in Key /\ Output(dirs[i]) \in Key
  BY ListingTypes DEF IInv, MergeInv
<1>2. /\ di < L /\ ~dir_output_starts_with(dirs[di + 1], P) /\ UNCHANGED <<fi, page, pc>>
      /\ di' = IF cmp_dir_output(dirs[di + 1], P) = "Greater" THEN L ELSE di + 1
  BY DEF SkipDir
<1>3. di + 1 \in 1..L /\ di' \in 0..L /\ di' >= di
  BY <1>1, <1>2
<1>a. dirs[di + 1] \in Key /\ x \in Key
  BY <1>1, <1>3
<1>b. ~StartsWith(x, P)
  BY <1>1, <1>2, <1>a, DirOutputPrefixExact
<1>c. cmp_dir_output(dirs[di + 1], P) = "Greater" => Before(P, x)
  BY <1>1, <1>a, CmpDirOutputExact, CmpIsOrder
<1>4. LeftF' = LeftF
  BY <1>2 DEF LeftF
<1>5. \A i \in 1..L : i > di /\ StartsWith(Output(dirs[i]), P) => i > di'
  <2> SUFFICES ASSUME NEW i \in 1..L, i > di, StartsWith(Output(dirs[i]), P), ~(i > di') PROVE FALSE
    OBVIOUS
  <2>1. i # di + 1
    BY <1>b
  <2>2. i > di + 1
    BY <1>1, <2>1
  <2>3. Before(x, Output(dirs[i]))
    BY <1>1, <1>3, <2>2, DirsAscend
  <2>4. Before(P, x)
    BY <1>1, <1>2, <1>c, <2>2
  <2> QED BY <1>1, <1>a, <1>b, <2>3, <2>4, AbovePrefix
<1>6. {i \in 1..L : i > di /\ StartsWith(Output(dirs[i]), P)}
        = {i \in 1..L : i > di' /\ StartsWith(Output(dirs[i]), P)}
  BY <1>1, <1>3, <1>5
<1>7. LeftD' = LeftD
  BY <1>6 DEF LeftD
<1>8. fi' \in 0..Len(files)
  BY <1>1, <1>2
<1> QED BY <1>2, <1>3, <1>4, <1>7, <1>8, SkipInv

\* The facts of the merge loop, together.
LEMMA MergeFacts ==
  ASSUME IInv, pc = "merge"
  PROVE  /\ ListingInv /\ marker \in Key \cup {NoMarker} /\ page \in Page
         /\ query.delimiter = Slash /\ query.size \in Nat \ {0}
         /\ MatchF \subseteq Key /\ MatchD \subseteq Key /\ MatchF \cap MatchD = {}
         /\ fi \in 0..Len(files) /\ di \in 0..Len(dirs)
         /\ page.contents \subseteq MatchF /\ page.prefixes \subseteq MatchD
         /\ LeftF \subseteq MatchF /\ LeftD \subseteq MatchD
         /\ IsFiniteSet(page.contents) /\ IsFiniteSet(page.prefixes)
         /\ IsFiniteSet(MatchF \cup MatchD)
         /\ Cardinality(page.contents) \in Nat /\ Cardinality(page.prefixes) \in Nat
         /\ Cardinality(Keys(page)) = Count(page)
<1>1. ListingInv /\ marker \in Key \cup {NoMarker} /\ page \in Page /\ MergeInv
  BY DEF IInv, MarkerInv
<1>2. /\ query.delimiter = Slash /\ query.size # 0
      /\ fi \in 0..Len(files) /\ di \in 0..Len(dirs)
      /\ page.contents \subseteq MatchF /\ page.prefixes \subseteq MatchD
      /\ LeftF \subseteq MatchF /\ LeftD \subseteq MatchD
  BY <1>1 DEF MergeInv
<1>3. query.size \in Nat \ {0}
  BY <1>1, <1>2, ListingTypes
<1>4. AllOutputs = MatchF \cup MatchD /\ MatchF \cap MatchD = {}
  BY <1>1, <1>2, SlashOutputs
<1>5. MatchF \cup MatchD \subseteq Key /\ IsFiniteSet(MatchF \cup MatchD)
  BY <1>1, <1>4, AllOutputsAre
<1>6. IsFiniteSet(page.contents) /\ IsFiniteSet(page.prefixes)
  <2>1. page.contents \subseteq MatchF \cup MatchD /\ page.prefixes \subseteq MatchF \cup MatchD
    BY <1>2
  <2> QED BY <1>5, <2>1, FS_Subset
<1>7. Cardinality(page.contents) \in Nat /\ Cardinality(page.prefixes) \in Nat
  BY <1>6, FS_CardinalityType
<1>8. page.contents \cap page.prefixes = {}
  BY <1>2, <1>4
<1>9. Cardinality(Keys(page)) = Count(page)
  <2>1. Cardinality(page.contents \cup page.prefixes)
          = Cardinality(page.contents) + Cardinality(page.prefixes)
            - Cardinality(page.contents \cap page.prefixes)
    BY <1>6, FS_Union
  <2>2. Cardinality(page.contents \cap page.prefixes) = 0
    BY <1>8, FS_EmptySet
  <2> QED BY <1>7, <2>1, <2>2 DEF Keys, Count
<1> QED BY <1>1, <1>2, <1>3, <1>4, <1>5, <1>6, <1>7, <1>9


\* One key more on the page: the first of the rest.
LEMMA TakeKeeps ==
  ASSUME IInv, pc = "merge", UNCHANGED <<files, dirs, query, marker, got, backwards, pc>>,
         fi' \in 0..Len(files), di' \in 0..Len(dirs), Count(page) < query.size,
         NEW z, z \in LeftF \cup LeftD, \A l \in LeftF' \cup LeftD' : Before(z, l),
         \/ /\ page' = [page EXCEPT !.contents = @ \cup {z}, !.token = z]
            /\ z \in LeftF /\ LeftF = LeftF' \cup {z} /\ LeftD' = LeftD
         \/ /\ page' = [page EXCEPT !.prefixes = @ \cup {z}, !.token = z]
            /\ z \in LeftD /\ LeftD = LeftD' \cup {z} /\ LeftF' = LeftF
  PROVE  IInv'
<1>1. /\ page \in Page /\ query.size \in Nat \ {0} /\ query.delimiter = Slash
      /\ MatchF \subseteq Key /\ MatchD \subseteq Key
      /\ LeftF \subseteq MatchF /\ LeftD \subseteq MatchD
      /\ IsFiniteSet(page.contents) /\ IsFiniteSet(page.prefixes)
      /\ Cardinality(page.contents) \in Nat /\ Cardinality(page.prefixes) \in Nat
  BY MergeFacts
<1>2. z \in Key
  BY <1>1
<1> DEFINE c == page.contents
           x == page.prefixes
<1>3. /\ c \in SUBSET Key /\ x \in SUBSET Key /\ page.truncated \in BOOLEAN
      /\ page = [contents |-> c, prefixes |-> x, truncated |-> page.truncated, token |-> page.token]
  BY <1>1 DEF Page
<1>4. /\ page' \in Page /\ page'.token = z /\ page'.truncated = page.truncated
      /\ \/ page'.contents = c \cup {z} /\ page'.prefixes = x
         \/ page'.prefixes = x \cup {z} /\ page'.contents = c
  <2>1. CASE page' = [page EXCEPT !.contents = @ \cup {z}, !.token = z]
    <3>1. page' = [contents |-> c \cup {z}, prefixes |-> x, truncated |-> page.truncated, token |-> z]
      BY <1>3, <2>1
    <3> QED BY <1>2, <1>3, <3>1 DEF Page
  <2>2. CASE page' = [page EXCEPT !.prefixes = @ \cup {z}, !.token = z]
    <3>1. page' = [contents |-> c, prefixes |-> x \cup {z}, truncated |-> page.truncated, token |-> z]
      BY <1>3, <2>2
    <3> QED BY <1>2, <1>3, <3>1 DEF Page
  <2> QED BY <2>1, <2>2
<1>5. \/ page'.contents = c \cup {z} /\ page'.prefixes = x
           /\ z \in LeftF /\ LeftF = LeftF' \cup {z} /\ LeftD' = LeftD
      \/ page'.prefixes = x \cup {z} /\ page'.contents = c
           /\ z \in LeftD /\ LeftD = LeftD' \cup {z} /\ LeftF' = LeftF
  <2>1. CASE page' = [page EXCEPT !.contents = @ \cup {z}, !.token = z]
               /\ z \in LeftF /\ LeftF = LeftF' \cup {z} /\ LeftD' = LeftD
    <3>1. page' = [contents |-> c \cup {z}, prefixes |-> x, truncated |-> page.truncated, token |-> z]
      BY <1>3, <2>1
    <3> QED BY <2>1, <3>1
  <2>2. CASE page' = [page EXCEPT !.prefixes = @ \cup {z}, !.token = z]
               /\ z \in LeftD /\ LeftD = LeftD' \cup {z} /\ LeftF' = LeftF
    <3>1. page' = [contents |-> c, prefixes |-> x \cup {z}, truncated |-> page.truncated, token |-> z]
      BY <1>3, <2>2
    <3> QED BY <2>2, <3>1
  <2> QED BY <2>1, <2>2
<1>6. Keys(page)' = Keys(page) \cup {z}
  BY <1>5 DEF Keys
<1>7. Count(page)' <= query.size
  <2> DEFINE a == Cardinality(c)
             b == Cardinality(x)
  <2>1. /\ Cardinality(c \cup {z}) = a \/ Cardinality(c \cup {z}) = a + 1
        /\ Cardinality(x \cup {z}) = b \/ Cardinality(x \cup {z}) = b + 1
    BY <1>1, FS_AddElement
  <2>2. a + b < query.size /\ a \in Nat /\ b \in Nat
    BY <1>1 DEF Count
  <2>3. Count(page)' = Cardinality(page'.contents) + Cardinality(page'.prefixes)
    BY DEF Count
  <2>4. \/ Cardinality(page'.contents) \in {a, a + 1} /\ Cardinality(page'.prefixes) = b
        \/ Cardinality(page'.prefixes) \in {b, b + 1} /\ Cardinality(page'.contents) = a
    BY <1>5, <2>1
  <2> HIDE DEF a, b
  <2> QED BY <1>1, <2>2, <2>3, <2>4
<1>8. /\ c \subseteq {k \in MatchF : Past(k)}
      /\ x \subseteq {k \in MatchD : Past(k)}
      /\ {k \in MatchF : Past(k)} = c \cup LeftF
      /\ {k \in MatchD : Past(k)} = x \cup LeftD
      /\ \A k \in Keys(page), l \in LeftF \cup LeftD : Before(k, l)
      /\ ~page.truncated
  BY DEF IInv, MergeInv
<1>9. LeftF' \cup LeftD' \subseteq LeftF \cup LeftD
  BY <1>5
<1>10. \A k \in Keys(page), l \in LeftF \cup LeftD : Before(k, l)
  BY <1>8
<1>11. \A k \in Keys(page) \cup {z}, l \in LeftF' \cup LeftD' : Before(k, l)
  BY <1>9, <1>10
<1>12. \A k \in Keys(page) \cup {z} : k = z \/ Before(k, z)
  BY <1>10
<1> DEFINE A == {k \in MatchF : Past(k)}
           B == {k \in MatchD : Past(k)}
<1>13. A' = A /\ B' = B
  BY PaginateKept
<1>14. /\ page'.contents \subseteq A /\ page'.prefixes \subseteq B
       /\ A = page'.contents \cup LeftF' /\ B = page'.prefixes \cup LeftD'
  <2>1. c \subseteq A /\ x \subseteq B /\ A = c \cup LeftF /\ B = x \cup LeftD
    BY <1>8
  <2> HIDE DEF A, B, c, x
  <2> QED BY <1>5, <2>1
<1>15. MergeInv'
  <2>1. /\ query'.delimiter = Slash /\ query'.size # 0
        /\ fi' \in 0..Len(files') /\ di' \in 0..Len(dirs')
    BY <1>1
  <2>2. page'.contents \subseteq A' /\ page'.prefixes \subseteq B'
    BY <1>13, <1>14
  <2>3. A' = page'.contents \cup LeftF' /\ B' = page'.prefixes \cup LeftD'
    BY <1>13, <1>14
  <2>4. \A k \in Keys(page)', l \in LeftF' \cup LeftD' : Before(k, l)
    BY <1>6, <1>11
  <2>5. /\ page'.token \in Keys(page)'
        /\ \A k \in Keys(page)' : k = page'.token \/ Before(k, page'.token)
    BY <1>4, <1>6, <1>12
  <2>6. ~page'.truncated
    BY <1>4, <1>8
  <2> QED BY <1>7, <2>1, <2>2, <2>3, <2>4, <2>5, <2>6 DEF MergeInv
<1>16. PageInv'
  BY DEF PageInv
<1> QED BY <1>4, <1>15, <1>16, PageStepKeeps

LEMMA TakeInv ==
  ASSUME IInv, pc = "merge", Take, UNCHANGED <<files, dirs, query, marker, got, backwards>>
  PROVE  IInv'
<1> DEFINE L == Len(files)
           M == Len(dirs)
           P == query.prefix
           f == files[fi + 1]
           d == Output(dirs[di + 1])
<1>1. /\ ListingInv /\ query.delimiter = Slash /\ fi \in 0..L /\ di \in 0..M
      /\ MatchF \cap MatchD = {}
  BY MergeFacts
<1>2. /\ L \in Nat /\ M \in Nat /\ P \in Key
      /\ \A i \in 1..L : files[i] \in Key
      /\ \A i \in 1..M : dirs[i] \in Key /\ Output(dirs[i]) \in Key
  BY <1>1, ListingTypes
<1>3. /\ FileReady /\ DirReady /\ (fi < L \/ di < M) /\ Count(page) < query.size /\ UNCHANGED pc
      /\ \/ TakeFile /\ page' = [page EXCEPT !.contents = @ \cup {f}, !.token = f]
            /\ fi' = fi + 1 /\ di' = di
         \/ ~TakeFile /\ page' = [page EXCEPT !.prefixes = @ \cup {d}, !.token = d]
            /\ di' = di + 1 /\ fi' = fi
  BY DEF Take
<1>4. fi < L => fi + 1 \in 1..L /\ f \in Key /\ StartsWith(f, P) /\ f \in LeftF /\ f \in MatchF
  <2> SUFFICES ASSUME fi < L
               PROVE  fi + 1 \in 1..L /\ f \in Key /\ StartsWith(f, P) /\ f \in LeftF /\ f \in MatchF
    OBVIOUS
  <2>1. fi + 1 \in 1..L /\ fi + 1 > fi
    BY <1>1, <1>2
  <2>2. StartsWith(f, P)
    BY <1>3 DEF FileReady
  <2> QED BY <1>2, <2>1, <2>2 DEF LeftF, MatchF
<1>5. di < M => di + 1 \in 1..M /\ dirs[di + 1] \in Key /\ d \in Key /\ StartsWith(d, P)
                  /\ d \in LeftD /\ d \in MatchD
  <2> SUFFICES ASSUME di < M
               PROVE  di + 1 \in 1..M /\ dirs[di + 1] \in Key /\ d \in Key /\ StartsWith(d, P)
                        /\ d \in LeftD /\ d \in MatchD
    OBVIOUS
  <2>1. di + 1 \in 1..M /\ di + 1 > di
    BY <1>1, <1>2
  <2>2. dirs[di + 1] \in Key /\ d \in Key
    BY <1>2, <2>1
  <2>3. StartsWith(d, P)
    BY <1>2, <1>3, <2>2, DirOutputPrefixExact DEF DirReady
  <2> QED BY <2>1, <2>2, <2>3 DEF LeftD, MatchD
<1>6. \A l \in LeftF : fi < L /\ (l = f \/ Before(f, l)) /\ l \in Key
  <2> SUFFICES ASSUME NEW i \in 1..L, i > fi PROVE fi < L /\ (files[i] = f \/ Before(f, files[i]))
    BY <1>2 DEF LeftF
  <2>1. fi < L /\ fi + 1 \in 1..L /\ (i = fi + 1 \/ fi + 1 < i)
    BY <1>1, <1>2
  <2> QED BY <1>1, <2>1 DEF ListingInv
<1>7. \A l \in LeftD : di < M /\ (l = d \/ Before(d, l)) /\ l \in Key
  <2> SUFFICES ASSUME NEW i \in 1..M, i > di PROVE di < M /\ (Output(dirs[i]) = d \/ Before(d, Output(dirs[i])))
    BY <1>2 DEF LeftD
  <2>1. di < M /\ di + 1 \in 1..M /\ (i = di + 1 \/ di + 1 < i)
    BY <1>1, <1>2
  <2> QED BY <1>1, <2>1, DirsAscend
<1>8. CASE TakeFile /\ page' = [page EXCEPT !.contents = @ \cup {f}, !.token = f]
             /\ fi' = fi + 1 /\ di' = di
  <2>1. fi < L
    BY <1>1, <1>2, <1>3, <1>8 DEF TakeFile
  <2>2. LeftD' = LeftD
    BY <1>8 DEF LeftD
  <2>3. LeftF' = {files[i] : i \in {i \in 1..L : i > fi + 1 /\ StartsWith(files[i], P)}}
    BY <1>8 DEF LeftF
  <2>4. LeftF = LeftF' \cup {f}
    <3>1. {i \in 1..L : i > fi /\ StartsWith(files[i], P)}
            = {i \in 1..L : i > fi + 1 /\ StartsWith(files[i], P)} \cup {fi + 1}
      BY <1>1, <1>2, <1>4, <2>1
    <3> QED BY <2>3, <3>1 DEF LeftF
  <2>5. \A l \in LeftF' : Before(f, l)
    <3> SUFFICES ASSUME NEW i \in 1..L, i > fi + 1 PROVE Before(f, files[i])
      BY <2>3
    <3>1. fi + 1 < i /\ fi + 1 \in 1..L
      BY <1>1, <1>4, <2>1
    <3> QED BY <1>1, <3>1 DEF ListingInv
  <2>6. \A l \in LeftD : Before(f, l)
    <3> SUFFICES ASSUME NEW l \in LeftD PROVE Before(f, l)
      OBVIOUS
    <3>1. di < M /\ (l = d \/ Before(d, l)) /\ l \in Key
      BY <1>7
    <3>2. cmp_dir_output(dirs[di + 1], f) = "Greater"
      BY <1>1, <1>2, <1>8, <3>1 DEF TakeFile
    <3>3. Before(f, d)
      BY <1>4, <1>5, <2>1, <3>1, <3>2, CmpDirOutputExact, CmpIsOrder
    <3> QED BY <1>4, <1>5, <2>1, <3>1, <3>3, BeforeTransitive
  <2>7. fi' \in 0..L /\ di' \in 0..M
    BY <1>1, <1>2, <1>8, <2>1
  <2>8. f \in LeftF
    BY <1>4, <2>1
  <2> HIDE DEF f
  <2> QED BY <1>3, <1>8, <2>2, <2>4, <2>5, <2>6, <2>7, <2>8, TakeKeeps
<1>9. CASE ~TakeFile /\ page' = [page EXCEPT !.prefixes = @ \cup {d}, !.token = d]
             /\ di' = di + 1 /\ fi' = fi
  <2>1. di < M
    BY <1>1, <1>2, <1>3, <1>9 DEF TakeFile
  <2>2. LeftF' = LeftF
    BY <1>9 DEF LeftF
  <2>3. LeftD' = {Output(dirs[i]) : i \in {i \in 1..M : i > di + 1 /\ StartsWith(Output(dirs[i]), P)}}
    BY <1>9 DEF LeftD
  <2>4. LeftD = LeftD' \cup {d}
    <3>1. {i \in 1..M : i > di /\ StartsWith(Output(dirs[i]), P)}
            = {i \in 1..M : i > di + 1 /\ StartsWith(Output(dirs[i]), P)} \cup {di + 1}
      BY <1>1, <1>2, <1>5, <2>1
    <3> QED BY <2>3, <3>1 DEF LeftD
  <2>5. \A l \in LeftD' : Before(d, l)
    <3> SUFFICES ASSUME NEW i \in 1..M, i > di + 1 PROVE Before(d, Output(dirs[i]))
      BY <2>3
    <3>1. di + 1 < i /\ di + 1 \in 1..M
      BY <1>1, <1>5, <2>1
    <3> QED BY <1>1, <3>1, DirsAscend
  <2>6. \A l \in LeftF : Before(d, l)
    <3> SUFFICES ASSUME NEW l \in LeftF PROVE Before(d, l)
      OBVIOUS
    <3>1. fi < L /\ (l = f \/ Before(f, l)) /\ l \in Key
      BY <1>6
    <3>2. cmp_dir_output(dirs[di + 1], f) # "Greater"
      BY <1>9, <3>1 DEF TakeFile
    <3>3. ~Before(f, d)
      BY <1>4, <1>5, <2>1, <3>1, <3>2, CmpDirOutputExact, CmpIsOrder
    <3>4. d # f
      BY <1>1, <1>4, <1>5, <2>1, <3>1
    <3>5. Before(d, f)
      BY <1>4, <1>5, <2>1, <3>1, <3>3, <3>4, BeforeTotal
    <3> QED BY <1>4, <1>5, <2>1, <3>1, <3>5, BeforeTransitive
  <2>7. fi' \in 0..L /\ di' \in 0..M
    BY <1>1, <1>2, <1>9, <2>1
  <2>8. d \in LeftD
    BY <1>5, <2>1
  <2> HIDE DEF d
  <2> QED BY <1>3, <1>9, <2>2, <2>4, <2>5, <2>6, <2>7, <2>8, TakeKeeps
<1> QED BY <1>3, <1>8, <1>9


\* Where the loop ends, the page is paginate's.
LEMMA LeaveInv ==
  ASSUME IInv, pc = "merge", Leave, UNCHANGED <<files, dirs, query, marker, got, backwards>>
  PROVE  IInv'
<1> DEFINE T == Keys(page)
           R == LeftF \cup LeftD
           out == Outputs(query)
           c == page.contents
           x == page.prefixes
           t == LeaveTruncated
<1>1. /\ ListingInv /\ marker \in Key \cup {NoMarker} /\ page \in Page
      /\ query.delimiter = Slash /\ query.size \in Nat \ {0}
      /\ MatchF \subseteq Key /\ MatchD \subseteq Key /\ MatchF \cap MatchD = {}
      /\ fi \in 0..Len(files) /\ di \in 0..Len(dirs)
      /\ c \subseteq MatchF /\ x \subseteq MatchD
      /\ IsFiniteSet(MatchF \cup MatchD) /\ Cardinality(T) = Count(page)
  BY MergeFacts
<1>2. /\ {k \in MatchF : Past(k)} = c \cup LeftF
      /\ {k \in MatchD : Past(k)} = x \cup LeftD
      /\ \A k \in T, l \in R : Before(k, l)
      /\ Count(page) <= query.size
      /\ ~page.truncated
      /\ T # {} => page.token \in T /\ \A k \in T : k = page.token \/ Before(k, page.token)
  BY DEF IInv, MergeInv
<1>3. Len(files) \in Nat /\ Len(dirs) \in Nat /\ \A i \in 1..Len(dirs) : dirs[i] \in Key
  BY <1>1, ListingTypes
<1>4. /\ FileReady /\ DirReady
      /\ (fi = Len(files) /\ di = Len(dirs)) \/ Count(page) = query.size
      /\ page' = [page EXCEPT !.truncated = t, !.token = IF t THEN @ ELSE NoMarker]
      /\ pc' = "page"
  BY DEF Leave
<1>5. t <=> R # {}
  <2>1. ASSUME fi < Len(files) PROVE R # {}
    <3>1. fi + 1 \in 1..Len(files) /\ fi + 1 > fi
      BY <1>1, <1>3, <2>1
    <3>2. files[fi + 1] \in LeftF
      BY <1>4, <2>1, <3>1 DEF LeftF, FileReady
    <3> QED BY <3>2
  <2>2. ASSUME di < Len(dirs) PROVE R # {}
    <3>1. di + 1 \in 1..Len(dirs) /\ di + 1 > di
      BY <1>1, <1>3, <2>2
    <3>2. query.prefix \in Key
      BY <1>1, ListingTypes
    <3>3. StartsWith(Output(dirs[di + 1]), query.prefix)
      BY <1>3, <1>4, <2>2, <3>1, <3>2, DirOutputPrefixExact DEF DirReady
    <3>4. Output(dirs[di + 1]) \in LeftD
      BY <3>1, <3>3 DEF LeftD
    <3> QED BY <3>4
  <2>3. ASSUME ~(fi < Len(files)), ~(di < Len(dirs)) PROVE R = {}
    <3>1. LeftF = {}
      BY <1>1, <1>3, <2>3 DEF LeftF
    <3>2. LeftD = {}
      BY <1>1, <1>3, <2>3 DEF LeftD
    <3> QED BY <3>1, <3>2
  <2> QED BY <2>1, <2>2, <2>3 DEF LeaveTruncated
<1>6. R # {} => Count(page) = query.size
  <2> SUFFICES ASSUME R # {} PROVE Count(page) = query.size
    OBVIOUS
  <2>1. fi < Len(files) \/ di < Len(dirs)
    BY <1>5 DEF LeaveTruncated
  <2> QED BY <1>1, <1>3, <1>4, <2>1
<1>7. out = T \cup R
  <2>1. out = {k \in AllOutputs : Past(k)} /\ AllOutputs = MatchF \cup MatchD
    BY <1>1, OutputsAre, SlashOutputs
  <2> QED BY <1>2, <2>1 DEF Keys
<1>8. out \subseteq Key /\ IsFiniteSet(out)
  BY <1>1, OutputsAre
<1>9. Smallest(out, query.size) = T
  <2>1. query.size \in Nat /\ Cardinality(T) <= query.size /\ (R # {} => Cardinality(T) = query.size)
    BY <1>1, <1>2, <1>6
  <2> HIDE DEF T, R, out
  <2> QED BY <1>2, <1>7, <1>8, <2>1, SmallestIs
<1>10. T # out <=> R # {}
  <2>1. T \cap R = {}
    BY <1>2, <1>7, <1>8, BeforeIrreflexive
  <2> HIDE DEF T, R, out
  <2> QED BY <1>7, <2>1
<1>11. R # {} => Greatest(T) = page.token
  <2> SUFFICES ASSUME R # {} PROVE Greatest(T) = page.token
    OBVIOUS
  <2>1. Cardinality(T) # 0
    BY <1>1, <1>6
  <2>2. T # {}
    BY <2>1, FS_EmptySet
  <2>3. T \subseteq Key
    BY <1>7, <1>8
  <2> HIDE DEF T
  <2> QED BY <1>2, <2>2, <2>3, GreatestIs
<1>12. T \cap MatchF = c /\ T \cap MatchD = x
  BY <1>1 DEF Keys
<1>13. paginate(query) = [contents |-> c, prefixes |-> x, truncated |-> t,
                          token |-> IF t THEN page.token ELSE NoMarker]
  <2>1. ContentsOf(query.prefix, query.delimiter) = MatchF /\ CommonPrefixes(query.prefix, query.delimiter) = MatchD
    BY <1>1, SlashOutputs
  <2>2. query.size # 0
    BY <1>1
  <2>3. paginate(query) =
          [contents |-> T \cap MatchF, prefixes |-> T \cap MatchD, truncated |-> T # out,
           token |-> IF T # out THEN Greatest(T) ELSE NoMarker]
    BY <1>9, <2>1, <2>2 DEF paginate, PageOf
  <2>4. (T # out) = t
    BY <1>5, <1>10 DEF LeaveTruncated
  <2>5. (IF T # out THEN Greatest(T) ELSE NoMarker) = (IF t THEN page.token ELSE NoMarker)
    BY <1>5, <1>10, <1>11
  <2> HIDE DEF T, R, out, c, x, t
  <2> QED BY <1>12, <2>3, <2>4, <2>5
<1>14. page' = paginate(query)
  <2>1. page = [contents |-> c, prefixes |-> x, truncated |-> page.truncated, token |-> page.token]
    BY <1>1 DEF Page
  <2>2. page' = [contents |-> c, prefixes |-> x, truncated |-> t,
                 token |-> IF t THEN page.token ELSE NoMarker]
    BY <1>4, <2>1
  <2> QED BY <1>13, <2>2
<1>15. page' \in Page
  BY <1>1, <1>14, PageFacts
<1>16. PageInv'
  BY <1>14, PaginateKept DEF PageInv
<1>17. MergeInv'
  BY <1>4 DEF MergeInv
<1> QED BY <1>4, <1>15, <1>16, <1>17, PageStepKeeps

LEMMA StutterInv ==
  ASSUME IInv, UNCHANGED vars
  PROVE  IInv'
<1>1. /\ UNCHANGED <<files, dirs, query, marker>> /\ UNCHANGED <<pc, fi, di>>
      /\ UNCHANGED <<page, got, backwards>>
  BY DEF vars
<1>2. ListingInv' /\ AllOutputs' = AllOutputs
  BY <1>1, ListingKept DEF IInv
<1>3. MarkerInv'
  BY <1>1 DEF IInv, MarkerInv
<1>4. PageInv'
  BY <1>1, PaginateKept DEF IInv, PageInv
<1>5. \A k : (Past(k)' <=> Past(k)) /\ (After(query.first, k)' <=> After(query.first, k))
  BY <1>1 DEF Past, After
<1>6. GotInv'
  BY <1>1, <1>2, <1>5 DEF IInv, GotInv
<1>7. MergeInv'
  <2>1. LeftF' = LeftF /\ LeftD' = LeftD
    BY <1>1 DEF LeftF, LeftD
  <2>2. Keys(page)' = Keys(page) /\ Count(page)' = Count(page)
    BY <1>1 DEF Keys, Count
  <2>3. MergeInv
    BY DEF IInv
  <2> QED BY <1>1, <2>1, <2>2, <2>3, PaginateKept DEF MergeInv
<1> QED BY <1>1, <1>2, <1>3, <1>4, <1>6, <1>7 DEF IInv

-----------------------------------------------------------------------------
(* The theorems.                                                           *)

\* The inductive invariant holds throughout: the merge loop keeps page and rest
\* apart and in order, and the client has what sorts up to the marker.
THEOREM ListingInvariance == Spec => []IInv
<1>1. Init => IInv
  BY InitInv
<1>2. IInv /\ [Next]_vars => IInv'
  <2> SUFFICES ASSUME IInv, [Next]_vars PROVE IInv'
    OBVIOUS
  <2>1. CASE AskPaginate
    BY <2>1, AskPaginateInv
  <2>2. CASE AskSlash
    BY <2>2, AskSlashInv
  <2>3. CASE MergeStep
    <3>1. pc = "merge" /\ UNCHANGED <<files, dirs, query, marker, got, backwards>>
      BY <2>3 DEF MergeStep
    <3>2. CASE SkipFile
      BY <3>1, <3>2, SkipFileInv
    <3>3. CASE SkipDir
      BY <3>1, <3>3, SkipDirInv
    <3>4. CASE Take
      BY <3>1, <3>4, TakeInv
    <3>5. CASE Leave
      BY <3>1, <3>5, LeaveInv
    <3> QED BY <2>3, <3>2, <3>3, <3>4, <3>5 DEF MergeStep
  <2>4. CASE Receive
    BY <2>4, ReceiveInv
  <2>5. CASE UNCHANGED vars
    BY <2>5, StutterInv
  <2> QED BY <2>1, <2>2, <2>3, <2>4, <2>5 DEF Next
<1> QED BY <1>1, <1>2, PTL DEF Spec

\* paginate_slash is equivalent to paginate with the delimiter "/": contents, common
\* prefixes, truncation and token of every page.
THEOREM SlashIsPaginate == Spec => []SlashAgrees
<1>1. IInv => SlashAgrees
  BY DEF IInv, PageInv, SlashAgrees
<1> QED BY <1>1, ListingInvariance, PTL

\* Following the tokens of list_objects_v2 delivers every content and every common
\* prefix past start_after exactly once and in order, wherever the pages are cut, and
\* a truncated page has a token.
THEOREM PagesPartition == Spec => []PagesPartitionTheListing
<1>1. IInv => PagesPartitionTheListing
  <2> SUFFICES ASSUME IInv PROVE PagesPartitionTheListing
    OBVIOUS
  <2>1. /\ ListingInv /\ marker \in Key \cup {NoMarker} /\ ~backwards
        /\ pc = "done" /\ query.size > 0 => got = {k \in AllOutputs : After(query.first, k)}
    BY DEF IInv, MarkerInv, GotInv
  <2>2. ASSUME pc = "page", page.truncated PROVE page.token # NoMarker
    <3> DEFINE out == Outputs(query)
               K   == Smallest(out, query.size)
    <3>1. page = paginate(query)
      BY <2>2 DEF IInv, PageInv
    <3>2. query.size # 0 /\ K # out /\ page.token = Greatest(K) /\ K \subseteq out
            /\ out \subseteq Key /\ IsFiniteSet(K) /\ (out # {} => K # {})
      BY <2>1, <2>2, <3>1, PageFacts
    <3>3. Greatest(K) \in Key
      BY <3>2, GreatestOf
    <3> QED BY <3>2, <3>3, PaginateAssumption
  <2> QED BY <2>1, <2>2 DEF PagesPartitionTheListing
<1> QED BY <1>1, ListingInvariance, PTL

\* The comparisons that do not build the output keys (cmp_dir_output, cmp_dir_keys,
\* cmp_file_dir, dir_output_starts_with) agree with those that do, on every listing
\* and marker the client meets.
THEOREM ComparisonsHold == Spec => []ComparisonsExact
<1>1. IInv => ComparisonsExact
  <2> SUFFICES ASSUME IInv PROVE ComparisonsExact
    OBVIOUS
  <2>1. Elems(dirs) \subseteq Key /\ (marker # NoMarker => marker \in Key)
    BY ListingTypes DEF IInv, MarkerInv
  <2>2. ASSUME NEW d \in Elems(dirs), marker # NoMarker
        PROVE  /\ cmp_dir_output(d, marker) = Cmp(Output(d), marker)
               /\ cmp_file_dir(marker, d) = Cmp(marker, Output(d))
               /\ dir_output_starts_with(d, marker) <=> StartsWith(Output(d), marker)
    BY <2>1, <2>2, CmpDirOutputExact, CmpFileDirExact, DirOutputPrefixExact
  <2>3. \A d, e \in Elems(dirs) : cmp_dir_keys(d, e) = Cmp(Output(d), Output(e))
    BY <2>1, CmpDirKeysExact
  <2> QED BY <2>2, <2>3 DEF ComparisonsExact
<1> QED BY <1>1, ListingInvariance, PTL

\* None of the directories of one listing is inside another.
LEMMA DirsApart ==
  ASSUME ListingInv, NEW i \in 1..Len(dirs), NEW j \in 1..Len(dirs), i # j
  PROVE  ~StartsWith(Output(dirs[j]), Output(dirs[i]))
<1> DEFINE a == dirs[i]
           b == dirs[j]
           v == Output(a)
           w == Output(b)
           s == ListStart(query.prefix)
<1> SUFFICES ASSUME StartsWith(w, v) PROVE FALSE
  OBVIOUS
<1>1. a \in Key /\ b \in Key /\ Len(a) \in Nat /\ Len(b) \in Nat /\ query.prefix \in Key
  BY ListingTypes, KeyType
<1>2. s \in Key /\ Len(s) \in Nat
  BY <1>1, ListStartIs
<1>3. /\ Len(a) > Len(s) /\ Len(b) > Len(s)
      /\ Find(b, Slash, Len(s) + 1) = 0
  BY DEF ListingInv, InScope, DirectChild
<1> HIDE DEF s
<1>4. \A k \in (Len(s) + 1)..Len(b) : b[k] # Slash
  <2>1. Len(s) + 1 \in Nat \ {0} /\ 0 \notin (Len(s) + 1)..Len(b)
    BY <1>2
  <2> HIDE DEF b
  <2> QED BY <1>1, <1>3, <2>1, FindFirst
<1>5. /\ v \in Key /\ Len(v) = Len(a) + 1 /\ (\A k \in 1..Len(a) : v[k] = a[k]) /\ v[Len(a) + 1] = Slash
      /\ w \in Key /\ Len(w) = Len(b) + 1 /\ (\A k \in 1..Len(b) : w[k] = b[k]) /\ w[Len(b) + 1] = Slash
  BY <1>1, OutputKey
<1>6. v # w
  <2>1. CASE i < j
    BY <1>5, <2>1, DirsAscend, BeforeIrreflexive
  <2>2. CASE j < i
    BY <1>5, <2>2, DirsAscend, BeforeIrreflexive
  <2>3. i < j \/ j < i
    BY ListingTypes
  <2> QED BY <2>1, <2>2, <2>3
<1> HIDE DEF a, b, v, w
<1>7. Len(a) <= Len(b) /\ \A k \in 1..Len(v) : w[k] = v[k]
  BY <1>1, <1>5 DEF StartsWith
<1>8. CASE Len(a) = Len(b)
  <2>1. v = w
    BY <1>5, <1>7, <1>8, SeqEqual DEF Key
  <2> QED BY <1>6, <2>1
<1>9. CASE Len(a) < Len(b)
  <2>1. Len(a) + 1 \in (Len(s) + 1)..Len(b) /\ Len(a) + 1 \in 1..Len(v) /\ Len(a) + 1 \in 1..Len(b)
    BY <1>1, <1>2, <1>3, <1>5, <1>9
  <2>2. b[Len(a) + 1] = Slash
    BY <1>5, <1>7, <2>1
  <2> QED BY <1>4, <2>1, <2>2
<1> QED BY <1>1, <1>7, <1>8, <1>9

\* Pruning after a marker loses nothing and keeps nothing that is behind: a directory
\* goes exactly if all it may hold sorts before the marker and the marker is not inside
\* it, and dirs_start_after passes over exactly those of a sorted array.
THEOREM PruningHolds == Spec => []PruningIsExact
<1>1. IInv => PruningIsExact
  <2> SUFFICES ASSUME IInv, marker # NoMarker
               PROVE  /\ \A d \in Elems(dirs) :
                           dir_children_all_before(d, marker)
                             <=> /\ ~StartsWith(marker, Output(d))
                                 /\ \A n \in FileKeys \cup {<<>>} : Before(Output(d) \o n, marker)
                      /\ \A i \in 1..Len(dirs) :
                           i <= dirs_start_after(dirs, marker)
                             <=> dir_children_all_before(dirs[i], marker)
    BY DEF PruningIsExact
  <2>1. ListingInv /\ marker \in Key /\ Elems(dirs) \subseteq Key /\ dirs \in Seq(Key)
    BY ListingTypes DEF IInv, MarkerInv, ListingInv
  <2>2. ASSUME NEW d \in Elems(dirs)
        PROVE  dir_children_all_before(d, marker)
                 <=> /\ ~StartsWith(marker, Output(d))
                     /\ \A n \in FileKeys \cup {<<>>} : Before(Output(d) \o n, marker)
    <3>1. FileKeys \cup {<<>>} \subseteq Key /\ <<>> \in FileKeys \cup {<<>>}
      <4>1. <<>> \in Key
        BY DEF Key
      <4>2. FileKeys \subseteq Key
        BY PaginateAssumption
      <4> QED BY <4>1, <4>2
    <3>2. \A n \in FileKeys \cup {<<>>} :
            dir_children_all_before(d, marker)
              <=> ~StartsWith(marker, Output(d)) /\ Before(Output(d) \o n, marker)
      BY <2>1, <3>1, ChildrenBeforeExact
    <3> QED BY <3>1, <3>2
  <2>3. \A i, j \in 1..Len(dirs) : i < j => DirBefore(dirs[i], dirs[j])
    BY <2>1 DEF ListingInv
  <2>4. \A i, j \in 1..Len(dirs) : i # j => ~StartsWith(Output(dirs[j]), Output(dirs[i]))
    BY <2>1, DirsApart
  <2>5. \A i \in 1..Len(dirs) :
          i <= dirs_start_after(dirs, marker) <=> dir_children_all_before(dirs[i], marker)
    BY <2>1, <2>3, <2>4, DirsStartExact
  <2> QED BY <2>2, <2>5
<1> QED BY <1>1, ListingInvariance, PTL
=============================================================================
