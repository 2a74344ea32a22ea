------------------------ MODULE SortedListingProofs ------------------------
(***************************************************************************)
(* The flat listing for any namespace, any number of clients, any changes  *)
(* and any page sizes, with and without the directory cache.               *)
(*                                                                         *)
(* The argument is about the frontier.  HeapOK: each cursor runs over the  *)
(* children of one directory, no two cursors of a kind over the same one,  *)
(* and a directory whose children are being merged has been passed.  So    *)
(* the fronts differ, the least one is strictly least, and what follows is *)
(* above it.  CoverInv: a file that is still to be delivered is in reach   *)
(* of some cursor, or under the directory about to be listed.              *)
(***************************************************************************)
EXTENDS SortedListing, KeyOrderProofs, FiniteSetTheorems

Active == {"lookup", "rpc", "reply", "pull"}

Listing == [files : Seq(Path), dirs : Seq(Path)]
Cursor == [listing : Listing, files : BOOLEAN, idx : Nat]
Answer == [tag : {"none", "error", "denied", "FileNotFound"}]
            \cup [tag : {"ok"}, listing : Listing]
Sessions ==
  [pc : {"idle", "ask", "respond", "done", "failed"} \cup Active, prefix : Key,
   first : Key \cup {NoMarker}, after : Key \cup {NoMarker}, max : Nat,
   heap : SUBSET Cursor, dir : Key, seeding : BOOLEAN, ans : Answer,
   page : Seq(Path), truncated : BOOLEAN, got : Seq(Path), zero : BOOLEAN]

After(m, k) == m = NoMarker \/ Before(m, k)

\* A listing of d: sorted, of files that have been there, and with every file of A in
\* it or under one of its directories.
ListingOK(l, d, E, A) ==
  /\ \A i \in 1..Len(l.files) : ChildOf(l.files[i], d) /\ l.files[i] \in E
  /\ \A i \in 1..Len(l.dirs) : ChildOf(l.dirs[i], d) /\ l.dirs[i] \in Path \ Leaf
  /\ \A i, j \in 1..Len(l.files) : i < j => Before(l.files[i], l.files[j])
  /\ \A i, j \in 1..Len(l.dirs) : i < j => DirBefore(l.dirs[i], l.dirs[j])
  /\ \A k \in A : Under(k, d) => \/ \E i \in 1..Len(l.files) : l.files[i] = k
                                 \/ \E i \in 1..Len(l.dirs) : Under(k, l.dirs[i])

\* The output key at the front of a cursor.
Out(c) == IF c.files THEN Front(c) ELSE Output(Front(c))

Above(x, h) == \A c \in h : Before(x, Out(c))

Placed(c, d, E, A) == ListingOK(c.listing, d, E, A) /\ c.idx \in 1..Size(c)

HeapOK(h, start, E, A) ==
  /\ \A c \in h : \E d \in Directory : Placed(c, d, E, A) /\ (d = start \/ Under(d, start))
  /\ \A c, e \in h : c # e /\ c.files = e.files =>
       \A d \in Directory : ~(ChildOf(Front(c), d) /\ ChildOf(Front(e), d))
  /\ \A c \in h, d \in Directory : ChildOf(Front(c), d) => d = start \/ Above(Output(d), h)

\* The directory next_entry is about to list has been popped.
PendingOK(dir, h, start) ==
  /\ dir \in Path /\ Under(dir, start) /\ Above(Output(dir), h)
  /\ \A c \in h, d \in Directory :
       ChildOf(Front(c), d) => d = start \/ Before(Output(d), Output(dir))

MergeInv(q, E, A) ==
  q.pc \in Active =>
    /\ HeapOK(q.heap, list_start(q.prefix), E, A)
    /\ q.max # 0
    /\ q.pc = "pull" => ~q.seeding
    /\ q.pc # "pull" /\ q.seeding =>
         q.dir = list_start(q.prefix) /\ q.heap = {} /\ q.page = <<>>
    /\ q.pc # "pull" /\ ~q.seeding =>
         /\ PendingOK(q.dir, q.heap, list_start(q.prefix))
         /\ \A i \in 1..Len(q.page) : Before(q.page[i], Output(q.dir))
    /\ \A i \in 1..Len(q.page) : Above(q.page[i], q.heap)

AnswerInv(q, E, A) ==
  q.pc = "reply" =>
    /\ q.ans.tag = "ok" => q.dir \in Directory /\ ListingOK(q.ans.listing, q.dir, E, A)
    /\ q.ans.tag \in {"FileNotFound", "denied"} => \A k \in A : ~Under(k, q.dir)

PageInv(q, E) ==
  /\ \A i \in 1..Len(q.page) :
       q.page[i] \in E /\ StartsWith(q.page[i], q.prefix) /\ After(q.after, q.page[i])
  /\ \A i, j \in 1..Len(q.page) : i < j => Before(q.page[i], q.page[j])
  /\ q.truncated => q.page # <<>> \/ q.pc \in {"ask", "done"}
  /\ q.pc \in {"ask", "done"} => q.page = <<>>

GotInv(q, E) ==
  /\ \A i \in 1..Len(q.got) :
       q.got[i] \in E /\ StartsWith(q.got[i], q.prefix) /\ After(q.first, q.got[i])
  /\ \A i, j \in 1..Len(q.got) : i < j => Before(q.got[i], q.got[j])
  /\ q.first # NoMarker => q.after # NoMarker /\ (q.first = q.after \/ Before(q.first, q.after))
  /\ q.pc # "done" => \A i \in 1..Len(q.got) :
       q.after # NoMarker /\ (q.got[i] = q.after \/ Before(q.got[i], q.after))

Reaches(c, k) ==
  \E j \in c.idx..Size(c) : IF c.files THEN c.listing.files[j] = k
                                       ELSE Under(k, c.listing.dirs[j])

InSeq(s, k) == \E i \in 1..Len(s) : s[i] = k

Wanted(q, k) == StartsWith(k, q.prefix) /\ After(q.after, k)

Behind(s, k) == \A i \in 1..Len(s) : Before(s[i], k)

\* Nothing of A is lost.
CoverInv(q, A) ==
  /\ q.pc \in Active => \A k \in A : Wanted(q, k) =>
       \/ InSeq(q.page, k)
       \/ \E c \in q.heap : Reaches(c, k)
       \/ q.pc # "pull" /\ Under(k, q.dir)
  /\ q.pc = "respond" /\ ~q.zero => \A k \in A : Wanted(q, k) =>
       InSeq(q.page, k) \/ (q.truncated /\ Behind(q.page, k))
  /\ \A k \in A : Wanted(q, k) => InSeq(q.page, k) \/ Behind(q.page, k)
  /\ \A k \in A : StartsWith(k, q.prefix) /\ After(q.first, k) /\ ~After(q.after, k) =>
       InSeq(q.got, k)
  /\ q.pc = "done" /\ ~q.zero => \A k \in A : StartsWith(k, q.prefix) /\ After(q.first, k) =>
       InSeq(q.got, k)

SessionInv(q, E, A) ==
  MergeInv(q, E, A) /\ AnswerInv(q, E, A) /\ PageInv(q, E) /\ GotInv(q, E) /\ CoverInv(q, A)

CacheInv(c, E, A) ==
  \A d \in Directory : c[d] # NoEntry => ListingOK(c[d].listing, d, E, A)

TypeInv ==
  /\ ns \in [Path -> Kind] /\ WellFormed(ns)
  /\ always \subseteq VisibleIn(ns)
  /\ ListedIn(ns) \subseteq ever /\ ever \subseteq Path
  /\ cache \in [Directory -> [listing : Listing, age : Nat] \cup {NoEntry}]
  /\ session \in [Session -> Sessions]

IInv ==
  /\ TypeInv
  /\ CacheInv(cache, ever, always)
  /\ \A s \in Session : SessionInv(session[s], ever, always)

-----------------------------------------------------------------------------
(* Directories and what is in them.                                        *)

LEMMA PathFacts ==
  /\ Path \subseteq Key /\ Directory \subseteq Key /\ Root \in Key /\ Root \notin Path
  /\ \A k \in Path : Len(k) \in Nat /\ Len(k) > 0 /\ k[Len(k)] # Slash
  /\ NoMarker \notin Key
<1>1. Path \subseteq Key \ {Root} /\ Root \in Key
  BY ListingAssumption DEF Root, Key
<1>2. \A k \in Path : Len(k) \in Nat /\ Len(k) > 0
  <2> SUFFICES ASSUME NEW k \in Path PROVE Len(k) \in Nat /\ Len(k) > 0
    OBVIOUS
  <2>1. k \in Seq(Nat) /\ k # <<>>
    BY <1>1 DEF Key, Root
  <2> QED BY <2>1, EmptySeq, LenProperties
<1> QED BY <1>1, <1>2, ListingAssumption DEF Directory

LEMMA RootLen ==
  ASSUME NEW k \in Key
  PROVE  Len(k) = 0 <=> k = Root
BY EmptySeq DEF Key, Root

\* Under, without the output key.
LEMMA UnderMeans ==
  ASSUME NEW k \in Key, NEW d \in Key
  PROVE  Under(k, d) <=> /\ Len(k) > Len(d)
                         /\ d = Root \/ (StartsWith(k, d) /\ k[Len(d) + 1] = Slash)
BY StraddlerExact DEF Under

LEMMA UnderTransitive ==
  ASSUME NEW a \in Key, NEW b \in Key, NEW c \in Key, Under(a, b), Under(b, c)
  PROVE  Under(a, c)
<1>1. Len(a) \in Nat /\ Len(b) \in Nat /\ Len(c) \in Nat
  BY KeyType
<1>2. b # Root
  BY <1>1, RootLen DEF Under
<1>3. /\ Len(a) > Len(b) /\ StartsWith(a, b)
      /\ Len(b) > Len(c) /\ (c = Root \/ (StartsWith(b, c) /\ b[Len(c) + 1] = Slash))
  BY <1>2, UnderMeans
<1>4. CASE c = Root
  BY <1>1, <1>3, <1>4, UnderMeans
<1>5. CASE c # Root
  <2>1. Len(c) + 1 \in 1..Len(b)
    BY <1>1, <1>3
  <2>2. a[Len(c) + 1] = Slash
    BY <1>3, <1>5, <2>1 DEF StartsWith
  <2>3. StartsWith(a, c)
    BY <1>1, <1>3, <1>5 DEF StartsWith
  <2> QED BY <1>1, <1>3, <2>2, <2>3, UnderMeans
<1> QED BY <1>4, <1>5

\* The directories a key is in are in each other.
LEMMA UnderChain ==
  ASSUME NEW k \in Key, NEW d \in Key, NEW e \in Key, Under(k, d), Under(k, e)
  PROVE  d = e \/ Under(d, e) \/ Under(e, d)
<1>1. Len(k) \in Nat /\ Len(d) \in Nat /\ Len(e) \in Nat
  BY KeyType
<1>2. /\ Len(k) > Len(d) /\ (d = Root \/ (StartsWith(k, d) /\ k[Len(d) + 1] = Slash))
      /\ Len(k) > Len(e) /\ (e = Root \/ (StartsWith(k, e) /\ k[Len(e) + 1] = Slash))
  BY UnderMeans
<1>3. ASSUME NEW x \in Key, NEW y \in Key, Len(x) < Len(y), Len(x) \in Nat, Len(y) \in Nat,
             x = Root \/ (StartsWith(k, x) /\ k[Len(x) + 1] = Slash),
             y = Root \/ StartsWith(k, y)
      PROVE  Under(y, x)
  <2>1. y # Root
    BY <1>3, RootLen
  <2>2. CASE x = Root
    BY <1>3, <2>2, UnderMeans
  <2>3. CASE x # Root
    <3>1. \A j \in 1..Len(y) : y[j] = k[j]
      BY <1>3, <2>1 DEF StartsWith
    <3>2. y[Len(x) + 1] = Slash
      BY <1>3, <2>3, <3>1
    <3>3. StartsWith(y, x)
      BY <1>3, <2>3, <3>1 DEF StartsWith
    <3> QED BY <1>3, <3>2, <3>3, UnderMeans
  <2> QED BY <2>2, <2>3
<1>4. CASE Len(d) = Len(e)
  <2>1. CASE d = Root \/ e = Root
    BY <1>4, <2>1, RootLen
  <2>2. CASE d # Root /\ e # Root
    <3>1. \A j \in 1..Len(d) : d[j] = e[j]
      BY <1>2, <1>4, <2>2 DEF StartsWith
    <3> QED BY <1>4, <3>1, SeqEqual DEF Key
  <2> QED BY <2>1, <2>2
<1> QED BY <1>1, <1>2, <1>3, <1>4

\* A key is directly in one directory.
LEMMA ParentUnique ==
  ASSUME NEW k \in Key, NEW d \in Directory, NEW e \in Directory, ChildOf(k, d), ChildOf(k, e)
  PROVE  d = e
BY PathFacts, UnderChain DEF ChildOf

LEMMA ChildIsUnder ==
  ASSUME NEW k \in Key, NEW d \in Key, ChildOf(k, d)
  PROVE  Under(k, d)
BY DEF ChildOf

\* Between a file and a directory it is in there is a child of the directory.
LEMMA ChildBetween ==
  ASSUME NEW k \in Path, NEW d \in Directory, Under(k, d)
  PROVE  ChildOf(k, d) \/ \E e \in Path \ Leaf : ChildOf(e, d) /\ Under(k, e)
<1> SUFFICES ASSUME ~ChildOf(k, d)
             PROVE  \E e \in Path \ Leaf : ChildOf(e, d) /\ Under(k, e)
  OBVIOUS
<1> DEFINE S == {e \in Directory : Under(k, e) /\ Under(e, d)}
           T == {Len(e) : e \in S}
<1>1. k \in Key /\ d \in Key /\ \A e \in Directory : e \in Key /\ Len(e) \in Nat
  BY PathFacts, KeyType
<1>2. S # {}
  BY DEF ChildOf
<1>3. T \subseteq Nat /\ T # {}
  BY <1>1, <1>2
<1>4. PICK n \in T : \A m \in T : n <= m
  BY <1>3, LeastNat
<1>5. PICK e \in S : n = Len(e)
  BY <1>4
<1>6. \A x \in S : Len(e) <= Len(x)
  BY <1>4, <1>5
<1>7. e \in Directory /\ e \in Key /\ Under(k, e) /\ Under(e, d)
  BY <1>1, <1>5
<1>8. e # Root
  BY <1>1, <1>7, KeyType, RootLen DEF Under
<1>9. ChildOf(e, d)
  <2> SUFFICES ASSUME NEW x \in Directory, Under(e, x), Under(x, d) PROVE FALSE
    BY <1>7 DEF ChildOf
  <2>1. Under(k, x)
    BY <1>1, <1>7, UnderTransitive
  <2>2. Len(x) < Len(e)
    BY <1>1, <1>7 DEF Under
  <2>3. x \in S
    BY <2>1
  <2> QED BY <1>1, <1>6, <1>7, <2>2, <2>3
<1> QED BY <1>7, <1>8, <1>9 DEF Directory

\* What is in a directory sorts after the directory's output key.
LEMMA UnderIsAfter ==
  ASSUME NEW k \in Path, NEW d \in Key, Under(k, d), d # Root
  PROVE  Before(Output(d), k)
<1>1. Len(k) \in Nat /\ Len(d) \in Nat
  BY PathFacts, KeyType
<1>2. Len(k) > Len(d) /\ StartsWith(k, d) /\ k[Len(d) + 1] = Slash
  BY PathFacts, UnderMeans
<1>3. Len(k) > Len(d) + 1
  BY <1>1, <1>2, PathFacts
<1> DEFINE w == Output(d)
<1>4. /\ w \in Key /\ Len(w) = Len(d) + 1 /\ w[Len(d) + 1] = Slash
      /\ \A j \in 1..Len(d) : w[j] = d[j]
  BY OutputKey
<1> HIDE DEF w
<1>5. Parts(w, k, Len(w) + 1)
  BY <1>1, <1>2, <1>3, <1>4 DEF Parts, StartsWith
<1>6. k \in Key
  BY PathFacts
<1>7. Before(w, k)
  BY <1>1, <1>3, <1>4, <1>5, <1>6, OrderAt
<1> QED BY <1>7 DEF w

\* Two children of one directory are not in each other.
LEMMA SiblingsApart ==
  ASSUME NEW x \in Path, NEW y \in Path, NEW d \in Directory, ChildOf(x, d), ChildOf(y, d),
         x \in Directory
  PROVE  ~Under(y, x)
BY PathFacts DEF ChildOf

-----------------------------------------------------------------------------
(* The directory part of a prefix.                                         *)

LEMMA ListStart ==
  ASSUME NEW p \in Key
  PROVE  /\ list_start(p) \in Key
         /\ \/ list_start(p) = Root /\ \A j \in 1..Len(p) : p[j] # Slash
            \/ /\ Len(list_start(p)) + 1 \in 1..Len(p)
               /\ p[Len(list_start(p)) + 1] = Slash
               /\ \A j \in 1..Len(p) : p[j] = Slash => j <= Len(list_start(p)) + 1
               /\ StartsWith(p, list_start(p))
<1> DEFINE S == {i \in 1..Len(p) : p[i] = Slash}
           m == CHOOSE i \in S : \A j \in S : j <= i
<1>1. Len(p) \in Nat
  BY KeyType
<1>2. CASE S = {}
  <2>1. list_start(p) = Root
    BY <1>2 DEF list_start
  <2> QED BY <1>2, <2>1, PathFacts
<1>3. CASE S # {}
  <2>1. m \in S /\ \A j \in S : j <= m
    BY <1>1, <1>3, GreatestIndex
  <2>2. list_start(p) = Prefix(p, m - 1)
    BY <1>3 DEF list_start
  <2>3. m \in 1..Len(p) /\ p[m] = Slash /\ \A j \in 1..Len(p) : p[j] = Slash => j <= m
    BY <2>1
  <2> HIDE DEF m
  <2>4. m - 1 \in 0..Len(p)
    BY <1>1, <2>3
  <2>5. /\ list_start(p) \in Key /\ Len(list_start(p)) = m - 1
        /\ \A j \in 1..(m - 1) : list_start(p)[j] = p[j]
    BY <2>2, <2>4, PrefixKey
  <2>6. Len(list_start(p)) + 1 = m
    BY <1>1, <2>3, <2>5
  <2>7. StartsWith(p, list_start(p))
    BY <1>1, <2>3, <2>5 DEF StartsWith
  <2> QED BY <2>3, <2>5, <2>6, <2>7
<1> QED BY <1>2, <1>3

\* What matches a prefix is under the directory its listing starts at.
LEMMA StartCovers ==
  ASSUME NEW p \in Key, NEW k \in Path, StartsWith(k, p)
  PROVE  Under(k, list_start(p))
<1> DEFINE d == list_start(p)
<1>1. /\ d \in Key
      /\ \/ d = Root
         \/ Len(d) + 1 \in 1..Len(p) /\ p[Len(d) + 1] = Slash /\ StartsWith(p, d)
  BY ListStart
<1>2. Len(k) \in Nat /\ Len(k) > 0 /\ k \in Key /\ Len(p) \in Nat /\ Len(d) \in Nat
  BY <1>1, PathFacts, KeyType
<1> HIDE DEF d
<1>3. CASE d = Root
  BY <1>1, <1>2, <1>3, RootLen, UnderMeans DEF d
<1>4. CASE d # Root
  <2>1. Len(d) + 1 \in 1..Len(p) /\ p[Len(d) + 1] = Slash /\ StartsWith(p, d)
    BY <1>1, <1>4
  <2>2. Len(k) > Len(d) /\ k[Len(d) + 1] = Slash /\ StartsWith(k, d)
    BY <1>2, <2>1 DEF StartsWith
  <2> QED BY <1>1, <1>2, <2>2, UnderMeans DEF d
<1> QED BY <1>3, <1>4

\* A directory on the way from the start to a match matches as well: next_entry may
\* skip the others.
LEMMA WayMatches ==
  ASSUME NEW p \in Key, NEW k \in Path, NEW e \in Path, StartsWith(k, p), Under(k, e),
         Under(e, list_start(p))
  PROVE  StartsWith(e, p)
<1> DEFINE d == list_start(p)
<1>1. /\ d \in Key
      /\ \/ d = Root /\ \A j \in 1..Len(p) : p[j] # Slash
         \/ \A j \in 1..Len(p) : p[j] = Slash => j <= Len(d) + 1
  BY ListStart
<1>2. /\ Len(k) \in Nat /\ k \in Key /\ Len(e) \in Nat /\ e \in Key /\ e # Root
      /\ Len(p) \in Nat /\ Len(d) \in Nat
  BY <1>1, PathFacts, KeyType
<1>3. Len(e) > Len(d)
  BY DEF Under
<1> HIDE DEF d
<1>4. Len(k) > Len(e) /\ StartsWith(k, e) /\ k[Len(e) + 1] = Slash
  BY <1>2, UnderMeans
<1>5. Len(p) <= Len(e)
  <2> SUFFICES ASSUME Len(p) > Len(e) PROVE FALSE
    BY <1>2
  <2>1. Len(e) + 1 \in 1..Len(p)
    BY <1>2
  <2>2. p[Len(e) + 1] = Slash
    BY <1>4, <2>1 DEF StartsWith
  <2> QED BY <1>1, <1>2, <1>3, <2>1, <2>2
<1> QED BY <1>2, <1>4, <1>5 DEF StartsWith

-----------------------------------------------------------------------------
(* Listings.                                                               *)

LEMMA ArraySeq ==
  ASSUME NEW S, S \subseteq Path, NEW s \in [1..Cardinality(S) -> S]
  PROVE  s \in Seq(Path) /\ Len(s) = Cardinality(S)
<1> DEFINE n == Cardinality(S)
<1>1. n \in Nat
  BY ListingAssumption, FS_Subset, FS_CardinalityType
<1> HIDE DEF n
<1>2. s \in [1..n -> S]
  BY DEF n
<1>3. s \in Seq(S) /\ Len(s) = n
  BY <1>1, <1>2
<1>4. s \in Seq(Path)
  BY <1>3, SeqMonotonic
<1> QED BY <1>3, <1>4 DEF n

\* What getListing answers is a listing that is complete and made of files.
LEMMA FreshListing ==
  ASSUME ns \in [Path -> Kind], WellFormed(ns), always \subseteq VisibleIn(ns),
         ListedIn(ns) \subseteq ever, NEW d \in Directory, d = Root \/ ns[d] = "dir",
         NEW l \in Listings(ns, d)
  PROVE  l \in Listing /\ ListingOK(l, d, ever, always)
<1> DEFINE F == {k \in Path : ChildOf(k, d) /\ ns[k] = "file"}
           D == {k \in Path : ChildOf(k, d) /\ ns[k] \in {"dir", "denied"}}
<1>1. l \in [files : Sorted(F, Cardinality(F), Before), dirs : Sorted(D, Cardinality(D), DirBefore)]
  BY DEF Listings
<1>2. F \subseteq Path /\ D \subseteq Path \ Leaf
  BY DEF WellFormed
<1>3. F \subseteq ever
  <2> SUFFICES ASSUME NEW k \in F PROVE k \in ListedIn(ns)
    OBVIOUS
  <2>1. ASSUME NEW e \in Path \ Leaf, ChildOf(k, e) PROVE ns[e] = "dir"
    BY <2>1, PathFacts, ParentUnique DEF Directory
  <2> QED BY <2>1 DEF ListedIn
<1>4. ASSUME NEW k \in always, Under(k, d)
      PROVE  k \in F \/ \E e \in D : Under(k, e)
  <2>1. k \in Path /\ ns[k] = "file" /\ \A e \in Path \ Leaf : Under(k, e) => ns[e] = "dir"
    BY <1>4 DEF VisibleIn
  <2> QED BY <1>4, <2>1, ChildBetween
<1>5. \A k \in F \cup D : ChildOf(k, d)
  OBVIOUS
<1> DEFINE fs == l.files
           ds == l.dirs
<1>6. l = [files |-> fs, dirs |-> ds]
  BY <1>1
<1>7. fs \in Sorted(F, Cardinality(F), Before) /\ ds \in Sorted(D, Cardinality(D), DirBefore)
  BY <1>1
<1> HIDE DEF F, D, fs, ds
<1>8. /\ fs \in Seq(Path) /\ \A i \in 1..Len(fs) : fs[i] \in F
      /\ \A i, j \in 1..Len(fs) : i < j => Before(fs[i], fs[j])
      /\ \A x \in F : \E i \in 1..Len(fs) : fs[i] = x
  BY <1>2, <1>7, ArraySeq DEF Sorted
<1>9. /\ ds \in Seq(Path) /\ \A i \in 1..Len(ds) : ds[i] \in D
      /\ \A i, j \in 1..Len(ds) : i < j => DirBefore(ds[i], ds[j])
      /\ \A x \in D : \E i \in 1..Len(ds) : ds[i] = x
  BY <1>2, <1>7, ArraySeq DEF Sorted
<1>10. l \in Listing
  BY <1>6, <1>8, <1>9 DEF Listing
<1>11. ASSUME NEW k \in always, Under(k, d)
       PROVE  \/ \E i \in 1..Len(fs) : fs[i] = k
              \/ \E i \in 1..Len(ds) : Under(k, ds[i])
  <2>1. CASE k \in F
    <3>1. \E i \in 1..Len(fs) : fs[i] = k
      BY <1>8, <2>1
    <3> QED BY <3>1
  <2>2. CASE \E e \in D : Under(k, e)
    <3>1. PICK e \in D : Under(k, e)
      BY <2>2
    <3>2. PICK i \in 1..Len(ds) : ds[i] = e
      BY <1>9
    <3> QED BY <3>1, <3>2
  <2> QED BY <1>4, <1>11, <2>1, <2>2
<1>12. \A i \in 1..Len(fs) : ChildOf(fs[i], d) /\ fs[i] \in ever
  BY <1>3, <1>5, <1>8
<1>13. \A i \in 1..Len(ds) : ChildOf(ds[i], d) /\ ds[i] \in Path \ Leaf
  BY <1>2, <1>5, <1>9
<1>14. /\ \A i, j \in 1..Len(fs) : i < j => Before(fs[i], fs[j])
       /\ \A i, j \in 1..Len(ds) : i < j => DirBefore(ds[i], ds[j])
  BY <1>8, <1>9
<1>15. \A k \in always : Under(k, d) => \/ \E i \in 1..Len(fs) : fs[i] = k
                                        \/ \E i \in 1..Len(ds) : Under(k, ds[i])
  BY <1>11
<1>16. ListingOK(l, d, ever, always)
  BY <1>12, <1>13, <1>14, <1>15 DEF ListingOK, fs, ds
<1> QED BY <1>10, <1>16

-----------------------------------------------------------------------------
(* Cursors.                                                                *)

LEMMA FrontFacts ==
  ASSUME NEW c \in Cursor, NEW d \in Directory, NEW E, NEW A, Placed(c, d, E, A)
  PROVE  /\ Front(c) \in Path /\ ChildOf(Front(c), d) /\ Out(c) \in Key
         /\ c.files => Front(c) \in E
         /\ ~c.files => Front(c) \in Path \ Leaf
<1> DEFINE l == c.listing
<1>1. l.files \in Seq(Path) /\ l.dirs \in Seq(Path) /\ c.files \in BOOLEAN /\ c.idx \in Nat
  BY DEF Cursor, Listing
<1>2. CASE c.files
  <2>1. Front(c) = l.files[c.idx] /\ c.idx \in 1..Len(l.files) /\ Out(c) = Front(c)
    BY <1>2 DEF Front, Placed, Size, Out
  <2>2. Front(c) \in Path /\ ChildOf(Front(c), d) /\ Front(c) \in E
    BY <1>1, <2>1, ElementOfSeq DEF Placed, ListingOK
  <2> QED BY <1>2, <2>1, <2>2, PathFacts
<1>3. CASE ~c.files
  <2>1. Front(c) = l.dirs[c.idx] /\ c.idx \in 1..Len(l.dirs) /\ Out(c) = Output(Front(c))
    BY <1>3 DEF Front, Placed, Size, Out
  <2>2. Front(c) \in Path \ Leaf /\ ChildOf(Front(c), d)
    BY <2>1 DEF Placed, ListingOK
  <2> QED BY <1>3, <2>1, <2>2, PathFacts, OutputKey
<1> QED BY <1>2, <1>3

\* Ord for Cursor compares output keys.
LEMMA CursorOrder ==
  ASSUME NEW c \in Cursor, NEW e \in Cursor, Front(c) \in Key, Front(e) \in Key
  PROVE  CursorCmp(c, e) = Cmp(Out(c), Out(e))
<1>1. c.files \in BOOLEAN /\ e.files \in BOOLEAN
  BY DEF Cursor
<1> DEFINE x == Front(c)
           y == Front(e)
<1>2. CASE c.files /\ e.files
  BY <1>2 DEF CursorCmp, Out
<1>3. CASE ~c.files /\ ~e.files
  <2>1. CursorCmp(c, e) = cmp_dir_keys(x, y)
    BY <1>3 DEF CursorCmp
  <2> QED BY <1>3, <2>1, CmpDirKeysExact DEF Out
<1>4. CASE c.files /\ ~e.files
  <2>1. CursorCmp(c, e) = cmp_file_dir(x, y)
    BY <1>4 DEF CursorCmp
  <2> QED BY <1>4, <2>1, CmpFileDirExact DEF Out
<1>5. CASE ~c.files /\ e.files
  <2>1. CursorCmp(c, e) = Reverse(cmp_file_dir(y, x))
    BY <1>5 DEF CursorCmp
  <2>2. Out(c) = Output(x) /\ Out(e) = y
    BY <1>5 DEF Out
  <2>3. CursorCmp(c, e) = Reverse(Cmp(y, Output(x)))
    BY <2>1, CmpFileDirExact
  <2> DEFINE w == Output(x)
  <2>4. w \in Key
    BY OutputKey
  <2> HIDE DEF w, x, y
  <2>5. y \in Key
    BY DEF y
  <2>6. /\ Cmp(w, y) = "Equal" <=> w = y
        /\ Cmp(w, y) = "Less" <=> Before(w, y)
        /\ Cmp(w, y) = "Greater" <=> Before(y, w)
        /\ Cmp(y, w) = "Equal" <=> y = w
        /\ Cmp(y, w) = "Less" <=> Before(y, w)
        /\ Cmp(y, w) = "Greater" <=> Before(w, y)
        /\ y = w \/ Before(y, w) \/ Before(w, y)
    BY <2>4, <2>5, CmpIsOrder, BeforeTotal
  <2>7. Reverse(Cmp(y, w)) = Cmp(w, y)
    BY <2>6 DEF Reverse
  <2> QED BY <2>2, <2>3, <2>7 DEF w
<1> QED BY <1>1, <1>2, <1>3, <1>4, <1>5

\* The arrays ascend in output keys.
LEMMA ArraysAscend ==
  ASSUME NEW l \in Listing, NEW d, NEW E, NEW A, ListingOK(l, d, E, A)
  PROVE  /\ \A i, j \in 1..Len(l.files) : i < j => Before(l.files[i], l.files[j])
         /\ \A i, j \in 1..Len(l.dirs) : i < j => Before(Output(l.dirs[i]), Output(l.dirs[j]))
<1>1. \A i \in 1..Len(l.dirs) : l.dirs[i] \in Key /\ Output(l.dirs[i]) \in Key
  BY PathFacts, OutputKey DEF ListingOK
<1>2. ASSUME NEW i \in 1..Len(l.dirs), NEW j \in 1..Len(l.dirs), i < j
      PROVE  Before(Output(l.dirs[i]), Output(l.dirs[j]))
  <2>1. cmp_dir_keys(l.dirs[i], l.dirs[j]) = "Less"
    BY <1>2 DEF ListingOK, DirBefore
  <2>2. Cmp(Output(l.dirs[i]), Output(l.dirs[j])) = "Less"
    BY <1>1, <2>1, CmpDirKeysExact
  <2> QED BY <1>1, <2>2, CmpIsOrder
<1> QED BY <1>2 DEF ListingOK

LEMMA AdvancedFacts ==
  ASSUME NEW c \in Cursor, NEW d \in Directory, NEW E, NEW A, Placed(c, d, E, A),
         NEW e \in Advanced(c)
  PROVE  /\ e \in Cursor /\ Placed(e, d, E, A) /\ e.files = c.files
         /\ ChildOf(Front(e), d) /\ Before(Out(c), Out(e))
         /\ \A k : Reaches(c, k) => Reaches(e, k) \/ (c.files /\ Front(c) = k)
                                                  \/ (~c.files /\ Under(k, Front(c)))
<1> DEFINE l == c.listing
<1>1. /\ l \in Listing /\ c.files \in BOOLEAN /\ c.idx \in Nat
      /\ l.files \in Seq(Path) /\ l.dirs \in Seq(Path)
  BY DEF Cursor, Listing
<1>2. c.idx < Size(c) /\ e = [c EXCEPT !.idx = c.idx + 1]
  BY DEF Advanced
<1>3. /\ e \in Cursor /\ e.files = c.files /\ e.listing = l /\ e.idx = c.idx + 1
  BY <1>1, <1>2 DEF Cursor
<1>4. Size(e) = Size(c) /\ Size(c) \in Nat
  BY <1>1, <1>3, LenProperties DEF Size
<1>5. Placed(e, d, E, A)
  BY <1>1, <1>2, <1>3, <1>4 DEF Placed
<1>6. ChildOf(Front(e), d)
  BY <1>3, <1>5, FrontFacts
<1>7. Before(Out(c), Out(e))
  <2>1. c.idx \in 1..Size(c) /\ e.idx \in 1..Size(c) /\ c.idx < e.idx
    BY <1>1, <1>3, <1>4, <1>5 DEF Placed
  <2>2. ListingOK(l, d, E, A)
    BY DEF Placed
  <2> QED BY <1>1, <1>3, <2>1, <2>2, ArraysAscend DEF Out, Front, Size
<1>8. ASSUME NEW k, Reaches(c, k)
      PROVE  Reaches(e, k) \/ (c.files /\ Front(c) = k) \/ (~c.files /\ Under(k, Front(c)))
  <2>1. PICK j \in c.idx..Size(c) : IF c.files THEN l.files[j] = k ELSE Under(k, l.dirs[j])
    BY <1>8 DEF Reaches
  <2>2. CASE j = c.idx
    BY <2>1, <2>2 DEF Front
  <2>3. CASE j # c.idx
    <3>1. j \in e.idx..Size(e)
      BY <1>1, <1>3, <1>4, <2>1, <2>3
    <3> QED BY <1>3, <2>1, <3>1 DEF Reaches
  <2> QED BY <2>2, <2>3
<1> QED BY <1>3, <1>5, <1>6, <1>7, <1>8

\* A cursor that is dropped because it is exhausted has only its front in reach.
LEMMA ExhaustedReach ==
  ASSUME NEW c \in Cursor, NEW d \in Directory, NEW E, NEW A, Placed(c, d, E, A),
         NEW k, Reaches(c, k), Advanced(c) = {}
  PROVE  (c.files /\ Front(c) = k) \/ (~c.files /\ Under(k, Front(c)))
<1>1. Size(c) \in Nat /\ c.idx \in Nat
  BY LenProperties DEF Size, Cursor, Listing
<1>2. c.idx = Size(c)
  <2>1. ~(c.idx < Size(c))
    BY DEF Advanced
  <2> QED BY <1>1, <2>1 DEF Placed
<1>3. PICK j \in c.idx..Size(c) :
        IF c.files THEN c.listing.files[j] = k ELSE Under(k, c.listing.dirs[j])
  BY DEF Reaches
<1>4. j = c.idx
  BY <1>1, <1>2
<1> QED BY <1>3, <1>4 DEF Front

\* What is in reach of a cursor is not before its front.
LEMMA ReachIsAbove ==
  ASSUME NEW c \in Cursor, NEW d \in Directory, NEW E, NEW A, Placed(c, d, E, A),
         NEW k \in Path, Reaches(c, k)
  PROVE  Out(c) = k \/ Before(Out(c), k)
<1> DEFINE l == c.listing
<1>1. /\ l \in Listing /\ c.files \in BOOLEAN /\ c.idx \in Nat /\ Size(c) \in Nat
  BY LenProperties DEF Cursor, Listing, Size
<1>2. PICK j \in c.idx..Size(c) : IF c.files THEN l.files[j] = k ELSE Under(k, l.dirs[j])
  BY DEF Reaches
<1>3. j \in 1..Size(c) /\ c.idx \in 1..Size(c) /\ (j = c.idx \/ c.idx < j)
  BY <1>1, <1>2 DEF Placed
<1>4. /\ \A i, n \in 1..Len(l.files) : i < n => Before(l.files[i], l.files[n])
      /\ \A i, n \in 1..Len(l.dirs) : i < n => Before(Output(l.dirs[i]), Output(l.dirs[n]))
  BY <1>1, ArraysAscend DEF Placed
<1>5. CASE c.files
  BY <1>2, <1>3, <1>4, <1>5 DEF Out, Front, Size
<1>6. CASE ~c.files
  <2>1. Out(c) = Output(l.dirs[c.idx]) /\ Under(k, l.dirs[j]) /\ Size(c) = Len(l.dirs)
    BY <1>2, <1>6 DEF Out, Front, Size
  <2>2. l.dirs[j] \in Path /\ l.dirs[c.idx] \in Path
    BY <1>3, <2>1 DEF Placed, ListingOK
  <2>3. Before(Output(l.dirs[j]), k)
    BY <2>1, <2>2, PathFacts, UnderIsAfter
  <2>4. Output(l.dirs[c.idx]) = Output(l.dirs[j])
          \/ Before(Output(l.dirs[c.idx]), Output(l.dirs[j]))
    BY <1>3, <1>4, <2>1
  <2>5. Output(l.dirs[j]) \in Key /\ Output(l.dirs[c.idx]) \in Key /\ k \in Key
    BY <2>2, PathFacts, OutputKey
  <2> DEFINE x == Output(l.dirs[c.idx])
             y == Output(l.dirs[j])
  <2> HIDE DEF x, y
  <2>6. x = k \/ Before(x, k)
    BY <2>3, <2>4, <2>5, BeforeTransitive DEF x, y
  <2> QED BY <2>1, <2>6 DEF x
<1> QED BY <1>1, <1>5, <1>6

-----------------------------------------------------------------------------
(* The frontier.                                                           *)

\* No two cursors have the same output key at their front.
LEMMA FrontsDiffer ==
  ASSUME NEW h \in SUBSET Cursor, NEW start, NEW E, NEW A, HeapOK(h, start, E, A),
         NEW c \in h, NEW e \in h, c # e
  PROVE  Out(c) # Out(e)
<1>1. PICK d \in Directory : Placed(c, d, E, A)
  BY DEF HeapOK
<1>2. PICK b \in Directory : Placed(e, b, E, A)
  BY DEF HeapOK
<1>3. /\ Front(c) \in Path /\ ChildOf(Front(c), d) /\ c.files \in BOOLEAN
      /\ Front(e) \in Path /\ ChildOf(Front(e), b) /\ e.files \in BOOLEAN
  BY <1>1, <1>2, FrontFacts DEF Cursor
<1> SUFFICES ASSUME Out(c) = Out(e) PROVE FALSE
  OBVIOUS
<1> DEFINE x == Front(c)
           y == Front(e)
<1>4. x \in Key /\ y \in Key
  BY <1>3, PathFacts
<1>5. CASE c.files = e.files
  <2>1. x = y
    <3>1. CASE c.files
      BY <1>5, <3>1 DEF Out
    <3>2. CASE ~c.files
      <4>1. Output(x) = Output(y)
        BY <1>5, <3>2 DEF Out
      <4> QED BY <1>4, <4>1, OutputInjective
    <3> QED BY <3>1, <3>2
  <2>2. ChildOf(y, d)
    BY <1>3, <2>1
  <2> QED BY <1>3, <1>5, <2>2 DEF HeapOK
<1>6. ASSUME NEW f \in Path, NEW p \in Path, f = Output(p) PROVE FALSE
  <2>1. p \in Key /\ Len(p) \in Nat
    BY PathFacts
  <2>2. Len(f) = Len(p) + 1 /\ f[Len(p) + 1] = Slash
    BY <1>6, <2>1, OutputKey
  <2> QED BY <2>2, PathFacts
<1>7. CASE c.files # e.files
  <2>1. x = Output(y) \/ y = Output(x)
    BY <1>3, <1>7 DEF Out
  <2> QED BY <1>3, <1>6, <2>1
<1> QED BY <1>5, <1>7

\* heap.pop gives the strictly least output key.
LEMMA LeastIsStrict ==
  ASSUME NEW h \in SUBSET Cursor, NEW start, NEW E, NEW A, HeapOK(h, start, E, A),
         NEW c \in Least(h), NEW e \in h, e # c
  PROVE  Before(Out(c), Out(e))
<1>1. c \in h /\ CursorCmp(c, e) # "Greater"
  BY DEF Least
<1>2. PICK d \in Directory : Placed(c, d, E, A)
  BY <1>1 DEF HeapOK
<1>3. PICK b \in Directory : Placed(e, b, E, A)
  BY DEF HeapOK
<1>4. Front(c) \in Key /\ Front(e) \in Key /\ Out(c) \in Key /\ Out(e) \in Key
  BY <1>1, <1>2, <1>3, FrontFacts, PathFacts
<1>5. Cmp(Out(c), Out(e)) # "Greater"
  BY <1>1, <1>4, CursorOrder
<1>6. Out(c) # Out(e)
  BY <1>1, FrontsDiffer
<1> QED BY <1>4, <1>5, <1>6, CmpIsOrder, BeforeTotal

\* Popping the least cursor and pushing it back advanced.
Popped(h, c) == (h \ {c}) \cup Advanced(c)

LEMMA PopHeap ==
  ASSUME NEW h \in SUBSET Cursor, NEW start, NEW E, NEW A, HeapOK(h, start, E, A),
         NEW c \in Least(h), NEW h2, h2 = Popped(h, c)
  PROVE  /\ h2 \in SUBSET Cursor /\ HeapOK(h2, start, E, A)
         /\ Above(Out(c), h2)
         /\ \A x \in Key : Above(x, h) => Above(x, h2)
         /\ \A e \in h2, d \in Directory : ChildOf(Front(e), d) =>
              d = start \/ Before(Output(d), Out(c))
<1> DEFINE O(e) == IF e \in h \ {c} THEN e ELSE c
<1>1. c \in h
  BY DEF Least
<1>2. ASSUME NEW e \in h2
      PROVE  /\ e \in Cursor /\ O(e) \in h /\ e.files = O(e).files
             /\ \E d \in Directory :
                  /\ d = start \/ Under(d, start)
                  /\ Placed(e, d, E, A) /\ ChildOf(Front(e), d) /\ ChildOf(Front(O(e)), d)
             /\ Out(e) \in Key /\ Out(O(e)) \in Key
             /\ Out(e) = Out(O(e)) \/ Before(Out(O(e)), Out(e))
             /\ Before(Out(c), Out(e))
  <2>1. CASE e \in h \ {c}
    <3>1. PICK d \in Directory : Placed(e, d, E, A) /\ (d = start \/ Under(d, start))
      BY <2>1 DEF HeapOK
    <3>2. ChildOf(Front(e), d) /\ Out(e) \in Key
      BY <2>1, <3>1, FrontFacts
    <3>3. Before(Out(c), Out(e))
      BY <2>1, LeastIsStrict
    <3> QED BY <2>1, <3>1, <3>2, <3>3
  <2>2. CASE e \notin h \ {c}
    <3>1. e \in Advanced(c) /\ O(e) = c
      BY <1>2, <2>2 DEF Popped
    <3>2. PICK d \in Directory : Placed(c, d, E, A) /\ (d = start \/ Under(d, start))
      BY <1>1 DEF HeapOK
    <3>3. /\ e \in Cursor /\ Placed(e, d, E, A) /\ e.files = c.files
          /\ ChildOf(Front(e), d) /\ Before(Out(c), Out(e))
      BY <1>1, <3>1, <3>2, AdvancedFacts
    <3>4. ChildOf(Front(c), d) /\ Out(c) \in Key /\ Out(e) \in Key
      BY <1>1, <3>2, <3>3, FrontFacts
    <3> QED BY <1>1, <3>1, <3>2, <3>3, <3>4
  <2> QED BY <2>1, <2>2
<1>3. \A e, f \in h2 : O(e) = O(f) => e = f
  BY DEF Advanced, Popped
<1>4. \A e \in h2, d \in Directory : ChildOf(Front(e), d) => ChildOf(Front(O(e)), d)
  <2> SUFFICES ASSUME NEW e \in h2, NEW d \in Directory, ChildOf(Front(e), d)
               PROVE  ChildOf(Front(O(e)), d)
    OBVIOUS
  <2>1. PICK b \in Directory : /\ Placed(e, b, E, A) /\ ChildOf(Front(e), b)
                               /\ ChildOf(Front(O(e)), b)
    BY <1>2
  <2>2. Front(e) \in Key
    BY <1>2, <2>1, FrontFacts, PathFacts
  <2>3. d = b
    BY <2>1, <2>2, ParentUnique
  <2> QED BY <2>1, <2>3
<1> HIDE DEF O
<1>5. ASSUME NEW x \in Key, Above(x, h) PROVE Above(x, h2)
  <2> SUFFICES ASSUME NEW e \in h2 PROVE Before(x, Out(e))
    BY DEF Above
  <2>1. Before(x, Out(O(e)))
    BY <1>2, <1>5 DEF Above
  <2> QED BY <1>2, <2>1, BeforeTransitive
<1>6. \A d \in Directory : Output(d) \in Key
  BY PathFacts, OutputKey
<1>7. \A e \in h2, d \in Directory : ChildOf(Front(e), d) => d = start \/ Above(Output(d), h)
  BY <1>2, <1>4 DEF HeapOK
<1>8. HeapOK(h2, start, E, A)
  <2>1. \A e \in h2 : \E d \in Directory : Placed(e, d, E, A) /\ (d = start \/ Under(d, start))
    BY <1>2
  <2>2. ASSUME NEW e \in h2, NEW f \in h2, e # f, e.files = f.files, NEW d \in Directory,
               ChildOf(Front(e), d), ChildOf(Front(f), d)
        PROVE  FALSE
    <3>1. O(e) # O(f) /\ O(e) \in h /\ O(f) \in h /\ O(e).files = O(f).files
      BY <1>2, <1>3, <2>2
    <3>2. ChildOf(Front(O(e)), d) /\ ChildOf(Front(O(f)), d)
      BY <1>4, <2>2
    <3> QED BY <3>1, <3>2 DEF HeapOK
  <2>3. \A e \in h2, d \in Directory : ChildOf(Front(e), d) => d = start \/ Above(Output(d), h2)
    BY <1>5, <1>6, <1>7
  <2> QED BY <2>1, <2>2, <2>3 DEF HeapOK
<1>9. Above(Out(c), h2)
  BY <1>2 DEF Above
<1>10. \A e \in h2, d \in Directory : ChildOf(Front(e), d) =>
         d = start \/ Before(Output(d), Out(c))
  BY <1>1, <1>7 DEF Above
<1> QED BY <1>2, <1>5, <1>8, <1>9, <1>10

-----------------------------------------------------------------------------
(* push_listing.                                                           *)

LEMMA RestOfKey ==
  ASSUME NEW k \in Key, NEW p \in Key, StartsWith(k, p)
  PROVE  \E n \in Key : k = p \o n
<1> DEFINE n == SubSeq(k, Len(p) + 1, Len(k))
<1>1. Len(k) \in Nat /\ Len(p) \in Nat /\ Len(p) <= Len(k) /\ k \in Seq(Nat) /\ p \in Seq(Nat)
  BY KeyType DEF StartsWith, Key
<1>2. \A i \in 1..Len(k) : k[i] \in Nat
  BY KeyType
<1>3. /\ n \in Seq(Nat) /\ Len(n) = Len(k) - Len(p)
      /\ \A i \in 1..(Len(k) - Len(p)) : n[i] = k[i + Len(p)]
  BY <1>1, <1>2
<1> HIDE DEF n
<1>4. /\ p \o n \in Seq(Nat) /\ Len(p \o n) = Len(k)
      /\ \A i \in 1..Len(k) : (p \o n)[i] = IF i <= Len(p) THEN p[i] ELSE n[i - Len(p)]
  BY <1>1, <1>3, ConcatProperties
<1>5. \A i \in 1..Len(k) : (p \o n)[i] = k[i]
  <2> SUFFICES ASSUME NEW i \in 1..Len(k) PROVE (p \o n)[i] = k[i]
    OBVIOUS
  <2>1. CASE i <= Len(p)
    BY <1>1, <1>4, <2>1 DEF StartsWith
  <2>2. CASE i > Len(p)
    <3> DEFINE j == i - Len(p)
    <3>1. j \in 1..(Len(k) - Len(p)) /\ j + Len(p) = i
      BY <1>1, <2>2
    <3>2. (p \o n)[i] = n[j]
      BY <1>1, <1>4, <2>2
    <3>3. n[j] = k[j + Len(p)]
      BY <1>3, <3>1
    <3> QED BY <3>1, <3>2, <3>3
  <2>3. i <= Len(p) \/ i > Len(p)
    BY <1>1
  <2> QED BY <2>1, <2>2, <2>3
<1>6. k = p \o n
  BY <1>1, <1>4, <1>5, SeqEqual
<1> QED BY <1>3, <1>6 DEF Key

\* Of an array of files only ones up to the marker are passed over.
LEMMA FilesStart ==
  ASSUME NEW s \in Seq(Path), NEW m, NEW n,
         n = CHOOSE j \in 0..Len(s) : /\ \A i \in 1..j : s[i] = m \/ Before(s[i], m)
                                      /\ j < Len(s) => ~(s[j + 1] = m \/ Before(s[j + 1], m))
  PROVE  n \in 0..Len(s) /\ \A i \in 1..n : s[i] = m \/ Before(s[i], m)
<1> DEFINE T == {i \in 1..Len(s) : s[i] = m \/ Before(s[i], m)}
<1>1. Len(s) \in Nat
  BY LenProperties
<1>2. \E j \in 0..Len(s) : (\A i \in 1..j : i \in T) /\ (j < Len(s) => j + 1 \notin T)
  BY <1>1, SplitPoint
<1>3. \E j \in 0..Len(s) : /\ \A i \in 1..j : s[i] = m \/ Before(s[i], m)
                           /\ j < Len(s) => ~(s[j + 1] = m \/ Before(s[j + 1], m))
  BY <1>1, <1>2
<1> QED BY <1>3

\* A directory is passed over only if nothing in it is behind the marker.
LEMMA DirsStart ==
  ASSUME NEW l \in Listing, NEW d \in Directory, NEW E, NEW A, ListingOK(l, d, E, A),
         NEW m \in Key, NEW i \in 1..Len(l.dirs), NEW k \in Path, Under(k, l.dirs[i])
  PROVE  /\ dirs_start_after(l.dirs, m) \in Nat
         /\ i <= dirs_start_after(l.dirs, m) => Before(k, m)
<1> DEFINE s == l.dirs
<1>1. s \in Seq(Path) /\ \A j \in 1..Len(s) : s[j] \in Path \ Leaf /\ ChildOf(s[j], d)
  BY DEF Listing, ListingOK
<1>2. s \in Seq(Key)
  BY <1>1, PathFacts, SeqMonotonic
<1>3. \A j, n \in 1..Len(s) : j < n => DirBefore(s[j], s[n])
  BY DEF ListingOK
<1>4. \A j, n \in 1..Len(s) : j < n => Before(Output(s[j]), Output(s[n]))
  BY ArraysAscend
<1> HIDE DEF s
<1>5. ASSUME NEW j \in 1..Len(s), NEW n \in 1..Len(s), j # n,
             StartsWith(Output(s[n]), Output(s[j]))
      PROVE  FALSE
  <2> DEFINE x == s[j]
             y == s[n]
  <2>1. x \in Path \ Leaf /\ y \in Path /\ ChildOf(x, d) /\ ChildOf(y, d) /\ x \in Key /\ y \in Key
    BY <1>1, PathFacts
  <2>2. Output(x) # Output(y)
    <3>1. Before(Output(x), Output(y)) \/ Before(Output(y), Output(x))
      <4>1. j < n \/ n < j
        BY <1>2, <1>5, LenProperties
      <4> QED BY <1>4, <4>1
    <3>2. Output(x) \in Key /\ Output(y) \in Key
      BY <2>1, OutputKey
    <3> QED BY <3>1, <3>2, BeforeIrreflexive
  <2>3. x # y
    BY <2>2
  <2> HIDE DEF x, y
  <2>4. Len(x) \in Nat /\ Len(y) \in Nat
    BY <2>1, KeyType
  <2> DEFINE v == Output(x)
             w == Output(y)
  <2>5. /\ Len(v) = Len(x) + 1 /\ v[Len(x) + 1] = Slash
        /\ \A t \in 1..Len(x) : v[t] = x[t]
        /\ Len(w) = Len(y) + 1
        /\ \A t \in 1..Len(y) : w[t] = y[t]
    BY <2>1, OutputKey
  <2>6. StartsWith(w, v)
    BY <1>5 DEF x, y
  <2> HIDE DEF v, w
  <2>7. Len(x) <= Len(y) /\ \A t \in 1..Len(x) : y[t] = x[t]
    BY <2>4, <2>5, <2>6 DEF StartsWith
  <2>8. CASE Len(x) = Len(y)
    BY <2>1, <2>3, <2>7, <2>8, SeqEqual DEF Key
  <2>9. CASE Len(x) < Len(y)
    <3>1. y[Len(x) + 1] = Slash
      BY <2>4, <2>5, <2>6, <2>9 DEF StartsWith
    <3>2. StartsWith(y, x)
      BY <2>7 DEF StartsWith
    <3>3. Under(y, x)
      BY <2>1, <2>4, <2>9, <3>1, <3>2, UnderMeans
    <3> QED BY <2>1, <3>3, SiblingsApart DEF Directory
  <2> QED BY <2>4, <2>7, <2>8, <2>9
<1>6. /\ dirs_start_after(s, m) \in Nat
      /\ i <= dirs_start_after(s, m) => dir_children_all_before(s[i], m)
  BY <1>2, <1>3, <1>5, DirsStartExact DEF s
<1>7. s[i] \in Path /\ s[i] \in Key /\ s[i] # Root /\ k \in Key
  BY <1>1, PathFacts DEF s
<1>8. StartsWith(k, Output(s[i])) /\ Output(s[i]) \in Key
  BY <1>7, OutputKey DEF Under, s
<1>9. PICK n \in Key : k = Output(s[i]) \o n
  BY <1>7, <1>8, RestOfKey
<1>10. dir_children_all_before(s[i], m) => Before(k, m)
  BY <1>7, <1>9, ChildrenBeforeExact
<1> QED BY <1>6, <1>10 DEF s

LEMMA CursorsFacts ==
  ASSUME NEW l \in Listing, NEW d \in Directory, NEW E, NEW A, A \subseteq Path,
         ListingOK(l, d, E, A), NEW after \in Key \cup {NoMarker}
  PROVE  /\ \A e \in Cursors(l, after) : e \in Cursor /\ Placed(e, d, E, A)
         /\ \A e, f \in Cursors(l, after) : e.files = f.files => e = f
         /\ \A k \in A : Under(k, d) /\ After(after, k) =>
              \E e \in Cursors(l, after) : Reaches(e, k)
<1> DEFINE Up(f) == f = after \/ Before(f, after)
           fs == IF after = NoMarker THEN 0 ELSE PartitionPoint(l.files, Up)
           ds == IF after = NoMarker THEN 0 ELSE dirs_start_after(l.dirs, after)
           cf == [listing |-> l, files |-> TRUE, idx |-> fs + 1]
           cd == [listing |-> l, files |-> FALSE, idx |-> ds + 1]
<1>1. /\ l.files \in Seq(Path) /\ l.dirs \in Seq(Path)
      /\ Len(l.files) \in Nat /\ Len(l.dirs) \in Nat
  BY LenProperties DEF Listing
<1>2. Cursors(l, after) =
        {[listing |-> l, files |-> TRUE, idx |-> i] : i \in {fs + 1} \cap 1..Len(l.files)}
          \cup {[listing |-> l, files |-> FALSE, idx |-> i] :
                  i \in {ds + 1} \cap 1..Len(l.dirs)}
  BY DEF Cursors
<1>3. after # NoMarker =>
        fs \in 0..Len(l.files) /\ \A i \in 1..fs : l.files[i] = after \/ Before(l.files[i], after)
  <2> SUFFICES ASSUME after # NoMarker
               PROVE  /\ fs \in 0..Len(l.files)
                      /\ \A i \in 1..fs : l.files[i] = after \/ Before(l.files[i], after)
    OBVIOUS
  <2>1. fs = CHOOSE n \in 0..Len(l.files) :
               /\ \A i \in 1..n : l.files[i] = after \/ Before(l.files[i], after)
               /\ n < Len(l.files) =>
                    ~(l.files[n + 1] = after \/ Before(l.files[n + 1], after))
    BY DEF PartitionPoint
  <2> HIDE DEF fs
  <2> QED BY <1>1, <2>1, FilesStart
<1> HIDE DEF fs, ds
<1>4. ASSUME NEW e \in Cursors(l, after) PROVE e \in Cursor /\ Placed(e, d, E, A)
  <2>1. \/ \E i \in 1..Len(l.files) : e = [listing |-> l, files |-> TRUE, idx |-> i]
        \/ \E i \in 1..Len(l.dirs) : e = [listing |-> l, files |-> FALSE, idx |-> i]
    BY <1>2, <1>4
  <2>2. ASSUME NEW i \in 1..Len(l.files), e = [listing |-> l, files |-> TRUE, idx |-> i]
        PROVE  e \in Cursor /\ Placed(e, d, E, A)
    BY <1>1, <2>2 DEF Cursor, Placed, Size
  <2>3. ASSUME NEW i \in 1..Len(l.dirs), e = [listing |-> l, files |-> FALSE, idx |-> i]
        PROVE  e \in Cursor /\ Placed(e, d, E, A)
    BY <1>1, <2>3 DEF Cursor, Placed, Size
  <2> QED BY <2>1, <2>2, <2>3
<1>5. \A e \in Cursors(l, after) : e.files \in BOOLEAN /\ (e.files => e = cf) /\ (~e.files => e = cd)
  <2> SUFFICES ASSUME NEW e \in Cursors(l, after)
               PROVE  e.files \in BOOLEAN /\ (e.files => e = cf) /\ (~e.files => e = cd)
    OBVIOUS
  <2>1. e = cf \/ e = cd
    BY <1>2
  <2>2. cf.files = TRUE /\ cd.files = FALSE
    OBVIOUS
  <2> HIDE DEF cf, cd
  <2> QED BY <2>1, <2>2
<1>6. ASSUME NEW k \in A, Under(k, d), After(after, k)
      PROVE  \E e \in Cursors(l, after) : Reaches(e, k)
  <2>1. k \in Path /\ k \in Key
    BY PathFacts
  <2>2. CASE \E i \in 1..Len(l.files) : l.files[i] = k
    <3>1. PICK i \in 1..Len(l.files) : l.files[i] = k
      BY <2>2
    <3>2. fs \in Nat /\ fs < i
      <4>1. CASE after = NoMarker
        BY <4>1 DEF fs
      <4>2. CASE after # NoMarker
        <5>1. ~(k = after \/ Before(k, after)) /\ after \in Key
          BY <1>6, <2>1, <4>2, BeforeAsymmetric, BeforeIrreflexive DEF After
        <5> QED BY <1>1, <1>3, <3>1, <4>2, <5>1
      <4> QED BY <4>1, <4>2
    <3>3. fs + 1 \in 1..Len(l.files)
      BY <1>1, <3>2
    <3>4. cf \in Cursors(l, after)
      BY <1>2, <3>3
    <3>5. /\ cf.files = TRUE /\ cf.listing = l /\ cf.idx = fs + 1
          /\ i \in cf.idx..Len(l.files)
      BY <1>1, <3>2
    <3> HIDE DEF cf
    <3>6. Reaches(cf, k)
      BY <3>1, <3>5 DEF Reaches, Size
    <3> QED BY <3>4, <3>6
  <2>3. CASE \E i \in 1..Len(l.dirs) : Under(k, l.dirs[i])
    <3>1. PICK i \in 1..Len(l.dirs) : Under(k, l.dirs[i])
      BY <2>3
    <3>2. ds \in Nat /\ ds < i
      <4>1. CASE after = NoMarker
        BY <4>1 DEF ds
      <4>2. CASE after # NoMarker
        <5>1. ~Before(k, after) /\ after \in Key
          BY <1>6, <2>1, <4>2, BeforeAsymmetric DEF After
        <5>2. ds = dirs_start_after(l.dirs, after)
          BY <4>2 DEF ds
        <5>3. ds \in Nat /\ ~(i <= ds)
          BY <2>1, <3>1, <5>1, <5>2, DirsStart
        <5> QED BY <1>1, <5>3
      <4> QED BY <4>1, <4>2
    <3>3. ds + 1 \in 1..Len(l.dirs)
      BY <1>1, <3>2
    <3>4. cd \in Cursors(l, after)
      BY <1>2, <3>3
    <3>5. /\ cd.files = FALSE /\ cd.listing = l /\ cd.idx = ds + 1
          /\ i \in cd.idx..Len(l.dirs)
      BY <1>1, <3>2
    <3> HIDE DEF cd
    <3>6. Reaches(cd, k)
      BY <3>1, <3>5 DEF Reaches, Size
    <3> QED BY <3>4, <3>6
  <2> QED BY <1>6, <2>2, <2>3 DEF ListingOK
<1> QED BY <1>4, <1>5, <1>6

LEMMA BeforeOutput ==
  ASSUME NEW k \in Key
  PROVE  Before(k, Output(k))
<1> DEFINE w == Output(k)
<1>1. Len(k) \in Nat
  BY KeyType
<1>2. w \in Key /\ Len(w) = Len(k) + 1 /\ \A j \in 1..Len(k) : w[j] = k[j]
  BY OutputKey
<1> HIDE DEF w
<1>3. Parts(k, w, Len(k) + 1)
  BY <1>1, <1>2 DEF Parts
<1>4. Before(k, w)
  BY <1>1, <1>2, <1>3, OrderAt
<1> QED BY <1>4 DEF w

\* Pushing the cursors of a directory that has been popped, or of the first one.
LEMMA PushHeap ==
  ASSUME NEW h \in SUBSET Cursor, NEW start \in Key, NEW E, NEW A, A \subseteq Path,
         HeapOK(h, start, E, A), NEW d \in Directory,
         (d = start /\ h = {}) \/ PendingOK(d, h, start),
         NEW l \in Listing, ListingOK(l, d, E, A), NEW after \in Key \cup {NoMarker},
         NEW h2, h2 = h \cup Cursors(l, after)
  PROVE  /\ h2 \in SUBSET Cursor /\ HeapOK(h2, start, E, A)
         /\ PendingOK(d, h, start) =>
              \A x \in Key : Above(x, h) /\ Before(x, Output(d)) => Above(x, h2)
<1> DEFINE N == Cursors(l, after)
<1>1. /\ \A e \in N : e \in Cursor /\ Placed(e, d, E, A)
      /\ \A e, f \in N : e.files = f.files => e = f
  BY CursorsFacts
<1>2. d \in Key /\ \A b \in Directory : b \in Key /\ Output(b) \in Key
  BY PathFacts, OutputKey
<1>3. \A e \in N : /\ Front(e) \in Path /\ Front(e) \in Key /\ ChildOf(Front(e), d)
                   /\ Out(e) \in Key /\ e.files \in BOOLEAN
  BY <1>1, FrontFacts, PathFacts DEF Cursor
<1> HIDE DEF N
<1>4. h2 = h \cup N
  BY DEF N
<1>5. \A e \in N, b \in Directory : ChildOf(Front(e), b) => b = d
  BY <1>3, ParentUnique
<1>6. d = start \/ Under(d, start)
  BY DEF PendingOK
<1>7. PendingOK(d, h, start) => d # Root /\ d # start
  <2>1. PendingOK(d, h, start) => d # Root
    BY PathFacts DEF PendingOK
  <2>2. PendingOK(d, h, start) => d # start
    BY <1>2, KeyType DEF PendingOK, Under
  <2> QED BY <2>1, <2>2
<1>8. ASSUME PendingOK(d, h, start), NEW e \in N PROVE Before(Output(d), Out(e))
  <2>1. Before(Output(d), Front(e))
    BY <1>2, <1>3, <1>7, <1>8, UnderIsAfter, ChildIsUnder
  <2>2. CASE e.files
    BY <2>1, <2>2 DEF Out
  <2>3. CASE ~e.files
    <3>1. Out(e) = Output(Front(e)) /\ Before(Front(e), Output(Front(e)))
      BY <1>3, <2>3, BeforeOutput DEF Out
    <3>2. Before(Front(e), Out(e))
      BY <3>1
    <3> QED BY <1>2, <1>3, <2>1, <3>2, BeforeTransitive
  <2> QED BY <2>2, <2>3
<1>9. ASSUME PendingOK(d, h, start), NEW x \in Key, Above(x, h), Before(x, Output(d))
      PROVE  Above(x, h2)
  <2> SUFFICES ASSUME NEW e \in N PROVE Before(x, Out(e))
    BY <1>4, <1>9 DEF Above
  <2> QED BY <1>2, <1>3, <1>8, <1>9, BeforeTransitive
<1>10. \A c \in h2 : \E b \in Directory : Placed(c, b, E, A) /\ (b = start \/ Under(b, start))
  BY <1>1, <1>4, <1>6 DEF HeapOK
<1>11. ASSUME NEW c \in h, NEW e \in N, NEW b \in Directory,
              ChildOf(Front(c), b), ChildOf(Front(e), b)
       PROVE  FALSE
  <2>1. b = d /\ PendingOK(d, h, start)
    BY <1>5, <1>11
  <2>2. Before(Output(d), Output(d))
    BY <1>7, <1>11, <2>1 DEF PendingOK
  <2> QED BY <1>2, <2>2, BeforeIrreflexive
<1>12. ASSUME NEW c \in h2, NEW e \in h2, c # e, c.files = e.files, NEW b \in Directory,
              ChildOf(Front(c), b), ChildOf(Front(e), b)
       PROVE  FALSE
  <2>1. CASE c \in h /\ e \in h
    BY <1>12, <2>1 DEF HeapOK
  <2>2. CASE c \in N /\ e \in N
    BY <1>1, <1>12, <2>2 DEF N
  <2> QED BY <1>4, <1>11, <1>12, <2>1, <2>2
<1>13. ASSUME NEW c \in h2, NEW b \in Directory, ChildOf(Front(c), b), b # start
       PROVE  Above(Output(b), h2)
  <2>1. CASE c \in N
    <3>1. b = d /\ PendingOK(d, h, start)
      BY <1>5, <1>13, <2>1
    <3>2. Above(Output(d), h)
      BY <3>1 DEF PendingOK
    <3> QED BY <1>4, <1>8, <3>1, <3>2 DEF Above
  <2>2. CASE c \in h
    <3>1. PendingOK(d, h, start) /\ Above(Output(b), h)
      BY <1>13, <2>2 DEF HeapOK
    <3>2. Before(Output(b), Output(d))
      BY <1>13, <2>2, <3>1 DEF PendingOK
    <3> QED BY <1>2, <1>9, <3>1, <3>2
  <2> QED BY <1>4, <2>1, <2>2
<1>14. HeapOK(h2, start, E, A)
  BY <1>10, <1>12, <1>13 DEF HeapOK
<1> QED BY <1>1, <1>4, <1>9, <1>14

-----------------------------------------------------------------------------
(* A change of the namespace.                                              *)

LEMMA ListingKept ==
  ASSUME NEW l, NEW d, NEW E, NEW A, NEW F, NEW B, E \subseteq F, B \subseteq A,
         ListingOK(l, d, E, A)
  PROVE  ListingOK(l, d, F, B)
BY DEF ListingOK

LEMMA HeapKept ==
  ASSUME NEW h, NEW start, NEW E, NEW A, NEW F, NEW B, E \subseteq F, B \subseteq A,
         HeapOK(h, start, E, A)
  PROVE  HeapOK(h, start, F, B)
<1>1. \A c, d : Placed(c, d, E, A) => Placed(c, d, F, B)
  BY ListingKept DEF Placed
<1> QED BY <1>1 DEF HeapOK

LEMMA SessionKept ==
  ASSUME NEW q, NEW E, NEW A, NEW F, NEW B, E \subseteq F, B \subseteq A,
         SessionInv(q, E, A)
  PROVE  SessionInv(q, F, B)
<1>1. MergeInv(q, F, B)
  BY HeapKept DEF SessionInv, MergeInv
<1>2. AnswerInv(q, F, B)
  BY ListingKept DEF SessionInv, AnswerInv
<1>3. PageInv(q, F)
  BY DEF SessionInv, PageInv
<1>4. GotInv(q, F)
  BY DEF SessionInv, GotInv
<1>5. CoverInv(q, B)
  BY DEF SessionInv, CoverInv
<1> QED BY <1>1, <1>2, <1>3, <1>4, <1>5 DEF SessionInv
-----------------------------------------------------------------------------
(* The steps of a session.                                                 *)

LEMMA IdleHolds ==
  ASSUME NEW E, NEW A
  PROVE  Idle \in Sessions /\ SessionInv(Idle, E, A)
<1> DEFINE q == Idle
<1>1. /\ q.pc = "idle" /\ q.prefix = <<>> /\ q.first = NoMarker /\ q.after = NoMarker
      /\ q.page = <<>> /\ q.got = <<>> /\ q.truncated = FALSE
  BY DEF Idle
<1>2. Idle \in Sessions
  BY PathFacts DEF Idle, Sessions, Answer, Root
<1> HIDE DEF q
<1>3. SessionInv(q, E, A)
  BY <1>1 DEF SessionInv, MergeInv, AnswerInv, PageInv, GotInv, CoverInv, Active, After, Behind
<1> QED BY <1>2, <1>3 DEF q

LEMMA BeginHolds ==
  ASSUME NEW E, NEW A, NEW p \in Key, NEW m \in Key \cup {NoMarker}, NEW t,
         t = [Idle EXCEPT !.pc = "ask", !.prefix = p, !.first = m, !.after = m]
  PROVE  t \in Sessions /\ SessionInv(t, E, A)
<1>1. t \in Sessions
  BY IdleHolds DEF Sessions
<1>2. /\ t.pc = "ask" /\ t.first = t.after /\ t.page = <<>> /\ t.got = <<>>
      /\ t.truncated = FALSE
  BY DEF Idle
<1>3. SessionInv(t, E, A)
  BY <1>2 DEF SessionInv, MergeInv, AnswerInv, PageInv, GotInv, CoverInv, Active, After, Behind
<1> QED BY <1>1, <1>3

\* A request for no keys.
LEMMA AskNothing ==
  ASSUME NEW E, NEW A, NEW q \in Sessions, SessionInv(q, E, A), q.pc = "ask", NEW t,
         t = [q EXCEPT !.max = 0, !.heap = {}, !.page = <<>>, !.truncated = FALSE,
                       !.pc = "respond", !.zero = TRUE]
  PROVE  t \in Sessions /\ SessionInv(t, E, A)
<1> <<>> \in Seq(Path) /\ {} \in SUBSET Cursor
  OBVIOUS
<1>1. t \in Sessions
  BY DEF Sessions
<1>2. /\ t.pc = "respond" /\ t.first = q.first /\ t.after = q.after /\ t.page = <<>>
      /\ t.got = q.got /\ t.truncated = FALSE /\ t.zero = TRUE /\ t.prefix = q.prefix
  BY DEF Sessions
<1>3. MergeInv(t, E, A) /\ AnswerInv(t, E, A) /\ PageInv(t, E)
  BY <1>2 DEF MergeInv, AnswerInv, PageInv, Active
<1>4. GotInv(t, E)
  BY <1>2 DEF SessionInv, GotInv
<1>5. CoverInv(t, A)
  BY <1>2 DEF SessionInv, CoverInv, Active, Behind
<1> QED BY <1>1, <1>3, <1>4, <1>5 DEF SessionInv

LEMMA AskHolds ==
  ASSUME NEW E, NEW A, A \subseteq Path, NEW q \in Sessions, SessionInv(q, E, A), q.pc = "ask",
         NEW n \in Nat, n # 0, NEW t,
         t = [q EXCEPT !.max = n, !.heap = {}, !.page = <<>>, !.truncated = FALSE,
                       !.pc = "lookup", !.seeding = TRUE, !.dir = list_start(q.prefix)]
  PROVE  t \in Sessions /\ SessionInv(t, E, A)
<1>1. q.prefix \in Key
  BY DEF Sessions
<1>2. list_start(q.prefix) \in Key
  BY <1>1, ListStart
<1> <<>> \in Seq(Path) /\ {} \in SUBSET Cursor
  OBVIOUS
<1>3. t \in Sessions
  BY <1>2 DEF Sessions, Active
<1>4. /\ t.pc = "lookup" /\ t.first = q.first /\ t.after = q.after /\ t.page = <<>>
      /\ t.got = q.got /\ t.truncated = FALSE /\ t.prefix = q.prefix
      /\ t.heap = {} /\ t.max = n /\ t.seeding = TRUE /\ t.dir = list_start(q.prefix)
  BY DEF Sessions
<1>5. MergeInv(t, E, A)
  BY <1>4 DEF MergeInv, HeapOK, Above
<1>6. AnswerInv(t, E, A) /\ PageInv(t, E)
  BY <1>4 DEF AnswerInv, PageInv
<1>7. GotInv(t, E)
  BY <1>4 DEF SessionInv, GotInv
<1>8. \A k \in A : Wanted(t, k) => Under(k, t.dir)
  BY <1>1, <1>4, StartCovers DEF Wanted
<1>9. CoverInv(t, A)
  BY <1>4, <1>8 DEF SessionInv, CoverInv, Behind
<1> QED BY <1>3, <1>5, <1>6, <1>7, <1>9 DEF SessionInv

\* A lookup that misses.
LEMMA MissHolds ==
  ASSUME NEW E, NEW A, NEW q \in Sessions, SessionInv(q, E, A), q.pc = "lookup", NEW t,
         t = [q EXCEPT !.pc = "rpc"]
  PROVE  t \in Sessions /\ SessionInv(t, E, A)
<1>1. t \in Sessions
  BY DEF Sessions, Active
<1>2. /\ t.pc = "rpc" /\ t.first = q.first /\ t.after = q.after /\ t.page = q.page
      /\ t.got = q.got /\ t.truncated = q.truncated /\ t.prefix = q.prefix
      /\ t.heap = q.heap /\ t.max = q.max /\ t.seeding = q.seeding /\ t.dir = q.dir
  BY DEF Sessions
<1>3. MergeInv(t, E, A)
  BY <1>2 DEF SessionInv, MergeInv, Active
<1>4. AnswerInv(t, E, A) /\ PageInv(t, E) /\ GotInv(t, E)
  BY <1>2 DEF SessionInv, AnswerInv, PageInv, GotInv
<1>5. CoverInv(t, A)
  BY <1>2 DEF SessionInv, CoverInv, Wanted, Active
<1> QED BY <1>1, <1>3, <1>4, <1>5 DEF SessionInv

LEMMA AnswerHolds ==
  ASSUME NEW E, NEW A, NEW q \in Sessions, SessionInv(q, E, A), q.pc = "rpc",
         NEW a \in Answer,
         a.tag = "ok" => q.dir \in Directory /\ ListingOK(a.listing, q.dir, E, A),
         a.tag \in {"FileNotFound", "denied"} => \A k \in A : ~Under(k, q.dir),
         NEW t, t = [q EXCEPT !.pc = "reply", !.ans = a]
  PROVE  t \in Sessions /\ SessionInv(t, E, A)
<1>1. t \in Sessions
  BY DEF Sessions, Active
<1>2. /\ t.pc = "reply" /\ t.first = q.first /\ t.after = q.after /\ t.page = q.page
      /\ t.got = q.got /\ t.truncated = q.truncated /\ t.prefix = q.prefix
      /\ t.heap = q.heap /\ t.max = q.max /\ t.seeding = q.seeding /\ t.dir = q.dir
      /\ t.ans = a
  BY DEF Sessions
<1>3. MergeInv(t, E, A)
  BY <1>2 DEF SessionInv, MergeInv, Active
<1>4. AnswerInv(t, E, A) /\ PageInv(t, E) /\ GotInv(t, E)
  BY <1>2 DEF SessionInv, AnswerInv, PageInv, GotInv
<1>5. CoverInv(t, A)
  BY <1>2 DEF SessionInv, CoverInv, Wanted, Active
<1> QED BY <1>1, <1>3, <1>4, <1>5 DEF SessionInv

\* An error: the directory is passed over, or the request fails.
LEMMA ErrorHolds ==
  ASSUME NEW E, NEW A, NEW q \in Sessions, SessionInv(q, E, A), q.pc = "reply",
         NEW p \in {"pull", "failed"},
         p = "pull" => q.ans.tag \in {"FileNotFound", "denied"},
         NEW t, t = [q EXCEPT !.pc = p, !.seeding = FALSE, !.ans = [tag |-> "none"]]
  PROVE  t \in Sessions /\ SessionInv(t, E, A)
<1>1. [tag |-> "none"] \in Answer
  BY DEF Answer
<1>2. t \in Sessions
  BY <1>1 DEF Sessions, Active
<1>3. /\ t.pc = p /\ t.first = q.first /\ t.after = q.after /\ t.page = q.page
      /\ t.got = q.got /\ t.truncated = q.truncated /\ t.prefix = q.prefix
      /\ t.heap = q.heap /\ t.max = q.max /\ t.seeding = FALSE
  BY DEF Sessions
<1>4. MergeInv(t, E, A)
  BY <1>3 DEF SessionInv, MergeInv, Active
<1>5. AnswerInv(t, E, A) /\ PageInv(t, E) /\ GotInv(t, E)
  BY <1>3 DEF SessionInv, AnswerInv, PageInv, GotInv
<1>6. p = "pull" => \A k \in A : ~Under(k, q.dir)
  BY DEF SessionInv, AnswerInv
<1>7. CoverInv(t, A)
  BY <1>3, <1>6 DEF SessionInv, CoverInv, Wanted, Active
<1> QED BY <1>2, <1>4, <1>5, <1>7 DEF SessionInv

\* A listing is merged in.
LEMMA PushedHolds ==
  ASSUME NEW E, NEW A, A \subseteq Path, NEW q \in Sessions, SessionInv(q, E, A),
         q.pc \in {"lookup", "reply"}, q.dir \in Directory,
         NEW l \in Listing, ListingOK(l, q.dir, E, A),
         NEW t, t = [q EXCEPT !.pc = "pull", !.seeding = FALSE, !.ans = [tag |-> "none"],
                              !.heap = q.heap \cup Cursors(l, q.after)]
  PROVE  t \in Sessions /\ SessionInv(t, E, A)
<1> DEFINE start == list_start(q.prefix)
           h == q.heap
           h2 == q.heap \cup Cursors(l, q.after)
           d == q.dir
<1>1. [tag |-> "none"] \in Answer
  BY DEF Answer
<1>2. /\ q.prefix \in Key /\ q.after \in Key \cup {NoMarker} /\ h \in SUBSET Cursor
      /\ q.seeding \in BOOLEAN /\ q.page \in Seq(Path)
  BY DEF Sessions
<1>3. start \in Key
  BY <1>2, ListStart
<1>4. /\ HeapOK(h, start, E, A) /\ q.max # 0
      /\ q.seeding => d = start /\ h = {} /\ q.page = <<>>
      /\ ~q.seeding => /\ PendingOK(d, h, start)
                       /\ \A i \in 1..Len(q.page) : Before(q.page[i], Output(d))
      /\ \A i \in 1..Len(q.page) : Above(q.page[i], h)
  BY DEF SessionInv, MergeInv, Active
<1>5. (d = start /\ h = {}) \/ PendingOK(d, h, start)
  BY <1>2, <1>4
<1> HIDE DEF h, h2, start, d
<1>6. /\ h2 \in SUBSET Cursor /\ HeapOK(h2, start, E, A)
      /\ PendingOK(d, h, start) =>
           \A x \in Key : Above(x, h) /\ Before(x, Output(d)) => Above(x, h2)
  <2>1. d \in Directory /\ ListingOK(l, d, E, A) /\ h2 = h \cup Cursors(l, q.after)
    BY DEF d, h2, h
  <2> DEFINE after == q.after
  <2> HIDE DEF after
  <2>2. after \in Key \cup {NoMarker} /\ h2 = h \cup Cursors(l, after)
    BY <1>2, <2>1 DEF after
  <2> QED BY <1>2, <1>3, <1>4, <1>5, <2>1, <2>2, PushHeap
<1>7. \A k \in A : Under(k, d) /\ After(q.after, k) => \E e \in Cursors(l, q.after) : Reaches(e, k)
  BY <1>2, CursorsFacts DEF d
<1>8. t \in Sessions
  BY <1>1, <1>6 DEF Sessions, Active, h2
<1>9. /\ t.pc = "pull" /\ t.first = q.first /\ t.after = q.after /\ t.page = q.page
      /\ t.got = q.got /\ t.truncated = q.truncated /\ t.prefix = q.prefix
      /\ t.heap = h2 /\ t.max = q.max /\ t.seeding = FALSE
  BY DEF Sessions, h2
<1>10. \A i \in 1..Len(q.page) : q.page[i] \in Key
  BY <1>2, PathFacts, ElementOfSeq
<1>11. ASSUME NEW i \in 1..Len(q.page) PROVE Above(q.page[i], h2)
  <2>1. ~q.seeding
    BY <1>4, <1>11
  <2> QED BY <1>4, <1>6, <1>10, <2>1
<1>12. MergeInv(t, E, A)
  BY <1>4, <1>6, <1>9, <1>11 DEF MergeInv, start
<1>13. AnswerInv(t, E, A) /\ PageInv(t, E) /\ GotInv(t, E)
  BY <1>9 DEF SessionInv, AnswerInv, PageInv, GotInv
<1>14. \A k \in A : Wanted(q, k) => InSeq(q.page, k) \/ (\E c \in h : Reaches(c, k)) \/ Under(k, d)
  BY DEF SessionInv, CoverInv, Active, h, d
<1>15. ASSUME NEW k \in A, Wanted(t, k) PROVE InSeq(t.page, k) \/ \E c \in h2 : Reaches(c, k)
  <2>1. Wanted(q, k) /\ After(q.after, k)
    BY <1>9, <1>15 DEF Wanted
  <2> QED BY <1>7, <1>9, <1>14, <2>1 DEF h2, h
<1>16. CoverInv(t, A)
  BY <1>9, <1>15 DEF SessionInv, CoverInv, Wanted
<1> QED BY <1>8, <1>12, <1>13, <1>16 DEF SessionInv

\* What a pop takes out of reach is at the front.
LEMMA PopReach ==
  ASSUME NEW h \in SUBSET Cursor, NEW start, NEW E, NEW A, HeapOK(h, start, E, A),
         NEW c \in Least(h), NEW h2, h2 = Popped(h, c),
         NEW k, NEW e \in h, Reaches(e, k)
  PROVE  \/ \E f \in h2 : Reaches(f, k)
         \/ c.files /\ Front(c) = k
         \/ ~c.files /\ Under(k, Front(c))
<1>1. CASE e # c
  BY <1>1 DEF Popped
<1>2. CASE e = c
  <2>1. c \in Cursor
    BY DEF Least
  <2>2. PICK d \in Directory : Placed(c, d, E, A)
    BY <1>2 DEF HeapOK
  <2>3. Reaches(c, k)
    BY <1>2
  <2>4. CASE Advanced(c) = {}
    BY <2>1, <2>2, <2>3, <2>4, ExhaustedReach
  <2>5. CASE Advanced(c) # {}
    <3>1. PICK f \in Advanced(c) : TRUE
      BY <2>5
    <3>2. f \in h2
      BY <3>1 DEF Popped
    <3> QED BY <2>1, <2>2, <2>3, <3>1, <3>2, AdvancedFacts
  <2> QED BY <2>4, <2>5
<1> QED BY <1>1, <1>2

\* The facts about a merge that every pull starts from.
Pulled(q, c, h2, E, A) ==
  /\ q.prefix \in Key /\ q.after \in Key \cup {NoMarker} /\ q.page \in Seq(Path)
  /\ list_start(q.prefix) \in Key /\ q.max \in Nat \ {0} /\ ~q.seeding
  /\ h2 \in SUBSET Cursor /\ HeapOK(h2, list_start(q.prefix), E, A)
  /\ c \in Cursor /\ c \in q.heap /\ c.files \in BOOLEAN
  /\ Front(c) \in Path /\ Out(c) \in Key
  /\ Under(Front(c), list_start(q.prefix))
  /\ c.files => Front(c) \in E
  /\ ~c.files => Front(c) \in Path \ Leaf
  /\ Above(Out(c), h2)
  /\ \A i \in 1..Len(q.page) :
       q.page[i] \in Key /\ Above(q.page[i], h2) /\ Before(q.page[i], Out(c))
  /\ \A e \in h2, d \in Directory : ChildOf(Front(e), d) =>
       d = list_start(q.prefix) \/ Before(Output(d), Out(c))
  /\ \A k \in A : Wanted(q, k) =>
       \/ InSeq(q.page, k)
       \/ \E f \in h2 : Reaches(f, k)
       \/ c.files /\ Front(c) = k
       \/ ~c.files /\ Under(k, Front(c))

LEMMA PullFacts ==
  ASSUME NEW E, NEW A, A \subseteq Path, NEW q \in Sessions, SessionInv(q, E, A),
         q.pc = "pull", NEW c \in Least(q.heap), NEW h2,
         h2 = Popped(q.heap, c)
  PROVE  Pulled(q, c, h2, E, A)
<1> DEFINE start == list_start(q.prefix)
           h == q.heap
<1>1. /\ q.prefix \in Key /\ q.after \in Key \cup {NoMarker} /\ h \in SUBSET Cursor
      /\ q.page \in Seq(Path) /\ q.max \in Nat
  BY DEF Sessions
<1>2. start \in Key
  BY <1>1, ListStart
<1>3. /\ HeapOK(h, start, E, A) /\ q.max # 0 /\ ~q.seeding
      /\ \A i \in 1..Len(q.page) : Above(q.page[i], h)
  BY DEF SessionInv, MergeInv, Active
<1>4. \A i \in 1..Len(q.page) : q.page[i] \in Key
  BY <1>1, PathFacts, ElementOfSeq
<1>5. \A k \in A : Wanted(q, k) => InSeq(q.page, k) \/ \E e \in h : Reaches(e, k)
  BY DEF SessionInv, CoverInv, Active
<1> HIDE DEF start, h
<1>6. c \in Least(h) /\ h2 = Popped(h, c)
  BY DEF h
<1>7. /\ h2 \in SUBSET Cursor /\ HeapOK(h2, start, E, A)
      /\ Above(Out(c), h2)
      /\ \A x \in Key : Above(x, h) => Above(x, h2)
      /\ \A e \in h2, d \in Directory : ChildOf(Front(e), d) =>
           d = start \/ Before(Output(d), Out(c))
  BY <1>1, <1>3, <1>6, PopHeap
<1>8. c \in h /\ c \in Cursor /\ c.files \in BOOLEAN
  BY <1>1, <1>6 DEF Least, Cursor
<1>9. PICK d \in Directory : Placed(c, d, E, A) /\ (d = start \/ Under(d, start))
  BY <1>3, <1>8 DEF HeapOK
<1>10. /\ Front(c) \in Path /\ ChildOf(Front(c), d) /\ Out(c) \in Key
       /\ c.files => Front(c) \in E
       /\ ~c.files => Front(c) \in Path \ Leaf
  BY <1>8, <1>9, FrontFacts
<1>11. Under(Front(c), start)
  BY <1>2, <1>9, <1>10, PathFacts, ChildIsUnder, UnderTransitive
<1>12. \A i \in 1..Len(q.page) : Above(q.page[i], h2) /\ Before(q.page[i], Out(c))
  BY <1>3, <1>4, <1>7, <1>8 DEF Above
<1>13. \A k \in A : Wanted(q, k) =>
         \/ InSeq(q.page, k)
         \/ \E f \in h2 : Reaches(f, k)
         \/ c.files /\ Front(c) = k
         \/ ~c.files /\ Under(k, Front(c))
  BY <1>1, <1>3, <1>5, <1>6, PopReach
<1> QED BY <1>1, <1>2, <1>3, <1>4, <1>7, <1>8, <1>10, <1>11, <1>12, <1>13 DEF start, h, Pulled

\* The front is passed over: no file that is wanted is lost with it.
LEMMA PassHolds ==
  ASSUME NEW E, NEW A, A \subseteq Path, NEW q \in Sessions, SessionInv(q, E, A),
         q.pc = "pull", NEW c \in Least(q.heap), NEW h2,
         h2 = Popped(q.heap, c),
         \A k \in A : Wanted(q, k) =>
           ~(c.files /\ Front(c) = k) /\ ~(~c.files /\ Under(k, Front(c))),
         NEW t, t = [q EXCEPT !.heap = h2]
  PROVE  t \in Sessions /\ SessionInv(t, E, A)
<1>0. Pulled(q, c, h2, E, A)
  BY PullFacts
<1>1. /\ h2 \in SUBSET Cursor /\ HeapOK(h2, list_start(q.prefix), E, A)
      /\ \A i \in 1..Len(q.page) : Above(q.page[i], h2)
      /\ ~q.seeding /\ q.max # 0
      /\ \A k \in A : Wanted(q, k) => InSeq(q.page, k) \/ \E f \in h2 : Reaches(f, k)
  BY <1>0 DEF Pulled
<1>2. t \in Sessions
  BY <1>1 DEF Sessions
<1>3. /\ t.pc = "pull" /\ t.first = q.first /\ t.after = q.after /\ t.page = q.page
      /\ t.got = q.got /\ t.truncated = q.truncated /\ t.prefix = q.prefix
      /\ t.heap = h2 /\ t.max = q.max /\ t.seeding = q.seeding
  BY DEF Sessions
<1>4. MergeInv(t, E, A)
  BY <1>1, <1>3 DEF MergeInv
<1>5. AnswerInv(t, E, A) /\ PageInv(t, E) /\ GotInv(t, E)
  BY <1>3 DEF SessionInv, AnswerInv, PageInv, GotInv
<1>6. CoverInv(t, A)
  BY <1>1, <1>3 DEF SessionInv, CoverInv, Wanted
<1> QED BY <1>2, <1>4, <1>5, <1>6 DEF SessionInv

\* The page is full and there is one more file: the page is truncated.
LEMMA FullHolds ==
  ASSUME NEW E, NEW A, A \subseteq Path, NEW q \in Sessions, SessionInv(q, E, A),
         q.pc = "pull", NEW c \in Least(q.heap), NEW h2,
         h2 = Popped(q.heap, c), ~(Len(q.page) < q.max),
         NEW t, t = [q EXCEPT !.heap = h2, !.pc = "respond", !.truncated = TRUE]
  PROVE  t \in Sessions /\ SessionInv(t, E, A)
<1>0. Pulled(q, c, h2, E, A)
  BY PullFacts
<1>1. h2 \in SUBSET Cursor /\ q.max \in Nat \ {0} /\ q.page \in Seq(Path)
  BY <1>0 DEF Pulled
<1>2. q.page # <<>>
  BY <1>1, EmptySeq
<1>3. t \in Sessions
  BY <1>1 DEF Sessions
<1>4. /\ t.pc = "respond" /\ t.first = q.first /\ t.after = q.after /\ t.page = q.page
      /\ t.got = q.got /\ t.truncated = TRUE /\ t.prefix = q.prefix
  BY DEF Sessions
<1>5. MergeInv(t, E, A) /\ AnswerInv(t, E, A)
  BY <1>4 DEF MergeInv, AnswerInv, Active
<1>6. PageInv(t, E) /\ GotInv(t, E)
  BY <1>2, <1>4 DEF SessionInv, PageInv, GotInv
<1>7. CoverInv(t, A)
  BY <1>4 DEF SessionInv, CoverInv, Wanted, Active
<1> QED BY <1>3, <1>5, <1>6, <1>7 DEF SessionInv

\* A file goes into the page.
LEMMA EmitHolds ==
  ASSUME NEW E, NEW A, A \subseteq Path, NEW q \in Sessions, SessionInv(q, E, A),
         q.pc = "pull", NEW c \in Least(q.heap), NEW h2,
         h2 = Popped(q.heap, c),
         c.files, StartsWith(Front(c), q.prefix),
         ~(q.after # NoMarker /\ (Front(c) = q.after \/ Before(Front(c), q.after))),
         NEW t, t = [q EXCEPT !.heap = h2, !.page = Append(q.page, Front(c))]
  PROVE  t \in Sessions /\ SessionInv(t, E, A)
<1> DEFINE key == Front(c)
           page == Append(q.page, Front(c))
<1>0. Pulled(q, c, h2, E, A)
  BY PullFacts
<1>1. /\ q.after \in Key \cup {NoMarker} /\ q.page \in Seq(Path)
      /\ h2 \in SUBSET Cursor /\ HeapOK(h2, list_start(q.prefix), E, A)
      /\ ~q.seeding /\ q.max # 0
      /\ key \in Path /\ key \in E
      /\ \A i \in 1..Len(q.page) : q.page[i] \in Key /\ Above(q.page[i], h2)
      /\ \A k \in A : Wanted(q, k) =>
           InSeq(q.page, k) \/ (\E f \in h2 : Reaches(f, k)) \/ key = k
  BY <1>0 DEF Pulled
<1>2. Out(c) = key
  BY DEF Out
<1>3. Above(key, h2) /\ \A i \in 1..Len(q.page) : Before(q.page[i], key)
  BY <1>0, <1>2 DEF Pulled
<1>4. key \in Key
  BY <1>1, PathFacts
<1>5. After(q.after, key)
  BY <1>1, <1>4, BeforeTotal DEF After
<1>6. StartsWith(key, q.prefix)
  OBVIOUS
<1>7. page \in Seq(Path)
  BY <1>1, AppendProperties
<1>8. t \in Sessions
  BY <1>1, <1>7 DEF Sessions
<1>9. /\ t.pc = "pull" /\ t.first = q.first /\ t.after = q.after /\ t.page = page
      /\ t.got = q.got /\ t.truncated = q.truncated /\ t.prefix = q.prefix
      /\ t.heap = h2 /\ t.max = q.max /\ t.seeding = q.seeding
  BY DEF Sessions
<1>10. /\ Len(q.page) \in Nat /\ Len(page) = Len(q.page) + 1 /\ page[Len(q.page) + 1] = key
       /\ \A i \in 1..Len(q.page) : page[i] = q.page[i]
  BY <1>1, AppendProperties, LenProperties
<1> HIDE DEF key, page
<1>11. \A i \in 1..Len(page) : i \in 1..Len(q.page) \/ page[i] = key
  BY <1>10
<1>12. \A i \in 1..Len(page) : Above(page[i], h2)
  BY <1>1, <1>3, <1>10, <1>11
<1>13. MergeInv(t, E, A)
  BY <1>1, <1>9, <1>12 DEF MergeInv
<1>14. \A i, j \in 1..Len(page) : i < j => Before(page[i], page[j])
  <2> SUFFICES ASSUME NEW i \in 1..Len(page), NEW j \in 1..Len(page), i < j
               PROVE  Before(page[i], page[j])
    OBVIOUS
  <2>1. i \in 1..Len(q.page)
    BY <1>10
  <2>2. CASE j \in 1..Len(q.page)
    BY <1>10, <2>1, <2>2 DEF SessionInv, PageInv
  <2>3. CASE j \notin 1..Len(q.page)
    BY <1>3, <1>10, <1>11, <2>1, <2>3
  <2> QED BY <2>2, <2>3
<1>15. \A i \in 1..Len(page) :
         page[i] \in E /\ StartsWith(page[i], q.prefix) /\ After(q.after, page[i])
  BY <1>1, <1>5, <1>6, <1>10, <1>11 DEF SessionInv, PageInv
<1>16. page # <<>>
  BY <1>7, <1>10, EmptySeq
<1>17. PageInv(t, E)
  BY <1>9, <1>14, <1>15, <1>16 DEF PageInv
<1>18. AnswerInv(t, E, A) /\ GotInv(t, E)
  BY <1>9 DEF SessionInv, AnswerInv, GotInv
<1>19. \A k : InSeq(q.page, k) \/ k = key => InSeq(page, k)
  BY <1>10 DEF InSeq
<1>20. ASSUME NEW k \in A, Wanted(q, k)
       PROVE  InSeq(page, k) \/ ((\E f \in h2 : Reaches(f, k)) /\ Behind(page, k))
  <2> SUFFICES ASSUME NEW f \in h2, Reaches(f, k) PROVE Behind(page, k)
    BY <1>1, <1>19, <1>20
  <2>1. k \in Path /\ k \in Key
    BY PathFacts
  <2>2. PICK d \in Directory : Placed(f, d, E, A)
    BY <1>1 DEF HeapOK
  <2>3. f \in Cursor
    BY <1>1
  <2>4. (Out(f) = k \/ Before(Out(f), k)) /\ Out(f) \in Key
    BY <2>1, <2>2, <2>3, ReachIsAbove, FrontFacts
  <2>5. ASSUME NEW i \in 1..Len(page) PROVE Before(page[i], k)
    <3>1. page[i] \in Key /\ Before(page[i], Out(f))
      BY <1>1, <1>4, <1>10, <1>11, <1>12 DEF Above
    <3> QED BY <2>1, <2>4, <3>1, BeforeTransitive
  <2> QED BY <2>5 DEF Behind
<1>21. CoverInv(t, A)
  BY <1>9, <1>20 DEF SessionInv, CoverInv, Wanted
<1> QED BY <1>8, <1>13, <1>17, <1>18, <1>21 DEF SessionInv

\* next_entry descends into the directory at the front.
LEMMA DescendHolds ==
  ASSUME NEW E, NEW A, A \subseteq Path, NEW q \in Sessions, SessionInv(q, E, A),
         q.pc = "pull", NEW c \in Least(q.heap), NEW h2,
         h2 = Popped(q.heap, c), ~c.files,
         NEW t, t = [q EXCEPT !.heap = h2, !.pc = "lookup", !.dir = Front(c)]
  PROVE  t \in Sessions /\ SessionInv(t, E, A)
<1> DEFINE key == Front(c)
<1>0. Pulled(q, c, h2, E, A)
  BY PullFacts
<1>1. /\ h2 \in SUBSET Cursor /\ HeapOK(h2, list_start(q.prefix), E, A)
      /\ \A i \in 1..Len(q.page) : Above(q.page[i], h2)
      /\ ~q.seeding /\ q.max # 0
      /\ key \in Path /\ Under(key, list_start(q.prefix))
      /\ \A k \in A : Wanted(q, k) =>
           InSeq(q.page, k) \/ (\E f \in h2 : Reaches(f, k)) \/ Under(k, key)
  BY <1>0 DEF Pulled
<1>2. Out(c) = Output(key)
  BY DEF Out
<1>3. /\ Above(Output(key), h2)
      /\ \A i \in 1..Len(q.page) : Before(q.page[i], Output(key))
      /\ \A e \in h2, d \in Directory : ChildOf(Front(e), d) =>
           d = list_start(q.prefix) \/ Before(Output(d), Output(key))
  BY <1>0, <1>2 DEF Pulled
<1>4. key \in Key
  BY <1>1, PathFacts
<1>5. t \in Sessions
  BY <1>1, <1>4 DEF Sessions, Active
<1>6. /\ t.pc = "lookup" /\ t.first = q.first /\ t.after = q.after /\ t.page = q.page
      /\ t.got = q.got /\ t.truncated = q.truncated /\ t.prefix = q.prefix
      /\ t.heap = h2 /\ t.max = q.max /\ t.seeding = q.seeding /\ t.dir = key
  BY DEF Sessions
<1> HIDE DEF key
<1>7. PendingOK(key, h2, list_start(q.prefix))
  BY <1>1, <1>3 DEF PendingOK
<1>8. MergeInv(t, E, A)
  BY <1>1, <1>3, <1>6, <1>7 DEF MergeInv
<1>9. AnswerInv(t, E, A) /\ PageInv(t, E) /\ GotInv(t, E)
  BY <1>6 DEF SessionInv, AnswerInv, PageInv, GotInv
<1>10. CoverInv(t, A)
  BY <1>1, <1>6 DEF SessionInv, CoverInv, Wanted
<1> QED BY <1>5, <1>8, <1>9, <1>10 DEF SessionInv

LEMMA ExhaustedHolds ==
  ASSUME NEW E, NEW A, NEW q \in Sessions, SessionInv(q, E, A), q.pc = "pull", q.heap = {},
         NEW t, t = [q EXCEPT !.pc = "respond"]
  PROVE  t \in Sessions /\ SessionInv(t, E, A)
<1>1. t \in Sessions
  BY DEF Sessions
<1>2. /\ t.pc = "respond" /\ t.first = q.first /\ t.after = q.after /\ t.page = q.page
      /\ t.got = q.got /\ t.truncated = q.truncated /\ t.prefix = q.prefix
  BY DEF Sessions
<1>3. MergeInv(t, E, A) /\ AnswerInv(t, E, A)
  BY <1>2 DEF MergeInv, AnswerInv, Active
<1>4. PageInv(t, E) /\ GotInv(t, E)
  BY <1>2 DEF SessionInv, PageInv, GotInv
<1>5. \A k \in A : Wanted(q, k) => InSeq(q.page, k)
  BY DEF SessionInv, CoverInv, Active
<1>6. CoverInv(t, A)
  BY <1>2, <1>5 DEF SessionInv, CoverInv, Wanted, Active
<1> QED BY <1>1, <1>3, <1>4, <1>6 DEF SessionInv

-----------------------------------------------------------------------------
(* The pages of a session, one after the other.                            *)

LEMMA Joined ==
  ASSUME NEW s \in Seq(Path), NEW u \in Seq(Path), NEW g, g = s \o u
  PROVE  /\ g \in Seq(Path)
         /\ \A i \in 1..Len(g) : \/ i \in 1..Len(s) /\ g[i] = s[i]
                                 \/ i - Len(s) \in 1..Len(u) /\ g[i] = u[i - Len(s)]
         /\ \A k : InSeq(s, k) \/ InSeq(u, k) => InSeq(g, k)
<1>1. Len(s) \in Nat /\ Len(u) \in Nat
  BY LenProperties
<1>2. /\ g \in Seq(Path) /\ Len(g) = Len(s) + Len(u)
      /\ \A i \in 1..(Len(s) + Len(u)) : g[i] = IF i <= Len(s) THEN s[i] ELSE u[i - Len(s)]
  BY ConcatProperties
<1>3. ASSUME NEW i \in 1..Len(g)
      PROVE  \/ i \in 1..Len(s) /\ g[i] = s[i]
             \/ i - Len(s) \in 1..Len(u) /\ g[i] = u[i - Len(s)]
  BY <1>1, <1>2
<1>4. ASSUME NEW k, InSeq(s, k) PROVE InSeq(g, k)
  <2>1. PICK i \in 1..Len(s) : s[i] = k
    BY <1>4 DEF InSeq
  <2>2. i \in 1..Len(g) /\ g[i] = k
    BY <1>1, <1>2, <2>1
  <2> QED BY <2>2 DEF InSeq
<1>5. ASSUME NEW k, InSeq(u, k) PROVE InSeq(g, k)
  <2>1. PICK i \in 1..Len(u) : u[i] = k
    BY <1>5 DEF InSeq
  <2> DEFINE j == Len(s) + i
  <2>2. j \in 1..Len(g) /\ ~(j <= Len(s)) /\ j - Len(s) = i
    BY <1>1, <1>2
  <2> HIDE DEF j
  <2>3. g[j] = k
    BY <1>2, <2>1, <2>2
  <2> QED BY <2>2, <2>3 DEF InSeq
<1> QED BY <1>2, <1>3, <1>4, <1>5

LEMMA JoinedAscends ==
  ASSUME NEW s \in Seq(Path), NEW u \in Seq(Path), NEW g, g = s \o u,
         \A i, j \in 1..Len(s) : i < j => Before(s[i], s[j]),
         \A i, j \in 1..Len(u) : i < j => Before(u[i], u[j]),
         \A i \in 1..Len(s), j \in 1..Len(u) : Before(s[i], u[j])
  PROVE  \A i, j \in 1..Len(g) : i < j => Before(g[i], g[j])
<1>1. Len(s) \in Nat /\ Len(u) \in Nat
  BY LenProperties
<1>2. \A i \in 1..Len(g) : \/ i \in 1..Len(s) /\ g[i] = s[i]
                           \/ i - Len(s) \in 1..Len(u) /\ g[i] = u[i - Len(s)]
  BY Joined
<1> SUFFICES ASSUME NEW i \in 1..Len(g), NEW j \in 1..Len(g), i < j
             PROVE  Before(g[i], g[j])
  OBVIOUS
<1>3. CASE i \in 1..Len(s) /\ g[i] = s[i] /\ j \in 1..Len(s) /\ g[j] = s[j]
  BY <1>3
<1>4. CASE /\ i \in 1..Len(s) /\ g[i] = s[i]
           /\ j - Len(s) \in 1..Len(u) /\ g[j] = u[j - Len(s)]
  BY <1>4
<1>5. CASE i - Len(s) \in 1..Len(u) /\ j \in 1..Len(s)
  BY <1>1, <1>5
<1>6. CASE /\ i - Len(s) \in 1..Len(u) /\ g[i] = u[i - Len(s)]
           /\ j - Len(s) \in 1..Len(u) /\ g[j] = u[j - Len(s)]
  BY <1>1, <1>6
<1> QED BY <1>2, <1>3, <1>4, <1>5, <1>6

\* Everything a client was given so far is before what comes.
LEMMA GotBeforePage ==
  ASSUME NEW E, NEW A, NEW q \in Sessions, SessionInv(q, E, A)
  PROVE  /\ \A i \in 1..Len(q.got), j \in 1..Len(q.page) : Before(q.got[i], q.page[j])
         /\ \A j \in 1..Len(q.page) : After(q.first, q.page[j])
<1>1. q.got \in Seq(Path) /\ q.page \in Seq(Path)
      /\ q.first \in Key \cup {NoMarker} /\ q.after \in Key \cup {NoMarker}
  BY DEF Sessions
<1>2. /\ \A i \in 1..Len(q.got) : q.got[i] \in Key
      /\ \A i \in 1..Len(q.page) : q.page[i] \in Key
  BY <1>1, PathFacts, ElementOfSeq
<1>3. ASSUME NEW i \in 1..Len(q.got), NEW j \in 1..Len(q.page) PROVE Before(q.got[i], q.page[j])
  <2>1. q.pc # "done"
    BY <1>3 DEF SessionInv, PageInv
  <2>2. q.after # NoMarker /\ (q.got[i] = q.after \/ Before(q.got[i], q.after))
    BY <1>3, <2>1 DEF SessionInv, GotInv
  <2>3. Before(q.after, q.page[j]) /\ q.after \in Key
    BY <1>1, <1>3, <2>2 DEF SessionInv, PageInv, After
  <2> QED BY <1>2, <2>2, <2>3, BeforeTransitive
<1>4. ASSUME NEW j \in 1..Len(q.page) PROVE After(q.first, q.page[j])
  <2>1. After(q.after, q.page[j])
    BY <1>4 DEF SessionInv, PageInv
  <2>2. q.first # NoMarker => q.after # NoMarker /\ (q.first = q.after \/ Before(q.first, q.after))
    BY DEF SessionInv, GotInv
  <2> QED BY <1>1, <1>2, <2>1, <2>2, BeforeTransitive DEF After
<1> QED BY <1>3, <1>4

LEMMA GotGrows ==
  ASSUME NEW E, NEW A, NEW q \in Sessions, SessionInv(q, E, A), NEW g, g = q.got \o q.page
  PROVE  /\ g \in Seq(Path)
         /\ \A i \in 1..Len(g) :
              g[i] \in E /\ StartsWith(g[i], q.prefix) /\ After(q.first, g[i])
         /\ \A i, j \in 1..Len(g) : i < j => Before(g[i], g[j])
         /\ \A i \in 1..Len(g) : InSeq(q.got, g[i]) \/ InSeq(q.page, g[i])
         /\ \A k : InSeq(q.got, k) \/ InSeq(q.page, k) => InSeq(g, k)
<1>1. q.got \in Seq(Path) /\ q.page \in Seq(Path)
  BY DEF Sessions
<1>2. /\ g \in Seq(Path)
      /\ \A i \in 1..Len(g) : \/ i \in 1..Len(q.got) /\ g[i] = q.got[i]
                              \/ i - Len(q.got) \in 1..Len(q.page) /\ g[i] = q.page[i - Len(q.got)]
      /\ \A k : InSeq(q.got, k) \/ InSeq(q.page, k) => InSeq(g, k)
  <2> DEFINE a == q.got
             b == q.page
  <2>1. a \in Seq(Path) /\ b \in Seq(Path) /\ g = a \o b
    BY <1>1
  <2> HIDE DEF a, b
  <2>2. /\ g \in Seq(Path)
        /\ \A i \in 1..Len(g) : \/ i \in 1..Len(a) /\ g[i] = a[i]
                                \/ i - Len(a) \in 1..Len(b) /\ g[i] = b[i - Len(a)]
        /\ \A k : InSeq(a, k) \/ InSeq(b, k) => InSeq(g, k)
    BY <2>1, Joined
  <2> QED BY <2>2 DEF a, b
<1>3. /\ \A i \in 1..Len(q.got), j \in 1..Len(q.page) : Before(q.got[i], q.page[j])
      /\ \A j \in 1..Len(q.page) : After(q.first, q.page[j])
  BY GotBeforePage
<1>4. \A i \in 1..Len(q.got) :
        q.got[i] \in E /\ StartsWith(q.got[i], q.prefix) /\ After(q.first, q.got[i])
  BY DEF SessionInv, GotInv
<1>5. \A i \in 1..Len(q.page) : q.page[i] \in E /\ StartsWith(q.page[i], q.prefix)
  BY DEF SessionInv, PageInv
<1>6. \A i \in 1..Len(g) : g[i] \in E /\ StartsWith(g[i], q.prefix) /\ After(q.first, g[i])
  BY <1>2, <1>3, <1>4, <1>5
<1>7. /\ \A i, j \in 1..Len(q.got) : i < j => Before(q.got[i], q.got[j])
      /\ \A i, j \in 1..Len(q.page) : i < j => Before(q.page[i], q.page[j])
  BY DEF SessionInv, PageInv, GotInv
<1>8. \A i, j \in 1..Len(g) : i < j => Before(g[i], g[j])
  BY <1>1, <1>3, <1>7, JoinedAscends
<1>9. \A i \in 1..Len(g) : InSeq(q.got, g[i]) \/ InSeq(q.page, g[i])
  BY <1>2 DEF InSeq
<1> QED BY <1>2, <1>6, <1>8, <1>9

\* The client takes a page that is not the last one.
LEMMA MoreHolds ==
  ASSUME NEW E, NEW A, A \subseteq Path, NEW q \in Sessions, SessionInv(q, E, A),
         q.pc = "respond", q.page # <<>>, NEW t,
         t = [q EXCEPT !.got = q.got \o q.page, !.page = <<>>, !.heap = {}, !.pc = "ask",
                       !.after = q.page[Len(q.page)]]
  PROVE  t \in Sessions /\ SessionInv(t, E, A)
<1> DEFINE g == q.got \o q.page
           last == q.page[Len(q.page)]
           n == Len(q.page)
<1>1. q.got \in Seq(Path) /\ q.page \in Seq(Path)
      /\ q.first \in Key \cup {NoMarker} /\ q.after \in Key \cup {NoMarker}
  BY DEF Sessions
<1>2. n \in Nat /\ n \in 1..Len(q.page)
  BY <1>1, EmptySeq, LenProperties
<1>3. /\ \A i \in 1..Len(q.page) : q.page[i] \in Key
      /\ \A i \in 1..Len(q.got) : q.got[i] \in Key
  BY <1>1, PathFacts, ElementOfSeq
<1>4. last \in Key /\ last # NoMarker
  BY <1>2, <1>3, PathFacts
<1>5. /\ g \in Seq(Path)
      /\ \A i \in 1..Len(g) : g[i] \in E /\ StartsWith(g[i], q.prefix) /\ After(q.first, g[i])
      /\ \A i, j \in 1..Len(g) : i < j => Before(g[i], g[j])
  BY GotGrows
<1>6. /\ \A i \in 1..Len(g) : InSeq(q.got, g[i]) \/ InSeq(q.page, g[i])
      /\ \A k : InSeq(q.got, k) \/ InSeq(q.page, k) => InSeq(g, k)
  BY GotGrows
<1>7. <<>> \in Seq(Path) /\ {} \in SUBSET Cursor
  OBVIOUS
<1>8. t \in Sessions
  BY <1>4, <1>5, <1>7 DEF Sessions
<1>9. /\ t.pc = "ask" /\ t.first = q.first /\ t.after = last /\ t.page = <<>>
      /\ t.got = g /\ t.prefix = q.prefix
  BY DEF Sessions
<1> HIDE DEF g
<1>10. MergeInv(t, E, A) /\ AnswerInv(t, E, A) /\ PageInv(t, E)
  BY <1>9 DEF MergeInv, AnswerInv, PageInv, Active
<1>11. \A j \in 1..Len(q.page) : q.page[j] = last \/ Before(q.page[j], last)
  <2> SUFFICES ASSUME NEW j \in 1..Len(q.page) PROVE q.page[j] = last \/ Before(q.page[j], last)
    OBVIOUS
  <2>1. j = n \/ j < n
    BY <1>2
  <2> QED BY <1>2, <2>1 DEF SessionInv, PageInv
<1>12. \A i \in 1..Len(q.got) : Before(q.got[i], last)
  BY <1>2, GotBeforePage
<1>13. \A i \in 1..Len(g) : g[i] = last \/ Before(g[i], last)
  BY <1>6, <1>11, <1>12 DEF InSeq
<1>14. After(q.first, last)
  BY <1>2, GotBeforePage
<1> HIDE DEF last
<1>15. GotInv(t, E)
  BY <1>4, <1>5, <1>9, <1>13, <1>14 DEF GotInv, After
<1>16. ASSUME NEW k \in A, StartsWith(k, q.prefix), After(q.first, k), ~After(last, k)
       PROVE  InSeq(g, k)
  <2>1. k \in Key
    BY PathFacts
  <2>2. CASE ~After(q.after, k)
    BY <1>6, <1>16, <2>2 DEF SessionInv, CoverInv
  <2>3. CASE After(q.after, k)
    <3>1. InSeq(q.page, k) \/ Behind(q.page, k)
      BY <1>16, <2>3 DEF SessionInv, CoverInv, Wanted
    <3>2. ~Behind(q.page, k)
      BY <1>2, <1>16 DEF Behind, After, last
    <3> QED BY <1>6, <3>1, <3>2
  <2> QED BY <2>2, <2>3
<1>17. CoverInv(t, A)
  <2>1. \A k : Behind(t.page, k)
    BY <1>9 DEF Behind
  <2>2. t.pc \notin Active /\ t.pc # "respond" /\ t.pc # "done"
    BY <1>9 DEF Active
  <2>3. \A k \in A : StartsWith(k, t.prefix) /\ After(t.first, k) /\ ~After(t.after, k) =>
          InSeq(t.got, k)
    BY <1>9, <1>16
  <2> QED BY <2>1, <2>2, <2>3 DEF CoverInv
<1> QED BY <1>8, <1>10, <1>15, <1>17 DEF SessionInv

\* The client takes the last page.
LEMMA LastHolds ==
  ASSUME NEW E, NEW A, A \subseteq Path, NEW q \in Sessions, SessionInv(q, E, A),
         q.pc = "respond", ~q.truncated, NEW t,
         t = [q EXCEPT !.got = q.got \o q.page, !.page = <<>>, !.heap = {}, !.pc = "done",
                       !.after = q.after]
  PROVE  t \in Sessions /\ SessionInv(t, E, A)
<1> DEFINE g == q.got \o q.page
<1>1. q.got \in Seq(Path) /\ q.page \in Seq(Path)
      /\ q.first \in Key \cup {NoMarker} /\ q.after \in Key \cup {NoMarker}
      /\ q.zero \in BOOLEAN
  BY DEF Sessions
<1>2. /\ g \in Seq(Path)
      /\ \A i \in 1..Len(g) : g[i] \in E /\ StartsWith(g[i], q.prefix) /\ After(q.first, g[i])
      /\ \A i, j \in 1..Len(g) : i < j => Before(g[i], g[j])
  BY GotGrows
<1>3. \A k : InSeq(q.got, k) \/ InSeq(q.page, k) => InSeq(g, k)
  BY GotGrows
<1>4. <<>> \in Seq(Path) /\ {} \in SUBSET Cursor
  OBVIOUS
<1>5. t \in Sessions
  BY <1>2, <1>4 DEF Sessions
<1>6. /\ t.pc = "done" /\ t.first = q.first /\ t.after = q.after /\ t.page = <<>>
      /\ t.got = g /\ t.prefix = q.prefix /\ t.zero = q.zero
  BY DEF Sessions
<1> HIDE DEF g
<1>7. MergeInv(t, E, A) /\ AnswerInv(t, E, A) /\ PageInv(t, E)
  BY <1>6 DEF MergeInv, AnswerInv, PageInv, Active
<1>8. GotInv(t, E)
  BY <1>2, <1>6 DEF SessionInv, GotInv
<1>9. ASSUME NEW k \in A, StartsWith(k, q.prefix), After(q.first, k), ~After(q.after, k)
      PROVE  InSeq(g, k)
  BY <1>3, <1>9 DEF SessionInv, CoverInv
<1>10. ASSUME NEW k \in A, StartsWith(k, q.prefix), After(q.after, k), ~q.zero
       PROVE  InSeq(g, k)
  BY <1>3, <1>10 DEF SessionInv, CoverInv, Wanted
<1>11. CoverInv(t, A)
  <2>1. \A k : Behind(t.page, k)
    BY <1>6 DEF Behind
  <2>2. t.pc \notin Active /\ t.pc # "respond"
    BY <1>6 DEF Active
  <2>3. \A k \in A : StartsWith(k, t.prefix) /\ After(t.first, k) /\ ~After(t.after, k) =>
          InSeq(t.got, k)
    BY <1>6, <1>9
  <2>4. ~t.zero => \A k \in A : StartsWith(k, t.prefix) /\ After(t.first, k) => InSeq(t.got, k)
    BY <1>6, <1>9, <1>10
  <2> QED BY <2>1, <2>2, <2>3, <2>4 DEF CoverInv
<1> QED BY <1>5, <1>7, <1>8, <1>11 DEF SessionInv

-----------------------------------------------------------------------------
(* The actions.                                                            *)

LEMMA InitHolds ==
  ASSUME Init
  PROVE  IInv
<1>1. /\ ns \in [Path -> Kind] /\ WellFormed(ns)
      /\ always \subseteq VisibleIn(ns) /\ ListedIn(ns) \subseteq ever
  BY DEF Init
<1>2. ever \subseteq Path
  BY DEF Init, ListedIn
<1>3. /\ cache \in [Directory -> [listing : Listing, age : Nat] \cup {NoEntry}]
      /\ \A d \in Directory : cache[d] = NoEntry
  BY DEF Init
<1>4. session \in [Session -> Sessions] /\ \A s \in Session : session[s] = Idle
  BY IdleHolds DEF Init
<1>5. \A s \in Session : SessionInv(session[s], ever, always)
  BY <1>4, IdleHolds
<1> QED BY <1>1, <1>2, <1>3, <1>4, <1>5 DEF IInv, TypeInv, CacheInv

LEMMA Steady ==
  ASSUME IInv
  PROVE  /\ always \subseteq Path
         /\ \A s \in Session : session[s] \in Sessions /\ SessionInv(session[s], ever, always)
         /\ session \in [Session -> Sessions]
BY DEF IInv, TypeInv, VisibleIn

\* One session moves.
LEMMA SetHolds ==
  ASSUME IInv, NEW s \in Session, NEW t \in Sessions, SessionInv(t, ever, always),
         session' = [session EXCEPT ![s] = t],
         ns' = ns, always' = always, ever' = ever,
         cache' \in [Directory -> [listing : Listing, age : Nat] \cup {NoEntry}],
         CacheInv(cache', ever, always)
  PROVE  IInv'
<1>1. session' \in [Session -> Sessions]
  BY DEF IInv, TypeInv
<1>2. TypeInv'
  BY <1>1 DEF IInv, TypeInv, WellFormed, VisibleIn, ListedIn, IsDir
<1>3. ASSUME NEW r \in Session PROVE SessionInv(session'[r], ever', always')
  BY Steady
<1>4. CacheInv(cache, ever, always)'
  OBVIOUS
<1> QED BY <1>2, <1>3, <1>4 DEF IInv

\* One session moves, and the cache stays.
LEMMA SetAlone ==
  ASSUME IInv, NEW s \in Session, NEW t \in Sessions, SessionInv(t, ever, always),
         session' = [session EXCEPT ![s] = t],
         UNCHANGED <<ns, changes, always, ever, cache>>
  PROVE  IInv'
<1>1. /\ cache' \in [Directory -> [listing : Listing, age : Nat] \cup {NoEntry}]
      /\ CacheInv(cache', ever, always)
  BY DEF IInv, TypeInv
<1> QED BY <1>1, SetHolds

LEMMA BeginKeeps ==
  ASSUME IInv, NEW s \in Session, Begin(s)
  PROVE  IInv'
<1>1. PICK p \in Prefixes, m \in Markers :
        Set(s, [Idle EXCEPT !.pc = "ask", !.prefix = p, !.first = m, !.after = m])
  BY DEF Begin
<1> DEFINE t == [Idle EXCEPT !.pc = "ask", !.prefix = p, !.first = m, !.after = m]
<1>2. p \in Key /\ m \in Key \cup {NoMarker}
  BY ListingAssumption
<1>3. t \in Sessions /\ SessionInv(t, ever, always)
  BY <1>2, BeginHolds
<1>4. session' = [session EXCEPT ![s] = t]
  BY <1>1 DEF Set
<1> HIDE DEF t
<1> QED BY <1>3, <1>4, SetAlone DEF Begin

LEMMA AskKeeps ==
  ASSUME IInv, NEW s \in Session, Ask(s)
  PROVE  IInv'
<1> DEFINE q == session[s]
           t0(n) == [q EXCEPT !.max = n, !.heap = {}, !.page = <<>>, !.truncated = FALSE,
                              !.pc = "respond", !.zero = TRUE]
           t1(n) == [q EXCEPT !.max = n, !.heap = {}, !.page = <<>>, !.truncated = FALSE,
                              !.pc = "lookup", !.seeding = TRUE, !.dir = list_start(q.prefix)]
<1>1. PICK n \in PageSizes : Set(s, IF n = 0 THEN t0(n) ELSE t1(n))
  BY DEF Ask
<1>2. q \in Sessions /\ SessionInv(q, ever, always) /\ q.pc = "ask" /\ always \subseteq Path
      /\ n \in Nat
  BY Steady, ListingAssumption DEF Ask, At
<1>3. UNCHANGED <<ns, changes, always, ever, cache>>
  BY DEF Ask
<1>4. CASE n = 0
  <2> DEFINE t == t0(n)
  <2>1. t = [q EXCEPT !.max = 0, !.heap = {}, !.page = <<>>, !.truncated = FALSE,
                      !.pc = "respond", !.zero = TRUE]
    BY <1>4
  <2>2. session' = [session EXCEPT ![s] = t]
    BY <1>1, <1>4 DEF Set
  <2> HIDE DEF t, q
  <2>3. t \in Sessions /\ SessionInv(t, ever, always)
    BY <1>2, <2>1, AskNothing
  <2> QED BY <1>3, <2>2, <2>3, SetAlone
<1>5. CASE n # 0
  <2> DEFINE t == t1(n)
  <2>1. t = [q EXCEPT !.max = n, !.heap = {}, !.page = <<>>, !.truncated = FALSE,
                      !.pc = "lookup", !.seeding = TRUE, !.dir = list_start(q.prefix)]
    OBVIOUS
  <2>2. session' = [session EXCEPT ![s] = t]
    BY <1>1, <1>5 DEF Set
  <2> HIDE DEF t, q
  <2>3. t \in Sessions /\ SessionInv(t, ever, always)
    BY <1>2, <1>5, <2>1, AskHolds
  <2> QED BY <1>3, <2>2, <2>3, SetAlone
<1> QED BY <1>4, <1>5

\* Whatever a directory's listing is kept for, it is a listing of that directory.
LEMMA CacheKept ==
  ASSUME IInv, NEW d \in Directory, NEW e \in [listing : Listing, age : Nat] \cup {NoEntry},
         e # NoEntry => ListingOK(e.listing, d, ever, always),
         NEW c, c = [cache EXCEPT ![d] = e]
  PROVE  /\ c \in [Directory -> [listing : Listing, age : Nat] \cup {NoEntry}]
         /\ CacheInv(c, ever, always)
<1>1. /\ cache \in [Directory -> [listing : Listing, age : Nat] \cup {NoEntry}]
      /\ CacheInv(cache, ever, always)
  BY DEF IInv, TypeInv
<1>2. c \in [Directory -> [listing : Listing, age : Nat] \cup {NoEntry}]
  BY <1>1
<1>3. \A b \in Directory : c[b] = IF b = d THEN e ELSE cache[b]
  BY <1>1
<1> QED BY <1>1, <1>2, <1>3 DEF CacheInv

LEMMA LookupKeeps ==
  ASSUME IInv, NEW s \in Session, Lookup(s)
  PROVE  IInv'
<1> DEFINE q == session[s]
           d == q.dir
<1>1. /\ q \in Sessions /\ SessionInv(q, ever, always) /\ q.pc = "lookup"
      /\ always \subseteq Path /\ session \in [Session -> Sessions]
  BY Steady DEF Lookup, At
<1>2. ns' = ns /\ always' = always /\ ever' = ever /\ changes' = changes
  BY DEF Lookup
<1>3. CASE d \in Directory /\ Live(d)
  <2> DEFINE l == cache[d].listing
             t == [q EXCEPT !.pc = "pull", !.seeding = FALSE, !.ans = [tag |-> "none"],
                            !.heap = q.heap \cup Cursors(l, q.after)]
  <2>1. session' = [session EXCEPT ![s] = t] /\ cache' = cache
    BY <1>3 DEF Lookup, Set, Pushed
  <2>2. l \in Listing /\ ListingOK(l, d, ever, always)
    BY <1>3 DEF IInv, TypeInv, CacheInv, Live
  <2>3. t = [q EXCEPT !.pc = "pull", !.seeding = FALSE, !.ans = [tag |-> "none"],
                      !.heap = q.heap \cup Cursors(l, q.after)]
    OBVIOUS
  <2>4. q.dir \in Directory /\ ListingOK(l, q.dir, ever, always)
    BY <1>3, <2>2
  <2> HIDE DEF t, l, d, q
  <2>5. t \in Sessions /\ SessionInv(t, ever, always)
    BY <1>1, <2>2, <2>3, <2>4, PushedHolds
  <2> QED BY <1>2, <2>1, <2>5, SetAlone
<1>4. CASE ~(d \in Directory /\ Live(d))
  <2> DEFINE t == [q EXCEPT !.pc = "rpc"]
  <2>1. session' = [session EXCEPT ![s].pc = "rpc"]
        /\ cache' = IF d \in Directory THEN [cache EXCEPT ![d] = NoEntry] ELSE cache
    BY <1>4 DEF Lookup
  <2>2. session' = [session EXCEPT ![s] = t]
    BY <1>1, <2>1
  <2>3. /\ cache' \in [Directory -> [listing : Listing, age : Nat] \cup {NoEntry}]
        /\ CacheInv(cache', ever, always)
    <3>1. CASE d \in Directory
      <4>1. cache' = [cache EXCEPT ![d] = NoEntry]
        BY <2>1, <3>1
      <4> HIDE DEF d
      <4> QED BY <3>1, <4>1, CacheKept
    <3>2. CASE d \notin Directory
      BY <2>1, <3>2 DEF IInv, TypeInv
    <3> QED BY <3>1, <3>2
  <2>4. t = [q EXCEPT !.pc = "rpc"]
    OBVIOUS
  <2> HIDE DEF t, q
  <2>5. t \in Sessions /\ SessionInv(t, ever, always)
    BY <1>1, <2>4, MissHolds
  <2> QED BY <1>2, <2>2, <2>3, <2>5, SetHolds
<1> QED BY <1>3, <1>4

\* There are files only in directories.
LEMMA UnderDirectory ==
  ASSUME NEW k \in Path, NEW d \in Key, Under(k, d)
  PROVE  d \in Directory
<1>1. CASE d = Root
  BY <1>1 DEF Directory
<1>2. CASE d # Root
  <2>1. k \in Key /\ Len(k) \in Nat /\ Len(d) \in Nat
    BY PathFacts, KeyType
  <2>2. Len(k) > Len(d) /\ StartsWith(k, d) /\ k[Len(d) + 1] = Slash
    BY <1>2, <2>1, UnderMeans
  <2> DEFINE i == Len(d) + 1
  <2>3. i \in 1..Len(k) /\ k[i] = Slash /\ i - 1 = Len(d)
    BY <2>1, <2>2
  <2> HIDE DEF i
  <2>4. Prefix(k, i - 1) \in Path \ Leaf
    BY <2>3, ListingAssumption
  <2>5. Prefix(k, Len(d)) \in Path \ Leaf
    BY <2>3, <2>4
  <2> DEFINE p == Prefix(k, Len(d))
  <2>6. p \in Key /\ Len(p) = Len(d) /\ \A j \in 1..Len(d) : p[j] = k[j]
    BY <2>1, <2>2, PrefixKey
  <2>7. p \in Path \ Leaf
    BY <2>5
  <2> HIDE DEF p
  <2>8. \A j \in 1..Len(d) : p[j] = d[j]
    BY <2>2, <2>6 DEF StartsWith
  <2>9. p = d
    BY <2>6, <2>8, SeqEqual DEF Key
  <2> QED BY <2>7, <2>9 DEF Directory
<1> QED BY <1>1, <1>2

\* An answer is a listing of the directory, unless a client is misled.
LEMMA RpcAnswerKeeps ==
  ASSUME IInv, NEW s \in Session, RpcAnswer(s), misled' = {}
  PROVE  IInv'
<1> DEFINE q == session[s]
           d == q.dir
<1>1. /\ q \in Sessions /\ SessionInv(q, ever, always) /\ q.pc = "rpc" /\ d \in Key
      /\ always \subseteq Path /\ session \in [Session -> Sessions]
  BY Steady DEF RpcAnswer, At, Sessions
<1>2. PICK a \in {[tag |-> "error"]} \cup
              (IF d \in Directory THEN GetListing(ns, d) ELSE {[tag |-> "FileNotFound"]}) :
        /\ session' = [session EXCEPT ![s].pc = "reply", ![s].ans = a]
        /\ ~(a.tag = "ok" /\ IsStatus(a.listing, d)) /\ ever' = ever
  BY DEF RpcAnswer
<1> DEFINE t == [q EXCEPT !.pc = "reply", !.ans = a]
<1>3. session' = [session EXCEPT ![s] = t]
  BY <1>1, <1>2
<1>4. /\ a \in Answer
      /\ a.tag = "ok" => d \in Directory /\ ListingOK(a.listing, d, ever, always)
      /\ a.tag \in {"FileNotFound", "denied"} => \A k \in always : ~Under(k, d)
  <2>1. CASE a = [tag |-> "error"]
    BY <2>1 DEF Answer
  <2>2. CASE d \notin Directory /\ a = [tag |-> "FileNotFound"]
    <3>1. \A k \in always : ~Under(k, d)
      BY <1>1, <2>2, UnderDirectory
    <3> QED BY <2>2, <3>1 DEF Answer
  <2>3. CASE d \in Directory /\ (d = Root \/ ns[d] = "dir") /\ a \in GetListing(ns, d)
    <3>1. a \in [tag : {"ok"}, listing : Listings(ns, d)]
      BY <2>3 DEF GetListing
    <3> DEFINE l == a.listing
    <3>2. l \in Listings(ns, d) /\ a.tag = "ok" /\ a = [tag |-> "ok", listing |-> l]
      BY <3>1
    <3>3. d \in Directory /\ (d = Root \/ ns[d] = "dir")
      BY <2>3
    <3>4. /\ ns \in [Path -> Kind] /\ WellFormed(ns) /\ always \subseteq VisibleIn(ns)
          /\ ListedIn(ns) \subseteq ever
      BY DEF IInv, TypeInv
    <3> HIDE DEF l, d
    <3>5. l \in Listing /\ ListingOK(l, d, ever, always)
      BY <3>2, <3>3, <3>4, FreshListing
    <3>6. a \in Answer
      BY <3>2, <3>5 DEF Answer
    <3> QED BY <2>3, <3>2, <3>5, <3>6 DEF l
  <2>4. CASE d \in Directory /\ ~(d = Root \/ ns[d] = "dir") /\ a \in GetListing(ns, d)
    <3>1. a = [tag |-> "denied"] \/ a = [tag |-> "FileNotFound"]
      <4>1. a # [tag |-> "ok", listing |-> [files |-> <<d>>, dirs |-> <<>>]]
        BY <1>2 DEF IsStatus
      <4> QED BY <2>4, <4>1 DEF GetListing
    <3>2. d \in Path \ Leaf
      BY <2>4 DEF Directory
    <3>3. \A k \in always : ~Under(k, d)
      BY <2>4, <3>2 DEF IInv, TypeInv, VisibleIn
    <3> QED BY <3>1, <3>3 DEF Answer
  <2> QED BY <1>2, <2>1, <2>2, <2>3, <2>4
<1>5. t \in Sessions /\ SessionInv(t, ever, always)
  BY <1>1, <1>4, AnswerHolds
<1> HIDE DEF t
<1>6. UNCHANGED <<ns, changes, always, ever, cache>>
  BY <1>2 DEF RpcAnswer
<1> QED BY <1>3, <1>5, <1>6, SetAlone

LEMMA ReplyListingKeeps ==
  ASSUME IInv, NEW s \in Session, ReplyListing(s)
  PROVE  IInv'
<1> DEFINE q == session[s]
           d == q.dir
           l == q.ans.listing
           t == [q EXCEPT !.pc = "pull", !.seeding = FALSE, !.ans = [tag |-> "none"],
                          !.heap = q.heap \cup Cursors(l, q.after)]
<1>1. /\ q \in Sessions /\ SessionInv(q, ever, always) /\ q.pc = "reply"
      /\ q.ans.tag = "ok" /\ always \subseteq Path
  BY Steady DEF ReplyListing, At
<1>2. session' = [session EXCEPT ![s] = t]
  BY DEF ReplyListing, Set, Pushed
<1>3. q.ans \in Answer
  BY <1>1 DEF Sessions
<1>4. l \in Listing
  BY <1>1, <1>3 DEF Answer
<1>5. d \in Directory /\ ListingOK(l, d, ever, always)
  BY <1>1 DEF SessionInv, AnswerInv
<1>6. t \in Sessions /\ SessionInv(t, ever, always)
  <2>1. t = [q EXCEPT !.pc = "pull", !.seeding = FALSE, !.ans = [tag |-> "none"],
                      !.heap = q.heap \cup Cursors(l, q.after)]
    OBVIOUS
  <2>2. q.dir \in Directory /\ ListingOK(l, q.dir, ever, always)
    BY <1>5
  <2> HIDE DEF t, l, d, q
  <2> QED BY <1>1, <1>4, <2>1, <2>2, PushedHolds
<1>7. /\ cache' \in [Directory -> [listing : Listing, age : Nat] \cup {NoEntry}]
      /\ CacheInv(cache', ever, always)
  <2> DEFINE e == [listing |-> l, age |-> 0]
  <2>1. cache' = cache \/ cache' = [cache EXCEPT ![d] = e]
    BY DEF ReplyListing
  <2>2. CASE cache' = cache
    BY <2>2 DEF IInv, TypeInv
  <2>3. CASE cache' = [cache EXCEPT ![d] = e]
    <3>1. e \in [listing : Listing, age : Nat] /\ ListingOK(e.listing, d, ever, always)
      BY <1>4, <1>5
    <3> HIDE DEF e, d, l
    <3> QED BY <1>5, <2>3, <3>1, CacheKept
  <2> QED BY <2>1, <2>2, <2>3
<1>8. ns' = ns /\ always' = always /\ ever' = ever
  BY DEF ReplyListing
<1> HIDE DEF t
<1> QED BY <1>2, <1>6, <1>7, <1>8, SetHolds

LEMMA ReplyErrorKeeps ==
  ASSUME IInv, NEW s \in Session, ReplyError(s)
  PROVE  IInv'
<1> DEFINE q == session[s]
           p == IF Skipped(s) THEN "pull" ELSE "failed"
           t == [q EXCEPT !.pc = p, !.seeding = FALSE, !.ans = [tag |-> "none"]]
<1>1. /\ q \in Sessions /\ SessionInv(q, ever, always) /\ q.pc = "reply"
      /\ session \in [Session -> Sessions]
  BY Steady DEF ReplyError, At
<1>2. session' = [session EXCEPT ![s] = t]
  BY <1>1 DEF ReplyError
<1>3. p \in {"pull", "failed"} /\ (p = "pull" => q.ans.tag \in {"FileNotFound", "denied"})
  BY DEF Skipped
<1>4. t = [q EXCEPT !.pc = p, !.seeding = FALSE, !.ans = [tag |-> "none"]]
  OBVIOUS
<1>5. UNCHANGED <<ns, changes, always, ever, cache>>
  BY DEF ReplyError
<1> HIDE DEF t, p, q
<1>6. t \in Sessions /\ SessionInv(t, ever, always)
  BY <1>1, <1>3, <1>4, ErrorHolds
<1> QED BY <1>2, <1>5, <1>6, SetAlone

LEMMA PullFileKeeps ==
  ASSUME IInv, NEW s \in Session, PullFile(s)
  PROVE  IInv'
<1> DEFINE q == session[s]
<1>1. /\ q \in Sessions /\ SessionInv(q, ever, always) /\ q.pc = "pull" /\ always \subseteq Path
  BY Steady DEF PullFile, At
<1>2. UNCHANGED <<ns, changes, always, ever, cache>>
  BY DEF PullFile
<1> DEFINE Pass(c) == \/ ~StartsWith(Front(c), q.prefix)
                      \/ q.after # NoMarker /\ (Front(c) = q.after \/ Before(Front(c), q.after))
           T(c) == [q EXCEPT !.heap = Popped(q.heap, c)]
           T1(c) == [q EXCEPT !.heap = Popped(q.heap, c), !.page = Append(q.page, Front(c))]
           T2(c) == [q EXCEPT !.heap = Popped(q.heap, c), !.pc = "respond", !.truncated = TRUE]
<1>3. PICK c \in Least(q.heap) :
        /\ c.files
        /\ Set(s, IF Pass(c) THEN T(c) ELSE IF Len(q.page) < q.max THEN T1(c) ELSE T2(c))
  BY Zenon DEF PullFile, Popped
<1> DEFINE h2 == Popped(q.heap, c)
<1>4. /\ q.prefix \in Key /\ q.after \in Key \cup {NoMarker}
      /\ Front(c) \in Path
  BY <1>1, PullFacts DEF Pulled
<1>5. h2 = Popped(q.heap, c)
  OBVIOUS
<1>6. CASE Pass(c)
  <2> DEFINE t == T(c)
  <2>1. t = [q EXCEPT !.heap = h2]
    OBVIOUS
  <2>2. session' = [session EXCEPT ![s] = t]
    BY <1>3, <1>6 DEF Set
  <2>3. ASSUME NEW k \in always, Wanted(q, k) PROVE Front(c) # k
    <3>1. StartsWith(k, q.prefix) /\ After(q.after, k) /\ k \in Key
      BY <1>1, <2>3, PathFacts DEF Wanted
    <3> QED BY <1>4, <1>6, <3>1, BeforeIrreflexive, BeforeAsymmetric DEF After
  <2> HIDE DEF t, h2, q
  <2>4. t \in Sessions /\ SessionInv(t, ever, always)
    BY <1>1, <1>3, <1>5, <2>1, <2>3, PassHolds
  <2> QED BY <1>2, <2>2, <2>4, SetAlone
<1>7. CASE ~Pass(c) /\ Len(q.page) < q.max
  <2> DEFINE t == T1(c)
  <2>1. t = [q EXCEPT !.heap = h2, !.page = Append(q.page, Front(c))]
    OBVIOUS
  <2>2. session' = [session EXCEPT ![s] = t]
    BY <1>3, <1>7 DEF Set
  <2>3. /\ StartsWith(Front(c), q.prefix)
        /\ ~(q.after # NoMarker /\ (Front(c) = q.after \/ Before(Front(c), q.after)))
    BY <1>7
  <2> HIDE DEF t, h2, q
  <2>4. t \in Sessions /\ SessionInv(t, ever, always)
    BY <1>1, <1>3, <1>5, <2>1, <2>3, EmitHolds
  <2> QED BY <1>2, <2>2, <2>4, SetAlone
<1>8. CASE ~Pass(c) /\ ~(Len(q.page) < q.max)
  <2> DEFINE t == T2(c)
  <2>1. t = [q EXCEPT !.heap = h2, !.pc = "respond", !.truncated = TRUE]
    OBVIOUS
  <2>2. session' = [session EXCEPT ![s] = t]
    BY <1>3, <1>8 DEF Set
  <2> HIDE DEF t, h2, q
  <2>4. t \in Sessions /\ SessionInv(t, ever, always)
    BY <1>1, <1>3, <1>5, <1>8, <2>1, FullHolds
  <2> QED BY <1>2, <2>2, <2>4, SetAlone
<1> QED BY <1>6, <1>7, <1>8

LEMMA PullDirKeeps ==
  ASSUME IInv, NEW s \in Session, PullDir(s)
  PROVE  IInv'
<1> DEFINE q == session[s]
<1>1. /\ q \in Sessions /\ SessionInv(q, ever, always) /\ q.pc = "pull" /\ always \subseteq Path
  BY Steady DEF PullDir, At
<1>2. UNCHANGED <<ns, changes, always, ever, cache>>
  BY DEF PullDir
<1> DEFINE Pass(c) == \/ ~StartsWith(Front(c), q.prefix)
                      \/ q.after # NoMarker /\ dir_children_all_before(Front(c), q.after)
           T(c) == [q EXCEPT !.heap = Popped(q.heap, c)]
           T1(c) == [q EXCEPT !.heap = Popped(q.heap, c), !.pc = "lookup", !.dir = Front(c)]
<1>3. PICK c \in Least(q.heap) : ~c.files /\ Set(s, IF Pass(c) THEN T(c) ELSE T1(c))
  BY DEF PullDir, Popped
<1> DEFINE h2 == Popped(q.heap, c)
<1>4. /\ q.prefix \in Key /\ q.after \in Key \cup {NoMarker}
      /\ Front(c) \in Path /\ Under(Front(c), list_start(q.prefix))
  BY <1>1, PullFacts DEF Pulled
<1>5. h2 = Popped(q.heap, c)
  OBVIOUS
<1>6. CASE Pass(c)
  <2> DEFINE t == T(c)
  <2>1. t = [q EXCEPT !.heap = h2]
    OBVIOUS
  <2>2. session' = [session EXCEPT ![s] = t]
    BY <1>3, <1>6 DEF Set
  <2>3. ASSUME NEW k \in always, Wanted(q, k), Under(k, Front(c)) PROVE FALSE
    <3> DEFINE key == Front(c)
               m == q.after
               p == q.prefix
    <3>1. /\ StartsWith(k, p) /\ After(m, k) /\ k \in Key /\ k \in Path
          /\ key \in Key /\ key \in Path /\ key # Root /\ Under(k, key)
          /\ p \in Key /\ Under(key, list_start(p))
      BY <1>1, <1>4, <2>3, PathFacts DEF Wanted
    <3>2. ~StartsWith(key, p) \/ (m # NoMarker /\ dir_children_all_before(key, m))
      BY <1>6
    <3>3. m \in Key \cup {NoMarker}
      BY <1>4
    <3> HIDE DEF key, m, p
    <3>4. StartsWith(key, p)
      BY <3>1, WayMatches
    <3>5. m \in Key /\ dir_children_all_before(key, m) /\ Before(m, k)
      BY <3>1, <3>2, <3>3, <3>4 DEF After
    <3>6. StartsWith(k, Output(key)) /\ Output(key) \in Key
      BY <3>1, OutputKey DEF Under
    <3>7. PICK n \in Key : k = Output(key) \o n
      BY <3>1, <3>6, RestOfKey
    <3>8. Before(k, m)
      BY <3>1, <3>5, <3>7, ChildrenBeforeExact
    <3> QED BY <3>1, <3>5, <3>8, BeforeAsymmetric
  <2> HIDE DEF t, h2, q
  <2>4. t \in Sessions /\ SessionInv(t, ever, always)
    BY <1>1, <1>3, <1>5, <2>1, <2>3, PassHolds
  <2> QED BY <1>2, <2>2, <2>4, SetAlone
<1>7. CASE ~Pass(c)
  <2> DEFINE t == T1(c)
  <2>1. t = [q EXCEPT !.heap = h2, !.pc = "lookup", !.dir = Front(c)]
    OBVIOUS
  <2>2. session' = [session EXCEPT ![s] = t]
    BY <1>3, <1>7 DEF Set
  <2> HIDE DEF t, h2, q
  <2>4. t \in Sessions /\ SessionInv(t, ever, always)
    BY <1>1, <1>3, <1>5, <2>1, DescendHolds
  <2> QED BY <1>2, <2>2, <2>4, SetAlone
<1> QED BY <1>6, <1>7

LEMMA ExhaustedKeeps ==
  ASSUME IInv, NEW s \in Session, Exhausted(s)
  PROVE  IInv'
<1> DEFINE q == session[s]
           t == [q EXCEPT !.pc = "respond"]
<1>1. /\ q \in Sessions /\ SessionInv(q, ever, always) /\ q.pc = "pull" /\ q.heap = {}
      /\ session \in [Session -> Sessions]
  BY Steady DEF Exhausted, At
<1>2. session' = [session EXCEPT ![s] = t]
  BY <1>1 DEF Exhausted
<1>3. t \in Sessions /\ SessionInv(t, ever, always)
  BY <1>1, ExhaustedHolds
<1> HIDE DEF t
<1> QED BY <1>2, <1>3, SetAlone DEF Exhausted

LEMMA ReceiveKeeps ==
  ASSUME IInv, NEW s \in Session, Receive(s)
  PROVE  IInv'
<1> DEFINE q == session[s]
<1>1. /\ q \in Sessions /\ SessionInv(q, ever, always) /\ q.pc = "respond"
      /\ always \subseteq Path /\ q.page \in Seq(Path) /\ q.truncated \in BOOLEAN
  BY Steady DEF Receive, At, Sessions
<1>2. UNCHANGED <<ns, changes, always, ever, cache>>
  BY DEF Receive
<1>3. q.truncated => q.page # <<>>
  BY <1>1 DEF SessionInv, PageInv
<1>4. CASE q.truncated
  <2> DEFINE t == [q EXCEPT !.got = q.got \o q.page, !.page = <<>>, !.heap = {}, !.pc = "ask",
                            !.after = q.page[Len(q.page)]]
  <2>1. Len(q.page) \in 1..Len(q.page)
    BY <1>1, <1>3, <1>4, EmptySeq, LenProperties
  <2>2. q.page[Len(q.page)] # NoMarker
    BY <1>1, <2>1, PathFacts, ElementOfSeq
  <2>3. Token(q) = q.page[Len(q.page)]
    BY <1>3, <1>4 DEF Token
  <2>4. session' = [session EXCEPT ![s] = t]
    BY <2>2, <2>3 DEF Receive, Set
  <2>5. t = [q EXCEPT !.got = q.got \o q.page, !.page = <<>>, !.heap = {}, !.pc = "ask",
                      !.after = q.page[Len(q.page)]]
    OBVIOUS
  <2> HIDE DEF t, q
  <2>6. t \in Sessions /\ SessionInv(t, ever, always)
    BY <1>1, <1>3, <1>4, <2>5, MoreHolds
  <2> QED BY <1>2, <2>4, <2>6, SetAlone
<1>5. CASE ~q.truncated
  <2> DEFINE t == [q EXCEPT !.got = q.got \o q.page, !.page = <<>>, !.heap = {}, !.pc = "done",
                            !.after = q.after]
  <2>1. Token(q) = NoMarker
    BY <1>5 DEF Token
  <2>2. session' = [session EXCEPT ![s] = t]
    BY <2>1 DEF Receive, Set
  <2>3. t = [q EXCEPT !.got = q.got \o q.page, !.page = <<>>, !.heap = {}, !.pc = "done",
                      !.after = q.after]
    OBVIOUS
  <2> HIDE DEF t, q
  <2>4. t \in Sessions /\ SessionInv(t, ever, always)
    BY <1>1, <1>5, <2>3, LastHolds
  <2> QED BY <1>2, <2>2, <2>4, SetAlone
<1> QED BY <1>4, <1>5

LEMMA LeaveKeeps ==
  ASSUME IInv, NEW s \in Session, Leave(s)
  PROVE  IInv'
<1>1. session' = [session EXCEPT ![s] = Idle]
  BY DEF Leave, Set
<1>2. Idle \in Sessions /\ SessionInv(Idle, ever, always)
  BY IdleHolds
<1> QED BY <1>1, <1>2, SetAlone DEF Leave

LEMMA ChangeKeeps ==
  ASSUME IInv, Change
  PROVE  IInv'
<1>1. PICK k \in Path, kind \in Kind :
        LET n == [ns EXCEPT ![k] = kind]
            m == [j \in Path |-> IF Under(j, k) /\ kind \in {"absent", "file"}
                                   THEN "absent" ELSE n[j]]
        IN  /\ WellFormed(m)
            /\ ns' = m
            /\ always' = always \cap VisibleIn(m)
            /\ ever' = ever \cup ListedIn(m)
  BY DEF Change
<1> DEFINE n == [ns EXCEPT ![k] = kind]
           m == [j \in Path |-> IF Under(j, k) /\ kind \in {"absent", "file"}
                                  THEN "absent" ELSE n[j]]
<1>2. /\ WellFormed(m) /\ ns' = m
      /\ always' = always \cap VisibleIn(m) /\ ever' = ever \cup ListedIn(m)
  BY <1>1
<1>3. /\ ns \in [Path -> Kind] /\ ever \subseteq Path
      /\ cache \in [Directory -> [listing : Listing, age : Nat] \cup {NoEntry}]
      /\ session \in [Session -> Sessions]
  BY DEF IInv, TypeInv
<1>4. m \in [Path -> Kind]
  BY <1>3 DEF Kind
<1> HIDE DEF m
<1>5. ever' \subseteq Path
  BY <1>2, <1>3 DEF ListedIn
<1>6. cache' = cache /\ session' = session
  BY DEF Change
<1>7. WellFormed(ns)' /\ VisibleIn(ns)' = VisibleIn(m) /\ ListedIn(ns)' = ListedIn(m)
  BY <1>2 DEF WellFormed, VisibleIn, ListedIn, IsDir
<1>8. TypeInv'
  BY <1>2, <1>3, <1>4, <1>5, <1>6, <1>7 DEF TypeInv
<1>9. ever \subseteq ever' /\ always' \subseteq always
  BY <1>2
<1>10. CacheInv(cache', ever', always')
  BY <1>6, <1>9, ListingKept DEF IInv, CacheInv
<1>11. \A s \in Session : SessionInv(session'[s], ever', always')
  BY <1>6, <1>9, SessionKept DEF IInv
<1> QED BY <1>8, <1>10, <1>11 DEF IInv

LEMMA CacheStepKeeps ==
  ASSUME IInv, Lose \/ Tick
  PROVE  IInv'
<1>1. /\ cache \in [Directory -> [listing : Listing, age : Nat] \cup {NoEntry}]
      /\ CacheInv(cache, ever, always)
  BY DEF IInv, TypeInv
<1>2. ns' = ns /\ always' = always /\ ever' = ever /\ session' = session
  BY DEF Lose, Tick
<1>3. /\ cache' \in [Directory -> [listing : Listing, age : Nat] \cup {NoEntry}]
      /\ CacheInv(cache', ever, always)
  <2>1. CASE Lose
    <3>1. PICK d \in Directory : cache' = [cache EXCEPT ![d] = NoEntry]
      BY <2>1 DEF Lose
    <3> QED BY <3>1, CacheKept
  <2>2. CASE Tick
    <3>1. cache' = [d \in Directory |-> IF Live(d) THEN [cache[d] EXCEPT !.age = @ + 1]
                                                   ELSE cache[d]]
      BY <2>2 DEF Tick
    <3>2. \A d \in Directory : Live(d) => cache[d] \in [listing : Listing, age : Nat]
      BY <1>1 DEF Live
    <3>3. ASSUME NEW d \in Directory
          PROVE  /\ cache'[d] \in [listing : Listing, age : Nat] \cup {NoEntry}
                 /\ cache'[d] # NoEntry => ListingOK(cache'[d].listing, d, ever, always)
      <4>1. CASE Live(d)
        <5>1. cache'[d] = [cache[d] EXCEPT !.age = @ + 1]
          BY <3>1, <4>1
        <5>2. /\ cache'[d] \in [listing : Listing, age : Nat]
              /\ cache'[d].listing = cache[d].listing
          BY <3>2, <4>1, <5>1
        <5> QED BY <1>1, <4>1, <5>2 DEF CacheInv, Live
      <4>2. CASE ~Live(d)
        BY <1>1, <3>1, <4>2 DEF CacheInv
      <4> QED BY <4>1, <4>2
    <3> QED BY <3>1, <3>3 DEF CacheInv
  <2> QED BY <2>1, <2>2
<1>4. TypeInv'
  BY <1>2, <1>3 DEF IInv, TypeInv, WellFormed, VisibleIn, ListedIn, IsDir
<1>5. CacheInv(cache, ever, always)'
  BY <1>2, <1>3
<1>6. \A s \in Session : SessionInv(session'[s], ever', always')
  BY <1>2 DEF IInv
<1> QED BY <1>4, <1>5, <1>6 DEF IInv

-----------------------------------------------------------------------------
(* The theorems.                                                           *)

\* No step takes a client off the misled ones.
LEMMA MisledStays ==
  ASSUME [Next]_vars
  PROVE  misled \subseteq misled'
<1>1. ASSUME NEW s \in Session, Begin(s) \/ Step(s) \/ Leave(s) PROVE misled \subseteq misled'
  BY <1>1 DEF Begin, Step, Leave, Ask, Lookup, RpcAnswer, ReplyListing, ReplyError, PullFile,
              PullDir, Exhausted, Receive
<1> QED BY <1>1 DEF Next, vars, Change, Lose, Tick

\* Whatever the clients, the cache and the namespace do, the frontiers stay in order
\* and cover what they have to, as long as no directory's listing is answered with
\* the status of a file.
THEOREM Invariance == Spec => [](misled = {} => IInv)
<1> DEFINE I == misled = {} => IInv
<1>1. Init => I
  BY InitHolds
<1>2. I /\ [Next]_vars => I'
  <2> SUFFICES ASSUME I, [Next]_vars, misled' = {} PROVE IInv'
    OBVIOUS
  <2>0. IInv
    BY MisledStays
  <2>1. ASSUME NEW s \in Session, Begin(s) \/ Step(s) \/ Leave(s) PROVE IInv'
    BY <2>0, <2>1, BeginKeeps, AskKeeps, LookupKeeps, RpcAnswerKeeps, ReplyListingKeeps,
       ReplyErrorKeeps, PullFileKeeps, PullDirKeeps, ExhaustedKeeps, ReceiveKeeps, LeaveKeeps
       DEF Step
  <2>2. CASE UNCHANGED vars
    BY <2>0, <2>2 DEF vars, IInv, TypeInv, WellFormed, VisibleIn, ListedIn, IsDir
  <2> QED BY <2>0, <2>1, <2>2, ChangeKeeps, CacheStepKeeps DEF Next
<1> QED BY <1>1, <1>2, PTL DEF Spec

\* Over all the pages of a session the keys ascend strictly and match the request:
\* no key is listed twice and no page goes back behind its continuation token, as long
\* as no directory's listing is answered with the status of a file.
THEOREM PagesAscend == Spec => [](misled = {} => KeysAscend)
<1>1. IInv => KeysAscend
  <2> SUFFICES ASSUME IInv, NEW s \in Session
               PROVE  /\ \A i, j \in 1..Len(Given(s)) : i < j => Before(Given(s)[i], Given(s)[j])
                      /\ \A i \in 1..Len(Given(s)) : Wants(s, Given(s)[i])
    BY DEF KeysAscend
  <2> DEFINE q == session[s]
             g == Given(s)
  <2>1. q \in Sessions /\ SessionInv(q, ever, always)
    BY Steady
  <2>2. g = q.got \o q.page
    BY DEF Given
  <2> HIDE DEF q, g
  <2>3. /\ \A i \in 1..Len(g) : StartsWith(g[i], q.prefix) /\ After(q.first, g[i])
        /\ \A i, j \in 1..Len(g) : i < j => Before(g[i], g[j])
    BY <2>1, <2>2, GotGrows
  <2> QED BY <2>3 DEF g, q, Wants, After
<1> QED BY <1>1, Invariance, PTL

\* Every key listed is that of a file that was there, in a directory that could be
\* read: a stale cache entry or a late reply brings in nothing else (up to the first
\* answer with a file's status).
THEOREM ListsOnlyFiles == Spec => [](misled = {} => NothingInvented)
<1>1. IInv => NothingInvented
  <2> SUFFICES ASSUME IInv, NEW s \in Session
               PROVE  \A i \in 1..Len(Given(s)) : Given(s)[i] \in ever
    BY DEF NothingInvented
  <2> DEFINE q == session[s]
             g == Given(s)
  <2>1. q \in Sessions /\ SessionInv(q, ever, always)
    BY Steady
  <2>2. g = q.got \o q.page
    BY DEF Given
  <2> HIDE DEF q, g
  <2>3. \A i \in 1..Len(g) : g[i] \in ever
    BY <2>1, <2>2, GotGrows
  <2> QED BY <2>3 DEF g
<1> QED BY <1>1, Invariance, PTL

\* A file nobody touches is never passed over, however the pages are cut, whatever is
\* cached and whatever happens to the files and directories around it (up to the first
\* answer with a file's status).
THEOREM LosesNothing == Spec => [](misled = {} => NothingLost)
<1>1. IInv => NothingLost
  <2> SUFFICES ASSUME IInv, NEW s \in Session, NEW k \in always, Wants(s, k), ~session[s].zero,
                      \/ At(s, "done")
                      \/ \E i \in 1..Len(Given(s)) : Before(k, Given(s)[i])
               PROVE  \E i \in 1..Len(Given(s)) : Given(s)[i] = k
    BY DEF NothingLost
  <2> DEFINE q == session[s]
             g == Given(s)
  <2>1. /\ q \in Sessions /\ SessionInv(q, ever, always) /\ k \in Path /\ ~q.zero
        /\ StartsWith(k, q.prefix) /\ After(q.first, k)
        /\ q.pc = "done" \/ \E i \in 1..Len(g) : Before(k, g[i])
    BY Steady DEF Wants, After, At
  <2>2. g = q.got \o q.page
    BY DEF Given
  <2> HIDE DEF q, g
  <2>3. /\ \A i \in 1..Len(g) : InSeq(q.got, g[i]) \/ InSeq(q.page, g[i])
        /\ InSeq(q.got, k) \/ InSeq(q.page, k) => InSeq(g, k)
    BY <2>1, <2>2, GotGrows
  <2>4. InSeq(q.got, k) \/ InSeq(q.page, k)
    <3>1. CASE q.pc = "done"
      BY <2>1, <3>1 DEF SessionInv, CoverInv
    <3>2. CASE ~After(q.after, k)
      BY <2>1, <3>2 DEF SessionInv, CoverInv
    <3>3. CASE q.pc # "done" /\ After(q.after, k)
      <4>1. PICK i \in 1..Len(g) : Before(k, g[i])
        BY <2>1, <3>3
      <4>2. k \in Key /\ q.after \in Key \cup {NoMarker}
        BY <2>1, PathFacts DEF Sessions
      <4>3. CASE InSeq(q.got, g[i])
        <5>1. PICK j \in 1..Len(q.got) : q.got[j] = g[i]
          BY <4>3 DEF InSeq
        <5>2. q.after # NoMarker /\ (g[i] = q.after \/ Before(g[i], q.after))
          BY <2>1, <3>3, <5>1 DEF SessionInv, GotInv
        <5>3. q.got \in Seq(Path)
          BY <2>1 DEF Sessions
        <5>4. g[i] \in Key
          BY <5>1, <5>3, PathFacts, ElementOfSeq
        <5>5. Before(k, q.after) /\ q.after \in Key
          BY <4>1, <4>2, <5>2, <5>4, BeforeTransitive
        <5> QED BY <3>3, <4>2, <5>2, <5>5, BeforeAsymmetric DEF After
      <4>4. CASE InSeq(q.page, g[i])
        <5>1. PICK j \in 1..Len(q.page) : q.page[j] = g[i]
          BY <4>4 DEF InSeq
        <5>2. InSeq(q.page, k) \/ Behind(q.page, k)
          BY <2>1, <3>3 DEF SessionInv, CoverInv, Wanted
        <5>3. q.page \in Seq(Path)
          BY <2>1 DEF Sessions
        <5>4. g[i] \in Key
          BY <5>1, <5>3, PathFacts, ElementOfSeq
        <5>5. ~Behind(q.page, k)
          BY <4>1, <4>2, <5>1, <5>4, BeforeAsymmetric DEF Behind
        <5> QED BY <5>2, <5>5
      <4> QED BY <2>3, <4>3, <4>4
    <3> QED BY <3>1, <3>2, <3>3
  <2> QED BY <2>3, <2>4 DEF InSeq, g
<1> QED BY <1>1, Invariance, PTL
=============================================================================
