----------------------------- MODULE PathMapper -----------------------------
(***************************************************************************)
(* core/path.rs: S3 keys to HDFS paths and back, and the directory a       *)
(* listing starts at.  Keys, prefixes and paths are byte strings; the      *)
(* model walks through the keys over a small alphabet that has the slash   *)
(* and the dot in it.                                                      *)
(***************************************************************************)
EXTENDS KeyOrder

CONSTANTS Roots,      \* hdfs_root settings
          Letter,     \* bytes of keys besides the slash and the dot
          MaxLen,     \* bound: bytes of a key or a prefix
          MaxMatch,   \* bound: bytes of the keys a prefix is compared with
          None

ASSUME PathAssumption ==
  /\ Roots \subseteq Key /\ Letter \subseteq Nat
  /\ MaxLen \in Nat /\ MaxMatch \in Nat
  /\ None \notin Key /\ None \notin Seq(Key)

Dot == 46
Alphabet == {Slash, Dot} \cup Letter

VARIABLES root,   \* the configured hdfs_root, normalized; None before start-up
          key     \* the key, or prefix, of a request

mapperVars == <<root, key>>

-----------------------------------------------------------------------------
\* path.split('/'): a slash begins a segment, any other byte extends the last one.
Fed(segs, byte) ==
  IF byte = Slash THEN Append(segs, <<>>)
  ELSE [segs EXCEPT ![Len(segs)] = Append(@, byte)]

Splits(path) ==
  LET S[n \in 0..Len(path)] == IF n = 0 THEN << <<>> >> ELSE Fed(S[n - 1], path[n])
  IN  S

Split(path) == Splits(path)[Len(path)]

\* parts.join("/") with a leading slash.
Joins(parts) ==
  LET J[n \in 0..Len(parts)] == IF n = 0 THEN <<>> ELSE Output(J[n - 1]) \o parts[n]
  IN  J

Absolute(parts) == IF parts = <<>> THEN <<Slash>> ELSE Joins(parts)[Len(parts)]

\* Of an absolute path: empty and "." segments go, ".." takes back a segment, and
\* the path is rejected if there is none.
Taken(parts, seg) ==
  CASE parts = None -> None
    [] parts # None /\ seg \in {<<>>, <<Dot>>} -> parts
    [] parts # None /\ seg = <<Dot, Dot>> ->
         IF parts = <<>> THEN None ELSE SubSeq(parts, 1, Len(parts) - 1)
    [] OTHER -> Append(parts, seg)

Takens(segs) ==
  LET P[n \in 0..Len(segs)] == IF n = 0 THEN <<>> ELSE Taken(P[n - 1], segs[n])
  IN  P

normalize_abs(path) ==
  LET segs  == Split(path)
      parts == Takens(segs)[Len(segs)]
  IN  IF parts = None THEN None ELSE Absolute(parts)

normalize_root(r) ==
  LET n == normalize_abs(IF StartsWith(r, <<Slash>>) THEN r ELSE <<Slash>> \o r)
  IN  IF n = None THEN <<Slash>> ELSE n

join_root(r, k) == IF r = <<Slash>> THEN r \o k ELSE r \o <<Slash>> \o k

\* Mutant: a sibling whose name extends the root's passes for a child.
UnderLoose(path, r) == StartsWith(path, r)

Under(path, r) == r = <<Slash>> \/ path = r \/ StartsWith(path, Output(r))

\* trim_start_matches('/')
Trimmed(k) ==
  LET n == CHOOSE n \in 0..Len(k) : /\ \A i \in 1..n : k[i] = Slash
                                    /\ n < Len(k) => k[n + 1] # Slash
  IN  SubSeq(k, n + 1, Len(k))

key_to_hdfs_path(r, k) ==
  LET path == normalize_abs(join_root(r, Trimmed(k)))
  IN  IF Trimmed(k) = <<>> \/ path = None THEN None
      ELSE IF Under(path, r) THEN path ELSE None

\* Mutant: the root "/" gets a second slash like any other root.
hdfs_path_to_key_plain(r, p) ==
  LET path == normalize_abs(p)
  IN  IF path = None THEN None
      ELSE IF path = r THEN <<>>
      ELSE IF StartsWith(path, Output(r)) THEN SubSeq(path, Len(Output(r)) + 1, Len(path))
      ELSE None

hdfs_path_to_key(r, p) ==
  LET path == normalize_abs(p)
      lead == IF r = <<Slash>> THEN r ELSE Output(r)
  IN  IF path = None THEN None
      ELSE IF path = r THEN <<>>
      ELSE IF StartsWith(path, lead) THEN SubSeq(path, Len(lead) + 1, Len(path))
      ELSE None

\* Mutant: the walk starts at the whole prefix, its last segment included.
list_start_whole(r, prefix) ==
  IF Split(prefix)[1] \in {<<Dot>>, <<Dot, Dot>>} THEN None
  ELSE IF prefix = <<>> THEN r ELSE key_to_hdfs_path(r, prefix)

\* The directory part of the prefix; a first segment "." or ".." is rejected.
list_start(r, prefix) ==
  LET slashes == {i \in 1..Len(prefix) : prefix[i] = Slash}
  IN  IF Split(prefix)[1] \in {<<Dot>>, <<Dot, Dot>>} THEN None
      ELSE IF slashes = {} THEN r
      ELSE key_to_hdfs_path(r, Prefix(prefix, CHOOSE i \in slashes :
                                                 \A j \in slashes : j <= i))

-----------------------------------------------------------------------------
\* A client sends keys of every shape.
Ask == \E x \in Alphabet : /\ root # None
                           /\ Len(key) < MaxLen
                           /\ key' = Append(key, x)
                           /\ UNCHANGED root
-----------------------------------------------------------------------------
Plain(seg) == seg \notin {<<>>, <<Dot>>, <<Dot, Dot>>}

\* The keys files can have: plain segments only.
ObjectKeys ==
  {k \in UNION {[1..n -> Alphabet] : n \in 1..MaxMatch} :
     \A i \in 1..Len(Split(k)) : Plain(Split(k)[i])}

\* No key reaches a path outside hdfs_root, however it combines "..", "." and
\* empty segments, and the path is in HDFS's normal form.
StaysUnderRoot ==
  LET path == IF root = None THEN None ELSE key_to_hdfs_path(root, key)
  IN  path # None =>
        /\ root = <<Slash>> \/ path = root
             \/ (Len(path) > Len(root) /\ StartsWith(path, root) /\ path[Len(root) + 1] = Slash)
        /\ path[1] = Slash
        /\ path # <<Slash>> => \A i \in 2..Len(Split(path)) : Plain(Split(path)[i])

\* Listing a path and asking for the listed key leads back to the path: what
\* ListObjectsV2 prints, GetObject finds.
ListedKeyIsFound ==
  LET path == IF root = None THEN None ELSE key_to_hdfs_path(root, key)
  IN  path # None /\ path # root =>
        /\ hdfs_path_to_key(root, path) \notin {None, <<>>}
        /\ key_to_hdfs_path(root, hdfs_path_to_key(root, path)) = path

\* Every object that matches a prefix lives under the directory its listing
\* starts at.
ListStartCovers ==
  root # None /\ list_start(root, key) # None =>
    \A k \in ObjectKeys : StartsWith(k, key) =>
       Under(key_to_hdfs_path(root, k), list_start(root, key))
=============================================================================
