------------------------------ MODULE KeyOrder ------------------------------
(***************************************************************************)
(* The key comparisons of core/listing.rs and s3/sorted_listing.rs.        *)
(*                                                                         *)
(* A key is its UTF-8 bytes.  A file is listed under its key, a directory  *)
(* under its output key, its key with a slash appended; the code compares  *)
(* output keys without building them.                                      *)
(***************************************************************************)
EXTENDS Naturals, Sequences

Key == Seq(Nat)

Slash == 47

-----------------------------------------------------------------------------
(* Byte order, as Rust compares slices and str.                            *)

\* a sorts strictly before b: they agree up to a place where a ends or has the
\* smaller byte.
Before(a, b) ==
  \E i \in 1..Len(b) :
     /\ i <= Len(a) + 1
     /\ \A j \in 1..(i - 1) : a[j] = b[j]
     /\ i <= Len(a) => a[i] < b[i]

Cmp(a, b) == IF a = b THEN "Equal" ELSE IF Before(a, b) THEN "Less" ELSE "Greater"

CmpByte(x, y) == IF x = y THEN "Equal" ELSE IF x < y THEN "Less" ELSE "Greater"

StartsWith(key, prefix) ==
  /\ Len(prefix) <= Len(key)
  /\ \A j \in 1..Len(prefix) : key[j] = prefix[j]

Prefix(key, n) == SubSeq(key, 1, n)

Shorter(m, n) == IF m <= n THEN m ELSE n

\* The key a directory is listed under: format!("{dir}/").
Output(dir) == Append(dir, Slash)

-----------------------------------------------------------------------------
(* The comparisons of the code.                                            *)

\* Mutant: a directory whose output key is a prefix of other compares equal to it
\* (the mistake the comment in cmp_dir_output warns of).
cmp_dir_output_loose(d, o) ==
  LET common == Shorter(Len(d), Len(o))
      order  == Cmp(Prefix(d, common), Prefix(o, common))
  IN  CASE order # "Equal"    -> order
        [] order = "Equal" /\ Len(d) >= Len(o) -> "Greater"
        [] OTHER -> CmpByte(Slash, o[Len(d) + 1])

\* Output(d) against o.
cmp_dir_output(d, o) ==
  LET common == Shorter(Len(d), Len(o))
      order  == Cmp(Prefix(d, common), Prefix(o, common))
      next   == CmpByte(Slash, o[Len(d) + 1])
  IN  CASE order # "Equal" -> order
        [] order = "Equal" /\ Len(d) >= Len(o) -> "Greater"
        [] order = "Equal" /\ Len(d) < Len(o) /\ next # "Equal" -> next
        [] OTHER -> IF Len(o) = Len(d) + 1 THEN "Equal" ELSE "Less"

\* Output(a) against Output(b).
cmp_dir_keys(a, b) ==
  LET common == Shorter(Len(a), Len(b))
      order  == Cmp(Prefix(a, common), Prefix(b, common))
  IN  CASE order # "Equal" -> order
        [] order = "Equal" /\ Len(a) = Len(b) -> "Equal"
        [] order = "Equal" /\ Len(a) < Len(b) ->
             (LET next == CmpByte(Slash, b[Len(a) + 1])
              IN  IF next = "Equal" THEN "Less" ELSE next)
        [] OTHER ->
             (LET next == CmpByte(a[Len(b) + 1], Slash)
              IN  IF next = "Equal" THEN "Greater" ELSE next)

Reverse(order) ==
  CASE order = "Less" -> "Greater" [] order = "Greater" -> "Less" [] OTHER -> order

cmp_file_dir(file, dir) == Reverse(cmp_dir_output(dir, file))

\* Output(dir) starts with prefix.
dir_output_starts_with(dir, prefix) ==
  IF Len(prefix) <= Len(dir)
    THEN StartsWith(dir, prefix)
    ELSE /\ Len(prefix) = Len(dir) + 1
         /\ StartsWith(prefix, dir)
         /\ prefix[Len(dir) + 1] = Slash

\* Every possible child of dir sorts before the marker.
dir_children_all_before(dir, after) ==
  LET common == Shorter(Len(dir), Len(after))
      order  == Cmp(Prefix(dir, common), Prefix(after, common))
  IN  \/ order = "Less"
      \/ order = "Equal" /\ Len(dir) < Len(after) /\ after[Len(dir) + 1] > Slash

-----------------------------------------------------------------------------
(* Sorted arrays of keys.                                                  *)

DirBefore(a, b) == cmp_dir_keys(a, b) = "Less"

\* The arrangements of S in the given strict order (there is at most one).
Sorted(S, n, Less(_, _)) ==
  {s \in [1..n -> S] : /\ \A i, j \in 1..n : i < j => Less(s[i], s[j])
                       /\ \A x \in S : \E i \in 1..n : s[i] = x}

\* slice::partition_point: how many leading elements satisfy P.
PartitionPoint(s, P(_)) ==
  CHOOSE n \in 0..Len(s) : /\ \A i \in 1..n : P(s[i])
                           /\ n < Len(s) => ~P(s[n + 1])

\* Mutant: the directory the marker lives in is taken for one that is behind it.
dirs_start_without_straddler(dirs, marker) ==
  LET AtOrBefore(d) == cmp_dir_output(d, marker) # "Greater"
  IN  PartitionPoint(dirs, AtOrBefore)

\* How many leading directories can be left out after the marker.
dirs_start_after(dirs, marker) ==
  LET AtOrBefore(d) == cmp_dir_output(d, marker) # "Greater"
      start == PartitionPoint(dirs, AtOrBefore)
      candidate == dirs[start]
  IN  IF /\ start > 0
         /\ Len(marker) > Len(candidate)
         /\ StartsWith(marker, candidate)
         /\ marker[Len(candidate) + 1] = Slash
        THEN start - 1
        ELSE start
=============================================================================
