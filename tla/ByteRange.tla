----------------------------- MODULE ByteRange -----------------------------
(***************************************************************************)
(* core/range.rs: a Range header resolved against a file's length.         *)
(*                                                                         *)
(* The code works on u64.  The integers here are unbounded; that no step   *)
(* of the arithmetic leaves 0..file_len, so that nothing can wrap, is part *)
(* of the theorem ResolvedRangeIsExact in ObjectReadProofs.                *)
(***************************************************************************)
EXTENDS Integers

\* The enum ByteRange, its numbers taken from N.
Header(N) ==
  [shape : {"From"}, first : N]
    \cup [shape : {"Inclusive"}, first : N, last : N]
    \cup [shape : {"Suffix"}, length : N]

NoRange == <<>>

SmallerOf(m, n) == IF m <= n THEN m ELSE n

From(n, first) == IF first >= n THEN NoRange ELSE <<first, n>>

Inclusive(n, first, last) ==
  IF first >= n \/ first > SmallerOf(last, n - 1)
    THEN NoRange
    ELSE <<first, SmallerOf(last, n - 1) + 1>>

Suffix(n, length) ==
  IF length = 0 \/ SmallerOf(length, n) = 0 THEN NoRange ELSE <<n - SmallerOf(length, n), n>>

\* The window [start, end) of a file of n bytes to read, or NoRange (416).
resolve_range(n, h) ==
  CASE h.shape = "From"      -> From(n, h.first)
    [] h.shape = "Inclusive" -> Inclusive(n, h.first, h.last)
    [] OTHER                 -> Suffix(n, h.length)

-----------------------------------------------------------------------------
\* RFC 9110: byte i of a file of n bytes is one the header asks for.
Requested(n, h, i) ==
  \/ h.shape = "From" /\ h.first <= i
  \/ h.shape = "Inclusive" /\ h.first <= i /\ i <= h.last
  \/ h.shape = "Suffix" /\ n - h.length <= i
=============================================================================
