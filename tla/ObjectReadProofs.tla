-------------------------- MODULE ObjectReadProofs --------------------------
(***************************************************************************)
(* Safety of HEAD and GET for any number of requests, versions, lengths    *)
(* and TTLs.                                                               *)
(*                                                                         *)
(* The properties are about the end of a request, the argument about what  *)
(* every pending step carries: HandlerInv says which version a handler may *)
(* name at each step and how those versions are ordered; CacheInv says the *)
(* same of the cached entries.  The properties are not inductive without   *)
(* them: a map is served because an entry labelled it, perhaps long ago.   *)
(*                                                                         *)
(* The second half is about Revalidation, which takes ObjectRead's steps   *)
(* and no others.  There the argument is about time.  QuietInv: an entry   *)
(* that is out of date is as old as the quiet that followed the change,    *)
(* because an answer from before the change keeps the quiet from starting. *)
(* FreshInv: so a request that begins after a full TTL of quiet finds      *)
(* nothing out of date, and what it learns itself it learns after it       *)
(* began.  CopyInv: a client's copy is at least as new as its ETag.        *)
(***************************************************************************)
EXTENDS Revalidation, TLAPS

-----------------------------------------------------------------------------
(* resolve_range against RFC 9110, for files and headers of any size.      *)

\* The window w is what the header asks of a file of n bytes: without a window
\* the file has none of the requested bytes; a window is not empty, lies inside
\* the file and holds exactly the requested bytes the file has.
Exact(n, h, w) ==
  \/ /\ w = NoRange
     /\ \A i \in 0..(n - 1) : ~Requested(n, h, i)
  \/ /\ w \in (0..n) \X (0..n)
     /\ w[1] < w[2]
     /\ \A i \in 0..(n - 1) : Requested(n, h, i) <=> (w[1] <= i /\ i < w[2])

\* bytes=first-
LEMMA FromExact ==
  ASSUME NEW n \in Nat, NEW h \in [shape : {"From"}, first : Nat]
  PROVE  Exact(n, h, From(n, h.first))
BY DEF Exact, From, Requested, NoRange

\* bytes=first-last: last is clamped; file_len - 1 is taken of a file that is
\* not empty, and last + 1 is at most file_len.
LEMMA InclusiveExact ==
  ASSUME NEW n \in Nat, NEW h \in [shape : {"Inclusive"}, first : Nat, last : Nat]
  PROVE  /\ Exact(n, h, Inclusive(n, h.first, h.last))
         /\ h.first < n => n - 1 \in 0..n
BY DEF Exact, Inclusive, Requested, SmallerOf, NoRange

\* bytes=-length: file_len - length is taken of a length that was clamped first.
LEMMA SuffixExact ==
  ASSUME NEW n \in Nat, NEW h \in [shape : {"Suffix"}, length : Nat]
  PROVE  /\ Exact(n, h, Suffix(n, h.length))
         /\ n - SmallerOf(h.length, n) \in 0..n
BY DEF Exact, Suffix, Requested, SmallerOf, NoRange

\* resolve_range selects exactly the bytes RFC 9110 asks for, never an empty
\* window (Content-Range computes end - 1) and never a number above file_len:
\* the u64 arithmetic of core/range.rs cannot wrap.
THEOREM ResolvedRangeIsExact ==
  ASSUME NEW n \in Nat, NEW h \in Header(Nat)
  PROVE  Exact(n, h, resolve_range(n, h))
<1>1. CASE h \in [shape : {"From"}, first : Nat]
  BY <1>1, FromExact DEF resolve_range
<1>2. CASE h \in [shape : {"Inclusive"}, first : Nat, last : Nat]
  BY <1>2, InclusiveExact DEF resolve_range
<1>3. CASE h \in [shape : {"Suffix"}, length : Nat]
  BY <1>3, SuffixExact DEF resolve_range
<1> QED
  BY <1>1, <1>2, <1>3 DEF Header

-----------------------------------------------------------------------------
(* The inductive invariant of the handlers and the caches.                 *)

\* Steps that come after the metadata, and after the block map, are known.
HasVer == {"have", "unmatched", "open", "opened", "check", "evict",
           "evictMeta", "stream"}
HasMap == {"check", "evict", "evictMeta", "stream"}

Body(q) == q.pc = "stream" \/ (q.pc = "done" /\ q.res = "complete")

\* What holds of the handler q at each of its steps, when the path's history is h.
HandlerInv(q, h) ==
  /\ q.born <= Len(h) /\ q.ver <= Len(h) /\ q.map <= Len(h) /\ q.ans <= Len(h)
  /\ q.pc \in HasVer \/ Body(q) => q.ver # 0
  /\ q.pc \in HasMap \/ Body(q) => q.map # 0
  /\ q.pc \in HasVer \ {"have"} => h[q.ver].kind = "file"
  /\ q.pc = "opened" /\ q.ans # 0 => q.ans >= q.ver
  /\ DistinctIdentity /\ (q.pc \in HasMap \/ Body(q)) => q.map >= q.ver
  /\ MetadataTtl = 0 =>
       /\ q.pc = "stated" /\ q.ans # 0 => q.ans >= q.born
       /\ q.pc \in HasVer \/ Body(q) => q.ver >= q.born
  /\ q.got <= q.want
  /\ Body(q) => q.end <= h[q.map].len
  /\ q.pc \in {"evict", "evictMeta"} => q.res \in {"readError", "shrunk"}
  /\ q.pc \in {"evict", "evictMeta", "done"} /\ q.res = "readError" => q.got < q.want
  /\ q.pc = "done" /\ q.res = "short" => q.got < q.want
  /\ q.pc = "done" /\ q.res = "complete" => q.got = q.want
  /\ q.pc \notin {"done", "evict", "evictMeta"} => q.res = "pending"
  /\ q.pc \notin {"stream", "done", "evict", "evictMeta"} => q.got = 0

\* Entries name versions of the history; a block map was opened after the stat
\* whose identity labels it; with the metadata cache off there is no entry.
CacheInv ==
  /\ metadata # NoEntry => metadata.ver <= Cur /\ MetadataTtl # 0
  /\ blocks # NoEntry => /\ blocks.map <= Cur
                         /\ blocks.map >= blocks.label
                         /\ hist[blocks.label].kind = "file"

\* (length, mtime) names one file version.
IdentityIsVersion ==
  DistinctIdentity =>
    \A v, w \in 1..Cur : /\ hist[v].kind = "file" /\ hist[w].kind = "file"
                         /\ SameIdentity(v, w)
                         => v = w

\* A request that is giving up on a block map no longer shares it.
Unshared(r) ==
  \/ At(r, "evictMeta")
  \/ At(r, "done") /\ req[r].res \in {"readError", "shrunk"}
  => r \notin sharing

\* The inductive invariant.
IInv ==
  /\ TypeOK
  /\ CacheInv
  /\ IdentityIsVersion
  /\ \A r \in Req : HandlerInv(req[r], hist) /\ Unshared(r)

-----------------------------------------------------------------------------
\* Every version in the history has a natural length.
LEMMA HistoryLengths ==
  ASSUME TypeOK
  PROVE  \A v \in 1..Cur : hist[v].len \in Nat
<1> SUFFICES ASSUME NEW v \in 1..Cur PROVE hist[v].len \in Nat
  OBVIOUS
<1>1. hist[v] \in File \cup NotAFile
  BY DEF TypeOK, Cur
<1>2. \A f \in File : f.len \in Nat
  BY ReadAssumption DEF File
<1>3. \A f \in NotAFile : f.len = 0
  BY DEF NotAFile
<1> QED BY <1>1, <1>2, <1>3

\* A free request slot is well typed.
LEMMA IdleHandler == Idle \in Handler
  BY ReadAssumption DEF Idle, Handler, Version0, PC, Results

\* The initial states satisfy the invariant.
LEMMA InitIInv == Init => IInv
<1> SUFFICES ASSUME Init PROVE IInv
  OBVIOUS
<1>1. PICK f \in File \cup NotAFile : hist = <<f>>
  BY DEF Init
<1>2. hist \in Seq(File \cup NotAFile) /\ Cur = 1
  BY <1>1 DEF Cur
<1>4. TypeOK
  BY <1>2, IdleHandler, ReadAssumption DEF Init, TypeOK
<1>5. CacheInv
  BY DEF Init, CacheInv
<1>6. IdentityIsVersion
  BY <1>2 DEF IdentityIsVersion
<1>7. HandlerInv(Idle, hist)
  BY <1>2 DEF HandlerInv, Idle, Body, HasVer, HasMap, Cur
<1>8. ASSUME NEW r \in Req PROVE HandlerInv(req[r], hist) /\ Unshared(r)
  BY <1>7 DEF Init, Unshared
<1> QED BY <1>4, <1>5, <1>6, <1>8 DEF IInv

\* The part of the argument that is the same for every step of a handler r:
\* the other handlers, and the history, are left alone.
LEMMA Frame ==
  ASSUME IInv, NEW r \in Req, NEW t,
         hist' = hist, req' = [req EXCEPT ![r] = t],
         t \in Handler, HandlerInv(t, hist),
         sharing' \subseteq sharing \cup {r}, Unshared(r)',
         metadata' \in MetadataEntry \cup {NoEntry},
         negative' \in NegativeEntry \cup {NoEntry},
         blocks' \in BlocksEntry \cup {NoEntry},
         CacheInv'
  PROVE  IInv'
<1>1. TypeOK'
  BY DEF IInv, TypeOK, Cur
<1>2. IdentityIsVersion'
  BY DEF IInv, IdentityIsVersion, SameIdentity, Cur
<1>3. req'[r] = t
  BY DEF IInv, TypeOK
<1>4. ASSUME NEW q \in Req, q # r PROVE HandlerInv(req'[q], hist') /\ Unshared(q)'
  <2>1. req'[q] = req[q]
    BY <1>4 DEF IInv, TypeOK
  <2>2. HandlerInv(req'[q], hist')
    BY <2>1 DEF IInv
  <2>3. Unshared(q)'
    BY <1>4, <2>1 DEF IInv, Unshared, At
  <2> QED BY <2>2, <2>3
<1>5. ASSUME NEW q \in Req PROVE HandlerInv(req'[q], hist') /\ Unshared(q)'
  BY <1>3, <1>4
<1> QED BY <1>1, <1>2, <1>5 DEF IInv

\* A step that only moves the handler r: the caches keep what they have.
LEMMA LocalStep ==
  ASSUME IInv, NEW r \in Req, NEW t,
         hist' = hist, req' = [req EXCEPT ![r] = t],
         t \in Handler, HandlerInv(t, hist), t.pc # "evictMeta",
         t.pc = "done" => t.res \notin {"readError", "shrunk"},
         UNCHANGED cacheVars
  PROVE  IInv'
<1>1. Unshared(r)'
  BY DEF Unshared, At, IInv, TypeOK
<1>2. CacheInv'
  BY DEF IInv, CacheInv, Cur, cacheVars
<1> QED BY <1>1, <1>2, Frame DEF IInv, TypeOK, cacheVars

\* The handler r itself before its step.
LEMMA HandlerOf ==
  ASSUME IInv, NEW r \in Req
  PROVE  /\ req[r] \in Handler
         /\ HandlerInv(req[r], hist)
         /\ Unshared(r)
         /\ Len(hist) \in Nat
         /\ 0 \in Version0
  BY ReadAssumption DEF IInv, TypeOK, Version0

\* metadata.get names only a version that was stat-ed.
LEMMA StartInv ==
  ASSUME IInv, NEW r \in Req, Start(r)
  PROVE  IInv'
<1>0. Cur \in Version0
  BY ReadAssumption DEF IInv, TypeOK, Version0
<1>1. CASE Live(metadata, MetadataTtl)
  <2> DEFINE t == [Idle EXCEPT !.pc = "have", !.born = Cur, !.ver = metadata.ver]
  <2>1. metadata \in MetadataEntry /\ metadata.ver <= Cur /\ MetadataTtl # 0
    BY <1>1 DEF Live, IInv, TypeOK, CacheInv
  <2>a. metadata.ver \in Version0 /\ metadata.ver # 0
    BY <2>1, ReadAssumption DEF MetadataEntry, Version0
  <2>2. t \in Handler
    BY <1>0, <2>a, IdleHandler DEF Handler, PC
  <2>3. HandlerInv(t, hist)
    BY <2>1, <2>a, <1>0 DEF Version0, Idle, HandlerInv, Body, HasVer, HasMap, Cur
  <2>4. req' = [req EXCEPT ![r] = t] /\ metadata' = metadata
    BY <1>1 DEF Start, Probe
  <2>5. t.pc = "have"
    BY DEF Idle
  <2> HIDE DEF t
  <2> QED BY <2>2, <2>3, <2>4, <2>5, LocalStep DEF Start, cacheVars
<1>2. CASE ~Live(metadata, MetadataTtl)
  <2> DEFINE t == [Idle EXCEPT !.pc = "negative", !.born = Cur]
  <2>1. t \in Handler
    BY <1>0, IdleHandler DEF Handler, PC
  <2>2. HandlerInv(t, hist)
    BY DEF IInv, TypeOK, Idle, HandlerInv, Body, HasVer, HasMap, Cur
  <2>3. req' = [req EXCEPT ![r] = t] /\ metadata' = NoEntry
    BY <1>2 DEF Start, Probe
  <2>4. Unshared(r)'
    BY <2>3 DEF Unshared, At, Idle, IInv, TypeOK
  <2>5. CacheInv'
    BY <2>3 DEF Start, IInv, CacheInv, Cur
  <2> HIDE DEF t
  <2> QED BY <2>1, <2>2, <2>3, <2>4, <2>5, Frame DEF Start, IInv, TypeOK
<1> QED BY <1>1, <1>2

\* negative.get answers NoSuchKey or lets the request go on to its stat.
LEMMA CheckNegativeInv ==
  ASSUME IInv, NEW r \in Req, CheckNegative(r)
  PROVE  IInv'
<1>1. PICK t \in {[req[r] EXCEPT !.pc = "done", !.res = "NoSuchKey"],
                  [req[r] EXCEPT !.pc = "stat"]} : req' = [req EXCEPT ![r] = t]
  BY DEF CheckNegative, Respond, Goto
<1>2. t \in Handler /\ HandlerInv(t, hist)
  BY HandlerOf DEF CheckNegative, At, Handler, PC, Results, HandlerInv, Body, HasVer, HasMap
<1>3. Unshared(r)'
  BY <1>1, HandlerOf DEF Unshared, At, IInv, TypeOK, CheckNegative, Handler
<1>4. CacheInv' /\ negative' \in NegativeEntry \cup {NoEntry}
  BY DEF CheckNegative, Probe, IInv, TypeOK, CacheInv, Cur
<1> QED BY <1>1, <1>2, <1>3, <1>4, Frame DEF CheckNegative, IInv, TypeOK

\* The NameNode answers with the current version, no older than the request.
LEMMA StatAnswerInv ==
  ASSUME IInv, NEW r \in Req, StatAnswer(r)
  PROVE  IInv'
<1>1. PICK a \in {0, Cur} : req' = [req EXCEPT ![r].pc = "stated", ![r].ans = a]
  BY DEF StatAnswer
<1> DEFINE t == [req[r] EXCEPT !.pc = "stated", !.ans = a]
<1>2. a \in Version0 /\ a <= Cur
  BY ReadAssumption DEF IInv, TypeOK, Version0
<1>3. t \in Handler /\ HandlerInv(t, hist)
  BY <1>2, HandlerOf DEF StatAnswer, At, Handler, PC, Version0, HandlerInv, Body,
                         HasVer, HasMap, Cur
<1>4. req' = [req EXCEPT ![r] = t] /\ t.pc = "stated"
  BY <1>1, HandlerOf DEF IInv, TypeOK, Handler
<1> HIDE DEF t
<1> QED BY <1>3, <1>4, LocalStep DEF StatAnswer


\* file_meta stores and returns the version the NameNode saw.
LEMMA StatReplyInv ==
  ASSUME IInv, NEW r \in Req, StatReply(r)
  PROVE  IInv'
<1> DEFINE a == req[r].ans
<1>0. At(r, "stated") /\ a \in Version0 /\ a <= Cur
  BY HandlerOf DEF StatReply, Handler, HandlerInv, Cur
<1>1. CASE a = 0
  <2> DEFINE t == [req[r] EXCEPT !.pc = "done", !.res = "upstream"]
  <2>1. t \in Handler /\ HandlerInv(t, hist)
    BY <1>0, HandlerOf DEF At, Handler, PC, Results, HandlerInv, Body, HasVer, HasMap
  <2>2. req' = [req EXCEPT ![r] = t] /\ t.pc = "done" /\ t.res = "upstream"
    BY <1>1, HandlerOf DEF StatReply, Respond, IInv, TypeOK, Handler
  <2> HIDE DEF t
  <2> QED BY <1>1, <2>1, <2>2, LocalStep DEF StatReply, cacheVars
<1>2. CASE a # 0 /\ hist[a].kind = "missing"
  <2> DEFINE t == [req[r] EXCEPT !.pc = "done", !.res = "NoSuchKey"]
  <2>1. t \in Handler /\ HandlerInv(t, hist)
    BY <1>0, HandlerOf DEF At, Handler, PC, Results, HandlerInv, Body, HasVer, HasMap
  <2>2. /\ req' = [req EXCEPT ![r] = t] /\ t.pc = "done" /\ t.res = "NoSuchKey"
        /\ UNCHANGED <<metadata, blocks, sharing, hist>>
    BY <1>2, HandlerOf DEF StatReply, Respond, IInv, TypeOK, Handler
  <2>3. negative' \in NegativeEntry \cup {NoEntry}
    BY <1>2, ReadAssumption DEF StatReply, Stored, NegativeEntry
  <2>4. Unshared(r)'
    BY <2>2 DEF Unshared, At, IInv, TypeOK
  <2>5. CacheInv'
    BY <2>2 DEF IInv, CacheInv, Cur
  <2> HIDE DEF t
  <2> QED BY <2>1, <2>2, <2>3, <2>4, <2>5, Frame DEF IInv, TypeOK
<1>3. CASE a # 0 /\ hist[a].kind # "missing"
  <2> DEFINE t == [req[r] EXCEPT !.pc = "have", !.ver = a, !.ans = 0]
  <2>1. t \in Handler
    BY <1>0, HandlerOf DEF Handler, PC
  <2>a. HandlerInv(t, hist)
    BY <1>0, <1>3, HandlerOf DEF At, Handler, HandlerInv, Body, HasVer, HasMap, Version0, Cur
  <2>2. /\ req' = [req EXCEPT ![r] = t] /\ t.pc = "have"
        /\ UNCHANGED <<negative, blocks, sharing, hist>>
        /\ metadata' = Stored([ver |-> a, age |-> 0], MetadataTtl)
    BY <1>3, HandlerOf DEF StatReply, IInv, TypeOK, Handler
  <2>3. metadata' \in MetadataEntry \cup {NoEntry}
    BY <1>0, <1>3, <2>2, ReadAssumption DEF Stored, MetadataEntry, Version0
  <2>4. Unshared(r)'
    BY <2>2 DEF Unshared, At, IInv, TypeOK
  <2>5. CacheInv'
    BY <1>0, <2>2 DEF IInv, CacheInv, Cur, Stored
  <2> HIDE DEF t
  <2> QED BY <2>1, <2>a, <2>2, <2>3, <2>4, <2>5, Frame DEF IInv, TypeOK
<1> QED BY <1>1, <1>2, <1>3 DEF StatReply

\* A HEAD, and a GET that stops before its body, only end.
LEMMA AnswerInv ==
  ASSUME IInv, NEW r \in Req, AnswerHead(r) \/ AnswerEarly(r)
  PROVE  IInv'
<1>1. PICK result \in {"NoSuchKey", "head", "NotServed"} :
         req' = [req EXCEPT ![r].pc = "done", ![r].res = result]
  BY DEF AnswerHead, AnswerEarly, Respond
<1> DEFINE t == [req[r] EXCEPT !.pc = "done", !.res = result]
<1>2. t \in Handler /\ HandlerInv(t, hist)
  BY HandlerOf DEF AnswerHead, AnswerEarly, At, Handler, PC, Results, HandlerInv,
                   Body, HasVer, HasMap
<1>3. req' = [req EXCEPT ![r] = t] /\ t.pc = "done" /\ t.res = result
  BY <1>1, HandlerOf DEF IInv, TypeOK, Handler
<1> HIDE DEF t
<1> QED BY <1>2, <1>3, LocalStep DEF AnswerHead, AnswerEarly

\* The windows get_object can arrive at, by ResolvedRangeIsExact.
LEMMA WindowBounds ==
  ASSUME NEW n \in Nat, NEW w \in Windows(n)
  PROVE  w[1] \in Nat /\ w[2] \in Nat /\ w[1] <= w[2]
<1>1. CASE w = <<0, n>>
  BY <1>1
<1>2. CASE w # <<0, n>>
  <2>1. w # NoRange /\ \E h \in Header(0..(n + 1)) : w = resolve_range(n, h)
    BY <1>2 DEF Windows
  <2>2. PICK h \in Header(0..(n + 1)) : w = resolve_range(n, h)
    BY <2>1
  <2>3. h \in Header(Nat)
    BY DEF Header
  <2>4. Exact(n, h, w)
    BY <2>2, <2>3, ResolvedRangeIsExact
  <2> QED
    BY <2>1, <2>4 DEF Exact
<1> QED
  BY <1>1, <1>2

\* Reuse needs equal identities, so by IdentityIsVersion the label is the version
\* the request holds, and the map is no older than its label.
LEMMA LookupBlocksInv ==
  ASSUME IInv, NEW r \in Req, LookupBlocks(r)
  PROVE  IInv'
<1> DEFINE v == req[r].ver
<1>a. At(r, "have") /\ v \in 1..Cur /\ hist[v].kind = "file"
  BY HandlerOf DEF LookupBlocks, At, Handler, HandlerInv, HasVer, Version0, Cur
<1>0. At(r, "have") /\ v \in 1..Cur /\ hist[v].kind = "file" /\ hist[v].len \in Nat
  BY <1>a, HistoryLengths DEF IInv
<1>1. PICK w \in Windows(hist[v].len) :
        LET asked == [req[r] EXCEPT !.end = w[2], !.want = w[2] - w[1]] IN
        \/ /\ ~Live(blocks, BlocksTtl)
           /\ req' = [req EXCEPT ![r] = [asked EXCEPT !.pc = "open"]]
           /\ sharing' = {}
        \/ /\ Live(blocks, BlocksTtl) /\ SameIdentity(blocks.label, v)
           /\ req' = [req EXCEPT ![r] = [asked EXCEPT !.pc = "check", !.map = blocks.map]]
           /\ sharing' = sharing \cup {r}
        \/ /\ Live(blocks, BlocksTtl) /\ ~SameIdentity(blocks.label, v)
           /\ req' = [req EXCEPT ![r] = [asked EXCEPT !.pc = "unmatched"]]
           /\ sharing' = sharing
  BY DEF LookupBlocks
<1> DEFINE asked == [req[r] EXCEPT !.end = w[2], !.want = w[2] - w[1]]
<1>2. w[2] \in Nat /\ w[1] \in Nat /\ w[1] <= w[2]
  BY <1>0, WindowBounds
<1>3. w[2] - w[1] \in Nat
  BY <1>2
<1>b. req[r].got = 0 /\ req[r].res = "pending"
  BY <1>a, HandlerOf DEF At, HandlerInv
<1>c. asked \in Handler
  BY <1>2, <1>3, HandlerOf DEF Handler
<1>d. asked.pc = "have" /\ asked.got = 0 /\ asked.got <= asked.want
  BY <1>a, <1>b, <1>3, HandlerOf DEF At, Handler
<1>e. HandlerInv(asked, hist)
  BY <1>a, <1>d, HandlerOf DEF HandlerInv, Handler, Body, HasVer, HasMap
<1>f. asked.ver = v
  BY HandlerOf DEF Handler
<1> HIDE DEF asked
<1>4. CASE ~Live(blocks, BlocksTtl)
  <2> DEFINE t == [asked EXCEPT !.pc = "open"]
  <2>1. t \in Handler /\ HandlerInv(t, hist)
    BY <1>a, <1>c, <1>d, <1>e, <1>f DEF Handler, PC, HandlerInv, Body, HasVer, HasMap
  <2>2. req' = [req EXCEPT ![r] = t] /\ sharing' = {} /\ blocks' = NoEntry
    BY <1>1, <1>4 DEF LookupBlocks, Probe, asked
  <2>3. Unshared(r)'
    BY <2>2 DEF Unshared
  <2>4. CacheInv'
    BY <2>2 DEF LookupBlocks, IInv, CacheInv, Cur
  <2> HIDE DEF t
  <2> QED BY <2>1, <2>2, <2>3, <2>4, Frame DEF LookupBlocks, IInv, TypeOK
<1>5. CASE Live(blocks, BlocksTtl) /\ SameIdentity(blocks.label, v)
  <2> DEFINE t == [asked EXCEPT !.pc = "check", !.map = blocks.map]
  <2>1. /\ blocks \in BlocksEntry /\ blocks.map <= Cur
        /\ blocks.map >= blocks.label /\ hist[blocks.label].kind = "file"
    BY <1>5 DEF Live, IInv, TypeOK, CacheInv
  <2>2. /\ blocks.map \in Version0 /\ blocks.map # 0
        /\ blocks.label \in 1..Cur
    BY <2>1, ReadAssumption DEF BlocksEntry, Version0, IInv, TypeOK
  <2>3. DistinctIdentity => blocks.map >= v
    BY <1>0, <1>5, <2>1, <2>2 DEF IInv, IdentityIsVersion
  <2>4. t \in Handler /\ HandlerInv(t, hist)
    BY <1>a, <1>c, <1>d, <1>e, <1>f, <2>1, <2>2, <2>3
       DEF Handler, PC, HandlerInv, Body, HasVer, HasMap, Cur
  <2>5. /\ req' = [req EXCEPT ![r] = t] /\ sharing' = sharing \cup {r}
        /\ blocks' = blocks
    BY <1>1, <1>5 DEF LookupBlocks, Probe, asked
  <2>6. Unshared(r)'
    BY <2>5, HandlerOf DEF Unshared, At, IInv, TypeOK, Handler
  <2>7. CacheInv'
    BY <2>5 DEF LookupBlocks, IInv, CacheInv, Cur
  <2> HIDE DEF t
  <2> QED BY <2>4, <2>5, <2>6, <2>7, Frame DEF LookupBlocks, IInv, TypeOK
<1>6. CASE Live(blocks, BlocksTtl) /\ ~SameIdentity(blocks.label, v)
  <2> DEFINE t == [asked EXCEPT !.pc = "unmatched"]
  <2>1. t \in Handler /\ HandlerInv(t, hist)
    BY <1>a, <1>c, <1>d, <1>e, <1>f DEF Handler, PC, HandlerInv, Body, HasVer, HasMap
  <2>2. /\ req' = [req EXCEPT ![r] = t] /\ sharing' = sharing
        /\ blocks' = blocks /\ t.pc = "unmatched"
    BY <1>1, <1>6, HandlerOf DEF LookupBlocks, Probe, Handler, asked
  <2> HIDE DEF t
  <2> QED BY <2>1, <2>2, LocalStep DEF LookupBlocks, cacheVars
<1> QED BY <1>4, <1>5, <1>6

\* Removing a block map of another identity leaves nobody sharing it.
LEMMA DropUnmatchedInv ==
  ASSUME IInv, NEW r \in Req, DropUnmatched(r)
  PROVE  IInv'
<1> DEFINE t == [req[r] EXCEPT !.pc = "open"]
<1>1. t \in Handler /\ HandlerInv(t, hist)
  BY HandlerOf DEF DropUnmatched, At, Handler, PC, HandlerInv, Body, HasVer, HasMap
<1>2. req' = [req EXCEPT ![r] = t] /\ sharing' = {} /\ blocks' = NoEntry
  BY DEF DropUnmatched, RemoveBlocks, Goto
<1>3. Unshared(r)'
  BY <1>2 DEF Unshared
<1>4. CacheInv'
  BY <1>2 DEF DropUnmatched, IInv, CacheInv, Cur
<1> HIDE DEF t
<1> QED BY <1>1, <1>2, <1>3, <1>4, Frame DEF DropUnmatched, IInv, TypeOK

\* The NameNode hands out the current version, which no stat can be ahead of.
LEMMA OpenAnswerInv ==
  ASSUME IInv, NEW r \in Req, OpenAnswer(r)
  PROVE  IInv'
<1>1. PICK a \in {0, Cur} : req' = [req EXCEPT ![r].pc = "opened", ![r].ans = a]
  BY DEF OpenAnswer
<1> DEFINE t == [req[r] EXCEPT !.pc = "opened", !.ans = a]
<1>2. a \in Version0 /\ a <= Cur
  BY ReadAssumption DEF IInv, TypeOK, Version0
<1>3. t \in Handler /\ HandlerInv(t, hist)
  BY <1>2, HandlerOf DEF OpenAnswer, At, Handler, PC, Version0, HandlerInv, Body,
                         HasVer, HasMap, Cur
<1>4. req' = [req EXCEPT ![r] = t] /\ t.pc = "opened"
  BY <1>1, HandlerOf DEF IInv, TypeOK, Handler
<1> HIDE DEF t
<1> QED BY <1>3, <1>4, LocalStep DEF OpenAnswer

\* open_reader files the map under the older stat, never under a newer one.
LEMMA OpenReplyInv ==
  ASSUME IInv, NEW r \in Req, OpenReply(r)
  PROVE  IInv'
<1> DEFINE a == req[r].ans
<1>0. /\ At(r, "opened") /\ a \in Version0 /\ a <= Cur
      /\ req[r].ver \in 1..MaxVersion /\ hist[req[r].ver].kind = "file"
      /\ a # 0 => a >= req[r].ver
  BY HandlerOf DEF OpenReply, At, Handler, HandlerInv, HasVer, Version0, Cur
<1>1. CASE a # 0
  <2> DEFINE t == [req[r] EXCEPT !.pc = "check", !.map = a, !.ans = 0]
  <2>a. t \in Handler
    BY <1>0, HandlerOf DEF Handler, PC
  <2>b. HandlerInv(t, hist)
    BY <1>0, <1>1, HandlerOf DEF At, Handler, HandlerInv, Body, HasVer, HasMap, Version0, Cur
  <2>1. t \in Handler /\ HandlerInv(t, hist)
    BY <2>a, <2>b
  <2>2. /\ req' = [req EXCEPT ![r] = t] /\ t.pc = "check"
        /\ UNCHANGED <<hist, metadata, negative>>
        /\ blocks' = Stored([map |-> a, label |-> req[r].ver, age |-> 0], BlocksTtl)
        /\ sharing' \subseteq sharing \cup {r}
    BY <1>1, HandlerOf DEF OpenReply, IInv, TypeOK, Handler
  <2>3. blocks' \in BlocksEntry \cup {NoEntry}
    BY <1>0, <1>1, <2>2, ReadAssumption DEF Stored, BlocksEntry, Version0
  <2>4. Unshared(r)'
    BY <2>2 DEF Unshared, At, IInv, TypeOK
  <2>5. CacheInv'
    BY <1>0, <1>1, <2>2 DEF IInv, CacheInv, Cur, Stored
  <2> HIDE DEF t
  <2> QED BY <2>1, <2>2, <2>3, <2>4, <2>5, Frame DEF IInv, TypeOK
<1>2. CASE a = 0
  <2> DEFINE t == [req[r] EXCEPT !.pc = "done", !.res = "upstream"]
  <2>1. t \in Handler /\ HandlerInv(t, hist)
    BY <1>0, HandlerOf DEF At, Handler, PC, Results, HandlerInv, Body, HasVer, HasMap
  <2>2. /\ req' = [req EXCEPT ![r] = t] /\ t.pc = "done" /\ t.res = "upstream"
        /\ UNCHANGED <<hist, negative, blocks, sharing>> /\ metadata' = NoEntry
    BY <1>2, HandlerOf DEF OpenReply, Respond, IInv, TypeOK, Handler
  <2>3. Unshared(r)'
    BY <2>2 DEF Unshared, At, IInv, TypeOK
  <2>4. CacheInv'
    BY <2>2 DEF IInv, CacheInv, Cur
  <2> HIDE DEF t
  <2> QED BY <2>1, <2>2, <2>3, <2>4, Frame DEF IInv, TypeOK
<1> QED BY <1>1, <1>2

\* The window check is what lets the body start.
LEMMA CheckWindowInv ==
  ASSUME IInv, NEW r \in Req, CheckWindow(r)
  PROVE  IInv'
<1>a. At(r, "check") /\ req[r].map \in 1..Cur
  BY HandlerOf DEF CheckWindow, At, Handler, HandlerInv, HasMap, Version0, Cur
<1>0. At(r, "check") /\ hist[req[r].map].len \in Nat
  BY <1>a, HistoryLengths DEF IInv
<1>b. req[r].end \in Nat
  BY HandlerOf DEF Handler
<1>1. PICK t \in {[req[r] EXCEPT !.pc = "evict", !.res = "shrunk"],
                  [req[r] EXCEPT !.pc = "stream"]} :
         /\ req' = [req EXCEPT ![r] = t]
         /\ t.pc = "stream" => req[r].end <= hist[req[r].map].len
  <2>1. CASE req[r].end > hist[req[r].map].len
    BY <2>1, HandlerOf DEF CheckWindow, IInv, TypeOK, Handler
  <2>2. CASE ~(req[r].end > hist[req[r].map].len)
    <3>1. req' = [req EXCEPT ![r] = [req[r] EXCEPT !.pc = "stream"]]
      BY <2>2 DEF CheckWindow, IInv, TypeOK
    <3>2. req[r].end <= hist[req[r].map].len
      BY <1>0, <1>b, <2>2
    <3> QED BY <3>1, <3>2
  <2> QED BY <2>1, <2>2
<1>2. t \in Handler /\ HandlerInv(t, hist)
  BY <1>0, <1>1, HandlerOf
     DEF At, Handler, PC, Results, HandlerInv, Body, HasVer, HasMap
<1>3. t.pc \in {"evict", "stream"}
  BY <1>1, HandlerOf DEF Handler
<1> QED BY <1>1, <1>2, <1>3, LocalStep DEF CheckWindow

\* The failed map leaves the cache, so the request no longer shares it.
LEMMA EvictBlocksInv ==
  ASSUME IInv, NEW r \in Req, EvictBlocks(r)
  PROVE  IInv'
<1> DEFINE t == [req[r] EXCEPT !.pc = "evictMeta"]
<1>1. t \in Handler /\ HandlerInv(t, hist)
  BY HandlerOf DEF EvictBlocks, At, Handler, PC, HandlerInv, Body, HasVer, HasMap
<1>2. req' = [req EXCEPT ![r] = t] /\ sharing' = {} /\ blocks' = NoEntry
  BY DEF EvictBlocks, RemoveBlocks, Goto
<1>3. Unshared(r)'
  BY <1>2 DEF Unshared
<1>4. CacheInv'
  BY <1>2 DEF EvictBlocks, IInv, CacheInv, Cur
<1> HIDE DEF t
<1> QED BY <1>1, <1>2, <1>3, <1>4, Frame DEF EvictBlocks, IInv, TypeOK

\* The request ends after both entries are gone.
LEMMA EvictMetadataInv ==
  ASSUME IInv, NEW r \in Req, EvictMetadata(r)
  PROVE  IInv'
<1> DEFINE t == [req[r] EXCEPT !.pc = "done"]
<1>1. t \in Handler /\ HandlerInv(t, hist)
  BY HandlerOf DEF EvictMetadata, At, Handler, PC, HandlerInv, Body, HasVer, HasMap
<1>2. req' = [req EXCEPT ![r] = t] /\ sharing' = sharing /\ metadata' = NoEntry
  BY DEF EvictMetadata, Goto
<1>3. Unshared(r)'
  BY <1>2, HandlerOf DEF Unshared, At, EvictMetadata
<1>4. CacheInv'
  BY <1>2 DEF EvictMetadata, IInv, CacheInv, Cur
<1> HIDE DEF t
<1> QED BY <1>1, <1>2, <1>3, <1>4, Frame DEF EvictMetadata, IInv, TypeOK

\* bytes_stream truncates an item to what the window has left.
LEMMA ChunkInv ==
  ASSUME IInv, NEW r \in Req, Chunk(r)
  PROVE  IInv'
<1>1. PICK n \in 1..MaxChunk :
        req' = [req EXCEPT ![r].got = @ + SmallerOf(n, Left(r))]
  BY DEF Chunk
<1> DEFINE g == req[r].got + SmallerOf(n, Left(r))
           t == [req[r] EXCEPT !.got = g]
<1>a. Left(r) \in Nat /\ req[r].got \in Nat /\ req[r].want \in Nat
  BY HandlerOf DEF Chunk, Left, Handler
<1>b. SmallerOf(n, Left(r)) \in Nat /\ SmallerOf(n, Left(r)) <= Left(r)
  BY <1>a, ReadAssumption DEF SmallerOf
<1>2. g \in Nat /\ g <= req[r].want
  BY <1>a, <1>b DEF Left
<1> HIDE DEF g
<1>3. t \in Handler /\ HandlerInv(t, hist)
  BY <1>2, HandlerOf DEF Chunk, At, Handler, HandlerInv, Body, HasVer, HasMap
<1>4. req' = [req EXCEPT ![r] = t] /\ t.pc = "stream"
  BY <1>1, HandlerOf DEF Chunk, At, IInv, TypeOK, Handler, g
<1> HIDE DEF t
<1> QED BY <1>3, <1>4, LocalStep DEF Chunk

\* An upstream error sends the request to evict its entries.
LEMMA StreamErrorInv ==
  ASSUME IInv, NEW r \in Req, StreamError(r)
  PROVE  IInv'
<1> DEFINE t == [req[r] EXCEPT !.pc = "evict", !.res = "readError"]
<1>a. req[r].got < req[r].want /\ req[r].pc = "stream"
  BY HandlerOf DEF StreamError, Left, At, Handler
<1>b. t \in Handler
  BY HandlerOf DEF Handler, PC, Results
<1>1. t \in Handler /\ HandlerInv(t, hist)
  BY <1>a, <1>b, HandlerOf DEF Handler, HandlerInv, Body, HasVer, HasMap
<1>2. req' = [req EXCEPT ![r] = t] /\ t.pc = "evict"
  BY HandlerOf DEF StreamError, IInv, TypeOK, Handler
<1> HIDE DEF t
<1> QED BY <1>1, <1>2, LocalStep DEF StreamError

\* An early end of the upstream is a short read.
LEMMA StreamEofInv ==
  ASSUME IInv, NEW r \in Req, StreamEof(r)
  PROVE  IInv'
<1> DEFINE t == [req[r] EXCEPT !.pc = "done", !.res = "short"]
<1>a. req[r].got < req[r].want /\ req[r].pc = "stream"
  BY HandlerOf DEF StreamEof, Left, At, Handler
<1>b. t \in Handler
  BY HandlerOf DEF Handler, PC, Results
<1>1. t \in Handler /\ HandlerInv(t, hist)
  BY <1>a, <1>b, HandlerOf DEF Handler, HandlerInv, Body, HasVer, HasMap
<1>2. req' = [req EXCEPT ![r] = t] /\ t.pc = "done" /\ t.res = "short"
  BY HandlerOf DEF StreamEof, Respond, IInv, TypeOK, Handler
<1> HIDE DEF t
<1> QED BY <1>1, <1>2, LocalStep DEF StreamEof

\* The body ends cleanly only when nothing is left.
LEMMA StreamEndInv ==
  ASSUME IInv, NEW r \in Req, StreamEnd(r)
  PROVE  IInv'
<1> DEFINE t == [req[r] EXCEPT !.pc = "done", !.res = "complete"]
<1>a. req[r].got = req[r].want /\ req[r].pc = "stream"
  BY HandlerOf DEF StreamEnd, Left, At, Handler
<1>b. t \in Handler
  BY HandlerOf DEF Handler, PC, Results
<1>1. t \in Handler /\ HandlerInv(t, hist)
  BY <1>a, <1>b, HandlerOf DEF Handler, HandlerInv, Body, HasVer, HasMap
<1>2. req' = [req EXCEPT ![r] = t] /\ t.pc = "done" /\ t.res = "complete"
  BY HandlerOf DEF StreamEnd, Respond, IInv, TypeOK, Handler
<1> HIDE DEF t
<1> QED BY <1>1, <1>2, LocalStep DEF StreamEnd

\* The slot is free again, after the response or because the client left.
LEMMA LeaveInv ==
  ASSUME IInv, NEW r \in Req, Finish(r) \/ Cancel(r)
  PROVE  IInv'
<1>1. /\ req' = [req EXCEPT ![r] = Idle] /\ sharing' = sharing \ {r}
      /\ UNCHANGED <<hist, metadata, negative, blocks>>
  BY DEF Finish, Cancel
<1>2. HandlerInv(Idle, hist)
  BY HandlerOf DEF HandlerInv, Idle, Body, HasVer, HasMap
<1>3. Unshared(r)'
  BY <1>1 DEF Unshared
<1>4. CacheInv'
  BY <1>1 DEF IInv, CacheInv, Cur
<1> QED BY <1>1, <1>2, <1>3, <1>4, IdleHandler, Frame DEF IInv, TypeOK

-----------------------------------------------------------------------------
(* The environment.                                                        *)

\* A new version never changes what an older version number stands for.
LEMMA WriteInv ==
  ASSUME IInv, Write
  PROVE  IInv'
<1>1. PICK f \in File \cup NotAFile :
         /\ DistinctIdentity /\ f.kind = "file" => Unseen(f)
         /\ hist' = Append(hist, f)
  BY DEF Write
<1>2. UNCHANGED <<metadata, negative, blocks, sharing, req>> /\ Cur < MaxVersion
  BY DEF Write, cacheVars
<1>3. hist \in Seq(File \cup NotAFile) /\ Cur \in 1..MaxVersion
  BY DEF IInv, TypeOK
<1>4. /\ hist' \in Seq(File \cup NotAFile) /\ Cur' = Cur + 1
      /\ \A v \in 1..Cur : hist'[v] = hist[v]
      /\ hist'[Cur + 1] = f
  BY <1>1, <1>3 DEF Cur
<1>5. TypeOK'
  BY <1>2, <1>3, <1>4, ReadAssumption DEF IInv, TypeOK
<1>6. CacheInv'
  BY <1>2, <1>3, <1>4 DEF IInv, TypeOK, CacheInv, MetadataEntry, BlocksEntry
<1>7. IdentityIsVersion'
  <2> SUFFICES ASSUME DistinctIdentity, NEW v \in 1..(Cur + 1), NEW w \in 1..(Cur + 1),
                      hist'[v].kind = "file", hist'[w].kind = "file",
                      hist'[v].len = hist'[w].len, hist'[v].mtime = hist'[w].mtime
               PROVE  v = w
    BY <1>4 DEF IdentityIsVersion, SameIdentity
  <2>1. CASE v \in 1..Cur /\ w \in 1..Cur
    BY <1>4, <2>1 DEF IInv, IdentityIsVersion, SameIdentity
  <2>2. CASE v = Cur + 1 /\ w \in 1..Cur
    BY <1>1, <1>4, <2>2 DEF Unseen
  <2>3. CASE w = Cur + 1 /\ v \in 1..Cur
    BY <1>1, <1>4, <2>3 DEF Unseen
  <2> QED BY <1>3, <2>1, <2>2, <2>3
<1>8. ASSUME NEW r \in Req PROVE HandlerInv(req'[r], hist') /\ Unshared(r)'
  <2> DEFINE q == req[r]
  <2>1. q \in Handler /\ HandlerInv(q, hist) /\ Unshared(r)
    BY HandlerOf
  <2>2. Len(hist) = Cur /\ Len(hist') = Cur + 1
    BY <1>4 DEF Cur
  <2>3. /\ q.ver # 0 => hist'[q.ver] = hist[q.ver]
        /\ q.map # 0 => hist'[q.map] = hist[q.map]
    BY <1>3, <1>4, <2>1, <2>2 DEF Handler, HandlerInv, Version0
  <2>4. HandlerInv(q, hist')
    BY <1>3, <2>1, <2>2, <2>3 DEF HandlerInv, Handler, Version0, Body, HasVer, HasMap
  <2>5. Unshared(r)'
    BY <1>2, <2>1 DEF Unshared, At
  <2> QED BY <1>2, <2>4, <2>5
<1> QED BY <1>5, <1>6, <1>7, <1>8 DEF IInv

\* Entries age and get lost; the handlers do not notice.
LEMMA CachesOnly ==
  ASSUME IInv, UNCHANGED <<hist, req>>, sharing' \subseteq sharing,
         metadata' \in MetadataEntry \cup {NoEntry},
         negative' \in NegativeEntry \cup {NoEntry},
         blocks' \in BlocksEntry \cup {NoEntry},
         CacheInv'
  PROVE  IInv'
<1>1. TypeOK'
  BY DEF IInv, TypeOK, Cur
<1>2. IdentityIsVersion'
  BY DEF IInv, IdentityIsVersion, SameIdentity, Cur
<1>3. ASSUME NEW r \in Req PROVE HandlerInv(req'[r], hist') /\ Unshared(r)'
  BY HandlerOf DEF Unshared, At
<1> QED BY <1>1, <1>2, <1>3 DEF IInv

\* Entries lost to other keys.
LEMMA LoseInv ==
  ASSUME IInv, LoseMetadata \/ LoseNegative \/ LoseBlocks
  PROVE  IInv'
<1>1. CacheInv'
  BY DEF LoseMetadata, LoseNegative, LoseBlocks, RemoveBlocks, IInv, CacheInv, Cur
<1> QED BY <1>1, CachesOnly
        DEF LoseMetadata, LoseNegative, LoseBlocks, RemoveBlocks, IInv, TypeOK

\* Growing older changes no version an entry names.
LEMMA TickInv ==
  ASSUME IInv, Tick
  PROVE  IInv'
<1>1. /\ metadata' \in MetadataEntry \cup {NoEntry}
      /\ metadata' # NoEntry => metadata # NoEntry /\ metadata'.ver = metadata.ver
  BY ReadAssumption DEF IInv, TypeOK, Tick, Older, MetadataEntry
<1>2. negative' \in NegativeEntry \cup {NoEntry}
  BY ReadAssumption DEF IInv, TypeOK, Tick, Older, NegativeEntry
<1>3. /\ blocks' \in BlocksEntry \cup {NoEntry}
      /\ blocks' # NoEntry => /\ blocks # NoEntry
                              /\ blocks'.map = blocks.map
                              /\ blocks'.label = blocks.label
  BY ReadAssumption DEF IInv, TypeOK, Tick, Older, BlocksEntry
<1>4. CacheInv'
  BY <1>1, <1>3 DEF IInv, CacheInv, Tick, Cur
<1> QED BY <1>1, <1>2, <1>3, <1>4, CachesOnly DEF Tick

-----------------------------------------------------------------------------
\* Every step preserves the invariant.
LEMMA NextIInv == IInv /\ [Next]_vars => IInv'
<1> SUFFICES ASSUME IInv, [Next]_vars PROVE IInv'
  OBVIOUS
<1>1. ASSUME NEW r \in Req, Step(r) PROVE IInv'
  BY <1>1, CheckNegativeInv, StatAnswerInv, StatReplyInv, AnswerInv,
     LookupBlocksInv, DropUnmatchedInv, OpenAnswerInv, OpenReplyInv, CheckWindowInv,
     EvictBlocksInv, EvictMetadataInv, ChunkInv, StreamErrorInv, StreamEofInv,
     StreamEndInv DEF Step
<1>2. CASE UNCHANGED vars
  <2>1. CacheInv'
    BY <1>2 DEF vars, IInv, CacheInv, Cur
  <2> QED BY <1>2, <2>1, CachesOnly DEF vars, IInv, TypeOK
<1> QED BY <1>1, <1>2, StartInv, LeaveInv, WriteInv, LoseInv, TickInv DEF Next

\* Every reachable state satisfies the inductive invariant.
THEOREM Invariance == Spec => []IInv
  BY InitIInv, NextIInv, PTL DEF Spec

\* The state of the handlers and of the caches keeps its type: no handler gets
\* into a step the code does not have, and no version is named that never was.
THEOREM TypeCorrect == Spec => []TypeOK
<1>1. IInv => TypeOK
  BY DEF IInv
<1> QED BY <1>1, Invariance, PTL

\* A GET whose metadata came from the cache, from a stat, or from a request that
\* lost every race still sends bytes at least as new as the ETag it sends.
THEOREM BodyNeverOlder ==
  ASSUME DistinctIdentity
  PROVE  Spec => []BodyNotOlderThanETag
<1>1. IInv => BodyNotOlderThanETag
  BY HandlerOf DEF BodyNotOlderThanETag, HasBody, At, HandlerInv, Body
<1> QED BY <1>1, Invariance, PTL

\* read_range_stream never gets a window beyond the reader's file length.
THEOREM WindowSafe == Spec => []WindowInsideFile
<1>1. IInv => WindowInsideFile
  BY HandlerOf DEF WindowInsideFile, HasBody, At, HandlerInv, Body
<1> QED BY <1>1, Invariance, PTL

\* bytes_stream never ends a short body without an error.
THEOREM BodyExact == Spec => []CompleteBodyIsExact
<1>1. IInv => CompleteBodyIsExact
  BY HandlerOf DEF CompleteBodyIsExact, At, HandlerInv
<1> QED BY <1>1, Invariance, PTL

\* The block map a request failed on is out of the cache when the request ends.
THEOREM ErroredMapGone == Spec => []ErroredMapDropped
<1>1. IInv => ErroredMapDropped
  BY HandlerOf DEF ErroredMapDropped, Unshared
<1> QED BY <1>1, Invariance, PTL

\* When the metadata really is freshly read (its cache is off), a replaced file
\* is never served from the old block map, as the comment on CachedReader says.
THEOREM FreshMetadataSuffices ==
  ASSUME DistinctIdentity, MetadataTtl = 0
  PROVE  Spec => []ReplacedFileNotServed
<1>1. IInv => ReplacedFileNotServed
  <2> SUFFICES ASSUME IInv, NEW r \in Req, HasBody(r) PROVE req[r].map >= req[r].born
    BY DEF ReplacedFileNotServed
  <2>1. /\ req[r].map >= req[r].ver /\ req[r].ver >= req[r].born
        /\ req[r] \in Handler
    BY HandlerOf DEF HasBody, At, HandlerInv, Body
  <2> QED BY <2>1, ReadAssumption DEF Handler, Version0
<1> QED BY <1>1, Invariance, PTL

-----------------------------------------------------------------------------
(* The conditional requests, and how long a cache may keep old news.       *)

\* Of a handler q: what it was answered after it began; its window is one of the file
\* it stat-ed; its bytes are no older than its ETag, unless an ETag fails to tell.
Timely(q) ==
  /\ q.pc \in {"stated", "opened"} /\ q.ans # 0 => q.ans >= q.born
  /\ q.pc \in {"unmatched", "open", "opened", "check"} => q.end <= hist[q.ver].len
  /\ q.pc \in HasMap \/ Body(q) => q.map >= q.ver \/ Collision
  /\ Body(q) => hist[q.ver].kind = "file"

\* Everything the handler q has learnt is up to date.
FreshOf(q) ==
  /\ q.pc \in HasVer => q.ver = Cur
  /\ q.pc \in HasMap => q.map = Cur /\ q.res # "shrunk"
  /\ q.pc = "done" =>
       /\ q.res = "NoSuchKey" => hist[Cur].kind # "file"
       /\ q.res \in {"head", "complete", "short", "readError"} => q.ver = Cur
       /\ q.res \in {"complete", "short", "readError"} => q.map = Cur
       /\ q.res # "shrunk"

QuietInv ==
  /\ quiet \in 0..Longest
  /\ OldNews => quiet = 0
  /\ metadata # NoEntry /\ metadata.ver # Cur =>
       metadata.age >= quiet \/ metadata.age >= MetadataTtl
  /\ negative # NoEntry /\ hist[Cur].kind # "missing" =>
       negative.age >= quiet \/ negative.age >= NegativeTtl

FreshInv ==
  late /\ req[Client].born = Cur =>
    quiet = Longest /\ (FreshOf(req[Client]) \/ Collision)

CopyInv ==
  copy # NoCopy => /\ copy.ver \in Files /\ copy.bytes \in Nat
                   /\ copy.bytes >= copy.ver \/ Collision

VerdictInv == (~At(Client, "done") => verdict = "none") /\ NotModifiedIsSafe

\* What the argument about a single handler starts from.
TimeInv == IInv /\ QuietInv /\ \A r \in Req : Timely(req[r])

\* The inductive invariant.
ClientInv == TimeInv /\ FreshInv /\ CopyInv /\ VerdictInv

-----------------------------------------------------------------------------
(* The handlers.                                                           *)

\* The handler r begins no later than a full quiet and has learnt nothing old.
Timed(r) == quiet = Longest /\ req[r].born = Cur /\ FreshOf(req[r]) /\ ~Collision

\* r moves to t, and the caches learn only what is current or comes from before the
\* last change.
Moves(r, t) ==
  /\ hist' = hist /\ req' = [req EXCEPT ![r] = t] /\ Timely(t)
  /\ t.pc = "stated" => t.ans \in {0, Cur}
  /\ metadata' # NoEntry => metadata' = metadata \/ metadata'.ver = Cur \/ quiet = 0
  /\ negative' # NoEntry => negative' = negative \/ hist[Cur].kind = "missing" \/ quiet = 0

\* ... as a step of a request that has begun.
Moved(r, t) == Moves(r, t) /\ t.born = req[r].born /\ (Timed(r) => FreshOf(t))

\* The numbers behind the times and versions.
LEMMA TimeTypes ==
  ASSUME TimeInv
  PROVE  /\ Longest \in Nat /\ quiet \in Nat /\ MetadataTtl \in Nat /\ NegativeTtl \in Nat
         /\ Cur \in Nat \ {0} /\ Cur = Len(hist)
         /\ Longest >= MetadataTtl /\ Longest >= NegativeTtl
  BY ReadAssumption DEF TimeInv, QuietInv, Longest, IInv, TypeOK, Cur

\* The handler r before its step.
LEMMA TimelyOf ==
  ASSUME TimeInv, NEW r \in Req
  PROVE  /\ req[r] \in Handler /\ HandlerInv(req[r], hist) /\ Timely(req[r])
         /\ \A f \in {"born", "ver", "map", "ans"} : req[r][f] \in Nat /\ req[r][f] <= Cur
  BY HandlerOf, ReadAssumption DEF TimeInv, HandlerInv, Handler, Version0, Cur

\* negative.get after a full quiet finds only news that is true.
LEMMA CheckNegativeMoves ==
  ASSUME TimeInv, NEW r \in Req, CheckNegative(r)
  PROVE  \E t : Moved(r, t)
<1>1. PICK t \in {[req[r] EXCEPT !.pc = "done", !.res = "NoSuchKey"],
                  [req[r] EXCEPT !.pc = "stat"]} : req' = [req EXCEPT ![r] = t]
  BY DEF CheckNegative, Respond, Goto
<1>2. t.pc = "done" /\ t.res = "NoSuchKey" => Live(negative, NegativeTtl)
  BY <1>1, TimelyOf DEF CheckNegative, Respond, Goto, Handler, At, TimeInv, IInv, TypeOK
<1>3. quiet = Longest /\ Live(negative, NegativeTtl) => hist[Cur].kind = "missing"
  <2>1. Live(negative, NegativeTtl) => negative # NoEntry /\ negative.age \in Nat
                                       /\ negative.age < NegativeTtl
    BY DEF Live, TimeInv, IInv, TypeOK, NegativeEntry
  <2> QED BY <2>1, TimeTypes DEF TimeInv, QuietInv
<1>4. t.born = req[r].born /\ Timely(t) /\ t.pc # "stated"
  BY <1>1, TimelyOf DEF CheckNegative, At, Handler, Timely, HasMap, Body
<1>5. Timed(r) => FreshOf(t)
  BY <1>1, <1>2, <1>3, TimelyOf DEF Timed, FreshOf, CheckNegative, At, Handler, HasVer, HasMap
<1>6. hist' = hist /\ metadata' = metadata /\ (negative' # NoEntry => negative' = negative)
  BY DEF CheckNegative, Probe
<1> QED BY <1>1, <1>4, <1>5, <1>6 DEF Moved, Moves

\* The NameNode answers with what is current.
LEMMA StatAnswerMoves ==
  ASSUME TimeInv, NEW r \in Req, StatAnswer(r)
  PROVE  \E t : Moved(r, t)
<1>1. PICK a \in {0, Cur} : req' = [req EXCEPT ![r].pc = "stated", ![r].ans = a]
  BY DEF StatAnswer
<1> DEFINE t == [req[r] EXCEPT !.pc = "stated", !.ans = a]
<1>2. req' = [req EXCEPT ![r] = t] /\ t.pc = "stated" /\ t.ans = a /\ t.born = req[r].born
  BY <1>1, TimelyOf DEF Handler, TimeInv, IInv, TypeOK
<1>3. a # 0 => a >= t.born
  BY <1>2, TimelyOf
<1> HIDE DEF t
<1>4. Timely(t) /\ FreshOf(t)
  BY <1>2, <1>3 DEF Timely, FreshOf, HasVer, HasMap, Body
<1> QED BY <1>2, <1>4 DEF Moved, Moves, StatAnswer, cacheVars

\* What file_meta stores is current, or the answer was from before the last change.
LEMMA StatReplyMoves ==
  ASSUME TimeInv, NEW r \in Req, StatReply(r)
  PROVE  \E t : Moved(r, t)
<1> DEFINE a == req[r].ans
<1>0. At(r, "stated") /\ a \in Nat /\ a <= Cur /\ (a # 0 => a >= req[r].born)
  BY TimelyOf DEF StatReply, Timely, At
<1>1. a \in {0, Cur} \/ quiet = 0
  BY <1>0 DEF TimeInv, QuietInv, OldNews
<1>2. req[r].born = Cur /\ a # 0 => a = Cur
  BY <1>0, TimeTypes
<1>3. CASE a = 0
  <2> DEFINE t == [req[r] EXCEPT !.pc = "done", !.res = "upstream"]
  <2>1. /\ req' = [req EXCEPT ![r] = t] /\ t.pc = "done" /\ t.res = "upstream"
        /\ t.born = req[r].born
    BY <1>3, TimelyOf DEF StatReply, Respond, TimeInv, IInv, TypeOK, Handler
  <2> HIDE DEF t
  <2>2. Timely(t) /\ FreshOf(t)
    BY <2>1 DEF Timely, FreshOf, HasVer, HasMap, Body
  <2> QED BY <1>3, <2>1, <2>2 DEF Moved, Moves, StatReply
<1>4. CASE a # 0 /\ hist[a].kind = "missing"
  <2> DEFINE t == [req[r] EXCEPT !.pc = "done", !.res = "NoSuchKey"]
  <2>1. /\ req' = [req EXCEPT ![r] = t] /\ t.pc = "done" /\ t.res = "NoSuchKey"
        /\ t.born = req[r].born
        /\ UNCHANGED <<metadata, hist>>
    BY <1>4, TimelyOf DEF StatReply, Respond, TimeInv, IInv, TypeOK, Handler
  <2> HIDE DEF t
  <2>2. Timely(t)
    BY <2>1 DEF Timely, HasVer, HasMap, Body
  <2>3. Timed(r) => FreshOf(t)
    BY <1>2, <1>4, <2>1 DEF Timed, FreshOf, HasVer, HasMap
  <2> QED BY <1>1, <1>4, <2>1, <2>2, <2>3 DEF Moved, Moves
<1>5. CASE a # 0 /\ hist[a].kind # "missing"
  <2> DEFINE t == [req[r] EXCEPT !.pc = "have", !.ver = a, !.ans = 0]
  <2>1. /\ req' = [req EXCEPT ![r] = t] /\ t.pc = "have" /\ t.ver = a
        /\ t.born = req[r].born
        /\ UNCHANGED <<negative, hist>>
        /\ metadata' = Stored([ver |-> a, age |-> 0], MetadataTtl)
    BY <1>5, TimelyOf DEF StatReply, TimeInv, IInv, TypeOK, Handler
  <2> HIDE DEF t
  <2>2. Timely(t)
    BY <2>1 DEF Timely, HasVer, HasMap, Body
  <2>3. Timed(r) => FreshOf(t)
    BY <1>2, <1>5, <2>1 DEF Timed, FreshOf, HasVer, HasMap
  <2>4. metadata' # NoEntry => metadata'.ver = a
    BY <2>1 DEF Stored
  <2> QED BY <1>1, <1>5, <2>1, <2>2, <2>3, <2>4 DEF Moved, Moves
<1> QED BY <1>3, <1>4, <1>5 DEF StatReply

\* An answer on the metadata says of the object what the metadata says.
LEMMA AnswerMoves ==
  ASSUME TimeInv, NEW r \in Req, AnswerHead(r) \/ AnswerEarly(r)
  PROVE  \E t : Moved(r, t)
<1>0. At(r, "have")
  BY DEF AnswerHead, AnswerEarly
<1>1. PICK result \in {"NoSuchKey", "head", "NotServed"} :
         /\ req' = [req EXCEPT ![r].pc = "done", ![r].res = result]
         /\ result = "NoSuchKey" => hist[req[r].ver].kind = "dir"
  BY DEF AnswerHead, AnswerEarly, Respond
<1> DEFINE t == [req[r] EXCEPT !.pc = "done", !.res = result]
<1>2. /\ req' = [req EXCEPT ![r] = t] /\ t.pc = "done" /\ t.res = result
      /\ t.ver = req[r].ver /\ t.born = req[r].born
  BY <1>1, TimelyOf DEF TimeInv, IInv, TypeOK, Handler
<1> HIDE DEF t
<1>3. Timely(t)
  BY <1>2 DEF Timely, HasVer, HasMap, Body
<1>4. Timed(r) => FreshOf(t)
  BY <1>0, <1>1, <1>2 DEF Timed, FreshOf, HasVer, HasMap, At
<1> QED BY <1>2, <1>3, <1>4 DEF Moved, Moves, AnswerHead, AnswerEarly, cacheVars

\* A window of a file ends inside it.
LEMMA WindowEnd ==
  ASSUME NEW n \in Nat, NEW w \in Windows(n)
  PROVE  w[2] <= n
<1>1. CASE w = <<0, n>>
  BY <1>1
<1>2. CASE w # <<0, n>>
  <2>1. w # NoRange
    BY <1>2 DEF Windows
  <2>2. PICK h \in Header(0..(n + 1)) : w = resolve_range(n, h)
    BY <1>2 DEF Windows
  <2>3. Exact(n, h, w)
    BY <2>2, ResolvedRangeIsExact DEF Header
  <2> QED BY <2>1, <2>3 DEF Exact
<1> QED BY <1>1, <1>2

\* A cached block map of the identity asked for was opened for that version or later,
\* unless two versions share the identity.
LEMMA LookupBlocksMoves ==
  ASSUME TimeInv, NEW r \in Req, LookupBlocks(r)
  PROVE  \E t : Moved(r, t)
<1> DEFINE v == req[r].ver
<1>a. At(r, "have") /\ v \in 1..Cur /\ hist[v].kind = "file" /\ hist[v].len \in Nat
  <2>1. At(r, "have") /\ v \in 1..Cur /\ hist[v].kind = "file"
    BY TimelyOf DEF LookupBlocks, At, HandlerInv, HasVer
  <2> QED BY <2>1, HistoryLengths DEF TimeInv, IInv
<1>1. PICK w \in Windows(hist[v].len) :
        LET asked == [req[r] EXCEPT !.end = w[2], !.want = w[2] - w[1]] IN
        \/ /\ ~Live(blocks, BlocksTtl)
           /\ req' = [req EXCEPT ![r] = [asked EXCEPT !.pc = "open"]]
        \/ /\ Live(blocks, BlocksTtl) /\ SameIdentity(blocks.label, v)
           /\ req' = [req EXCEPT ![r] = [asked EXCEPT !.pc = "check", !.map = blocks.map]]
        \/ /\ Live(blocks, BlocksTtl) /\ ~SameIdentity(blocks.label, v)
           /\ req' = [req EXCEPT ![r] = [asked EXCEPT !.pc = "unmatched"]]
  BY DEF LookupBlocks
<1> DEFINE asked == [req[r] EXCEPT !.end = w[2], !.want = w[2] - w[1]]
<1>2. w[2] <= hist[v].len
  BY <1>a, WindowEnd
<1>3. hist' = hist /\ metadata' = metadata /\ negative' = negative
  BY DEF LookupBlocks
<1>4. ASSUME NEW p \in {"open", "unmatched"},
             req' = [req EXCEPT ![r] = [asked EXCEPT !.pc = p]]
      PROVE  \E t : Moved(r, t)
  <2> DEFINE t == [asked EXCEPT !.pc = p]
  <2>1. /\ req' = [req EXCEPT ![r] = t] /\ t.pc = p /\ t.end = w[2] /\ t.ver = v
        /\ t.born = req[r].born
    BY <1>4, TimelyOf DEF Handler
  <2> HIDE DEF t
  <2>2. Timely(t)
    BY <1>2, <2>1 DEF Timely, HasMap, Body
  <2>3. Timed(r) => FreshOf(t)
    BY <1>a, <2>1 DEF Timed, FreshOf, HasVer, HasMap, At
  <2> QED BY <1>3, <2>1, <2>2, <2>3 DEF Moved, Moves
<1>5. CASE /\ Live(blocks, BlocksTtl) /\ SameIdentity(blocks.label, v)
           /\ req' = [req EXCEPT ![r] = [asked EXCEPT !.pc = "check", !.map = blocks.map]]
  <2> DEFINE t == [asked EXCEPT !.pc = "check", !.map = blocks.map]
  <2>1. /\ req' = [req EXCEPT ![r] = t] /\ t.pc = "check" /\ t.end = w[2] /\ t.ver = v
        /\ t.born = req[r].born /\ t.map = blocks.map /\ t.res = req[r].res
    BY <1>5, TimelyOf DEF Handler
  <2> HIDE DEF t
  <2>2. /\ blocks \in BlocksEntry /\ blocks.map <= Cur
        /\ blocks.map >= blocks.label /\ hist[blocks.label].kind = "file"
    BY <1>5 DEF Live, TimeInv, IInv, TypeOK, CacheInv
  <2>3. blocks.map \in Nat /\ blocks.label \in 1..Cur
    BY <2>2, ReadAssumption DEF BlocksEntry, TimeInv, IInv, TypeOK
  <2>4. blocks.label = v \/ Collision
    BY <1>a, <1>5, <2>2, <2>3 DEF Collision, Files
  <2>5. Timely(t)
    BY <1>2, <2>1, <2>2, <2>4 DEF Timely, HasMap, Body
  <2>6. req[r].res = "pending"
    BY <1>a, TimelyOf DEF At, HandlerInv
  <2>7. Timed(r) => t.ver = Cur /\ t.map = Cur
    BY <1>a, <2>1, <2>2, <2>3, <2>4, TimeTypes DEF Timed, FreshOf, HasVer, At
  <2>8. Timed(r) => FreshOf(t)
    BY <2>1, <2>6, <2>7 DEF FreshOf
  <2> QED BY <1>3, <2>1, <2>5, <2>8 DEF Moved, Moves
<1> QED BY <1>1, <1>4, <1>5

\* The steps that only go on: to the open, to the window check, out of a failed read.
LEMMA GotoMoves ==
  ASSUME TimeInv, NEW r \in Req, DropUnmatched(r) \/ EvictBlocks(r) \/ EvictMetadata(r)
  PROVE  \E t : Moved(r, t)
<1>1. PICK p \in {"open", "evictMeta", "done"} :
        /\ req' = [req EXCEPT ![r].pc = p]
        /\ p = "open" => At(r, "unmatched")
        /\ p = "evictMeta" => At(r, "evict")
        /\ p = "done" => At(r, "evictMeta")
  BY DEF DropUnmatched, EvictBlocks, EvictMetadata, Goto
<1> DEFINE t == [req[r] EXCEPT !.pc = p]
<1>2. /\ req' = [req EXCEPT ![r] = t] /\ t.pc = p /\ t.end = req[r].end
      /\ t.ver = req[r].ver /\ t.map = req[r].map /\ t.born = req[r].born
      /\ t.res = req[r].res
  BY <1>1, TimelyOf DEF TimeInv, IInv, TypeOK, Handler
<1> HIDE DEF t
<1>3. At(r, "evictMeta") => req[r].res \in {"readError", "shrunk"}
  BY TimelyOf DEF At, HandlerInv
<1>4. Timely(t)
  BY <1>1, <1>2, <1>3, TimelyOf DEF Timely, HasMap, Body, At
<1>5. Timed(r) => FreshOf(t)
  BY <1>1, <1>2, <1>3 DEF Timed, FreshOf, HasVer, HasMap, At
<1>6. /\ hist' = hist /\ (metadata' # NoEntry => metadata' = metadata)
      /\ negative' = negative
  BY DEF DropUnmatched, EvictBlocks, EvictMetadata
<1> QED BY <1>1, <1>2, <1>4, <1>5, <1>6 DEF Moved, Moves

\* The NameNode opens what is current.
LEMMA OpenAnswerMoves ==
  ASSUME TimeInv, NEW r \in Req, OpenAnswer(r)
  PROVE  \E t : Moved(r, t)
<1>1. PICK a \in {0, Cur} : req' = [req EXCEPT ![r].pc = "opened", ![r].ans = a]
  BY DEF OpenAnswer
<1> DEFINE t == [req[r] EXCEPT !.pc = "opened", !.ans = a]
<1>2. /\ req' = [req EXCEPT ![r] = t] /\ t.pc = "opened" /\ t.ans = a
      /\ t.born = req[r].born /\ t.end = req[r].end /\ t.ver = req[r].ver
  BY <1>1, TimelyOf DEF Handler, TimeInv, IInv, TypeOK
<1>3. (a # 0 => a >= t.born) /\ At(r, "open")
  BY <1>2, TimelyOf DEF OpenAnswer
<1> HIDE DEF t
<1>4. Timely(t)
  BY <1>2, <1>3, TimelyOf DEF Timely, HasMap, Body, At
<1>5. Timed(r) => FreshOf(t)
  BY <1>2, <1>3 DEF Timed, FreshOf, HasVer, HasMap, At
<1> QED BY <1>2, <1>4, <1>5 DEF Moved, Moves, OpenAnswer, cacheVars

\* The opened map is no older than the stat before it, nor than the request.
LEMMA OpenReplyMoves ==
  ASSUME TimeInv, NEW r \in Req, OpenReply(r)
  PROVE  \E t : Moved(r, t)
<1> DEFINE a == req[r].ans
<1>0. /\ At(r, "opened") /\ a \in Nat /\ a <= Cur /\ req[r].res = "pending"
      /\ (a # 0 => a >= req[r].born /\ a >= req[r].ver)
  BY TimelyOf DEF OpenReply, Timely, At, HandlerInv
<1>1. hist' = hist /\ negative' = negative /\ (metadata' # NoEntry => metadata' = metadata)
  BY DEF OpenReply
<1>2. CASE a # 0
  <2> DEFINE t == [req[r] EXCEPT !.pc = "check", !.map = a, !.ans = 0]
  <2>1. /\ req' = [req EXCEPT ![r] = t] /\ t.pc = "check" /\ t.map = a
        /\ t.born = req[r].born /\ t.end = req[r].end /\ t.ver = req[r].ver
        /\ t.res = req[r].res
    BY <1>2, TimelyOf DEF OpenReply, TimeInv, IInv, TypeOK, Handler
  <2> HIDE DEF t
  <2>2. Timely(t)
    BY <1>0, <1>2, <2>1, TimelyOf DEF Timely, HasMap, Body, At
  <2>3. Timed(r) => a = Cur
    BY <1>0, <1>2, TimeTypes DEF Timed
  <2>4. Timed(r) => FreshOf(t)
    BY <1>0, <2>1, <2>3 DEF Timed, FreshOf, HasVer, HasMap, At
  <2> QED BY <1>1, <2>1, <2>2, <2>4 DEF Moved, Moves
<1>3. CASE a = 0
  <2> DEFINE t == [req[r] EXCEPT !.pc = "done", !.res = "upstream"]
  <2>1. /\ req' = [req EXCEPT ![r] = t] /\ t.pc = "done" /\ t.res = "upstream"
        /\ t.born = req[r].born
    BY <1>3, TimelyOf DEF OpenReply, Respond, TimeInv, IInv, TypeOK, Handler
  <2> HIDE DEF t
  <2>2. Timely(t) /\ FreshOf(t)
    BY <2>1 DEF Timely, FreshOf, HasVer, HasMap, Body
  <2> QED BY <1>1, <2>1, <2>2 DEF Moved, Moves
<1> QED BY <1>2, <1>3

\* The window is found past the end of the file only if the file is not the one it
\* was made for.
LEMMA CheckWindowMoves ==
  ASSUME TimeInv, NEW r \in Req, CheckWindow(r)
  PROVE  \E t : Moved(r, t)
<1>0. /\ At(r, "check") /\ req[r].map \in 1..Cur /\ req[r].ver \in 1..Cur
      /\ req[r].res = "pending" /\ req[r].end \in Nat
      /\ req[r].end <= hist[req[r].ver].len /\ hist[req[r].ver].kind = "file"
      /\ (req[r].map >= req[r].ver \/ Collision)
  BY TimelyOf DEF CheckWindow, At, Handler, HandlerInv, HasVer, HasMap, Timely
<1>1. hist[req[r].map].len \in Nat /\ hist[req[r].ver].len \in Nat
  BY <1>0, HistoryLengths DEF TimeInv, IInv
<1>2. UNCHANGED <<hist, metadata, negative>>
  BY DEF CheckWindow, cacheVars
<1>3. CASE req[r].end > hist[req[r].map].len
  <2> DEFINE t == [req[r] EXCEPT !.pc = "evict", !.res = "shrunk"]
  <2>1. /\ req' = [req EXCEPT ![r] = t] /\ t.pc = "evict"
        /\ t.born = req[r].born /\ t.map = req[r].map /\ t.ver = req[r].ver
    BY <1>3, TimelyOf DEF CheckWindow, TimeInv, IInv, TypeOK, Handler
  <2> HIDE DEF t
  <2>2. Timely(t)
    BY <1>0, <2>1 DEF Timely, HasMap, Body
  <2>3. ~Timed(r)
    BY <1>0, <1>1, <1>3 DEF Timed, FreshOf, HasVer, HasMap, At
  <2> QED BY <1>2, <2>1, <2>2, <2>3 DEF Moved, Moves
<1>4. CASE ~(req[r].end > hist[req[r].map].len)
  <2> DEFINE t == [req[r] EXCEPT !.pc = "stream"]
  <2>1. /\ req' = [req EXCEPT ![r] = t] /\ t.pc = "stream" /\ t.res = req[r].res
        /\ t.born = req[r].born /\ t.map = req[r].map /\ t.ver = req[r].ver
    BY <1>4, TimelyOf DEF CheckWindow, TimeInv, IInv, TypeOK, Handler
  <2> HIDE DEF t
  <2>2. Timely(t)
    BY <1>0, <2>1 DEF Timely, HasMap, Body
  <2>3. Timed(r) => FreshOf(t)
    BY <1>0, <2>1 DEF Timed, FreshOf, HasVer, HasMap, At
  <2> QED BY <1>2, <2>1, <2>2, <2>3 DEF Moved, Moves
<1> QED BY <1>3, <1>4

\* The body ends in one way or another on the versions it was read with.
LEMMA StreamMoves ==
  ASSUME TimeInv, NEW r \in Req,
         Chunk(r) \/ StreamError(r) \/ StreamEof(r) \/ StreamEnd(r)
  PROVE  \E t : Moved(r, t)
<1>0. /\ At(r, "stream") /\ (req[r].map >= req[r].ver \/ Collision)
      /\ hist[req[r].ver].kind = "file" /\ req[r].res = "pending"
      /\ UNCHANGED <<hist, metadata, negative>>
  BY TimelyOf DEF Chunk, StreamError, StreamEof, StreamEnd, At, Timely, Body, HasMap,
                  HandlerInv, cacheVars
<1>1. ASSUME NEW t, req' = [req EXCEPT ![r] = t], t.born = req[r].born,
             t.map = req[r].map, t.ver = req[r].ver,
             \/ t.pc = "stream" /\ t.res = "pending"
             \/ t.pc = "evict" /\ t.res = "readError"
             \/ t.pc = "done" /\ t.res \in {"short", "complete"}
      PROVE  Moved(r, t)
  <2>1. Timely(t)
    BY <1>0, <1>1 DEF Timely, HasMap, Body
  <2>2. Timed(r) => FreshOf(t)
    BY <1>0, <1>1 DEF Timed, FreshOf, HasVer, HasMap, At
  <2> QED BY <1>0, <1>1, <2>1, <2>2 DEF Moved, Moves
<1>2. CASE Chunk(r)
  <2>1. PICK n \in 1..MaxChunk :
          req' = [req EXCEPT ![r].got = @ + SmallerOf(n, Left(r))]
    BY <1>2 DEF Chunk
  <2> DEFINE g == req[r].got + SmallerOf(n, Left(r))
             t == [req[r] EXCEPT !.got = g]
  <2>2. req' = [req EXCEPT ![r] = t]
    BY <2>1 DEF TimeInv, IInv, TypeOK
  <2> HIDE DEF g
  <2>3. /\ t.born = req[r].born /\ t.map = req[r].map /\ t.ver = req[r].ver
        /\ t.pc = "stream" /\ t.res = "pending"
    BY <1>0, TimelyOf DEF Handler, At
  <2> QED BY <1>1, <2>2, <2>3
<1>3. CASE StreamError(r)
  <2> DEFINE t == [req[r] EXCEPT !.pc = "evict", !.res = "readError"]
  <2>1. /\ req' = [req EXCEPT ![r] = t] /\ t.born = req[r].born /\ t.map = req[r].map
        /\ t.ver = req[r].ver /\ t.pc = "evict" /\ t.res = "readError"
    BY <1>3, TimelyOf DEF StreamError, TimeInv, IInv, TypeOK, Handler
  <2> QED BY <1>1, <2>1
<1>4. ASSUME NEW result \in {"short", "complete"},
             req' = [req EXCEPT ![r].pc = "done", ![r].res = result]
      PROVE  \E t : Moved(r, t)
  <2> DEFINE t == [req[r] EXCEPT !.pc = "done", !.res = result]
  <2>1. /\ req' = [req EXCEPT ![r] = t] /\ t.born = req[r].born /\ t.map = req[r].map
        /\ t.ver = req[r].ver /\ t.pc = "done" /\ t.res = result
    BY <1>4, TimelyOf DEF TimeInv, IInv, TypeOK, Handler
  <2> QED BY <1>1, <2>1
<1> QED BY <1>2, <1>3, <1>4 DEF StreamEof, StreamEnd, Respond

\* All steps of a handler.
LEMMA StepMoves ==
  ASSUME TimeInv, NEW r \in Req, Step(r)
  PROVE  \E t : Moved(r, t)
  BY CheckNegativeMoves, StatAnswerMoves, StatReplyMoves, AnswerMoves, LookupBlocksMoves,
     GotoMoves, OpenAnswerMoves, OpenReplyMoves, CheckWindowMoves, StreamMoves DEF Step

-----------------------------------------------------------------------------
(* Time and the caches.                                                    *)

\* A step of a handler keeps the ages in step with the quiet.
LEMMA MovesTime ==
  ASSUME TimeInv, NEW r \in Req, NEW t, Moves(r, t), IInv', quiet' = quiet
  PROVE  TimeInv'
<1>1. req'[r] = t /\ hist' = hist /\ \A q \in Req : q # r => req'[q] = req[q]
  BY DEF Moves, TimeInv, IInv, TypeOK
<1>2. ASSUME NEW q \in Req PROVE Timely(req[q])'
  <2>1. Timely(req'[q])
    BY <1>1 DEF TimeInv, Moves
  <2>2. Collision' = Collision
    BY <1>1 DEF Collision, Files, SameIdentity, Cur
  <2> QED BY <1>1, <2>1, <2>2 DEF Timely
<1>3. OldNews' => OldNews
  BY <1>1 DEF OldNews, At, Moves, Cur
<1>4. metadata' # NoEntry => metadata'.age \in Nat
  BY DEF IInv, TypeOK, MetadataEntry
<1>5. negative' # NoEntry => negative'.age \in Nat
  BY DEF IInv, TypeOK, NegativeEntry
<1>6. QuietInv'
  <2>1. Cur' = Cur /\ Longest' = Longest /\ hist[Cur]' = hist[Cur]
    BY <1>1 DEF Cur, Longest
  <2>2. quiet' \in (0..Longest)' /\ (OldNews' => quiet' = 0)
    BY <1>3, <2>1 DEF TimeInv, QuietInv
  <2>3. metadata' # NoEntry /\ metadata'.ver # Cur' =>
          metadata'.age >= quiet' \/ metadata'.age >= MetadataTtl
    BY <1>4, <2>1 DEF QuietInv, TimeInv, Moves
  <2>4. negative' # NoEntry /\ hist'[Cur'].kind # "missing" =>
          negative'.age >= quiet' \/ negative'.age >= NegativeTtl
    BY <1>1, <1>5, <2>1 DEF QuietInv, TimeInv, Moves
  <2> QED BY <2>2, <2>3, <2>4 DEF QuietInv
<1> QED BY <1>2, <1>6 DEF TimeInv

\* The history only grows, and what it shows stays.
LEMMA HistoryGrows ==
  ASSUME IInv, [Next]_vars
  PROVE  /\ Cur \in Nat \ {0} /\ Cur' \in Nat /\ Cur' >= Cur
         /\ (hist' # hist => Cur' = Cur + 1)
         /\ \A v \in 1..Cur : hist'[v] = hist[v]
<1>0. Cur \in Nat \ {0} /\ Cur = Len(hist) /\ hist \in Seq(File \cup NotAFile)
  BY ReadAssumption DEF IInv, TypeOK, Cur
<1>1. CASE hist' = hist
  BY <1>0, <1>1 DEF Cur
<1>2. CASE Write
  <2>1. PICK f \in File \cup NotAFile : hist' = Append(hist, f)
    BY <1>2 DEF Write
  <2>2. Len(hist') = Len(hist) + 1 /\ \A v \in 1..Len(hist) : hist'[v] = hist[v]
    BY <1>0, <2>1
  <2> QED BY <1>0, <2>2 DEF Cur
<1>3. ASSUME NEW r \in Req, Start(r) \/ Step(r) \/ Finish(r) \/ Cancel(r) PROVE hist' = hist
  BY <1>3 DEF Start, Step, Finish, Cancel, CheckNegative, StatAnswer, StatReply, AnswerHead,
              AnswerEarly, LookupBlocks, DropUnmatched, OpenAnswer, OpenReply, CheckWindow,
              EvictBlocks, EvictMetadata, Chunk, StreamError, StreamEof, StreamEnd
<1>4. LoseMetadata \/ LoseNegative \/ LoseBlocks \/ Tick \/ UNCHANGED vars => hist' = hist
  BY DEF LoseMetadata, LoseNegative, LoseBlocks, Tick, vars
<1> QED BY <1>1, <1>2, <1>3, <1>4 DEF Next

\* So do the files, two versions with one identity, and a clock that went back.
LEMMA HistoryShows ==
  ASSUME IInv, [Next]_vars
  PROVE  /\ Files \subseteq Files'
         /\ Collision => Collision'
         /\ ClockWentBack => ClockWentBack'
<1>1. Files \subseteq Files'
  BY HistoryGrows DEF Files
<1>2. \A v \in Files : v \in 1..Cur /\ hist'[v] = hist[v]
  BY HistoryGrows DEF Files
<1>3. Collision => Collision'
  BY <1>1, <1>2 DEF Collision, SameIdentity
<1>4. ClockWentBack => ClockWentBack'
  BY <1>1, <1>2 DEF ClockWentBack
<1> QED BY <1>1, <1>3, <1>4

\* A request that begins after a full quiet finds no old metadata.
LEMMA StartTime ==
  ASSUME TimeInv, NEW r \in Req, Start(r), IInv', quiet' = quiet
  PROVE  /\ TimeInv'
         /\ req'[r].born = Cur /\ req'[r].pc \in {"have", "negative"}
         /\ quiet = Longest => FreshOf(req'[r])
<1>1. PICK t \in {[Idle EXCEPT !.pc = "have", !.born = Cur, !.ver = metadata.ver],
                  [Idle EXCEPT !.pc = "negative", !.born = Cur]} :
        /\ req' = [req EXCEPT ![r] = t]
        /\ t.pc = "have" => Live(metadata, MetadataTtl) /\ t.ver = metadata.ver
  BY DEF Start, Idle
<1>2. t.born = Cur /\ t.pc \in {"have", "negative"}
  BY DEF Idle
<1>3. Timely(t)
  BY <1>2 DEF Timely, HasMap, Body
<1>4. hist' = hist /\ negative' = negative /\ (metadata' # NoEntry => metadata' = metadata)
  BY DEF Start, Probe
<1>5. Moves(r, t)
  BY <1>1, <1>2, <1>3, <1>4 DEF Moves
<1>6. req'[r] = t
  BY <1>1 DEF TimeInv, IInv, TypeOK
<1>7. quiet = Longest /\ Live(metadata, MetadataTtl) => metadata.ver = Cur
  <2>1. Live(metadata, MetadataTtl) => metadata # NoEntry /\ metadata.age \in Nat
                                       /\ metadata.age < MetadataTtl
    BY DEF Live, TimeInv, IInv, TypeOK, MetadataEntry
  <2> QED BY <2>1, TimeTypes DEF TimeInv, QuietInv
<1>8. quiet = Longest => FreshOf(t)
  BY <1>1, <1>2, <1>7 DEF FreshOf, HasVer, HasMap
<1> QED BY <1>2, <1>5, <1>6, <1>8, MovesTime

\* A request that is over knows nothing.
LEMMA LeaveTime ==
  ASSUME TimeInv, NEW r \in Req, Finish(r) \/ Cancel(r), IInv', quiet' = quiet
  PROVE  TimeInv' /\ req'[r] = Idle
<1>1. Idle.pc = "idle" /\ Timely(Idle)
  BY DEF Idle, Timely, HasMap, Body
<1>2. Moves(r, Idle)
  BY <1>1 DEF Finish, Cancel, Moves
<1>3. req'[r] = Idle
  BY DEF Finish, Cancel, TimeInv, IInv, TypeOK
<1> QED BY <1>2, <1>3, MovesTime

\* The handlers are as timely when only the caches or the history change.
LEMMA SameHandlers ==
  ASSUME TimeInv, [Next]_vars, req' = req
  PROVE  \A r \in Req : Timely(req[r])'
<1> SUFFICES ASSUME NEW r \in Req PROVE Timely(req[r])'
  OBVIOUS
<1>1. IInv
  BY DEF TimeInv
<1>2. \A v \in 1..Cur : hist'[v] = hist[v]
  BY <1>1, HistoryGrows
<1>3. Collision => Collision'
  BY <1>1, HistoryShows
<1>4. req[r].pc \in HasVer \/ Body(req[r]) => req[r].ver \in 1..Cur
  BY TimelyOf DEF HandlerInv
<1> QED BY <1>2, <1>3, <1>4, TimelyOf DEF Timely, HasVer, HasMap

\* A change begins the quiet anew.
LEMMA WriteTime ==
  ASSUME TimeInv, Write, IInv', quiet' = 0
  PROVE  TimeInv'
<1>1. [Next]_vars /\ req' = req
  BY DEF Write, Next
<1>2. metadata' # NoEntry => metadata'.age \in Nat
  BY DEF IInv, TypeOK, MetadataEntry
<1>3. negative' # NoEntry => negative'.age \in Nat
  BY DEF IInv, TypeOK, NegativeEntry
<1>4. QuietInv'
  BY <1>2, <1>3, TimeTypes DEF QuietInv, Longest
<1> QED BY <1>1, <1>4, SameHandlers DEF TimeInv

\* Losing an entry is losing old news, if any.
LEMMA LoseTime ==
  ASSUME TimeInv, LoseMetadata \/ LoseNegative \/ LoseBlocks, IInv', quiet' = quiet
  PROVE  TimeInv'
<1>1. [Next]_vars /\ req' = req /\ hist' = hist
  BY DEF LoseMetadata, LoseNegative, LoseBlocks, Next
<1>2. metadata' \in {metadata, NoEntry} /\ negative' \in {negative, NoEntry}
  BY DEF LoseMetadata, LoseNegative, LoseBlocks
<1>3. OldNews' = OldNews /\ Cur' = Cur
  BY <1>1 DEF OldNews, At, Cur
<1>4. QuietInv'
  BY <1>1, <1>2, <1>3 DEF QuietInv, TimeInv, Longest
<1> QED BY <1>1, <1>4, SameHandlers DEF TimeInv

\* A tick ages what is cached by as much as it prolongs the quiet.
LEMMA ClockTime ==
  ASSUME TimeInv, Clock, IInv'
  PROVE  TimeInv'
<1>1. [Next]_vars /\ req' = req /\ hist' = hist
  BY DEF Clock, Tick, Next
<1>2. OldNews' = OldNews /\ Cur' = Cur
  BY <1>1 DEF OldNews, At, Cur
<1>3. quiet' \in 0..Longest /\ (OldNews => quiet' = 0) /\ quiet' <= quiet + 1
  BY TimeTypes DEF Clock, TimeInv, QuietInv
<1>4. ASSUME metadata' # NoEntry
      PROVE  /\ metadata # NoEntry /\ metadata.age \in Nat /\ metadata'.age \in Nat
             /\ metadata'.ver = metadata.ver
             /\ metadata'.age = metadata.age + 1 \/ (metadata'.age = metadata.age
                                                    /\ metadata.age >= MetadataTtl)
  BY <1>4, TimeTypes DEF Clock, Tick, Older, TimeInv, IInv, TypeOK, MetadataEntry
<1>5. ASSUME negative' # NoEntry
      PROVE  /\ negative # NoEntry /\ negative.age \in Nat /\ negative'.age \in Nat
             /\ negative'.age = negative.age + 1 \/ (negative'.age = negative.age
                                                    /\ negative.age >= NegativeTtl)
  BY <1>5, TimeTypes DEF Clock, Tick, Older, TimeInv, IInv, TypeOK, NegativeEntry
<1>6. metadata' # NoEntry /\ metadata'.ver # Cur =>
        metadata'.age >= quiet' \/ metadata'.age >= MetadataTtl
  BY <1>3, <1>4, TimeTypes DEF TimeInv, QuietInv
<1>7. negative' # NoEntry /\ hist[Cur].kind # "missing" =>
        negative'.age >= quiet' \/ negative'.age >= NegativeTtl
  BY <1>3, <1>5, TimeTypes DEF TimeInv, QuietInv
<1>8. QuietInv'
  BY <1>1, <1>2, <1>3, <1>6, <1>7 DEF QuietInv, Longest
<1> QED BY <1>1, <1>8, SameHandlers DEF TimeInv

-----------------------------------------------------------------------------
(* The client.                                                             *)

\* Every step with the client is one of ObjectRead.
LEMMA ReadStep == ClientNext => [Next]_vars
<1>1. ASSUME NEW r \in Req, Work(r) PROVE Step(r)
  BY <1>1 DEF Work, DecideHead, DecideEarly, DecideGet, Proceed, Step
<1> QED
  BY <1>1 DEF ClientNext, Begin, Over, GiveUp, Change, Forget, Clock, Next

\* Nothing happens to what the client's freshness depends on.
LEMMA SameFresh ==
  ASSUME FreshInv, hist' = hist, req'[Client] = req[Client], late' => late, quiet' = quiet
  PROVE  FreshInv'
<1>1. Cur' = Cur /\ Longest' = Longest /\ Collision' = Collision
  BY DEF Cur, Longest, Collision, Files, SameIdentity
<1>2. FreshOf(req[Client])' = FreshOf(req[Client])
  BY <1>1 DEF FreshOf
<1> QED BY <1>1, <1>2 DEF FreshInv

\* A handler other than the client's moves.
LEMMA OtherMoves ==
  ASSUME TimeInv, NEW r \in Req, NEW t, req' = [req EXCEPT ![r] = t]
  PROVE  /\ r # Client => req'[Client] = req[Client]
         /\ req'[r] = t
  BY RevalidationAssumption DEF TimeInv, IInv, TypeOK

\* Every step preserves FreshInv.
LEMMA NextFresh ==
  ASSUME ClientInv, ClientNext, IInv'
  PROVE  FreshInv'
<1>0. TimeInv /\ FreshInv
  BY DEF ClientInv
<1>1. ASSUME NEW r \in Req, Begin(r) PROVE FreshInv'
  <2>1. /\ Start(r) /\ quiet' = quiet /\ hist' = hist
        /\ late' = IF r = Client THEN quiet = Longest ELSE late
    BY <1>1 DEF Begin, Start
  <2>2. CASE r = Client
    <3>1. quiet = Longest => FreshOf(req'[r])
      BY <1>0, <2>1, StartTime
    <3>2. Cur' = Cur
      BY <2>1 DEF Cur
    <3>3. FreshOf(req'[Client]) => FreshOf(req[Client])'
      BY <2>1, <3>2 DEF FreshOf
    <3> QED BY <2>1, <2>2, <3>1, <3>3 DEF FreshInv, Longest
  <2>3. CASE r # Client
    <3>1. req'[Client] = req[Client]
      BY <1>0, <2>1, <2>3, OtherMoves DEF Start
    <3> QED BY <1>0, <2>1, <2>3, <3>1, SameFresh
  <2> QED BY <2>2, <2>3
<1>2. ASSUME NEW r \in Req, Work(r) PROVE FreshInv'
  <2>1. Step(r) /\ late' = late /\ quiet' = quiet
    BY <1>2 DEF Work, DecideHead, DecideEarly, DecideGet, Proceed, Step
  <2>2. PICK t : Moved(r, t)
    BY <1>0, <2>1, StepMoves
  <2>3. hist' = hist /\ req' = [req EXCEPT ![r] = t]
    BY <2>2 DEF Moved, Moves
  <2>4. CASE r = Client
    <3>1. req'[Client] = t /\ t.born = req[Client].born
      BY <1>0, <2>2, <2>3, <2>4, OtherMoves DEF Moved
    <3>2. Cur' = Cur /\ Collision' = Collision /\ Longest' = Longest
      BY <2>3 DEF Cur, Collision, Files, SameIdentity, Longest
    <3>3. FreshOf(t) => FreshOf(req[Client])'
      BY <2>3, <3>1, <3>2 DEF FreshOf
    <3>4. Timed(Client) => FreshOf(t)
      BY <2>2, <2>4 DEF Moved
    <3> QED BY <1>0, <2>1, <3>1, <3>2, <3>3, <3>4 DEF FreshInv, Timed
  <2>5. CASE r # Client
    BY <1>0, <2>1, <2>3, <2>5, OtherMoves, SameFresh
  <2> QED BY <2>4, <2>5
<1>3. ASSUME NEW r \in Req, Over(r) \/ GiveUp(r) PROVE FreshInv'
  <2>1. /\ req' = [req EXCEPT ![r] = Idle] /\ hist' = hist /\ quiet' = quiet
        /\ late' => late /\ r # Client
    BY <1>3 DEF Over, Finish, GiveUp, Cancel
  <2> QED BY <1>0, <2>1, OtherMoves, SameFresh DEF FreshInv
<1>4. CASE Change
  <2>1. Cur' = Cur + 1 /\ req' = req
    BY <1>0, <1>4 DEF Change, Write, Cur, TimeInv, IInv, TypeOK
  <2>2. req[Client].born <= Cur /\ req[Client].born \in Nat /\ Cur \in Nat
    BY <1>0, TimelyOf, TimeTypes, RevalidationAssumption
  <2>3. req'[Client].born # Cur'
    BY <2>1, <2>2
  <2> QED BY <2>3 DEF FreshInv
<1>5. CASE Forget
  BY <1>0, <1>5, SameFresh DEF Forget, LoseMetadata, LoseNegative, LoseBlocks
<1>6. CASE Clock
  <2>1. hist' = hist /\ req' = req /\ late' = late
    BY <1>6 DEF Clock, Tick
  <2>2. Cur' = Cur
    BY <2>1 DEF Cur
  <2>3. CASE late /\ req[Client].born = Cur
    <3>1. quiet = Longest /\ (OldNews => quiet = 0)
      BY <1>0, <2>3 DEF FreshInv, TimeInv, QuietInv
    <3>2. quiet' = quiet
      BY <1>0, <1>6, <3>1, TimeTypes DEF Clock
    <3> QED BY <1>0, <2>1, <3>2, SameFresh
  <2>4. CASE ~(late /\ req[Client].born = Cur)
    BY <2>1, <2>2, <2>4 DEF FreshInv
  <2> QED BY <2>3, <2>4
<1> QED BY <1>1, <1>2, <1>3, <1>4, <1>5, <1>6 DEF ClientNext

\* A whole body is of a file, and no older than its ETag.
LEMMA LearntCopy ==
  ASSUME TimeInv, CopyInv, At(Client, "done")
  PROVE  Learnt # NoCopy => /\ Learnt.ver \in Files /\ Learnt.bytes \in Nat
                            /\ Learnt.bytes >= Learnt.ver \/ Collision
<1> DEFINE q == req[Client]
<1>1. CASE q.res = "complete" /\ q.want = hist[q.ver].len
  <2>1. Body(q) /\ Client \in Req
    BY <1>1, RevalidationAssumption DEF At, Body
  <2>2. /\ q.ver \in Nat /\ q.ver <= Cur /\ q.map \in Nat /\ q.ver # 0
        /\ hist[q.ver].kind = "file" /\ (q.map >= q.ver \/ Collision)
    BY <2>1, TimelyOf DEF Timely, HandlerInv
  <2>3. q.ver \in Files
    BY <2>2, TimeTypes DEF Files
  <2>4. Learnt.ver = q.ver /\ Learnt.bytes = q.map
    BY <1>1 DEF Learnt
  <2> QED BY <2>2, <2>3, <2>4
<1>2. CASE ~(q.res = "complete" /\ q.want = hist[q.ver].len)
  BY <1>2 DEF Learnt, CopyInv
<1> QED BY <1>1, <1>2

\* Every step preserves CopyInv.
LEMMA NextCopy ==
  ASSUME ClientInv, ClientNext
  PROVE  CopyInv'
<1>0. TimeInv /\ CopyInv /\ IInv /\ [Next]_vars
  BY ReadStep DEF ClientInv, TimeInv
<1>1. Files \subseteq Files' /\ (Collision => Collision')
  BY <1>0, HistoryShows
<1>2. copy' = copy \/ (copy' = Learnt /\ At(Client, "done"))
  BY DEF ClientNext, Begin, Work, DecideHead, DecideEarly, DecideGet, Proceed, Over, Finish,
         GiveUp, Change, Forget, Clock
<1>3. CASE copy' = copy
  BY <1>0, <1>1, <1>3 DEF CopyInv
<1>4. CASE copy' = Learnt /\ At(Client, "done")
  BY <1>0, <1>1, <1>4, LearntCopy DEF CopyInv
<1> QED BY <1>2, <1>3, <1>4

\* What an HTTP date loses.
LEMMA DateRoundsDown ==
  ASSUME NEW m \in Nat
  PROVE  (m \div PerSecond) * PerSecond <= m
<1>1. PerSecond \in Nat \ {0}
  BY RevalidationAssumption
<1> QED BY <1>1

\* The copy of a client that has one.
LEMMA CopyTypes ==
  ASSUME CopyInv, IInv, copy # NoCopy, NEW v \in Files
  PROVE  /\ v \in Nat /\ copy.ver \in Nat /\ copy.bytes \in Nat
         /\ hist[v].mtime \in Nat /\ hist[copy.ver].mtime \in Nat
         /\ copy.ver \in Files /\ (copy.bytes >= copy.ver \/ Collision)
<1>1. Cur \in Nat /\ Cur = Len(hist) /\ hist \in Seq(File \cup NotAFile)
  BY ReadAssumption DEF IInv, TypeOK, Cur
<1>2. /\ copy.ver \in Files /\ copy.bytes \in Nat
      /\ (copy.bytes >= copy.ver \/ Collision)
  BY DEF CopyInv
<1>3. ASSUME NEW w \in Files PROVE w \in Nat /\ hist[w].mtime \in Nat
  <2>1. w \in Nat /\ w \in 1..Len(hist)
    BY <1>1, <1>3 DEF Files
  <2>2. hist[w] \in File \cup NotAFile
    BY <1>1, <2>1
  <2>3. \A f \in File : f.mtime \in Nat
    BY ReadAssumption DEF File
  <2>4. \A f \in NotAFile : f.mtime = 0
    BY DEF NotAFile
  <2> QED BY <2>1, <2>2, <2>3, <2>4
<1> QED BY <1>2, <1>3

\* An ETag that matches vouches for the bytes that came with it ...
LEMMA EtagIsSafe ==
  ASSUME CopyInv, IInv, copy # NoCopy, NEW v \in Files, etag(v) = etag(copy.ver)
  PROVE  copy.bytes >= v \/ Collision
<1>1. SameIdentity(v, copy.ver)
  BY DEF etag, SameIdentity
<1> QED BY <1>1, CopyTypes DEF Collision

\* ... and so does a date, if files get no younger.
LEMMA DateIsSafe ==
  ASSUME CopyInv, IInv, copy # NoCopy, NEW v \in Files, last_modified(v) <= HttpDate(copy.ver)
  PROVE  copy.bytes >= v \/ Collision \/ ClockWentBack
<1>0. /\ v \in Nat /\ copy.ver \in Nat /\ copy.bytes \in Nat
      /\ hist[v].mtime \in Nat /\ hist[copy.ver].mtime \in Nat
      /\ copy.ver \in Files /\ (copy.bytes >= copy.ver \/ Collision)
  BY CopyTypes
<1>1. HttpDate(copy.ver) \in Int /\ HttpDate(copy.ver) <= hist[copy.ver].mtime
  BY <1>0, DateRoundsDown, RevalidationAssumption DEF HttpDate
<1>2. hist[v].mtime <= hist[copy.ver].mtime
  BY <1>0, <1>1 DEF last_modified
<1>3. copy.ver < v => ClockWentBack
  BY <1>0, <1>2 DEF ClockWentBack
<1> QED BY <1>0, <1>3

\* The order of the preconditions does not matter for this.
LEMMA MatchIsSafe ==
  ASSUME CopyInv, IInv, NEW v \in Files, NEW g \in Headers, NEW e, e = Evaluate(g, v),
         e \in {"304 etag", "304 date", "304 overruled"}
  PROVE  \/ copy.bytes >= v \/ Collision
         \/ e \in {"304 date", "304 overruled"} /\ ClockWentBack
<1>1. CASE e = "304 etag"
  <2>1. g.inm = "mine" /\ etag(v) = etag(copy.ver)
    BY <1>1 DEF Evaluate
  <2>2. copy # NoCopy
    BY <2>1 DEF Headers
  <2> QED BY <2>1, <2>2, EtagIsSafe
<1>2. CASE e \in {"304 date", "304 overruled"}
  <2>1. g.ims = "mine" /\ last_modified(v) <= HttpDate(copy.ver)
    BY <1>2 DEF Evaluate
  <2>2. copy # NoCopy
    BY <2>1 DEF Headers
  <2> QED BY <1>2, <2>1, <2>2, DateIsSafe
<1> QED BY <1>1, <1>2

\* What the verdict says stays true while nothing happens to the client.
LEMMA SameVerdict ==
  ASSUME VerdictInv, IInv, [Next]_vars, req'[Client] = req[Client],
         copy' = copy, verdict' = verdict
  PROVE  VerdictInv'
<1>1. (Collision => Collision') /\ (ClockWentBack => ClockWentBack')
  BY HistoryShows
<1> QED BY <1>1 DEF VerdictInv, NotModifiedIsSafe, Confirmed, Excused, Overruled,
                   At

\* A request that has not been stopped is not confirmed.
LEMMA NoVerdict ==
  ASSUME verdict' = "none"
  PROVE  VerdictInv'
  BY DEF VerdictInv, NotModifiedIsSafe, Confirmed

\* A handler with something left to do is not done.
LEMMA StepNotDone ==
  ASSUME NEW r \in Req, Start(r) \/ Step(r) \/ Cancel(r)
  PROVE  ~At(r, "done")
  BY DEF Start, Step, Cancel, CheckNegative, StatAnswer, StatReply, AnswerHead, AnswerEarly,
         LookupBlocks, DropUnmatched, OpenAnswer, OpenReply, CheckWindow, EvictBlocks,
         EvictMetadata, Chunk, StreamError, StreamEof, StreamEnd, At

\* head_object and get_object decide for the client.
LEMMA DecideVerdict ==
  ASSUME TimeInv, CopyInv, VerdictInv, DecideHead(Client) \/ DecideEarly(Client)
  PROVE  VerdictInv'
<1>0. /\ Client \in Req /\ At(Client, "have") /\ verdict = "none" /\ copy' = copy
      /\ hist' = hist
  BY RevalidationAssumption
     DEF DecideHead, DecideEarly, AnswerHead, AnswerEarly, VerdictInv, At
<1>1. CASE ~Judged(Client)
  <2>1. verdict' = "none"
    BY <1>0, <1>1 DEF DecideHead, DecideEarly
  <2> QED BY <2>1, NoVerdict
<1>2. CASE Judged(Client)
  <2>1. PICK h \in Headers : verdict' = Evaluate(h, req[Client].ver)
    BY <1>2 DEF DecideHead, DecideEarly
  <2>2. PICK result : req' = [req EXCEPT ![Client].pc = "done", ![Client].res = result]
    BY DEF DecideHead, DecideEarly, AnswerHead, AnswerEarly, Respond
  <2>3. req'[Client].pc = "done" /\ req'[Client].ver = req[Client].ver
    BY <1>0, <2>2, TimelyOf DEF TimeInv, IInv, TypeOK, Handler
  <2>4. req[Client].ver \in Files
    BY <1>0, <1>2, TimelyOf DEF Judged, Files, HandlerInv, HasVer, At
  <2>5. Collision' = Collision /\ ClockWentBack' = ClockWentBack
    BY <1>0 DEF Collision, ClockWentBack, Files, SameIdentity, Cur
  <2>6. verdict' \in {"304 etag", "304 date", "304 overruled"} =>
          \/ copy.bytes >= req[Client].ver \/ Collision
          \/ verdict' \in {"304 date", "304 overruled"} /\ ClockWentBack
    BY <2>1, <2>4, MatchIsSafe DEF TimeInv
  <2> QED BY <1>0, <2>3, <2>5, <2>6 DEF VerdictInv, NotModifiedIsSafe, Confirmed, Excused, Overruled,
                   At
<1> QED BY <1>1, <1>2

\* Every step preserves VerdictInv.
LEMMA NextVerdict ==
  ASSUME ClientInv, ClientNext
  PROVE  VerdictInv'
<1>0. TimeInv /\ CopyInv /\ VerdictInv /\ IInv /\ [Next]_vars /\ Client \in Req
  BY ReadStep, RevalidationAssumption DEF ClientInv, TimeInv
<1>1. ASSUME NEW r \in Req, Begin(r) \/ DecideGet(r) \/ Proceed(r) \/ GiveUp(r)
      PROVE  VerdictInv'
  <2>1. /\ Start(r) \/ Step(r) \/ Cancel(r)
        /\ copy' = copy /\ verdict' = verdict
    BY <1>1 DEF Begin, DecideGet, Proceed, GiveUp, Step
  <2>2. CASE r = Client
    <3>1. verdict' = "none"
      BY <1>0, <2>1, <2>2, StepNotDone DEF VerdictInv
    <3> QED BY <3>1, NoVerdict
  <2>3. CASE r # Client
    <3>1. CASE Step(r)
      BY <1>0, <2>1, <2>3, <3>1, StepMoves, OtherMoves, SameVerdict DEF Moved, Moves
    <3>2. CASE Start(r) \/ Cancel(r)
      BY <1>0, <2>1, <2>3, <3>2, OtherMoves, SameVerdict DEF Start, Cancel
    <3> QED BY <2>1, <3>1, <3>2
  <2> QED BY <2>2, <2>3
<1>2. ASSUME NEW r \in Req, DecideHead(r) \/ DecideEarly(r) PROVE VerdictInv'
  <2>1. CASE r = Client
    BY <1>0, <1>2, <2>1, DecideVerdict
  <2>2. CASE r # Client
    <3>1. Step(r) /\ copy' = copy /\ verdict' = verdict
      BY <1>2, <2>2 DEF DecideHead, DecideEarly, Judged, Step
    <3> QED BY <1>0, <2>2, <3>1, StepMoves, OtherMoves, SameVerdict DEF Moved, Moves
  <2> QED BY <2>1, <2>2
<1>3. ASSUME NEW r \in Req, Over(r) PROVE VerdictInv'
  <2>1. CASE r = Client
    BY <1>3, <2>1, NoVerdict DEF Over
  <2>2. CASE r # Client
    BY <1>0, <1>3, <2>2, OtherMoves, SameVerdict DEF Over, Finish
  <2> QED BY <2>1, <2>2
<1>4. CASE Change \/ Forget \/ Clock
  <2>1. req' = req /\ copy' = copy /\ verdict' = verdict
    BY <1>4 DEF Change, Forget, Clock, Write, LoseMetadata, LoseNegative, LoseBlocks, Tick
  <2> QED BY <1>0, <2>1, SameVerdict
<1> QED BY <1>1, <1>2, <1>3, <1>4 DEF ClientNext, Work

-----------------------------------------------------------------------------
(* The theorems.                                                           *)

\* Every step preserves TimeInv.
LEMMA NextTime ==
  ASSUME TimeInv, ClientNext
  PROVE  TimeInv'
<1>1. IInv'
  BY ReadStep, NextIInv DEF TimeInv
<1>2. ASSUME NEW r \in Req, Begin(r) PROVE TimeInv'
  BY <1>1, <1>2, StartTime DEF Begin
<1>3. ASSUME NEW r \in Req, Work(r) PROVE TimeInv'
  <2>1. Step(r) /\ quiet' = quiet
    BY <1>3 DEF Work, DecideHead, DecideEarly, DecideGet, Proceed, Step
  <2>2. PICK t : Moved(r, t)
    BY <2>1, StepMoves
  <2> QED BY <1>1, <2>1, <2>2, MovesTime DEF Moved
<1>4. ASSUME NEW r \in Req, Over(r) \/ GiveUp(r) PROVE TimeInv'
  BY <1>1, <1>4, LeaveTime DEF Over, GiveUp
<1>5. CASE Change
  BY <1>1, <1>5, WriteTime DEF Change
<1>6. CASE Forget
  BY <1>1, <1>6, LoseTime DEF Forget
<1>7. CASE Clock
  BY <1>1, <1>7, ClockTime
<1> QED BY <1>2, <1>3, <1>4, <1>5, <1>6, <1>7 DEF ClientNext

\* A client without a copy, and caches without entries.
LEMMA InitClientInv == ClientInit => ClientInv
<1> SUFFICES ASSUME ClientInit PROVE ClientInv
  OBVIOUS
<1>1. IInv
  BY InitIInv DEF ClientInit
<1>2. \A r \in Req : req[r] = Idle
  BY DEF ClientInit, Init
<1>3. Idle.pc = "idle"
  BY DEF Idle
<1>4. QuietInv
  <2>1. quiet = 0 /\ metadata = NoEntry /\ negative = NoEntry
    BY DEF ClientInit, Init
  <2>2. Longest \in Nat
    BY ReadAssumption DEF Longest
  <2> QED BY <2>1, <2>2 DEF QuietInv
<1>5. \A r \in Req : Timely(req[r])
  BY <1>2, <1>3 DEF Timely, HasMap, Body
<1>6. FreshInv /\ CopyInv
  BY DEF ClientInit, FreshInv, CopyInv
<1>7. VerdictInv
  BY DEF ClientInit, VerdictInv, NotModifiedIsSafe, Confirmed
<1> QED BY <1>1, <1>4, <1>5, <1>6, <1>7 DEF ClientInv, TimeInv

\* The inductive invariant holds.
THEOREM ClientInvariance == ClientSpec => []ClientInv
<1>1. ClientInv /\ [ClientNext]_allVars => ClientInv'
  <2> SUFFICES ASSUME ClientInv, [ClientNext]_allVars PROVE ClientInv'
    OBVIOUS
  <2>0. TimeInv /\ FreshInv /\ CopyInv /\ VerdictInv
    BY DEF ClientInv
  <2>1. CASE ClientNext
    <3>1. TimeInv'
      BY <2>0, <2>1, NextTime
    <3>2. FreshInv'
      BY <2>1, <3>1, NextFresh DEF TimeInv
    <3>3. CopyInv' /\ VerdictInv'
      BY <2>1, NextCopy, NextVerdict
    <3> QED BY <3>1, <3>2, <3>3 DEF ClientInv
  <2>2. CASE UNCHANGED allVars
    <3>1. UNCHANGED <<vars, copy, verdict, quiet, late, hist, req, metadata, negative>>
      BY <2>2 DEF allVars, vars
    <3>2. IInv' /\ [Next]_vars
      BY <2>0, <3>1, NextIInv DEF TimeInv
    <3>3. \A r \in Req : Timely(req[r])'
      BY <2>0, <3>1, <3>2, SameHandlers
    <3>4. QuietInv'
      BY <2>0, <3>1 DEF TimeInv, QuietInv, OldNews, At, Cur, Longest
    <3>5. FreshInv' /\ CopyInv' /\ VerdictInv'
      <4>1. Files' = Files /\ Collision' = Collision
        BY <3>1 DEF Files, Collision, SameIdentity, Cur
      <4>2. CopyInv'
        BY <2>0, <3>1, <4>1 DEF CopyInv
      <4> QED BY <2>0, <3>1, <3>2, <4>2, SameFresh, SameVerdict DEF TimeInv
    <3> QED BY <3>2, <3>3, <3>4, <3>5 DEF ClientInv, TimeInv
  <2> QED BY <2>1, <2>2
<1> QED BY InitClientInv, <1>1, PTL DEF ClientSpec

\* The conditional headers choose among ObjectRead's answers and add none.
THEOREM ClientReadsObjects == ClientSpec => Init /\ [][Next]_vars
<1>1. ClientInit => Init
  BY DEF ClientInit
<1>2. [ClientNext]_allVars => [Next]_vars
  BY ReadStep DEF allVars
<1> QED BY <1>1, <1>2, PTL DEF ClientSpec

\* A 304 of head_object or get_object never confirms bytes older than the version it
\* answers for, unless two versions share length and modification time or a date
\* decides, alone or over an ETag that does not match, and a file was replaced by one
\* that is not younger.
THEOREM ConfirmsNothingOld == ClientSpec => []NotModifiedIsSafe
<1>1. ClientInv => NotModifiedIsSafe
  BY DEF ClientInv, VerdictInv
<1> QED BY <1>1, ClientInvariance, PTL

\* A request that begins when nothing has changed for the longer of the two TTLs, and
\* no answer from before is still on its way, is answered from the current version,
\* whatever the TTL of the block maps.
THEOREM FreshnessBoundedByTtl == ClientSpec => []FreshAfterTtl
<1>1. ClientInv => FreshAfterTtl
  <2> SUFFICES ASSUME ClientInv, late, At(Client, "done"), req[Client].born = Cur
               PROVE  Accurate(Client) \/ Collision
    BY DEF FreshAfterTtl
  <2>1. FreshOf(req[Client]) \/ Collision
    BY DEF ClientInv, FreshInv
  <2> QED BY <2>1 DEF FreshOf, Accurate, At
<1> QED BY <1>1, ClientInvariance, PTL
=============================================================================
