----------------------------- MODULE ObjectRead -----------------------------
(***************************************************************************)
(* s3/mod.rs: HeadObject and GetObject on one HDFS path, racing each other *)
(* and a writer outside the gateway, through the metadata, negative and    *)
(* block-map caches of s3/cache.rs.                                        *)
(*                                                                         *)
(* A handler is cut at its awaits and at every cache operation: each takes *)
(* the cache's own mutex, so other requests run in between.  A NameNode    *)
(* call is two steps, the moment the NameNode looks (…Answer) and the      *)
(* moment the handler resumes (…Reply).                                    *)
(*                                                                         *)
(* The path's history is a sequence of versions.  What the code keeps of a *)
(* version (FileMeta, the identity in CachedReader, a FileReader) is       *)
(* represented by its number; the code sees only what hist[v] says: kind,  *)
(* length and modification time.  Each cache is the path's slot in it (see *)
(* TtlSlot): entries age, expire, and are lost to other keys.              *)
(***************************************************************************)
EXTENDS ByteRange, Sequences

CONSTANTS Req,               \* concurrent request slots
          Lengths, Mtimes,   \* of the files the writer creates
          MaxVersion,        \* bound: versions in the path's history
          MaxChunk,          \* bound: bytes of one item of the range stream
          MetadataTtl, NegativeTtl, BlocksTtl,   \* 0 disables the cache
          DistinctIdentity,  \* no two versions agree on (length, mtime)
          NoEntry

ASSUME ReadAssumption ==
  /\ Lengths \subseteq Nat /\ Mtimes \subseteq Nat
  /\ MaxVersion \in Nat \ {0}
  /\ MaxChunk \in Nat \ {0}
  /\ MetadataTtl \in Nat /\ NegativeTtl \in Nat /\ BlocksTtl \in Nat
  /\ DistinctIdentity \in BOOLEAN

File == [kind : {"file"}, len : Lengths, mtime : Mtimes]
NotAFile == {[kind |-> "dir", len |-> 0, mtime |-> 0],
             [kind |-> "missing", len |-> 0, mtime |-> 0]}

VARIABLES hist,       \* the versions of the path; the last one is current
          metadata,   \* Caches.metadata: [ver, age] or NoEntry
          negative,   \* Caches.negative: [age] or NoEntry
          blocks,     \* Caches.blocks: [map, label, age] or NoEntry
          sharing,    \* the requests that read through the very map in blocks
          req         \* the handlers' local state

cacheVars == <<metadata, negative, blocks, sharing>>
vars == <<hist, metadata, negative, blocks, sharing, req>>

Cur == Len(hist)

-----------------------------------------------------------------------------
(* The slot of the path in each cache.                                     *)

MetadataEntry == [ver : 1..MaxVersion, age : 0..MetadataTtl]
NegativeEntry == [age : 0..NegativeTtl]
BlocksEntry   == [map : 1..MaxVersion, label : 1..MaxVersion, age : 0..BlocksTtl]

\* Mutant: an entry is still served at the end of its time.
LiveAtTtl(slot, ttl) == slot # NoEntry /\ slot.age <= ttl /\ ttl # 0

Live(slot, ttl) == slot # NoEntry /\ slot.age < ttl

\* Mutant: a lookup renews the entry it returns.
ProbeSliding(slot, ttl) == IF Live(slot, ttl) THEN [slot EXCEPT !.age = 0] ELSE NoEntry

\* What a lookup leaves behind: an expired entry is dropped.
Probe(slot, ttl) == IF Live(slot, ttl) THEN slot ELSE NoEntry

\* What an insert leaves behind: a disabled cache stores nothing.
Stored(entry, ttl) == IF ttl # 0 THEN entry ELSE NoEntry

-----------------------------------------------------------------------------
(* Handlers.                                                               *)

PC == {"idle", "negative", "stat", "stated", "have", "unmatched", "open",
       "opened", "check", "evict", "evictMeta", "stream", "done"}

Results == {"pending", "head", "complete", "NoSuchKey", "NotServed",
            "upstream", "shrunk", "readError", "short"}

Version0 == 0..MaxVersion

Handler == [pc : PC, born : Version0, ver : Version0, map : Version0,
            ans : Version0, end : Nat, want : Nat, got : Nat, res : Results]

Idle == [pc |-> "idle", born |-> 0, ver |-> 0, map |-> 0, ans |-> 0,
         end |-> 0, want |-> 0, got |-> 0, res |-> "pending"]

At(r, p) == req[r].pc = p

\* The response is decided; the handler returns (or the body ends).
Respond(r, result) == req' = [req EXCEPT ![r].pc = "done", ![r].res = result]

Goto(r, p) == req' = [req EXCEPT ![r].pc = p]

\* file_meta, first half: metadata.get.  A hit is used without asking HDFS.
Start(r) ==
  /\ At(r, "idle")
  /\ metadata' = Probe(metadata, MetadataTtl)
  /\ req' = [req EXCEPT ![r] =
               IF Live(metadata, MetadataTtl)
                 THEN [Idle EXCEPT !.pc = "have", !.born = Cur, !.ver = metadata.ver]
                 ELSE [Idle EXCEPT !.pc = "negative", !.born = Cur]]
  /\ UNCHANGED <<hist, negative, blocks, sharing>>

\* file_meta: negative.get, then the call to get_file_info.
CheckNegative(r) ==
  /\ At(r, "negative")
  /\ negative' = Probe(negative, NegativeTtl)
  /\ IF Live(negative, NegativeTtl) THEN Respond(r, "NoSuchKey") ELSE Goto(r, "stat")
  /\ UNCHANGED <<hist, metadata, blocks, sharing>>

\* The NameNode answers with the version it sees, or the call fails (0).
StatAnswer(r) ==
  /\ At(r, "stat")
  /\ \E a \in {0, Cur} : req' = [req EXCEPT ![r].pc = "stated", ![r].ans = a]
  /\ UNCHANGED <<hist, cacheVars>>

\* Mutant: the answer of a failed stat is cached like any other.
StatReplyCachesFailure(r) ==
  /\ At(r, "stated")
  /\ metadata' = Stored([ver |-> req[r].ans, age |-> 0], MetadataTtl)
  /\ Respond(r, "upstream")
  /\ UNCHANGED <<hist, negative, blocks, sharing>>

\* file_meta resumes.  Other errors than FileNotFound leave the caches alone.
StatReply(r) ==
  LET a == req[r].ans IN
  /\ At(r, "stated")
  /\ \/ /\ a = 0
        /\ Respond(r, "upstream")
        /\ UNCHANGED <<metadata, negative>>
     \/ /\ a # 0 /\ hist[a].kind = "missing"
        /\ negative' = Stored([age |-> 0], NegativeTtl)
        /\ Respond(r, "NoSuchKey")
        /\ UNCHANGED metadata
     \/ /\ a # 0 /\ hist[a].kind # "missing"
        /\ metadata' = Stored([ver |-> a, age |-> 0], MetadataTtl)
        /\ req' = [req EXCEPT ![r].pc = "have", ![r].ver = a, ![r].ans = 0]
        /\ UNCHANGED negative
  /\ UNCHANGED <<hist, blocks, sharing>>

\* head_object ends on the metadata: a directory is never an object, a
\* precondition (412, 304) may stop it.
AnswerHead(r) ==
  /\ At(r, "have")
  /\ IF hist[req[r].ver].kind = "dir"
       THEN Respond(r, "NoSuchKey")
       ELSE \E result \in {"head", "NotServed"} : Respond(r, result)
  /\ UNCHANGED <<hist, cacheVars>>

\* get_object ends before it opens the file: a directory, a precondition, or an
\* unsatisfiable range (416).
AnswerEarly(r) ==
  /\ At(r, "have")
  /\ Respond(r, IF hist[req[r].ver].kind = "dir" THEN "NoSuchKey" ELSE "NotServed")
  /\ UNCHANGED <<hist, cacheVars>>

\* The windows [start, end) a GET of a file of n bytes can lead to: the whole
\* file, or what resolve_range makes of a Range header.
Windows(n) ==
  {<<0, n>>} \cup ({resolve_range(n, h) : h \in Header(0..(n + 1))} \ {NoRange})

\* Mutant: a cached block map is used whatever file it was opened for.
AnyIdentity(v, w) == v \in DOMAIN hist /\ w \in DOMAIN hist

\* (length, mtime) of the cached block map's label agree with the metadata's.
SameIdentity(v, w) == hist[v].len = hist[w].len /\ hist[v].mtime = hist[w].mtime

\* open_reader: blocks.get, compared with the metadata the request holds.
LookupBlocks(r) ==
  /\ At(r, "have")
  /\ hist[req[r].ver].kind = "file"
  /\ blocks' = Probe(blocks, BlocksTtl)
  /\ \E w \in Windows(hist[req[r].ver].len) :
       LET asked == [req[r] EXCEPT !.end = w[2], !.want = w[2] - w[1]] IN
       \/ /\ ~Live(blocks, BlocksTtl)
          /\ req' = [req EXCEPT ![r] = [asked EXCEPT !.pc = "open"]]
          /\ sharing' = {}
       \/ /\ Live(blocks, BlocksTtl) /\ SameIdentity(blocks.label, req[r].ver)
          /\ req' = [req EXCEPT ![r] = [asked EXCEPT !.pc = "check", !.map = blocks.map]]
          /\ sharing' = sharing \cup {r}
       \/ /\ Live(blocks, BlocksTtl) /\ ~SameIdentity(blocks.label, req[r].ver)
          /\ req' = [req EXCEPT ![r] = [asked EXCEPT !.pc = "unmatched"]]
          /\ sharing' = sharing
  /\ UNCHANGED <<hist, metadata, negative>>

RemoveBlocks == blocks' = NoEntry /\ sharing' = {}

\* open_reader: the block map of another identity is removed.
DropUnmatched(r) ==
  /\ At(r, "unmatched")
  /\ RemoveBlocks
  /\ Goto(r, "open")
  /\ UNCHANGED <<hist, metadata, negative>>

\* client.read: the NameNode hands out the current file's block map, or fails.
OpenAnswer(r) ==
  /\ At(r, "open")
  /\ \E a \in {0} \cup (IF hist[Cur].kind = "file" THEN {Cur} ELSE {}) :
        req' = [req EXCEPT ![r].pc = "opened", ![r].ans = a]
  /\ UNCHANGED <<hist, cacheVars>>

\* open_reader resumes: the new map is cached under the identity of the metadata
\* the request holds; a failed open drops the metadata.
OpenReply(r) ==
  LET a == req[r].ans IN
  /\ At(r, "opened")
  /\ \/ /\ a # 0
        /\ blocks' = Stored([map |-> a, label |-> req[r].ver, age |-> 0], BlocksTtl)
        /\ sharing' = IF BlocksTtl # 0 THEN {r} ELSE {}
        /\ req' = [req EXCEPT ![r].pc = "check", ![r].map = a, ![r].ans = 0]
        /\ UNCHANGED metadata
     \/ /\ a = 0
        /\ metadata' = NoEntry
        /\ Respond(r, "upstream")
        /\ UNCHANGED <<blocks, sharing>>
  /\ UNCHANGED <<hist, negative>>

\* Mutant: the window is not compared with the opened file.
CheckWindowNever(r) ==
  /\ At(r, "check")
  /\ Goto(r, "stream")
  /\ UNCHANGED <<hist, cacheVars>>

\* The file shrank since its metadata was read: give up and drop both entries.
CheckWindow(r) ==
  /\ At(r, "check")
  /\ req' = IF req[r].end > hist[req[r].map].len
              THEN [req EXCEPT ![r].pc = "evict", ![r].res = "shrunk"]
              ELSE [req EXCEPT ![r].pc = "stream"]
  /\ UNCHANGED <<hist, cacheVars>>

\* Mutant: only the metadata is dropped.
EvictNoBlocks(r) ==
  /\ At(r, "evict")
  /\ Goto(r, "evictMeta")
  /\ UNCHANGED <<hist, cacheVars>>

EvictBlocks(r) ==
  /\ At(r, "evict")
  /\ RemoveBlocks
  /\ Goto(r, "evictMeta")
  /\ UNCHANGED <<hist, metadata, negative>>

EvictMetadata(r) ==
  /\ At(r, "evictMeta")
  /\ metadata' = NoEntry
  /\ Goto(r, "done")
  /\ UNCHANGED <<hist, negative, blocks, sharing>>

-----------------------------------------------------------------------------
(* The body: bytes_stream over read_range_stream.                          *)

Left(r) == req[r].want - req[r].got

\* An item of n bytes, truncated to what the window has left.
Chunk(r) ==
  /\ At(r, "stream")
  /\ Left(r) > 0
  /\ \E n \in 1..MaxChunk :
        req' = [req EXCEPT ![r].got = @ + SmallerOf(n, Left(r))]
  /\ UNCHANGED <<hist, cacheVars>>

\* The upstream item is an error: the map closure drops both entries.
StreamError(r) ==
  /\ At(r, "stream")
  /\ Left(r) > 0
  /\ req' = [req EXCEPT ![r].pc = "evict", ![r].res = "readError"]
  /\ UNCHANGED <<hist, cacheVars>>

\* Mutant: an early end of the upstream is taken for the end of the body.
StreamEofSilent(r) ==
  /\ At(r, "stream")
  /\ Left(r) > 0
  /\ Respond(r, "complete")
  /\ UNCHANGED <<hist, cacheVars>>

\* The upstream ends early (a DataNode failure seen as EOF): ShortRead.
StreamEof(r) ==
  /\ At(r, "stream")
  /\ Left(r) > 0
  /\ Respond(r, "short")
  /\ UNCHANGED <<hist, cacheVars>>

StreamEnd(r) ==
  /\ At(r, "stream")
  /\ Left(r) = 0
  /\ Respond(r, "complete")
  /\ UNCHANGED <<hist, cacheVars>>

Finish(r) ==
  /\ At(r, "done")
  /\ req' = [req EXCEPT ![r] = Idle]
  /\ sharing' = sharing \ {r}
  /\ UNCHANGED <<hist, metadata, negative, blocks>>

\* The client goes away: the handler's future, or the body, is dropped where it
\* is suspended.
Cancel(r) ==
  /\ req[r].pc \in {"stat", "stated", "open", "opened", "stream"}
  /\ req' = [req EXCEPT ![r] = Idle]
  /\ sharing' = sharing \ {r}
  /\ UNCHANGED <<hist, metadata, negative, blocks>>

-----------------------------------------------------------------------------
(* The environment.                                                        *)

Unseen(f) == \A v \in 1..Cur : f.len # hist[v].len \/ f.mtime # hist[v].mtime

\* An HDFS client creates, replaces or deletes the path, or makes it a directory.
Write ==
  /\ Cur < MaxVersion
  /\ \E f \in File \cup NotAFile :
        /\ f.kind = hist[Cur].kind => f.kind = "file"
        /\ DistinctIdentity /\ f.kind = "file" => Unseen(f)
        /\ hist' = Append(hist, f)
  /\ UNCHANGED <<cacheVars, req>>

\* Inserts of other paths push this path's entry out of a cache.
LoseMetadata == metadata' = NoEntry /\ UNCHANGED <<hist, negative, blocks, sharing, req>>
LoseNegative == negative' = NoEntry /\ UNCHANGED <<hist, metadata, blocks, sharing, req>>
LoseBlocks == RemoveBlocks /\ UNCHANGED <<hist, metadata, negative, req>>

Older(slot, ttl) ==
  IF slot # NoEntry /\ slot.age < ttl THEN [slot EXCEPT !.age = @ + 1] ELSE slot

Tick ==
  /\ metadata' = Older(metadata, MetadataTtl)
  /\ negative' = Older(negative, NegativeTtl)
  /\ blocks' = Older(blocks, BlocksTtl)
  /\ UNCHANGED <<hist, sharing, req>>

-----------------------------------------------------------------------------
Init ==
  /\ \E f \in File \cup NotAFile : hist = <<f>>
  /\ metadata = NoEntry /\ negative = NoEntry /\ blocks = NoEntry
  /\ sharing = {}
  /\ req = [r \in Req |-> Idle]

\* What a request does by itself once it has started.
Step(r) ==
  \/ CheckNegative(r) \/ StatAnswer(r) \/ StatReply(r)
  \/ AnswerHead(r) \/ AnswerEarly(r) \/ LookupBlocks(r) \/ DropUnmatched(r)
  \/ OpenAnswer(r) \/ OpenReply(r) \/ CheckWindow(r)
  \/ EvictBlocks(r) \/ EvictMetadata(r)
  \/ Chunk(r) \/ StreamError(r) \/ StreamEof(r) \/ StreamEnd(r)

Next ==
  \/ \E r \in Req : Start(r) \/ Step(r) \/ Finish(r) \/ Cancel(r)
  \/ Write
  \/ LoseMetadata \/ LoseNegative \/ LoseBlocks
  \/ Tick

\* Time passes; a handler runs once its future is ready, and HDFS answers every
\* call (with an error at worst); a response is sent.  Nothing forces a client to
\* come, a writer to write or an entry to be evicted.
Fairness ==
  /\ WF_vars(Tick)
  /\ \A r \in Req : WF_vars(Step(r)) /\ WF_vars(Finish(r))

Spec == Init /\ [][Next]_vars /\ Fairness
-----------------------------------------------------------------------------
TypeOK ==
  /\ hist \in Seq(File \cup NotAFile)
  /\ Cur \in 1..MaxVersion
  /\ metadata \in MetadataEntry \cup {NoEntry}
  /\ negative \in NegativeEntry \cup {NoEntry}
  /\ blocks \in BlocksEntry \cup {NoEntry}
  /\ sharing \subseteq Req
  /\ req \in [Req -> Handler]

\* A request whose body is being read, or was read completely.
HasBody(r) == At(r, "stream") \/ (At(r, "done") /\ req[r].res = "complete")

\* The bytes of a response are never older than the ETag, Last-Modified and
\* Content-Length it carries: a block map opened after the stat is cached under
\* the stat's identity, so reusing it can only bring newer bytes.  Holds when
\* (length, mtime) identifies a version (see fallback_etag).
BodyNotOlderThanETag == \A r \in Req : HasBody(r) => req[r].map >= req[r].ver

\* read_range_stream is never asked past the end of the file the reader was
\* opened on (it would panic), whatever mix of cached metadata and cached block
\* map the request ended up with.
WindowInsideFile == \A r \in Req : HasBody(r) => req[r].end <= hist[req[r].map].len

\* A body that ends without an error has exactly the announced Content-Length;
\* a body that stops early is an error (bytes_stream).
CompleteBodyIsExact ==
  \A r \in Req : At(r, "done") =>
     /\ req[r].res = "complete" => req[r].got = req[r].want
     /\ req[r].res \in {"short", "readError"} => req[r].got < req[r].want

\* Once a request that saw a read error (or found the file shrunk) is over, the
\* block map it failed on is not in the cache: no later request repeats it.
ErroredMapDropped ==
  \A r \in Req : At(r, "done") /\ req[r].res \in {"readError", "shrunk"}
                   => r \notin sharing

\* The comment on CachedReader: a file replaced before a request began "can never
\* be served from the old block map" to that request.
ReplacedFileNotServed == \A r \in Req : HasBody(r) => req[r].map >= req[r].born

\* The answer of r agrees with the namespace as it is now.
Accurate(r) ==
  LET q == req[r] IN
  /\ q.res = "NoSuchKey" => hist[Cur].kind # "file"
  /\ q.res \in {"head", "complete", "short", "readError"} => q.ver = Cur
  /\ q.res \in {"complete", "short", "readError"} => q.map = Cur
  /\ q.res # "shrunk"

\* Once the writer stops, stale metadata, stale negative answers, stale block
\* maps and the failures they cause die out, however busy the path is kept:
\* a hit does not prolong an entry's life.
StalenessEnds == <>[](\A r \in Req : At(r, "done") => Accurate(r))
=============================================================================
