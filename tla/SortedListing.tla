--------------------------- MODULE SortedListing ---------------------------
(***************************************************************************)
(* s3/sorted_listing.rs and the flat path of s3/mod.rs list_objects_v2:    *)
(* clients that page through the keys under a prefix while the namespace   *)
(* changes, with the directory cache of s3/cache.rs between the merge and  *)
(* the NameNode.                                                           *)
(*                                                                         *)
(* A session is one client following continuation tokens.  Each request of *)
(* it builds a SortedListing: a frontier of cursors over sorted directory  *)
(* listings, merged lazily.  next_entry is cut at list_dir's cache lookup  *)
(* and at its RPC (the moment the NameNode answers, the moment the handler *)
(* resumes).  Keys and HDFS paths are in bijection here (hdfs_root is "/", *)
(* names are ordinary), so key_to_hdfs_path never rejects a listed key.    *)
(***************************************************************************)
EXTENDS KeyOrder, FiniteSets

CONSTANTS Path,         \* the keys of the files and directories there may be
          Leaf,         \* the keys that are never directories
          Session,      \* concurrent clients
          Prefixes,     \* prefixes they ask for
          Markers,      \* start_after of a first request
          PageSizes,    \* max_keys, chosen anew for each request
          DirTtl,       \* of the directory cache; 0 disables it
          MaxDirEntries,\* larger listings are not cached
          MaxChanges,   \* bound: changes of the namespace
          NoMarker, NoEntry

Root == <<>>

Directory == (Path \ Leaf) \cup {Root}

ASSUME ListingAssumption ==
  /\ Path \subseteq Key \ {Root} /\ Leaf \subseteq Path
  /\ IsFiniteSet(Path)
  /\ \A k \in Path :          \* a tree: names are not empty, and what is before a slash
       /\ k[Len(k)] # Slash   \* is a directory
       /\ \A i \in 1..Len(k) : k[i] = Slash => Prefix(k, i - 1) \in Path \ Leaf
  /\ Prefixes \subseteq Key
  /\ Markers \subseteq Key \cup {NoMarker}
  /\ PageSizes \subseteq Nat
  /\ DirTtl \in Nat /\ MaxDirEntries \in Nat /\ MaxChanges \in Nat
  /\ NoMarker \notin Key

VARIABLES ns,        \* [Path -> Kind]: the namespace
          changes,   \* changes made so far
          always,    \* visible files that have been there, readable, from the start
          ever,      \* files getListing has shown, or could have with their directory
          cache,     \* Caches.dirs: [listing, age] or NoEntry, per directory
          session,   \* the clients and the requests they have under way
          misled     \* history: clients whose merge took a file for a directory

vars == <<ns, changes, always, ever, cache, session, misled>>

-----------------------------------------------------------------------------
(* The namespace (external).                                               *)

Kind == {"absent", "file", "dir", "denied"}

\* Key k is in the directory d, at any depth.
Under(k, d) == Len(k) > Len(d) /\ (d = Root \/ StartsWith(k, Output(d)))

\* ... and directly in it.
ChildOf(k, d) == Under(k, d) /\ \A e \in Directory : ~(Under(k, e) /\ Under(e, d))

IsDir(n, d) == d = Root \/ n[d] \in {"dir", "denied"}

WellFormed(n) ==
  /\ \A k \in Leaf : n[k] \in {"absent", "file"}
  /\ \A k \in Path, d \in Path \ Leaf : Under(k, d) /\ n[k] # "absent" => IsDir(n, d)

\* A file whose directories can all be listed.
VisibleIn(n) ==
  {k \in Path : n[k] = "file" /\ \A d \in Path \ Leaf : Under(k, d) => n[d] = "dir"}

\* A file whose own directory can be listed.
ListedIn(n) ==
  {k \in Path : n[k] = "file" /\ \A d \in Path \ Leaf : ChildOf(k, d) => n[d] = "dir"}

\* One directory's children as listing_from_statuses sorts them.
Listings(n, d) ==
  LET F == {k \in Path : ChildOf(k, d) /\ n[k] = "file"}
      D == {k \in Path : ChildOf(k, d) /\ n[k] \in {"dir", "denied"}}
  IN  [files : Sorted(F, Cardinality(F), Before),
       dirs  : Sorted(D, Cardinality(D), DirBefore)]

\* What getListing answers for d: its children, the status of d itself if that has
\* become a file, or an error.
GetListing(n, d) ==
  CASE d = Root \/ n[d] = "dir" -> [tag : {"ok"}, listing : Listings(n, d)]
    [] d # Root /\ n[d] = "file" ->
         {[tag |-> "ok", listing |-> [files |-> <<d>>, dirs |-> <<>>]]}
    [] d # Root /\ n[d] = "denied" -> {[tag |-> "denied"]}
    [] OTHER -> {[tag |-> "FileNotFound"]}

\* The listing is the status of d, a file.
IsStatus(listing, d) == listing.files = <<d>>

-----------------------------------------------------------------------------
(* Cursors.                                                                *)

\* A cursor: a listing, which of its two arrays, and the index of its front.
Front(c) == IF c.files THEN c.listing.files[c.idx] ELSE c.listing.dirs[c.idx]

Size(c) == IF c.files THEN Len(c.listing.files) ELSE Len(c.listing.dirs)

\* Mutant: files come before directories, as in a plain walk.
CursorCmpFilesFirst(c, e) ==
  CASE c.files = e.files -> Cmp(Front(c), Front(e))
    [] OTHER             -> IF c.files THEN "Less" ELSE "Greater"

\* Ord for Cursor: output keys.
CursorCmp(c, e) ==
  CASE c.files /\ e.files   -> Cmp(Front(c), Front(e))
    [] ~c.files /\ ~e.files -> cmp_dir_keys(Front(c), Front(e))
    [] c.files /\ ~e.files  -> cmp_file_dir(Front(c), Front(e))
    [] OTHER                -> Reverse(cmp_file_dir(Front(e), Front(c)))

\* Mutant: the cursor is pushed back where it was.
AdvancedStuck(c) == IF c.idx < Size(c) THEN {c} ELSE {}

\* advance, and push back unless exhausted.
Advanced(c) == IF c.idx < Size(c) THEN {[c EXCEPT !.idx = @ + 1]} ELSE {}

\* push_listing: both arrays, positioned after the marker.
Cursors(listing, after) ==
  LET Behind(f) == f = after \/ Before(f, after)
      fs == IF after = NoMarker THEN 0 ELSE PartitionPoint(listing.files, Behind)
      ds == IF after = NoMarker THEN 0 ELSE dirs_start_after(listing.dirs, after)
  IN  {[listing |-> listing, files |-> TRUE, idx |-> i] :
          i \in {fs + 1} \cap 1..Len(listing.files)}
        \cup {[listing |-> listing, files |-> FALSE, idx |-> i] :
          i \in {ds + 1} \cap 1..Len(listing.dirs)}

-----------------------------------------------------------------------------
(* Sessions.                                                               *)

\* pc: "idle", "ask" (the client is about to send a request), "lookup", "rpc",
\* "reply" (in list_dir), "pull" (next_entry's loop), "respond", "done", "failed".
Idle == [pc |-> "idle", prefix |-> <<>>, first |-> NoMarker, after |-> NoMarker,
         max |-> 0, heap |-> {}, dir |-> Root, seeding |-> FALSE,
         ans |-> [tag |-> "none"], page |-> <<>>, truncated |-> FALSE,
         got |-> <<>>, zero |-> FALSE]

At(s, p) == session[s].pc = p

Set(s, rec) == session' = [session EXCEPT ![s] = rec]

Begin(s) ==
  /\ At(s, "idle")
  /\ \E p \in Prefixes, m \in Markers :
        Set(s, [Idle EXCEPT !.pc = "ask", !.prefix = p, !.first = m, !.after = m])
  /\ UNCHANGED <<ns, changes, always, ever, cache, misled>>

\* list_start: the directory part of the prefix.
list_start(prefix) ==
  LET slashes == {i \in 1..Len(prefix) : prefix[i] = Slash}
  IN  IF slashes = {} THEN Root
      ELSE Prefix(prefix, (CHOOSE i \in slashes : \A j \in slashes : j <= i) - 1)

\* list_objects_v2 up to the first list_dir; max_keys = 0 asks for nothing.
Ask(s) ==
  /\ At(s, "ask")
  /\ \E n \in PageSizes :
        LET fresh == [session[s] EXCEPT !.max = n, !.heap = {}, !.page = <<>>,
                                        !.truncated = FALSE]
        IN  IF n = 0
              THEN Set(s, [fresh EXCEPT !.pc = "respond", !.zero = TRUE])
              ELSE Set(s, [fresh EXCEPT !.pc = "lookup", !.seeding = TRUE,
                                        !.dir = list_start(session[s].prefix)])
  /\ UNCHANGED <<ns, changes, always, ever, cache, misled>>

Live(d) == cache[d] # NoEntry /\ cache[d].age < DirTtl

\* next_entry goes on with the listing in its frontier.
Pushed(s, listing) ==
  [session[s] EXCEPT !.pc = "pull", !.seeding = FALSE, !.ans = [tag |-> "none"],
                     !.heap = @ \cup Cursors(listing, session[s].after)]

\* Mutant: a hit keeps the entry in the cache for another DirTtl.
LookupSliding(s) ==
  LET d == session[s].dir IN
  /\ At(s, "lookup")
  /\ IF d \in Directory /\ Live(d)
       THEN Set(s, Pushed(s, cache[d].listing)) /\ cache' = [cache EXCEPT ![d].age = 0]
       ELSE /\ session' = [session EXCEPT ![s].pc = "rpc"]
            /\ UNCHANGED cache
  /\ UNCHANGED <<ns, changes, always, ever, misled>>

\* list_dir: a live cache entry saves the RPC, an expired one is dropped.
Lookup(s) ==
  LET d == session[s].dir IN
  /\ At(s, "lookup")
  /\ IF d \in Directory /\ Live(d)
       THEN /\ Set(s, Pushed(s, cache[d].listing))
            /\ misled' = misled \cup {r \in {s} : IsStatus(cache[d].listing, d)}
            /\ UNCHANGED cache
       ELSE /\ session' = [session EXCEPT ![s].pc = "rpc"]
            /\ UNCHANGED misled
            /\ cache' = IF d \in Directory THEN [cache EXCEPT ![d] = NoEntry] ELSE cache
  /\ UNCHANGED <<ns, changes, always, ever>>

\* The NameNode answers, or the call fails (external).
RpcAnswer(s) ==
  LET d == session[s].dir IN
  /\ At(s, "rpc")
  /\ \E a \in {[tag |-> "error"]} \cup
              (IF d \in Directory THEN GetListing(ns, d) ELSE {[tag |-> "FileNotFound"]}) :
        /\ session' = [session EXCEPT ![s].pc = "reply", ![s].ans = a]
        /\ IF a.tag = "ok" /\ IsStatus(a.listing, d)
             THEN misled' = misled \cup {s} /\ ever' = ever \cup {d}
             ELSE UNCHANGED <<misled, ever>>
  /\ UNCHANGED <<ns, changes, always, cache>>

Weight(listing) == Len(listing.files) + Len(listing.dirs)

\* list_dir resumes with a listing: remember it, merge it.
ReplyListing(s) ==
  LET a == session[s].ans
      d == session[s].dir
  IN
  /\ At(s, "reply")
  /\ a.tag = "ok"
  /\ Set(s, Pushed(s, a.listing))
  /\ cache' = IF DirTtl # 0 /\ Weight(a.listing) <= MaxDirEntries
                THEN [cache EXCEPT ![d] = [listing |-> a.listing, age |-> 0]]
                ELSE cache
  /\ UNCHANGED <<ns, changes, always, ever, misled>>

\* The errors next_entry goes on after: below the start directory a vanished or an
\* unreadable directory, at the start a missing one.
Skipped(s) ==
  \/ session[s].ans.tag = "FileNotFound"
  \/ session[s].ans.tag = "denied" /\ ~session[s].seeding

\* Mutant: a directory that is not there is asked for again.
ReplyErrorRetries(s) ==
  /\ At(s, "reply")
  /\ session[s].ans.tag # "ok"
  /\ session' = [session EXCEPT ![s].pc = IF Skipped(s) THEN "lookup" ELSE "failed",
                                ![s].ans = [tag |-> "none"]]
  /\ UNCHANGED <<ns, changes, always, ever, cache, misled>>

\* ... with a missing start directory the frontier is empty: exhausted.
ReplyError(s) ==
  /\ At(s, "reply")
  /\ session[s].ans.tag # "ok"
  /\ session' = [session EXCEPT ![s].pc = IF Skipped(s) THEN "pull" ELSE "failed",
                                ![s].seeding = FALSE, ![s].ans = [tag |-> "none"]]
  /\ UNCHANGED <<ns, changes, always, ever, cache, misled>>

\* heap.pop: a cursor no other one is less than.
Least(heap) == {c \in heap : \A e \in heap : CursorCmp(c, e) # "Greater"}

\* A file is at the front: emit it, or learn that the page is truncated.
PullFile(s) ==
  LET q == session[s] IN
  /\ At(s, "pull")
  /\ \E c \in Least(q.heap) :
        LET popped == [q EXCEPT !.heap = (@ \ {c}) \cup Advanced(c)]
            key    == Front(c)
        IN
        /\ c.files
        /\ Set(s, IF ~StartsWith(key, q.prefix)
                     \/ (q.after # NoMarker /\ (key = q.after \/ Before(key, q.after)))
                    THEN popped
                  ELSE IF Len(q.page) < q.max
                    THEN [popped EXCEPT !.page = Append(@, key)]
                    ELSE [popped EXCEPT !.pc = "respond", !.truncated = TRUE])
  /\ UNCHANGED <<ns, changes, always, ever, cache, misled>>

\* Mutant: a directory is listed as an object, too.
PullDirAsObject(s) ==
  LET q == session[s] IN
  /\ At(s, "pull")
  /\ \E c \in Least(q.heap) :
        /\ ~c.files
        /\ Set(s, [q EXCEPT !.pc = "lookup", !.dir = Front(c),
                            !.heap = (@ \ {c}) \cup Advanced(c),
                            !.page = Append(@, Output(Front(c)))])
  /\ UNCHANGED <<ns, changes, always, ever, cache, misled>>

\* A directory is at the front: descend into it unless nothing in it can match.
PullDir(s) ==
  LET q == session[s] IN
  /\ At(s, "pull")
  /\ \E c \in Least(q.heap) :
        LET popped == [q EXCEPT !.heap = (@ \ {c}) \cup Advanced(c)]
            key    == Front(c)
        IN
        /\ ~c.files
        /\ Set(s, IF ~StartsWith(key, q.prefix)
                     \/ (q.after # NoMarker /\ dir_children_all_before(key, q.after))
                    THEN popped
                    ELSE [popped EXCEPT !.pc = "lookup", !.dir = key])
  /\ UNCHANGED <<ns, changes, always, ever, cache, misled>>

Exhausted(s) ==
  /\ At(s, "pull")
  /\ session[s].heap = {}
  /\ session' = [session EXCEPT ![s].pc = "respond"]
  /\ UNCHANGED <<ns, changes, always, ever, cache, misled>>

\* next_token: the last key of a truncated page.
Token(q) == IF q.truncated /\ q.page # <<>> THEN q.page[Len(q.page)] ELSE NoMarker

\* The client takes the page and, given a token, asks for the next one.
Receive(s) ==
  LET q == session[s] IN
  /\ At(s, "respond")
  /\ Set(s, [q EXCEPT !.got = @ \o q.page, !.page = <<>>, !.heap = {},
                      !.pc = IF Token(q) # NoMarker THEN "ask" ELSE "done",
                      !.after = IF Token(q) # NoMarker THEN Token(q) ELSE @])
  /\ UNCHANGED <<ns, changes, always, ever, cache, misled>>

\* The client is through and may start over.
Leave(s) ==
  /\ session[s].pc \in {"done", "failed"}
  /\ Set(s, Idle)
  /\ UNCHANGED <<ns, changes, always, ever, cache, misled>>

-----------------------------------------------------------------------------
(* The environment.                                                        *)

\* An HDFS client creates or deletes a file or a directory (with everything in
\* it), replaces one by the other, or changes a directory's permissions.
Change ==
  /\ changes < MaxChanges
  /\ \E k \in Path, kind \in Kind :
        LET n == [ns EXCEPT ![k] = kind]
            m == [j \in Path |-> IF Under(j, k) /\ kind \in {"absent", "file"}
                                   THEN "absent" ELSE n[j]]
        IN  /\ kind # ns[k]
            /\ WellFormed(m)
            /\ ns' = m
            /\ always' = always \cap VisibleIn(m)
            /\ ever' = ever \cup ListedIn(m)
  /\ changes' = changes + 1
  /\ UNCHANGED <<cache, session, misled>>

\* Other requests push an entry out of the cache.
Lose ==
  /\ \E d \in Directory : cache[d] # NoEntry /\ cache' = [cache EXCEPT ![d] = NoEntry]
  /\ UNCHANGED <<ns, changes, always, ever, session, misled>>

Tick ==
  /\ \E d \in Directory : Live(d)
  /\ cache' = [d \in Directory |-> IF Live(d) THEN [cache[d] EXCEPT !.age = @ + 1]
                                              ELSE cache[d]]
  /\ UNCHANGED <<ns, changes, always, ever, session, misled>>

-----------------------------------------------------------------------------
Init ==
  /\ ns \in {n \in [Path -> Kind] : WellFormed(n)}
  /\ changes = 0
  /\ always = VisibleIn(ns)
  /\ ever = ListedIn(ns)
  /\ cache = [d \in Directory |-> NoEntry]
  /\ session = [s \in Session |-> Idle]
  /\ misled = {}

Step(s) ==
  \/ Ask(s) \/ Lookup(s) \/ RpcAnswer(s) \/ ReplyListing(s) \/ ReplyError(s)
  \/ PullFile(s) \/ PullDir(s) \/ Exhausted(s) \/ Receive(s)

Next ==
  \/ \E s \in Session : Begin(s) \/ Step(s) \/ Leave(s)
  \/ Change \/ Lose \/ Tick

\* A handler runs once it is ready and HDFS answers every call; the client goes on
\* as long as it gets tokens and is done with a listing at some time.  Time passes.
Fairness == /\ WF_vars(Tick)
            /\ \A s \in Session : WF_vars(Step(s)) /\ WF_vars(Leave(s))

Spec == Init /\ [][Next]_vars /\ Fairness
-----------------------------------------------------------------------------
\* Everything s was given, with the page under way.
Given(s) == session[s].got \o session[s].page

Wants(s, k) ==
  /\ StartsWith(k, session[s].prefix)
  /\ session[s].first = NoMarker \/ Before(session[s].first, k)

\* All the keys of a session match the request, and over all its pages they ascend
\* strictly, so none is repeated, whatever happens to the namespace; but for a
\* client whose merge met a file in the place of a directory: that key comes after
\* keys it sorts before, and as a continuation token brings those back.
KeysAscend ==
  \A s \in Session :
     /\ s \in misled
        \/ \A i, j \in 1..Len(Given(s)) : i < j => Before(Given(s)[i], Given(s)[j])
     /\ \A i \in 1..Len(Given(s)) : Wants(s, Given(s)[i])

\* A file nobody touches is never passed over: it is in the pages as soon as they
\* go past its key, and at the end of a session that did not fail.
NothingLost ==
  \A s \in Session : \A k \in always :
     /\ Wants(s, k) /\ ~session[s].zero
     /\ \/ At(s, "done")
        \/ \E i \in 1..Len(Given(s)) : Before(k, Given(s)[i])
     => \E i \in 1..Len(Given(s)) : Given(s)[i] = k

\* Only files are listed that were there, in a directory that could be read (or asked
\* for by their own name in the place of a directory), at some time: nothing comes
\* from a directory that was never readable, and no directory is listed as an object.
NothingInvented ==
  \A s \in Session : \A i \in 1..Len(Given(s)) : Given(s)[i] \in ever

\* Once the namespace stays as it is, completed listings come to agree with it
\* exactly: a cached listing is used for a limited time, however busy the clients
\* are, and a late reply cannot bring an old one back for good.
ListingsConverge ==
  <>[](\A s \in Session : At(s, "done") /\ ~session[s].zero =>
          {Given(s)[i] : i \in 1..Len(Given(s))} = {k \in VisibleIn(ns) : Wants(s, k)})

\* Every session ends: each page starts after the previous one.
SessionEnds == \A s \in Session : At(s, "ask") ~> (At(s, "done") \/ At(s, "failed"))
=============================================================================
