# Formal models of hdfs-s3-gateway

TLA+ models of the gateway in `src/`: a read-only S3 front end (ListObjectsV2, HeadObject, GetObject)
over one HDFS directory tree, with in-memory caches, conditional requests, a request limit, a graceful
shutdown and Python bindings. TLC checks the models on small instances; TLAPS proves every safety
property of the runs that are expected to pass, for every value of the constants, under the
assumptions and conditions named in section 4. `PROJECT.json` lists
the components, the runs, the source lines behind each definition, the hazards and the theorems.

## 1. The system

| Component | Source | State | Operations | What makes it correct |
|---|---|---|---|---|
| TTL cache | `core/cache.rs` | LRU list, hash map, weight counter, under one mutex | `get`, `insert` (with an eviction loop), `remove` | map, list and counter agree; bounded; hits do not prolong life; eviction by recency |
| Gateway caches | `s3/cache.rs` | four TTL caches: metadata, negative answers, block maps, directories | used by the handlers, never locked together | stale content ends; a combination of entries never yields a wrong body |
| HeadObject, GetObject | `s3/mod.rs` | locals of concurrent handlers, across awaits | `file_meta`, `open_reader`, window check, `bytes_stream` | body not older than its ETag, no read past the end, exact length or an error |
| Byte ranges | `core/range.rs` | none | `resolve_range` | exactly the bytes RFC 9110 asks for, no wrap-around |
| Key order | `core/listing.rs`, `s3/sorted_listing.rs` | none | comparisons on keys with a virtual trailing slash | the order of the keys S3 clients see |
| Delimited listing | `core/listing.rs` | a page | `paginate`, `paginate_slash` | the two agree; pages partition the listing |
| Flat listing | `s3/sorted_listing.rs` | frontier of cursors, directory cache | `next_entry`, `collect_page`, `list_dir` | ascending, complete, nothing invented, under change |
| Path mapping | `core/path.rs` | the normalized root | `key_to_hdfs_path`, `hdfs_path_to_key`, `list_start` | no escape from the root, round trip |
| Backpressure | `s3/backpressure.rs` | a semaphore | `call`, `PermitBody` | permits neither lost nor doubled |
| Server, shutdown | `s3/server.rs`, `main.rs` | connections, drain | accept loop, graceful shutdown, 10 s timer | ends; cuts nobody off before the timer |
| Requests | `s3/mod.rs`, `s3/error.rs`, `s3/auth.rs`, `s3/write_policy.rs` | a request counter, the open request logs | signature check, dispatch, refusal of writes, bucket operations, error mapping, `RequestLog` | one id per request, one story per id, on every way out |
| Metadata, conditionals | `core/metadata.rs`, `s3/mod.rs` | none; compares the client's validators with cached metadata | ETag, `Last-Modified`, the four `If-` headers | no 304 for old bytes; staleness bounded by the TTL |
| Configuration, start-up | `config/mod.rs`, `s3/cache.rs`, `python/src/lib.rs` | the settings of file, environment, arguments | `load`, `validate`, the Python constructor, `HdfsGateway::new` | precedence; the kill switch; what loads can serve |
| Python bindings | `python/src/lib.rs` | the thread handle, a `Notify` | `start`, `stop`, `serve_blocking` | no lost server thread; `stop` returns and stops what it should |
| Python package, log bridge | `python/hdfs_s3_gateway/__init__.py`, `python/src/lib.rs` | logging settings, a bounded queue, a forwarding thread | `set_logging`, `gateway`, the atexit hook, `write`, `emit_line` | lines in order; nothing hangs on the GIL; the exit drains |

How they interact: hyper's connection tasks call the backpressure service, which calls the S3 handlers;
a handler looks into the caches (one mutex each, released between the operations) and awaits the
NameNode or a DataNode. Between any two of these steps other requests run, HDFS clients change the
namespace and entries expire. A listing request additionally keeps a merge frontier, and the client
carries its state from page to page in the continuation token. `serve` runs the accept loop until its
shutdown future is ready; the binary gives it `ctrl_c`, the Python class a `Notify`. In Python the
server threads write log lines that a forwarding thread hands to `logging`, for which it needs the GIL
that `start` keeps while it waits for the server thread.

The hard parts are therefore: state read before an await and used after it, replies applied out of
order, cached values that agree with each other but not with HDFS, partial failure in the middle of a
body or of a merge, byte order around `/`, limits of counters and pages, the shutdown races, and
waiting for the GIL.

## 2. The modules

`TtlSlot` is the abstract specification of one key of a cache: a slot that may lose its entry at any
time, but whose entry is the last one stored and only grows older. `TtlCache` is the real one; for each
key it implements the slot (`EachKeyIsASlot`, proved). That is what allows `ObjectRead` and
`SortedListing` to model each cache as independent slots that age, expire and are lost.

**`TtlCache`** (`core/cache.rs`). `store` and `lru` are the map and the list of `lru::LruCache`,
`weight` is `Inner.weight`. `get` is `GetMiss`, `GetExpired`, `GetHit`; `remove` is `Remove`; `insert`
is `Insert` (with the replacement of an old entry and the entry `push` displaces), then, with the mutex
held, the loop: one `Shrink` per round of it and `Release`. `inserting` is the key of the insert that
holds the mutex. Time is the age of the entries.

**`ByteRange`** (`core/range.rs`). `resolve_range` as an operator, with unbounded integers. The
theorem `ResolvedRangeIsExact` is about its result; that no intermediate value leaves `0..file_len`, so
that u64 cannot wrap, is in the lemmas it rests on, one per shape of the header.

**`ObjectRead`** (`s3/mod.rs`, `s3/cache.rs`). Concurrent HeadObject/GetObject requests on one path. The
path's history `hist` is the sequence of its versions (a file with length and mtime, a directory,
missing); what the code keeps of a version (metadata, the identity stored with a block map, an open
reader) is the version's number, and the code's comparisons look only at length and mtime. A handler is
cut at every cache operation and around every RPC: `Start` and `CheckNegative` (the lookups of
`file_meta`), `StatAnswer`/`StatReply`, `AnswerHead`/`AnswerEarly`, `LookupBlocks`, `DropUnmatched`,
`OpenAnswer`/`OpenReply` (`open_reader`), `CheckWindow`, `EvictBlocks`/`EvictMetadata`, and
`Chunk`/`StreamError`/`StreamEof`/`StreamEnd` (the body). `Cancel` drops a handler at an await, `Write`
is an HDFS client, the `Lose…` actions are evictions caused by other paths. `sharing` is a history
variable: the requests that read through the very block map that is cached now.

**`KeyOrder`** (`core/listing.rs`, `s3/sorted_listing.rs`). Keys are byte sequences. `Before` is Rust's
order on strings; the comparisons of the code are transcribed as they are, without building the key
with its slash.

**`Paginate`** (`core/listing.rs`, the delimited branch of `list_objects_v2`). `paginate` is modelled as
what it returns, `paginate_slash` step by step (`AskSlash` with its binary searches, then
`SkipFile`/`SkipDir`/`Take`/`Leave` of the merge loop), and a client follows the tokens (`Receive`).

**`SortedListing`** (`s3/sorted_listing.rs`, the flat branch of `list_objects_v2`). `ns` is the HDFS
namespace with unreadable directories; each session is a client with its request: `Begin`, `Ask`,
`Lookup` (the directory cache), `RpcAnswer`, `ReplyListing`, `ReplyError`, `PullFile`, `PullDir`,
`Exhausted`, `Receive`. `Change` changes the namespace, `always` and `ever` are history variables: the
files that have been visible throughout, and the files that have, at some time, been in a directory
that could be read. `GetListing` is the NameNode's answer: for a directory that a file has replaced it is
the status of that file. `misled` is a history variable, the sessions whose merge met such an answer.

**`Revalidation`** (`core/metadata.rs`, the conditionals in `s3/mod.rs`) composes with `ObjectRead`. One
request belongs to a client that keeps a `copy` and sends its validators back; `Evaluate` is the code's
decision in its order (with the verdict `304 overruled` if the date says 304 although an `If-None-Match`
was sent and does not match), at the place where the handler takes it (`DecideHead`, `DecideEarly`,
`DecideGet`), on the metadata the handler holds, which may be cached. `ObjectRead` leaves open whether a
precondition stops a request; here the headers decide. Modification times are in ticks, `PerSecond` of
them in a second, because HTTP dates drop the milliseconds and the code's comparison does not. `quiet`
and `late` are history variables for the freshness promise.

**`PathMapper`** (`core/path.rs`). The operators over byte strings, and the action `Ask` that puts a key
or prefix to the mapper. It has no root until **`Startup`** (`config/mod.rs`, `s3/cache.rs`,
`HdfsGateway::new`, the Python constructor) has built one: settings are given (`Set`, `Unset`), `Load`
puts them together and validates them as `main` or as Python does, and `New` builds the caches and the
mapper. Of a setting's value the model keeps whether it is usable (empty, zero, unparsable, ...) and of
a loaded field where it came from.

**`Server`** (`s3/backpressure.rs`, `s3/server.rs`, `main.rs`). Connections, requests with their permits
(`Call`, `Respond`, `Fail`, `BodyEnd`, `Finish`, `Disconnect`), the signals (`Interrupt`, `Terminate`)
and the drain (`BeginDrain`, `Notice`, `Close`, `Drained`, `DrainExpires`, `Exit`).

**`Requests`** (`s3/mod.rs`, `s3/error.rs`, `s3/auth.rs`, `s3/write_policy.rs`) composes with `Server`: it
fills the time between permit and response. `Refuse` is an answer of s3s itself (no handler, no valid
signature); `Enter`, `MintFromClock` and `Mint` open the `RequestLog`, whose id is made of the clock and
a counter read after it; `Answer` is the handler's decision, with the operations' possible answers and
`map_hdfs_error`'s table as sets; `Drop` is the guard's destructor, on every way a request ends
(`Leave`, `Break`, `Sent`, `Shut`), and `Kill` the one way it does not run. `trail` is a history
variable: what was logged under each id.

**`PyGateway`** (`python/src/lib.rs`). Python threads calling one `Gateway`, with PyO3's borrow flag, the
GIL where the code keeps it, the background threads, the channel `start` waits on and the `Notify`'s
stored permit. A background thread builds its runtime (`RuntimeBuilds`, or `RuntimeFails`, which waits for
the GIL that `start` keeps and never gets on), sets up (`ServerBinds` or `ServerFails`) and serves. `Collect`
is the end of the object while no call runs; a thread that is still there is detached and stays.

**`PyProcess`** (`python/src/lib.rs`, `python/hdfs_s3_gateway/__init__.py`) composes with `PyGateway`: the
process around the object. It is made by the factory `gateway`, which freezes the package's logging
settings, hands them on and adds the object to `_live_gateways`, or by the class itself (`Gateway`), with
settings of its own and known to nobody; `Drop` lets go of it. `init_tracing` runs once,
in whichever server thread comes first; `write` queues a line; the consumer thread resolves its logger,
receives a chunk (one or two whole lines here) and emits it line by line (`Resolve`, `Receive`, `Emit`),
with `EmitFails` for an attach that does not succeed while another thread has the GIL and `Discard` for
a consumer that found no logger; `BeginExit`, `HookCheck`, `HookStop`, `Finalize` are the atexit hook
and the exit. PyO3's `try_attach` is external and may fail or wait while the GIL is taken. `Hold` and
`LetGo` are other Python code.

`MCPaginate`, `MCSortedListing` and `MCStartup` give values to constants.

## 3. The runs

| Run | Instance | Shows |
|---|---|---|
| `cache` | 3 keys, capacity 2, weights 0, 1, 2, 4, budget 3, TTL 2 | counter, map and list exact; `insert` returns with its entry in place; LRU eviction; each key is a slot |
| `object_read` | 2 requests, 2 versions, lengths 0 and 1, metadata TTL 2, others 1 | body not older than the ETag, window inside the file, exact or failed bodies, failed block maps dropped, staleness ends |
| `paginate` | up to 4 entries of 7 names over `-`, `/`, `0`; 4 prefixes, 7 markers, page sizes 0, 1, 2 | comparisons and pruning exact; `paginate_slash` = `paginate`; pages partition the listing; paging ends |
| `flat_listing` | 6 paths on 3 levels, 3 prefixes, 2 markers, page sizes 0, 1, 2 mixed, 1 change, no cache | over all the pages of a session ascending (but for `misled`), nothing lost or invented; the session ends |
| `flat_listing_shared` | 2 sessions, 3 paths, TTL 2, listings of 2 entries too large to cache, 1 change | convergence after the last change, with stale listings and late inserts |
| `revalidation` | 2 requests, 2 versions of one length with mtimes 2 and 3 at 2 ticks a second, all TTLs 1, equal identities allowed | no 304 for bytes older than the answer, whatever was cached, ETag collisions and backward mtimes aside; fresh one TTL after the last change |
| `server` | 2 requests, 2 connections, limits 1 and 2, both signals, 2 request ids, a clock that stands still, authentication on | permits exact; a drain cuts nobody before 10 s and ends; slots come back; every id tells one story and ends it |
| `py_gateway` | 2 threads, 2 starts, 2 log lines, 2 attempts a line | no background server of an existing gateway out of reach, none of a tracked one left at exit; lines in order; nothing hangs on the GIL unless a runtime cannot be built |
| `startup` | up to 3 settings on top of a template, from `main` and from Python; 3 roots; keys up to 6 bytes over `/`, `.`, `a` | kill switch, precedence, soundness of what loads; no escape from the root; listed keys are found; the walk starts high enough |

Why these bounds: the cache's invariants relate an operation to at most an inserted, a displaced and an
evicted key; weight 4 exceeds the budget and is refused, weight 0 is an entry that frees nothing. Two
versions and two requests give every order of stat, open, replacement and eviction between a request,
a competitor and a writer; more of each is what the proofs cover. The names for the listings have bytes
just below and above `/` (`-` is 45, `0` is 48) and are prefixes of each other, which is where comparing
without the slash could go wrong; page sizes 1 and 2 put a page end at every place. Six bytes allow
`a/../..`-like combinations to leave a root one level deep. Mtimes 2 and 3 lie in one second, and a
second version may have the smaller one, or the same: the cases a date or an ETag cannot tell apart. A
clock that stands still is the worst case for request ids, which then differ by the counter alone. Two
lines and two attempts let a line be retried, given up and overtaken by none. Three settings reach a
field given by all three sources, and a field with a flag that switches it off.

Every bound is a named constant: `MaxVersion`, `MaxChunk`, `MaxEntries`, `MaxChanges`, `MaxStarts`,
`MaxLines`, `Tries` (50 in the code), `MaxLogged`, `MaxSettings`, `MaxLen`, `MaxMatch`. Deadlock is checked where the system runs on (`cache`, `object_read`, the flat
listings) and off where it may stop: a server that is gone, a client with its last page, a question
answered, a Python process that has ended, a revalidating client that asks no more.

### Fairness

- `TtlCache`: the inserting thread continues in its loop (it never blocks with the mutex held).
- `ObjectRead`, `SortedListing`: a handler whose future is ready is polled; HDFS calls return, with an
  error at worst; a client is done with a response at some time; the clock advances. Nothing forces a
  client to come, a writer to write or an entry to be evicted.
- `Paginate`: the client asks again as long as it gets a token.
- `Revalidation`: `ObjectRead`'s.
- `Server`, `Requests`: the 10 s timer fires, tasks are scheduled, `select!` (which polls its branches in random
  order) sees the signal, handlers answer. Clients need not read: `ShutdownReturns` does not depend on
  them, and `SlotsComeBack` states as its premise that they read or leave.
- `PyGateway`: threads are scheduled and `serve` returns within 10 s of its signal (`ShutdownReturns`).
- `PyProcess`: besides that, Python code lets the GIL go and CPython hands it on to a thread that waits
  for it (hence strong fairness for the forwarding thread and the calls). No failure is counted on.

### Disagreements between the code and its documentation

Three runs are expected to fail, each on what a comment, a test or the README says:

- `py_gateway_stop`: `stop()` without a running gateway is documented as a no-op, but it calls
  `notify_one`, which stores a permit; the next `start()`'s server takes it and shuts down at once.
- `py_gateway_blocking`: `serve_blocking` is documented to return when another thread calls `stop()`.
  It holds the object's shared borrow while it serves, so that `stop()` raises `RuntimeError` instead.
- `revalidation_echo`: the README promises RFC 7232 conditionals; `If-Unmodified-Since` is evaluated
  although `If-Match` matches, and milliseconds are compared with whole seconds, so a client that sends
  back both validators of an unchanged object gets 412.

Met while modelling, and without a run of their own:

- `main.rs:63` announces a drain on SIGTERM and SIGINT; only SIGINT is handled. `Terminate` in `Server`
  kills, and `StartedIsCompleted` has to except it.
- `list_start` returns `None` for the prefixes `.` and `..`, documented as "no key can ever match"
  (`core/path.rs:97`); keys such as `.a` and `..a` do. `ListStartCovers` speaks of the prefixes with a start only.
- The comment on `CachedReader` (`s3/cache.rs:27-29`) says a replaced file can never be served from the
  old block map because the identity is freshly read; the metadata may come from the metadata cache, and
  then the old file is served until that entry expires. `FreshMetadataSuffices` proves the comment right
  when the metadata cache is disabled.
- The comment on `open_reader` (`s3/mod.rs:343-345`) says a failed read evicts the block map and the
  metadata; a read that ends early (`ShortRead`, `s3/mod.rs:231`) fails the request and evicts nothing,
  which is why `ErroredMapDropped` does not list it.
- The Python constructor applies `cache_enabled` after validation (`python/src/lib.rs:260-268`, "matching
  the Rust CLI's flags"), the command line before it: with a listing capacity of zero in the file,
  `--no-cache` starts and `cache_enabled=False` does not. `KillSwitchHolds` and `LoadedIsSound` say for
  which launcher they speak.
- `expose_upstream_errors` is documented as true by default (`config/mod.rs:94`); a TOML file without it
  gives false (`config/mod.rs:98`).
- `config/mod.rs:37` and `main.rs:2-4` say that unsigned requests are accepted with a secret configured;
  `s3/auth.rs` and `s3/server.rs:29-35` say they are rejected. `Refuse` has the rejection, which is what
  s3s does with an authentication provider and no access policy for anonymous requests.
- The README promises RFC 7232 conditionals (`README.md:24`), where `If-Modified-Since` is ignored if
  `If-None-Match` is sent. The code evaluates it anyway (`s3/mod.rs:459-472` and `815-828`): after an
  `If-None-Match` that does not match, a date that is late enough still gives 304, and if the file's mtime
  went back the client is told to keep old bytes. `NotModifiedIsSafe` names this case (`Overruled`) beside
  the ones a validator cannot tell (`Excused`); without it TLC finds the violation.
- "The wait is brief (until bind completes), so we don't need to release the GIL here"
  (`python/src/lib.rs:420-422`): if the runtime cannot be built, the server thread turns the `PyErr` into a
  string (`python/src/lib.rs:356-361`), for which PyO3 attaches to the interpreter, while `start` waits for
  that thread with the GIL. Neither gets on, and no Python thread runs any more. `NothingHangs` excepts this
  case (`Wedged`); without the exception TLC finds it.
- "Track every Gateway started in the background" (`python/hdfs_s3_gateway/__init__.py:37-41`): only the
  factory adds to `_live_gateways`. A `Gateway(...)` made directly, as the docstring of the package does
  (lines 10-21, 223), is not tracked, and the `WeakSet` (line 42) forgets an object that is collected while
  its thread runs. `ExitDrains` speaks of tracked gateways only (`Tracked`), `NoOrphan` of existing ones;
  without these conditions TLC finds a server that the exit kills.
- "In strict UTF-8 binary order, each exactly once" (`s3/sorted_listing.rs:12-13`), and `s3/mod.rs:581-583`
  takes it that the NameNode's `getListing` reports a file like a missing directory. It answers with the
  status of the file. A directory that turns into a file during the walk is then listed as an object after
  keys that follow it, and if a page ends there the next one repeats those. `KeysAscend` asks no order of a session
  that met such an answer (`misled`); without the exception TLC finds the violation. Nothing is lost by it.
- "No log line is dropped" (`python/src/lib.rs:81`); `emit_line` drops a line after 50 attempts
  (`python/src/lib.rs:144-149`). `LinesInOrder` has the set `lost` for them.

### Broken variants

Next to a definition, an operator marked `Mutant` is that definition with a plausible bug: a dropped
guard, a missing release, a wrong comparison. Replacing the definition by it must violate the property
it is listed with in `PROJECT.json`; no specification uses these operators.

## 4. The proofs

**`TtlCacheProofs`**, for all keys, values, weights, capacities, budgets and TTLs (`CacheAssumption`:
weights and the budget are naturals, the capacity is positive, `NoEntry` is neither an entry nor a value).
The inductive invariant `IInv` says that list, map and counter *agree* (`Agree`), that the list is within
the capacity, that the budget holds whenever the mutex is free, and that while it is held the newest
entry is that of the insert and fits the budget by itself (`Youngest`). "The counter is the sum over the list" would need induction over
sequences; `Runs` says it with a running total `p` (each element is the previous one plus an entry's
weight), and `RunsDrop` and `RunsAppend` give the new running total explicitly for a removal anywhere in
the list and for an append. The last part of `IInv` is needed for the eviction loop: with one entry left
the counter is that entry's weight, so the loop has already ended and does not reach the inserted key. From `IInv`: `TypeCorrect`,
`ListAndMapAgree`, `WeightIsExact`, `InsertSurvives`, and `CacheRefinesSlots`, where each action is shown
to be a step of the slot or a stutter for every key. `EvictionFollowsRecency` is an action property: a step
that starts or ends with the mutex held drops the replaced key, which is stored again at once, or the head
of the list, and the list has each key once, so that nothing in front of what is dropped is kept.

**`ObjectReadProofs`**, for any number of requests, versions, lengths and TTLs (`ReadAssumption`: numeric
constants are naturals). `IInv` is the type invariant; `HandlerInv`, what a handler knows at each of its
steps; `CacheInv`, above all that a cached block map is never older than the identity it is labelled
with; `IdentityIsVersion`, that equal (length, mtime) means equal versions, if `DistinctIdentity`; and
`Unshared`, that a request that gives up no longer shares the cached map. The argument for
`BodyNeverOlder`: a map opened for metadata of version v is of version v or later, since the open comes
after the stat; it is cached under the identity of v; a request that reuses it holds metadata of the same
identity, hence of v. From `IInv`: `TypeCorrect`, `BodyNeverOlder` (assuming `DistinctIdentity`),
`WindowSafe`, `BodyExact`, `ErroredMapGone`, and `FreshMetadataSuffices` (assuming `MetadataTtl = 0`).

The module begins with `ResolvedRangeIsExact`, about the operators of `ByteRange`, for files and headers of
any size, one lemma per shape of the header.

The second half of the module is about `Revalidation`, for the same constants and any resolution of HTTP
dates. `ClientReadsObjects`:
the composition takes only steps of `ObjectRead`, so that `IInv` and its theorems hold with a client that
sends preconditions too. On top of `IInv` the argument is about time. `QuietInv`: an entry that is out of
date is at least as old as the quiet that followed the change, because an answer from before the change
keeps the quiet from starting. `FreshInv`: so a request that begins after a full TTL of quiet finds
nothing out of date, and what it learns itself it learns later still. `CopyInv`: the client's bytes are no
older than the ETag they came with. From these: `ConfirmsNothingOld` and `FreshnessBoundedByTtl`. Neither
assumes `DistinctIdentity`; the properties name the ETag collisions, and the backward mtimes under
which a date says 304, instead.

**`RequestsProofs`**, for any connections, limits and clocks and any finite set of requests (`None` is no
id, log or reply). `ServerInv` is an invariant of `Server`'s own steps: free permits and the requests that
hold one make up the limit (`PermitInv`), exactly the handlers and bodies hold one and live on a connection
that is there (`RequestInv`), and `serve` returns before its timer only with no connection served
(`PhaseInv`). `RequestsImplementServer` shows every step of the
handlers to be one of `Server` or a stutter, which carries `ServerInv` over. `LogInv` is about the request
log. That no two ids are equal rests on the counter and not on the clock (`CounterInv`: it is ahead of every
id that was used; `OpenDistinct`: logs under way have ids of their own); `LifeInv`: a log exists only while
its handler runs, a reply only while its response is sent. From these: `TypeCorrect`, `PermitsExact`, `CutsNobodyEarly`,
`LogsAreTrue`.

**`PyProcessProofs`**, for any Python threads, starts, lines and attempts. `GatewayInv` is an invariant of
`PyGateway`: a call that changes the object is alone with it (`Borrowed`), the handle is that of the latest
server thread (`HandleInv`), a collected object has neither calls nor a handle (`CollectedInv`), and a start that is told of an error waits for a thread that has ended
(`ReportInv`). `ProcessImplementsGateway` carries it over to
the process. `ExitInv`: at exit only the main thread still calls, only `stop`, and when it is back a tracked gateway has no server left.
`BridgeInv` says of the delivered, pending and queued lines that they ascend, are disjoint from the lost
ones and together with them are all the lines written; `Good` states this of any such sequences, with one
lemma for each thing the bridge does to them. From these: `TypeCorrect`, `NoThreadEscapes`,
`ExitLeavesNoServer`, `BridgeKeepsOrder`.

**`StartupProofs`**, for any Hadoop options (`StartupAssumption`: an option is not one of the fields with a
meaning of their own) and any settings. `ConfigInv`: the settings are ones their sources can give, and what
is loaded is what `load` makes of them. `ConfigOf` is the configuration before `validate`, `ChoiceOf` is the source that should win for a field; lemmas
show, source by source, that `from_toml`, `from_env`, `overridden` and `switched` together choose it. From
these: `PrecedenceHolds` and `KillSwitchWins`.

The second half is about the path mapper, for keys, prefixes and roots of any length over any bytes
(`PathAssumption`: roots are byte strings, and `None` is not one). `split`, `join` and the loop of
`normalize_abs` are recursive functions. `Induct` gives induction up to a bound from the least
counterexample, and `Iteration` that a function defined by recursion exists; with them `SplitsIs`,
`JoinsIs` and `TakensIs` give back the recursion as equations. Then everything is about lists of segments.
`SplitAtSlash`: splitting `a/b` is splitting `a`, then `b`. `SplitAbsolute`: splitting what was joined gives
the segments back. `TakensConcat` and `KeptPlain`: what `normalize_abs` keeps of one list after another.
`NormalizeType`: its result is made of segments that are neither empty nor dots, and `NormalizeAbsolute`:
such a path it leaves alone. `AbsoluteUnder`: more segments lead below. The invariant `RootInv` says that
the root is in this normal form once `New` has set it. From these: `NoPathEscapes`; `ListedKeysResolve`,
since what is behind the root in a path splits into the path's segments after the root's, which are plain,
so that nothing is trimmed or collapsed on the way back; `WalkCoversPrefix`, since a prefix up to its last
slash is a list of leading segments of every key that matches it.

**`KeyOrderProofs`**, for keys of any length over any bytes. Different keys either part at one place, which
decides their order, or one is a prefix of the other (`Parts`). That such a place exists would be an
induction over the keys; it is taken as the least position at which they differ, from the fact that a
nonempty set of naturals has a least element. From this the order is shown to be total and transitive, and
the six comparisons to be exact: `CmpDirOutputExact`, `CmpFileDirExact`, `CmpDirKeysExact`,
`DirOutputPrefixExact`, `ChildrenBeforeExact`, and `DirsStartExact` for the binary search in
`dirs_start_after`.

**`PaginateProofs`**, for listings, prefixes, markers, delimiters and page sizes of any kind
(`PaginateAssumption`: keys and delimiters are bytes, the names to choose from are finitely many). `ListingInv`:
the arrays are sorted, and with the delimiter `/` they hold the children of one directory, of which no two
are inside each other. `MergeInv`: in the merge loop the page and what the two cursors have left are together
what `paginate` lists after the marker, and every key of the page sorts before every key that is left. So
wherever the loop ends the page is the first `size` of `paginate`'s keys, whose number is counted with the
cardinalities of sets of smaller keys (`PageInv`). `MarkerInv` and `GotInv`: between the pages the client has
exactly what sorts up to the marker, and the marker moves forward only. From these: `SlashIsPaginate`,
`PagesPartition`. `ComparisonsHold` and `PruningHolds` are `KeyOrderProofs`' theorems for what the listing
holds.

**`SortedListingProofs`**, for any finite namespace, sessions, prefixes, markers, page sizes, TTLs and any
number of changes, with a directory cache or without (`ListingAssumption`: the paths are a tree of keys
without empty names). `ListingOK`: a listing that is cached, on its way or being merged is sorted, has only
entries of its directory and only files of `ever`, and every file of `always` below the directory is in it
or under one of its directories. `HeapOK`: no two cursors of a kind are at children of the same directory, so that the fronts differ and the
least is strictly least, and the directory a front was found in sorts before the whole frontier.
`PendingOK`: so does a directory that has been popped and is about to be listed. With `MergeInv`, the page is
below the frontier, and the keys ascend.
`CoverInv`: a file of `always` that is wanted and not yet given is still reachable from a cursor or from
the directory in hand. From these: `PagesAscend`, `ListsOnlyFiles`, `LosesNothing`. `IInv` holds, and the three
theorems speak, as long as `misled` is empty: the status of a file in the place of a listing breaks `ListingOK`.
For sessions that go on after such an answer `NothingLost`, `NothingInvented` and the part of `KeysAscend`
about the request are model-checked (`flat_listing`).

Only model-checked:

- All liveness properties (`InsertReturns`, `StalenessEnds`, `PagingEnds`, `SessionEnds`,
  `ListingsConverge`, `ShutdownReturns`, `SlotsComeBack`, `StartedIsCompleted`, `NothingHangs`): liveness
  under fairness is out of the prover's reach.
- What the runs with an expected violation show: they are counterexamples.

Recursive operators and the library's induction theorems are out of the provers' reach; the models have
recursive functions instead, and the proofs take least counterexamples. The bounds of the runs (`MaxLen`,
`MaxVersion` and the others) remain in the specifications as arbitrary naturals.

## 5. Not modelled

- The HDFS client and its wire protocol, hyper, tokio, PyO3 and `lru` are external: they appear as the
  calls the code makes.
- The encoding of continuation tokens (base64): the models carry the key itself.
- The guess of a content type, the text of messages, the parsing of TOML and of addresses: of these the
  models keep whether they succeed.
- The panic hook of the Python bindings, and several `Gateway` objects in one process: `PyProcess` has one.
- Delimiters of more than one byte: `Paginate` has one-byte delimiters.
- What the answers of the operations say: `Requests` lists them as the code does, but its properties tell
  only success from failure.
- Limits that s3s itself puts on headers and bodies.
- The identity of two versions with equal length and modification time is not assumed away everywhere:
  `revalidation` allows such versions and states what remains true, while `object_read` and the theorem
  `BodyNeverOlder` assume `DistinctIdentity`, the limit the code documents for its ETags.

## 6. Plan

Done: the inventory, the modules above and their runs, and theorems for every safety property of the
passing runs. Left, in this order:

1. An abstract specification of a paged listing (ascending, complete over what stayed) that
   `SortedListing` and `Paginate` both implement; today each states it as invariants of its own.
2. `PyProcess` composed with `Server`: `stop` against the drain and its timer.
3. Several `Gateway` objects in one Python process, which share the log bridge and the atexit hook.
