---------------------------- MODULE Revalidation ----------------------------
(***************************************************************************)
(* The conditional headers of HeadObject and GetObject (s3/mod.rs) and the *)
(* ETag and Last-Modified they are compared with (core/metadata.rs), on    *)
(* top of ObjectRead: one of the requests is that of a client which keeps  *)
(* a copy of the object and revalidates it; the others are its             *)
(* competitors for the caches.                                             *)
(*                                                                         *)
(* ObjectRead leaves open whether a precondition stops a request; here the *)
(* client's headers and the metadata the handler holds decide.             *)
(***************************************************************************)
EXTENDS ObjectRead

CONSTANTS Client,      \* the revalidating client's request
          PerSecond,   \* ticks of the modification time (milliseconds) in a second
          NoCopy

ASSUME RevalidationAssumption == Client \in Req /\ PerSecond \in Nat \ {0}

VARIABLES copy,      \* the client's copy: the version in its headers, and of its bytes
          verdict,   \* the precondition that stopped the client's request
          quiet,     \* history: ticks since the caches could last learn old news
          late       \* history: the client's request began after such a time, and
                     \* nothing has changed since

allVars == <<vars, copy, verdict, quiet, late>>

\* if_match, if_unmodified_since, if_none_match, if_modified_since: absent, "*",
\* or what the gateway sent with the copy, if there is one.
Headers ==
  LET given == IF copy = NoCopy THEN {"none"} ELSE {"none", "mine"}
  IN  [im : given \cup {"any"}, ius : given, inm : given \cup {"any"}, ims : given]

-----------------------------------------------------------------------------
(* Validators.                                                             *)

\* ObjectMetadata::etag without a checksum: fallback_etag(length, mtime).
etag(v) == <<hist[v].len, hist[v].mtime>>

\* An HTTP date has whole seconds: what the client can echo of Last-Modified.
HttpDate(v) == (hist[v].mtime \div PerSecond) * PerSecond

\* Mutant: the modification time is compared in seconds, as the client got it.
last_modified_seconds(v) == HttpDate(v)

\* millis_to_timestamp: to the millisecond.
last_modified(v) == hist[v].mtime

\* If-Match, If-Unmodified-Since (412), If-None-Match, If-Modified-Since (304), in
\* this order, on the metadata of version v.  If-Modified-Since is evaluated even if
\* an If-None-Match was sent and does not match: then it overrules the ETag.
Evaluate(h, v) ==
  IF h.im = "mine" /\ etag(v) # etag(copy.ver) THEN "412 etag"
  ELSE IF h.ius = "mine" /\ last_modified(v) > HttpDate(copy.ver) THEN "412 date"
  ELSE IF h.inm = "any" THEN "304 any"
  ELSE IF h.inm = "mine" /\ etag(v) = etag(copy.ver) THEN "304 etag"
  ELSE IF h.ims = "mine" /\ last_modified(v) <= HttpDate(copy.ver)
         THEN IF h.inm = "none" THEN "304 date" ELSE "304 overruled"
  ELSE "none"

-----------------------------------------------------------------------------
(* The client's request, step by step with ObjectRead's.                   *)

\* The stat a request waits for was answered before the latest change.
OldNews == \E r \in Req : At(r, "stated") /\ req[r].ans \notin {0, Cur}

Longest == IF MetadataTtl > NegativeTtl THEN MetadataTtl ELSE NegativeTtl

Begin(r) ==
  /\ Start(r)
  /\ late' = IF r = Client THEN quiet = Longest ELSE late
  /\ UNCHANGED <<copy, verdict, quiet>>

\* The client's request reaches its preconditions on a file.
Judged(r) == r = Client /\ hist[req[r].ver].kind = "file"

\* head_object: 304 or 412, or the object's headers.
DecideHead(r) ==
  /\ AnswerHead(r)
  /\ IF Judged(r)
       THEN /\ verdict' \in {Evaluate(h, req[r].ver) : h \in Headers}
            /\ req'[r].res = IF verdict' = "none" THEN "head" ELSE "NotServed"
       ELSE UNCHANGED verdict
  /\ UNCHANGED <<copy, quiet, late>>

\* get_object: 304 or 412, or else 416 for its range.
DecideEarly(r) ==
  /\ AnswerEarly(r)
  /\ IF Judged(r) THEN verdict' \in {Evaluate(h, req[r].ver) : h \in Headers}
                  ELSE UNCHANGED verdict
  /\ UNCHANGED <<copy, quiet, late>>

\* get_object past its preconditions.
DecideGet(r) ==
  /\ LookupBlocks(r)
  /\ Judged(r) => \E h \in Headers : Evaluate(h, req[r].ver) = "none"
  /\ UNCHANGED <<copy, verdict, quiet, late>>

Proceed(r) ==
  /\ \/ CheckNegative(r) \/ StatAnswer(r) \/ StatReply(r) \/ DropUnmatched(r)
     \/ OpenAnswer(r) \/ OpenReply(r) \/ CheckWindow(r)
     \/ EvictBlocks(r) \/ EvictMetadata(r)
     \/ Chunk(r) \/ StreamError(r) \/ StreamEof(r) \/ StreamEnd(r)
  /\ UNCHANGED <<copy, verdict, quiet, late>>

\* A whole body replaces the copy, a 404 ends it, anything else leaves it.
Learnt ==
  LET q == req[Client] IN
  IF q.res = "complete" /\ q.want = hist[q.ver].len THEN [ver |-> q.ver, bytes |-> q.map]
  ELSE IF q.res = "NoSuchKey" THEN NoCopy ELSE copy

Over(r) ==
  /\ Finish(r)
  /\ IF r = Client THEN copy' = Learnt /\ verdict' = "none" /\ late' = FALSE
                   ELSE UNCHANGED <<copy, verdict, late>>
  /\ UNCHANGED quiet

GiveUp(r) ==
  /\ Cancel(r)
  /\ late' = (r # Client /\ late)
  /\ UNCHANGED <<copy, verdict, quiet>>

-----------------------------------------------------------------------------
(* The environment.                                                        *)

Change == Write /\ quiet' = 0 /\ late' = FALSE /\ UNCHANGED <<copy, verdict>>

Forget ==
  /\ LoseMetadata \/ LoseNegative \/ LoseBlocks
  /\ UNCHANGED <<copy, verdict, quiet, late>>

Clock ==
  /\ Tick
  /\ quiet' = IF OldNews THEN 0 ELSE IF quiet < Longest THEN quiet + 1 ELSE quiet
  /\ UNCHANGED <<copy, verdict, late>>

-----------------------------------------------------------------------------
ClientInit ==
  /\ Init
  /\ copy = NoCopy /\ verdict = "none" /\ quiet = 0 /\ late = FALSE

Work(r) == DecideHead(r) \/ DecideEarly(r) \/ DecideGet(r) \/ Proceed(r)

ClientNext ==
  \/ \E r \in Req : Begin(r) \/ Work(r) \/ Over(r) \/ GiveUp(r)
  \/ Change \/ Forget \/ Clock

\* ObjectRead's fairness.
ClientFairness ==
  /\ WF_allVars(Clock)
  /\ \A r \in Req : WF_allVars(Work(r)) /\ WF_allVars(Over(r))

ClientSpec == ClientInit /\ [][ClientNext]_allVars /\ ClientFairness
-----------------------------------------------------------------------------
(* Properties.                                                             *)

Files == {v \in 1..Cur : hist[v].kind = "file"}

\* Two versions that (length, mtime) does not tell apart: the limitation that
\* fallback_etag documents.
Collision == \E v, w \in Files : v # w /\ SameIdentity(v, w)

\* A file replaced by one that is not younger (a rename or a restore keeps the
\* modification time).
ClockWentBack == \E v, w \in Files : v < w /\ hist[w].mtime <= hist[v].mtime

\* What a 304 is not to be blamed for: equal ETags and, if there is nothing but a
\* date to go by, equal or backward dates.
Excused == Collision \/ (verdict = "304 date" /\ ClockWentBack)

\* What the code is to be blamed for: with a backward date it answers 304 against an
\* If-None-Match that does not match, where RFC 7232 has the date ignored.
Overruled == verdict = "304 overruled" /\ ClockWentBack

Confirmed == At(Client, "done") /\ verdict \in {"304 etag", "304 date", "304 overruled"}

\* A 304 tells a client to keep bytes older than the version the gateway answers for
\* in three cases only, whichever validators it sent and whatever the caches hold:
\* the collisions of fallback_etag; dates alone, when a file got no younger; and the
\* same dates overruling an ETag that shows the change, which no client can expect.
NotModifiedIsSafe ==
  Confirmed => copy.bytes >= req[Client].ver \/ Excused \/ Overruled

\* "Freshness is bounded by these TTLs": a request that begins a TTL after the
\* last change is answered as if nothing were cached, unless a stat from before
\* the change was still on its way meanwhile.
FreshAfterTtl ==
  late /\ At(Client, "done") /\ req[Client].born = Cur => Accurate(Client) \/ Collision

\* "honors RFC 7232 conditionals": a client whose copy is current and who sends
\* back the ETag and the Last-Modified that came with it is not refused.
EchoedValidatorsPass ==
  At(Client, "done") /\ verdict = "412 date" => etag(req[Client].ver) # etag(copy.ver)
=============================================================================
