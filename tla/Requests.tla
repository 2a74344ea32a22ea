------------------------------ MODULE Requests ------------------------------
(***************************************************************************)
(* s3/mod.rs, s3/write_policy.rs, s3/error.rs, s3/auth.rs: what happens to *)
(* a request between the permit and the response of Server.  s3s checks    *)
(* the signature and looks for a handler; the handler opens a RequestLog,  *)
(* which mints the request id and writes the "request started" line,       *)
(* decides, and drops it, which writes "request completed" - also when     *)
(* nobody waits for the answer any more.                                   *)
(***************************************************************************)
EXTENDS Server, Sequences

CONSTANTS Micros,      \* readings of the system clock; it may jump
          MaxLogged,   \* bound: request ids minted by the process
          auth_secret, \* a shared secret is configured
          None

VARIABLES seq,     \* REQUEST_SEQ
          log,     \* per request: its RequestLog
          reply,   \* per request: the id on its response and whether it succeeded
          trail    \* per id: the lines logged and the responses sent with it

allVars == <<vars, seq, log, reply, trail>>
logVars == <<seq, log, reply, trail>>

Id == Micros \X (0..(MaxLogged - 1))

RequestLog == [micros : Micros, id : Id \cup {None}]
Reply == [id : Id \cup {None}, ok : BOOLEAN]

ASSUME RequestsAssumption ==
  /\ MaxLogged \in Nat /\ auth_secret \in BOOLEAN
  /\ None \notin Id \cup RequestLog \cup Reply

\* A log that has read the clock but not yet the counter, and a complete one.
Minting == {r \in Req : log[r] # None /\ log[r].id = None}
Open == {r \in Req : log[r] # None /\ log[r].id # None}

Line(i, event) == [trail EXCEPT ![i] = Append(@, event)]

-----------------------------------------------------------------------------
(* What the handlers answer.                                               *)

\* Java exceptions, as an RPCError carries them, by what the gateway takes them for.
is_access_denied(e) ==
  e \in {"AccessControlException", "AuthorizationException", "AccessDeniedException",
         "PermissionDeniedException", "PermissionDenied"}
is_unavailable(e) == e \in {"StandbyException", "SafeModeException"}

\* The errors of hdfs-native that are told apart, and one for the rest.
HdfsError ==
  {"FileNotFound", "IsADirectoryError", "InvalidPath", "InvalidArgument",
   "UnsupportedFeature", "UnsupportedErasureCodingPolicy", "SASLError", "GSSAPIError",
   "NoSASLMechanism", "AccessControlException", "AuthorizationException",
   "AccessDeniedException", "PermissionDeniedException", "PermissionDenied",
   "StandbyException", "SafeModeException", "another"}

map_hdfs_error(e) ==
  CASE e \in {"FileNotFound", "IsADirectoryError", "InvalidPath"} -> "NoSuchKey"
    [] e = "InvalidArgument" -> "InvalidArgument"
    [] e \in {"UnsupportedFeature", "UnsupportedErasureCodingPolicy"} -> "NotImplemented"
    [] e \in {"SASLError", "GSSAPIError", "NoSASLMechanism"} -> "AccessDenied"
    [] is_access_denied(e) -> "AccessDenied"
    [] is_unavailable(e) -> "ServiceUnavailable"
    [] OTHER -> "InternalError"

Upstream(errors) == {map_hdfs_error(e) : e \in errors}

\* Write-shaped operations are refused, bucket-configuration probes answered.
write_denied == {"AccessDenied"}
not_configured == {"OK"}

put_object == write_denied
get_bucket_versioning == not_configured

head_bucket == {"OK", "NoSuchBucket"}
list_buckets == {"OK"}

\* A missing start directory is an empty listing.
list_objects_v2 ==
  {"OK", "NoSuchBucket", "InvalidArgument", "InvalidToken"}
    \cup Upstream(HdfsError \ {"FileNotFound"})

head_object ==
  {"OK", "NoSuchBucket", "NoSuchKey", "PreconditionFailed", "NotModified"}
    \cup Upstream(HdfsError)

\* InternalError: the file shrank.
get_object == head_object \cup {"InvalidRange", "InternalError"}

Answers == put_object \cup get_bucket_versioning \cup head_bucket \cup list_buckets
             \cup list_objects_v2 \cup head_object \cup get_object

-----------------------------------------------------------------------------
(* A handler.                                                              *)

\* s3s answers by itself, without a log or an id: a signature that is missing or
\* wrong, or an operation the gateway does not implement.
Refuse(r, why) ==
  /\ why = "signature" => auth_secret
  /\ log[r] = None
  /\ Respond(r)
  /\ reply' = [reply EXCEPT ![r] = [id |-> None, ok |-> FALSE]]
  /\ UNCHANGED <<seq, log, trail>>

\* The handler is called; new_request_id reads the clock ...
Enter(r) ==
  /\ req[r].pc = "handling"
  /\ log[r] = None
  /\ seq + Cardinality(Minting) < MaxLogged
  /\ \E t \in Micros : log' = [log EXCEPT ![r] = [micros |-> t, id |-> None]]
  /\ UNCHANGED <<vars, seq, reply, trail>>

\* Mutant: the id is the time alone.
MintFromClock(r) ==
  LET i == <<log[r].micros, 0>> IN
  /\ r \in Minting
  /\ seq' = seq + 1
  /\ log' = [log EXCEPT ![r].id = i]
  /\ trail' = Line(i, "started")
  /\ UNCHANGED <<vars, reply>>

\* ... and takes a number; "request started" is logged.
Mint(r) ==
  LET i == <<log[r].micros, seq>> IN
  /\ r \in Minting
  /\ seq' = seq + 1
  /\ log' = [log EXCEPT ![r].id = i]
  /\ trail' = Line(i, "started")
  /\ UNCHANGED <<vars, reply>>

\* The handler returns.  A success passes with_request_id, which marks the log; an
\* error passes attach, which does not.  Both put the id on the response, and the
\* log is dropped before the response's body is sent.
Answer(r) ==
  /\ r \in Open
  /\ Respond(r)
  /\ \E ok \in {code = "OK" : code \in Answers} :
       /\ reply' = [reply EXCEPT ![r] = [id |-> log[r].id, ok |-> ok]]
       /\ trail' = Line(log[r].id, IF ok THEN "completed" ELSE "failed")
  /\ log' = [log EXCEPT ![r] = None]
  /\ UNCHANGED seq

-----------------------------------------------------------------------------
(* A response goes; a handler is dropped where it stands.                  *)

\* Mutant: the completion line is written on return only.
DropSilent(R) ==
  /\ log' = [r \in Req |-> IF r \in R THEN None ELSE log[r]]
  /\ UNCHANGED trail

\* Drop for RequestLog: "request completed" with ok = false.
Drop(R) ==
  /\ log' = [r \in Req |-> IF r \in R THEN None ELSE log[r]]
  /\ trail' = [i \in Id |-> IF \E r \in R \cap Open : log[r].id = i
                              THEN Append(trail[i], "failed") ELSE trail[i]]

\* The requests that a step of Server ends.
Ended == {r \in Req : req[r].pc # "free" /\ req'[r].pc = "free"}

Ends ==
  /\ Drop(Ended)
  /\ reply' = [r \in Req |-> IF r \in Ended THEN None ELSE reply[r]]
  /\ UNCHANGED seq

Leave(c) == Disconnect(c) /\ Ends
Break(r) == Fail(r) /\ Ends
Sent(r) == Finish(r) /\ Ends
Shut == Exit /\ Ends

\* A killed process writes nothing more.
Kill ==
  /\ Terminate
  /\ log' = [r \in Req |-> None] /\ reply' = [r \in Req |-> None]
  /\ UNCHANGED <<seq, trail>>

\* The steps that concern no handler.
Around ==
  /\ \/ \E c \in Conn : Connect(c) \/ Accept(c) \/ Notice(c) \/ Close(c)
     \/ \E c \in Conn, r \in Req : Call(r, c)
     \/ \E r \in Req : BodyEnd(r)
     \/ Interrupt \/ BeginDrain \/ Drained \/ DrainExpires
  /\ UNCHANGED logVars

-----------------------------------------------------------------------------
RequestsInit ==
  /\ Init
  /\ seq = 0
  /\ log = [r \in Req |-> None]
  /\ reply = [r \in Req |-> None]
  /\ trail = [i \in Id |-> <<>>]

Handle(r) ==
  \/ \E why \in {"signature", "operation"} : Refuse(r, why)
  \/ Enter(r) \/ Mint(r) \/ Answer(r)

RequestsNext ==
  \/ \E r \in Req : Handle(r) \/ Break(r) \/ Sent(r)
  \/ \E c \in Conn : Leave(c)
  \/ Around \/ Shut \/ Kill

\* Server's fairness: handlers answer, tasks are scheduled, the timer runs.
RequestsFairness ==
  /\ WF_allVars(BeginDrain /\ UNCHANGED logVars)
  /\ WF_allVars(DrainExpires /\ UNCHANGED logVars)
  /\ WF_allVars(Shut)
  /\ \A c \in Conn : WF_allVars((Notice(c) \/ Close(c)) /\ UNCHANGED logVars)
  /\ \A r \in Req : WF_allVars(Handle(r))

RequestsSpec == RequestsInit /\ [][RequestsNext]_allVars /\ RequestsFairness
-----------------------------------------------------------------------------
\* What the log may hold under one id.
Trails == {<<>>, <<"started">>, <<"started", "completed">>, <<"started", "failed">>}

\* An id stands for one request: its two lines come in order and once each, an
\* open log has only the first, a response carries the id of a finished trail
\* that says what the client is told, and no two requests share an id.
LogTellsTheStory ==
  /\ \A i \in Id : trail[i] \in Trails
  /\ \A r \in Open : trail[log[r].id] = <<"started">>
  /\ \A r \in Req : reply[r] # None /\ reply[r].id # None =>
       trail[reply[r].id] = <<"started", IF reply[r].ok THEN "completed" ELSE "failed">>
  /\ \A r, s \in Req : r # s /\ reply[r] # None /\ reply[s] # None =>
       reply[r].id = None \/ reply[r].id # reply[s].id

\* Every request that was logged as started is logged as completed, also if its
\* client leaves, its handler fails or the drain gives up on it; only a signal
\* nobody handles prevents it.
StartedIsCompleted ==
  \A i \in Id : trail[i] = <<"started">> ~> (Len(trail[i]) = 2 \/ phase = "killed")
=============================================================================
