------------------------------- MODULE Server -------------------------------
(***************************************************************************)
(* s3/backpressure.rs, s3/server.rs and main.rs: connections, the permits  *)
(* that cap the requests in flight, and the shutdown that drains them.     *)
(*                                                                         *)
(* A request holds its permit from BackpressureService::call until its     *)
(* PermitBody reaches the end of the stream or is dropped.  A connection   *)
(* may carry several requests at a time (HTTP/2); hyper's connection tasks *)
(* run concurrently with the accept loop and, after it, with the drain.    *)
(***************************************************************************)
EXTENDS Naturals, FiniteSets

CONSTANTS Conn,            \* client connections
          Req,             \* request slots
          Limits,          \* values of config.max_concurrent_requests
          Signals          \* the signals the operator sends

ASSUME ServerAssumption ==
  /\ IsFiniteSet(Req)
  /\ Limits \subseteq Nat
  /\ Signals \subseteq {"SIGINT", "SIGTERM"}

VARIABLES limit,      \* the configured limit
          phase,      \* of serve: "accepting", "draining", "returned"; then "gone",
                      \* or "killed" by a signal nobody handles
          signalled,  \* the shutdown future is ready
          expired,    \* serve gave up waiting after 10 s
          conn,       \* per connection: "closed", "queued", "open", "closing"
          req,        \* per request: where it is, on which connection, its permit
          sem,        \* permits the semaphore has left
          cut         \* the process ended while requests were in flight

vars == <<limit, phase, signalled, expired, conn, req, sem, cut>>

\* Semaphore::new(max_concurrent.max(1)); Config::validate rejects zero before.
Cap == IF limit = 0 THEN 1 ELSE limit

NoConn == "none"

Free == [pc |-> "free", on |-> NoConn, permit |-> FALSE]

On(c) == {r \in Req : req[r].on = c}

\* Requests whose handler or body is running on the server's account.
InFlight == {r \in Req : req[r].pc \in {"handling", "body"}}

Holding == {r \in Req : req[r].permit}

\* The requests of R are dropped, and their permits with them.
Dropped(R) ==
  /\ req' = [r \in Req |-> IF r \in R THEN Free ELSE req[r]]
  /\ sem' = sem + Cardinality(R \cap Holding)

-----------------------------------------------------------------------------
(* Connections.                                                            *)

Connect(c) ==
  /\ phase \in {"accepting", "draining"}
  /\ conn[c] = "closed"
  /\ conn' = [conn EXCEPT ![c] = "queued"]
  /\ UNCHANGED <<limit, phase, signalled, expired, req, sem, cut>>

\* One round of the accept loop; a failed accept changes nothing.
Accept(c) ==
  /\ phase = "accepting"
  /\ conn[c] = "queued"
  /\ conn' = [conn EXCEPT ![c] = "open"]
  /\ UNCHANGED <<limit, phase, signalled, expired, req, sem, cut>>

\* The client goes away: hyper drops the connection's handlers and bodies.
Disconnect(c) ==
  /\ conn[c] # "closed"
  /\ conn' = [conn EXCEPT ![c] = "closed"]
  /\ Dropped(On(c))
  /\ UNCHANGED <<limit, phase, signalled, expired, cut>>

\* The connection learns of the drain: it takes no further request.
Notice(c) ==
  /\ phase = "draining"
  /\ conn[c] = "open"
  /\ conn' = [conn EXCEPT ![c] = "closing"]
  /\ UNCHANGED <<limit, phase, signalled, expired, req, sem, cut>>

Close(c) ==
  /\ conn[c] = "closing"
  /\ On(c) = {}
  /\ conn' = [conn EXCEPT ![c] = "closed"]
  /\ UNCHANGED <<limit, phase, signalled, expired, req, sem, cut>>

-----------------------------------------------------------------------------
(* Requests.                                                               *)

\* try_acquire_owned: the handler starts with a permit, or a 503 SlowDown is
\* sent without one.
Call(r, c) ==
  /\ conn[c] = "open"
  /\ req[r].pc = "free"
  /\ \/ /\ sem > 0
        /\ req' = [req EXCEPT ![r] = [pc |-> "handling", on |-> c, permit |-> TRUE]]
        /\ sem' = sem - 1
     \/ /\ sem = 0
        /\ req' = [req EXCEPT ![r] = [pc |-> "slowdown", on |-> c, permit |-> FALSE]]
        /\ UNCHANGED sem
  /\ UNCHANGED <<limit, phase, signalled, expired, conn, cut>>

\* Mutant: the permit stays behind in call and is dropped with the handler.
RespondReleasing(r) ==
  /\ req[r].pc = "handling"
  /\ req' = [req EXCEPT ![r].pc = "body", ![r].permit = FALSE]
  /\ sem' = sem + 1
  /\ UNCHANGED <<limit, phase, signalled, expired, conn, cut>>

\* Mutant: the body does not take the permit over but acquires one of its own.
RespondWaits(r) ==
  /\ req[r].pc = "handling"
  /\ sem > 0
  /\ req' = [req EXCEPT ![r].pc = "body"]
  /\ UNCHANGED <<limit, phase, signalled, expired, conn, sem, cut>>

\* The response is built; its body takes the permit over.
Respond(r) ==
  /\ req[r].pc = "handling"
  /\ req' = [req EXCEPT ![r].pc = "body"]
  /\ UNCHANGED <<limit, phase, signalled, expired, conn, sem, cut>>

\* inner.call fails: the future ends and the permit with it.
Fail(r) ==
  /\ req[r].pc = "handling"
  /\ Dropped({r})
  /\ UNCHANGED <<limit, phase, signalled, expired, conn, cut>>

\* poll_frame returns None: release() before hyper drops the body.
BodyEnd(r) ==
  /\ req[r].pc = "body"
  /\ req' = [req EXCEPT ![r].pc = "ended", ![r].permit = FALSE]
  /\ sem' = sem + 1
  /\ UNCHANGED <<limit, phase, signalled, expired, conn, cut>>

\* The response is sent (hyper need not poll a body of known length to its None)
\* and dropped.
Finish(r) ==
  /\ req[r].pc \in {"slowdown", "body", "ended"}
  /\ Dropped({r})
  /\ UNCHANGED <<limit, phase, signalled, expired, conn, cut>>

-----------------------------------------------------------------------------
(* Shutdown.                                                               *)

\* main waits for ctrl_c, that is SIGINT.
Interrupt ==
  /\ "SIGINT" \in Signals
  /\ phase \in {"accepting", "draining"}
  /\ ~signalled
  /\ signalled' = TRUE
  /\ UNCHANGED <<limit, phase, expired, conn, req, sem, cut>>

\* Nothing handles SIGTERM: the default action ends the process.
Terminate ==
  /\ "SIGTERM" \in Signals
  /\ phase \in {"accepting", "draining"}
  /\ phase' = "killed"
  /\ cut' = (InFlight # {})
  /\ conn' = [c \in Conn |-> "closed"]
  /\ Dropped(Req)
  /\ UNCHANGED <<limit, signalled, expired>>

\* select! in the accept loop sees the shutdown future.
BeginDrain ==
  /\ phase = "accepting"
  /\ signalled
  /\ phase' = "draining"
  /\ UNCHANGED <<limit, signalled, expired, conn, req, sem, cut>>

\* Mutant: idle or not, the connections are not waited for.
DrainedAnyway ==
  /\ phase = "draining"
  /\ phase' = "returned"
  /\ UNCHANGED <<limit, signalled, expired, conn, req, sem, cut>>

\* graceful.shutdown(): every watched connection is closed.
Drained ==
  /\ phase = "draining"
  /\ \A c \in Conn : conn[c] \in {"closed", "queued"}
  /\ phase' = "returned"
  /\ UNCHANGED <<limit, signalled, expired, conn, req, sem, cut>>

\* Mutant: there is no timer.
DrainExpiresNever == FALSE /\ UNCHANGED vars

\* sleep(10 s) wins.
DrainExpires ==
  /\ phase = "draining"
  /\ phase' = "returned"
  /\ expired' = TRUE
  /\ UNCHANGED <<limit, signalled, conn, req, sem, cut>>

\* serve's caller returns; the runtime goes, with the tasks and the listener.
Exit ==
  /\ phase = "returned"
  /\ phase' = "gone"
  /\ cut' = (InFlight # {})
  /\ conn' = [c \in Conn |-> "closed"]
  /\ Dropped(Req)
  /\ UNCHANGED <<limit, signalled, expired>>

-----------------------------------------------------------------------------
Init ==
  /\ limit \in Limits
  /\ phase = "accepting"
  /\ signalled = FALSE /\ expired = FALSE /\ cut = FALSE
  /\ conn = [c \in Conn |-> "closed"]
  /\ req = [r \in Req |-> Free]
  /\ sem = Cap

Client == \E c \in Conn : Connect(c) \/ Disconnect(c) \/ \E r \in Req : Call(r, c)

Next ==
  \/ Client
  \/ \E c \in Conn : Accept(c) \/ Notice(c) \/ Close(c)
  \/ \E r \in Req : Respond(r) \/ Fail(r) \/ BodyEnd(r) \/ Finish(r)
  \/ Interrupt \/ Terminate \/ BeginDrain \/ Drained \/ DrainExpires \/ Exit

\* Handlers answer, the timer runs, tasks are scheduled, and main's select! sees
\* the signal sooner or later (it polls in random order).  Clients need not read.
ServerFairness ==
  /\ WF_vars(BeginDrain) /\ WF_vars(DrainExpires) /\ WF_vars(Exit)
  /\ \A c \in Conn : WF_vars(Notice(c)) /\ WF_vars(Close(c))
  /\ \A r \in Req : WF_vars(Respond(r))

Spec == Init /\ [][Next]_vars /\ ServerFairness
-----------------------------------------------------------------------------
TypeOK ==
  /\ limit \in Limits
  /\ phase \in {"accepting", "draining", "returned", "gone", "killed"}
  /\ signalled \in BOOLEAN /\ expired \in BOOLEAN /\ cut \in BOOLEAN
  /\ conn \in [Conn -> {"closed", "queued", "open", "closing"}]
  /\ req \in [Req -> [pc : {"free", "handling", "body", "ended", "slowdown"},
                      on : Conn \cup {NoConn}, permit : BOOLEAN]]
  /\ sem \in 0..Cap

\* Permits are neither lost nor multiplied by any mix of responses, failures, ends
\* of streams, drops and disconnects: the requests in flight, the bodies a client
\* is still reading included, hold exactly the permits that are out.  So at most
\* Cap are in flight, and a request is refused only while Cap of them are.
PermitsAccounted ==
  /\ Holding = InFlight
  /\ sem + Cardinality(InFlight) = Cap

\* serve returns under requests in flight only after waiting 10 s for them.
CutOnlyAfterTimeout == cut /\ phase = "gone" => expired

\* A signalled server stops, even if a client never reads its response.
ShutdownReturns == signalled ~> phase \in {"gone", "killed"}

\* Every client that is being answered reads to the end or leaves, sooner or later.
PatientClients ==
  \A r \in Req : []<>(req[r].pc \notin {"body", "ended", "slowdown"})

\* Refusing does not last: if clients are patient, a full server has a slot
\* again.
SlotsComeBack == PatientClients => (sem = 0 ~> sem > 0)
=============================================================================
