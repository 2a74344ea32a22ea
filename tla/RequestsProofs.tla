--------------------------- MODULE RequestsProofs ---------------------------
(***************************************************************************)
(* Permits, drain and request log for any number of connections, requests  *)
(* and permits, under any signals and any clock.                           *)
(*                                                                         *)
(* The server's part of the argument does not look at the handlers: it is  *)
(* an invariant of Server's own steps, and RequestsImplementServer carries *)
(* it over.  The log's part adds where in a request's life its RequestLog  *)
(* and its response can exist, and that the counter is ahead of every id.  *)
(***************************************************************************)
EXTENDS Requests, FiniteSetTheorems, SequenceTheorems, TLAPS

Request == [pc : {"free", "handling", "body", "ended", "slowdown"},
            on : Conn \cup {NoConn}, permit : BOOLEAN]

Types ==
  /\ limit \in Limits
  /\ phase \in {"accepting", "draining", "returned", "gone", "killed"}
  /\ signalled \in BOOLEAN /\ expired \in BOOLEAN /\ cut \in BOOLEAN
  /\ conn \in [Conn -> {"closed", "queued", "open", "closing"}]
  /\ req \in [Req -> Request]
  /\ sem \in Nat

\* Handlers and bodies hold a permit, nothing else does; a request lives on a
\* connection that is there.
RequestInv ==
  \A r \in Req :
     /\ req[r].permit <=> req[r].pc \in {"handling", "body"}
     /\ req[r].pc # "free" => /\ req[r].on \in Conn
                              /\ conn[req[r].on] \in {"open", "closing"}

PermitInv == sem + Cardinality(Holding) = Cap

\* serve returns before its timer only when no connection is served any more, and
\* then none is accepted; nothing is cut before the process ends.
PhaseInv ==
  /\ phase = "returned" /\ ~expired => \A c \in Conn : conn[c] \in {"closed", "queued"}
  /\ phase \in {"accepting", "draining", "returned"} => ~cut
  /\ CutOnlyAfterTimeout

\* The inductive invariant of Server.
ServerInv == Types /\ RequestInv /\ PermitInv /\ PhaseInv

-----------------------------------------------------------------------------
(* Permits.                                                                *)

\* The semaphore has at least one permit, and sets of requests can be counted.
LEMMA Counting ==
  ASSUME Types
  PROVE  /\ Cap \in Nat
         /\ \A S \in SUBSET Req : IsFiniteSet(S) /\ Cardinality(S) \in Nat
<1>1. Cap \in Nat
  BY ServerAssumption DEF Types, Cap
<1>2. ASSUME NEW S \in SUBSET Req PROVE IsFiniteSet(S) /\ Cardinality(S) \in Nat
  BY FS_Subset, FS_CardinalityType, ServerAssumption
<1> QED BY <1>1, <1>2

\* Dropping any set of requests gives back exactly the permits they held.
LEMMA DroppedPermits ==
  ASSUME ServerInv, NEW R \in SUBSET Req, Dropped(R), limit' = limit
  PROVE  /\ Holding' = Holding \ R
         /\ sem' \in Nat
         /\ PermitInv'
<1>1. Holding' = Holding \ R
  BY DEF Dropped, Holding, Free
<1>2. Holding \in SUBSET Req /\ (R \cap Holding) \in SUBSET Req
  BY DEF Holding
<1>3. Cardinality(Holding \ R) = Cardinality(Holding) - Cardinality(Holding \cap R)
  BY <1>2, Counting, FS_Difference DEF ServerInv
<1>4. Holding \cap R = R \cap Holding
  OBVIOUS
<1>5. sem \in Nat /\ Cap \in Nat /\ Cardinality(Holding) \in Nat
      /\ Cardinality(R \cap Holding) \in Nat /\ Cap' = Cap
  BY <1>2, Counting DEF ServerInv, Types, Cap
<1>6. sem' = sem + Cardinality(R \cap Holding)
  BY DEF Dropped
<1> QED BY <1>1, <1>3, <1>4, <1>5, <1>6 DEF PermitInv, ServerInv

\* Dropping leaves the remaining requests as they were.
LEMMA DroppedRequests ==
  ASSUME ServerInv, NEW R \in SUBSET Req, Dropped(R)
  PROVE  /\ req' \in [Req -> Request]
         /\ \A r \in Req : req'[r] = IF r \in R THEN Free ELSE req[r]
  BY DEF ServerInv, Types, Request, Dropped, Free

\* A step that leaves requests and permits alone.
LEMMA SamePermits ==
  ASSUME ServerInv, UNCHANGED <<limit, req, sem>>
  PROVE  PermitInv' /\ sem' \in Nat
<1>1. Holding' = Holding /\ Cap' = Cap
  BY DEF Holding, Cap
<1> QED BY <1>1 DEF ServerInv, PermitInv, Types

-----------------------------------------------------------------------------
(* Server's steps.                                                         *)

\* The server starts with all permits in the semaphore.
LEMMA InitServerInv == Init => ServerInv
<1> SUFFICES ASSUME Init PROVE ServerInv
  OBVIOUS
<1>1. Types
  BY ServerAssumption DEF Init, Types, Request, Free, Cap
<1>2. Holding = {}
  BY DEF Init, Holding, Free
<1>3. PermitInv
  BY <1>1, <1>2, Counting, FS_EmptySet DEF Init, PermitInv
<1>4. RequestInv
  BY DEF Init, RequestInv, Free
<1>5. PhaseInv
  BY DEF Init, PhaseInv, CutOnlyAfterTimeout
<1> QED BY <1>1, <1>3, <1>4, <1>5 DEF ServerInv

\* The connections' own steps, the client's disappearing aside.
LEMMA ConnInv ==
  ASSUME ServerInv, NEW c \in Conn, Connect(c) \/ Accept(c) \/ Notice(c) \/ Close(c)
  PROVE  ServerInv'
<1> USE DEF Connect, Accept, Notice, Close
<1>1. PermitInv' /\ sem' \in Nat
  BY SamePermits
<1>2. Types'
  BY <1>1 DEF ServerInv, Types
<1>3. RequestInv'
  BY DEF ServerInv, Types, RequestInv, On
<1>4. PhaseInv'
  BY DEF ServerInv, Types, PhaseInv, CutOnlyAfterTimeout
<1> QED BY <1>1, <1>2, <1>3, <1>4 DEF ServerInv

\* hyper drops a connection with everything on it.
LEMMA DisconnectInv ==
  ASSUME ServerInv, NEW c \in Conn, Disconnect(c)
  PROVE  ServerInv'
<1>0. On(c) \in SUBSET Req /\ Dropped(On(c))
  BY DEF On, Disconnect
<1>1. PermitInv' /\ sem' \in Nat
  BY <1>0, DroppedPermits DEF Disconnect
<1>2. Types'
  BY <1>0, <1>1, DroppedRequests DEF ServerInv, Types, Disconnect
<1>3. RequestInv'
  BY <1>0, DroppedRequests DEF ServerInv, Types, RequestInv, On, Disconnect, Free
<1>4. PhaseInv'
  BY DEF ServerInv, Types, PhaseInv, CutOnlyAfterTimeout, Disconnect
<1> QED BY <1>1, <1>2, <1>3, <1>4 DEF ServerInv

\* call takes one permit, or answers 503 without one.
LEMMA CallInv ==
  ASSUME ServerInv, NEW r \in Req, NEW c \in Conn, Call(r, c)
  PROVE  ServerInv'
<1>0. r \notin Holding /\ Holding \in SUBSET Req /\ Cap' = Cap
  BY DEF ServerInv, RequestInv, Call, Holding, Cap
<1>1. CASE sem > 0
  <2>1. req' = [req EXCEPT ![r] = [pc |-> "handling", on |-> c, permit |-> TRUE]]
        /\ sem' = sem - 1 /\ sem \in Nat
    BY <1>1 DEF Call, ServerInv, Types
  <2>2. Holding' = Holding \cup {r}
    BY <2>1 DEF ServerInv, Types, Holding
  <2>3. Cardinality(Holding') = Cardinality(Holding) + 1
    BY <1>0, <2>2, Counting, FS_AddElement DEF ServerInv
  <2>4. Cardinality(Holding) \in Nat /\ Cap \in Nat
    BY <1>0, Counting DEF ServerInv
  <2>5. PermitInv' /\ sem' \in Nat
    BY <1>0, <1>1, <2>1, <2>3, <2>4 DEF PermitInv, ServerInv
  <2>6. Types'
    BY <2>1, <2>5 DEF ServerInv, Types, Request, Call
  <2>7. RequestInv'
    BY <2>1 DEF ServerInv, Types, RequestInv, Call
  <2> QED BY <2>5, <2>6, <2>7 DEF ServerInv, PhaseInv, CutOnlyAfterTimeout, Call
<1>2. CASE ~(sem > 0)
  <2>1. req' = [req EXCEPT ![r] = [pc |-> "slowdown", on |-> c, permit |-> FALSE]]
        /\ sem' = sem /\ sem \in Nat
    BY <1>2 DEF Call, ServerInv, Types
  <2>2. Holding' = Holding
    BY <1>0, <2>1 DEF ServerInv, Types, Holding
  <2>3. PermitInv'
    BY <1>0, <2>1, <2>2 DEF PermitInv, ServerInv
  <2>4. Types'
    BY <2>1 DEF ServerInv, Types, Request, Call
  <2>5. RequestInv'
    BY <2>1 DEF ServerInv, Types, RequestInv, Call
  <2> QED BY <2>3, <2>4, <2>5 DEF ServerInv, PhaseInv, CutOnlyAfterTimeout, Call
<1> QED BY <1>1, <1>2

\* The permit moves from the handler to the body.
LEMMA RespondInv ==
  ASSUME ServerInv, NEW r \in Req, Respond(r)
  PROVE  ServerInv'
<1>1. Types'
  BY DEF ServerInv, Types, Request, Respond
<1>2. Holding' = Holding /\ Cap' = Cap
  BY DEF ServerInv, Types, Respond, Holding, Cap
<1>3. RequestInv'
  BY DEF ServerInv, Types, RequestInv, Respond
<1> QED BY <1>1, <1>2, <1>3
        DEF ServerInv, PermitInv, PhaseInv, CutOnlyAfterTimeout, Respond

\* The end of the stream releases the permit before the body is dropped.
LEMMA BodyEndInv ==
  ASSUME ServerInv, NEW r \in Req, BodyEnd(r)
  PROVE  ServerInv'
<1>0. r \in Holding /\ Holding \in SUBSET Req /\ Cap' = Cap
  BY DEF ServerInv, RequestInv, BodyEnd, Holding, Cap
<1> DEFINE t == [req[r] EXCEPT !.pc = "ended", !.permit = FALSE]
<1>a. sem' = sem + 1 /\ sem \in Nat
  BY DEF ServerInv, Types, BodyEnd
<1>b. t \in Request /\ req \in [Req -> Request]
  BY DEF ServerInv, Types, Request
<1>c. req' = [req EXCEPT ![r] = t]
  BY <1>b DEF BodyEnd
<1>d. req' \in [Req -> Request]
  BY <1>b, <1>c
<1>1. Types'
  BY <1>a, <1>d DEF ServerInv, Types, BodyEnd
<1>2. Holding' = Holding \ {r}
  BY DEF ServerInv, Types, BodyEnd, Holding
<1>3. Cardinality(Holding') = Cardinality(Holding) - 1
  BY <1>0, <1>2, Counting, FS_RemoveElement DEF ServerInv
<1>4. PermitInv'
  <2>1. Cardinality(Holding) \in Nat /\ Cap \in Nat
    BY <1>0, Counting DEF ServerInv
  <2> QED BY <1>0, <1>a, <1>3, <2>1 DEF ServerInv, PermitInv
<1>5. RequestInv'
  BY DEF ServerInv, Types, RequestInv, BodyEnd
<1> QED BY <1>1, <1>4, <1>5 DEF ServerInv, PhaseInv, CutOnlyAfterTimeout, BodyEnd

\* A failed handler and a finished response are dropped with what they hold.
LEMMA DropInv ==
  ASSUME ServerInv, NEW r \in Req, Fail(r) \/ Finish(r)
  PROVE  ServerInv'
<1>0. {r} \in SUBSET Req /\ Dropped({r})
      /\ UNCHANGED <<limit, phase, signalled, expired, conn, cut>>
  BY DEF Fail, Finish
<1>1. PermitInv' /\ sem' \in Nat
  BY <1>0, DroppedPermits
<1>2. Types'
  BY <1>0, <1>1, DroppedRequests DEF ServerInv, Types
<1>3. RequestInv'
  BY <1>0, DroppedRequests DEF ServerInv, Types, RequestInv, Free
<1> QED BY <1>0, <1>1, <1>2, <1>3 DEF ServerInv, PhaseInv, CutOnlyAfterTimeout

\* Signals and the drain leave requests and permits alone.
LEMMA DrainInv ==
  ASSUME ServerInv, Interrupt \/ BeginDrain \/ Drained \/ DrainExpires
  PROVE  ServerInv'
<1> USE DEF Interrupt, BeginDrain, Drained, DrainExpires
<1>1. PermitInv' /\ sem' \in Nat
  BY SamePermits
<1>2. Types'
  BY <1>1 DEF ServerInv, Types
<1>3. RequestInv'
  BY DEF ServerInv, RequestInv
<1>4. PhaseInv'
  BY DEF ServerInv, Types, PhaseInv, CutOnlyAfterTimeout
<1> QED BY <1>1, <1>2, <1>3, <1>4 DEF ServerInv

\* The process ends; before its timer serve has returned only without requests.
LEMMA EndInv ==
  ASSUME ServerInv, Terminate \/ Exit
  PROVE  ServerInv'
<1> USE DEF Terminate, Exit
<1>0. Req \in SUBSET Req /\ Dropped(Req) /\ UNCHANGED <<limit, signalled, expired>>
      /\ conn' = [c \in Conn |-> "closed"] /\ cut' = (InFlight # {})
  OBVIOUS
<1>1. PermitInv' /\ sem' \in Nat
  BY <1>0, DroppedPermits
<1>2. Types'
  BY <1>0, <1>1, DroppedRequests DEF ServerInv, Types
<1>3. RequestInv'
  BY <1>0, DroppedRequests DEF ServerInv, Types, RequestInv, Free
<1>4. Exit /\ ~expired => InFlight = {}
  BY DEF ServerInv, PhaseInv, RequestInv, InFlight
<1>5. PhaseInv'
  BY <1>0, <1>4 DEF PhaseInv, CutOnlyAfterTimeout
<1> QED BY <1>1, <1>2, <1>3, <1>5 DEF ServerInv

\* Every step of the server preserves its invariant.
LEMMA NextServerInv == ServerInv /\ [Next]_vars => ServerInv'
<1> SUFFICES ASSUME ServerInv, [Next]_vars PROVE ServerInv'
  OBVIOUS
<1>1. CASE UNCHANGED vars
  <2>1. PermitInv' /\ sem' \in Nat
    BY <1>1, SamePermits DEF vars
  <2> QED BY <1>1, <2>1
          DEF vars, ServerInv, Types, RequestInv, PhaseInv, CutOnlyAfterTimeout
<1> QED BY <1>1, ConnInv, DisconnectInv, CallInv, RespondInv, BodyEndInv, DropInv,
           DrainInv, EndInv DEF Next, Client

-----------------------------------------------------------------------------
(* The request log.                                                        *)

LogTypes ==
  /\ seq \in Nat
  /\ log \in [Req -> RequestLog \cup {None}]
  /\ reply \in [Req -> Reply \cup {None}]
  /\ trail \in [Id -> Trails]

\* A log exists while its handler runs, a reply while its response is sent.
LifeInv ==
  \A r \in Req : /\ log[r] # None => req[r].pc = "handling"
                 /\ reply[r] # None => req[r].pc \in {"body", "ended"}

\* The counter is ahead of every id that was used, and there is a number for each
\* log that waits for one.
CounterInv ==
  /\ seq + Cardinality(Minting) <= MaxLogged
  /\ \A i \in Id : i[2] >= seq => trail[i] = <<>>

\* Logs under way have ids of their own.
OpenDistinct == \A r, s \in Open : r # s => log[r].id # log[s].id

LogInv == LogTypes /\ LifeInv /\ CounterInv /\ OpenDistinct /\ LogTellsTheStory

\* The inductive invariant of the composition.
IInv == ServerInv /\ LogInv

\* Appending to a line.
LEMMA AppendPair ==
  ASSUME NEW x, NEW y
  PROVE  Append(<<x>>, y) = <<x, y>>
<1> DEFINE S == {x, y}
           a == Append(<<x>>, y)
           b == <<x, y>>
<1>1. <<x>> \in Seq(S) /\ Len(<<x>>) = 1 /\ <<x>>[1] = x /\ y \in S
  OBVIOUS
<1>2. b \in Seq(S) /\ Len(b) = 2 /\ b[1] = x /\ b[2] = y
  OBVIOUS
<1> HIDE DEF S, b
<1>3. a \in Seq(S) /\ Len(a) = 2 /\ a[1] = x /\ a[2] = y
  BY <1>1, AppendProperties
<1> HIDE DEF a
<1>4. \A i \in 1..2 : a[i] = b[i]
  BY <1>2, <1>3
<1>5. a = b
  BY <1>2, <1>3, <1>4, SeqEqual
<1> QED BY <1>5 DEF a, b

\* The trails are told apart, and how lines extend them.
LEMMA TrailFacts ==
  /\ Append(<<>>, "started") = <<"started">>
  /\ Append(<<"started">>, "completed") = <<"started", "completed">>
  /\ Append(<<"started">>, "failed") = <<"started", "failed">>
  /\ <<>> # <<"started">>
  /\ \A x : <<>> # <<"started", x>> /\ <<"started">> # <<"started", x>>
  /\ <<"started", "completed">> # <<"started", "failed">>
<1>1. Append(<<>>, "started") = <<"started">>
  OBVIOUS
<1>2. Len(<<>>) = 0 /\ Len(<<"started">>) = 1 /\ \A x : Len(<<"started", x>>) = 2
  OBVIOUS
<1>3. <<"started", "completed">> # <<"started", "failed">>
  OBVIOUS
<1> QED BY <1>1, <1>2, <1>3, AppendPair

\* An open log has an id.
LEMMA OpenFacts ==
  ASSUME LogTypes
  PROVE  /\ \A r \in Open : r \in Req /\ log[r] \in RequestLog /\ log[r].id \in Id
         /\ \A r \in Minting : r \in Req /\ log[r] \in RequestLog
         /\ \A r \in Req : log[r] = None \/ r \in Open \/ r \in Minting
         /\ \A r \in Open : r \notin Minting
  BY DEF LogTypes, Open, Minting, RequestLog

\* At the start nothing is logged.
LEMMA InitLogInv == RequestsInit => LogInv
<1> SUFFICES ASSUME RequestsInit PROVE LogInv
  OBVIOUS
<1>1. Minting = {} /\ Open = {}
  BY DEF RequestsInit, Minting, Open
<1>2. LogTypes
  BY DEF RequestsInit, LogTypes, Trails
<1>3. LifeInv
  BY DEF RequestsInit, LifeInv
<1>4. CounterInv
  BY <1>1, FS_EmptySet, RequestsAssumption DEF RequestsInit, CounterInv
<1>5. LogTellsTheStory
  BY <1>1 DEF RequestsInit, LogTellsTheStory, Trails
<1> QED BY <1>1, <1>2, <1>3, <1>4, <1>5 DEF LogInv, OpenDistinct

\* A step that concerns no handler: it moves neither a handler nor a response but
\* to the end of its stream.
LEMMA AroundInv ==
  ASSUME IInv, Around
  PROVE  LogInv'
<1>1. UNCHANGED <<seq, log, reply, trail>>
  BY DEF Around, logVars
<1>2. Minting' = Minting /\ Open' = Open
  BY <1>1 DEF Minting, Open
<1>3. ASSUME NEW r \in Req
      PROVE  \/ req'[r].pc = req[r].pc
             \/ req[r].pc = "free"
             \/ req[r].pc = "body" /\ req'[r].pc = "ended"
  <2>1. req \in [Req -> Request]
    BY DEF IInv, ServerInv, Types
  <2>2. ASSUME NEW c \in Conn, NEW q \in Req, Call(q, c)
        PROVE  r # q => req'[r] = req[r]
    BY <2>1, <2>2 DEF Call
  <2>3. ASSUME NEW q \in Req, BodyEnd(q) PROVE <1>3!2
    BY <2>1, <2>3 DEF BodyEnd, Request
  <2>4. ASSUME UNCHANGED req PROVE <1>3!2
    BY <2>4
  <2> QED BY <2>2, <2>3, <2>4 DEF Around, Call, Connect, Accept, Notice, Close, Interrupt,
                             BeginDrain, Drained, DrainExpires
<1>4. LifeInv'
  BY <1>1, <1>3 DEF IInv, LogInv, LifeInv
<1> QED BY <1>1, <1>2, <1>4
        DEF IInv, LogInv, LogTypes, CounterInv, OpenDistinct, LogTellsTheStory

\* Respond moves one request from its handler to its body.
LEMMA RespondMoves ==
  ASSUME IInv, NEW r \in Req, Respond(r)
  PROVE  /\ req[r].pc = "handling" /\ req'[r].pc = "body"
         /\ \A q \in Req : q # r => req'[q] = req[q]
  BY DEF IInv, ServerInv, Types, Request, Respond

\* An answer of s3s: no log, no id.
LEMMA RefuseInv ==
  ASSUME IInv, NEW r \in Req, NEW why, Refuse(r, why)
  PROVE  LogInv'
<1>1. /\ reply' = [reply EXCEPT ![r] = [id |-> None, ok |-> FALSE]]
      /\ UNCHANGED <<seq, log, trail>> /\ Respond(r) /\ log[r] = None
  BY DEF Refuse
<1>2. Minting' = Minting /\ Open' = Open
  BY <1>1 DEF Minting, Open
<1>3. LogTypes'
  BY <1>1 DEF IInv, LogInv, LogTypes, Reply
<1>4. LifeInv'
  BY <1>1, RespondMoves DEF IInv, LogInv, LifeInv, LogTypes
<1>5. CounterInv' /\ OpenDistinct'
  BY <1>1, <1>2 DEF IInv, LogInv, CounterInv, OpenDistinct
<1>6. LogTellsTheStory'
  BY <1>1, <1>2 DEF IInv, LogInv, LogTypes, LogTellsTheStory
<1> QED BY <1>3, <1>4, <1>5, <1>6 DEF LogInv

\* A handler reads the clock: one more log waits for its number.
LEMMA EnterInv ==
  ASSUME IInv, NEW r \in Req, Enter(r)
  PROVE  LogInv'
<1>1. PICK t \in Micros : log' = [log EXCEPT ![r] = [micros |-> t, id |-> None]]
  BY DEF Enter
<1>2. /\ UNCHANGED <<req, seq, reply, trail>>
      /\ req[r].pc = "handling" /\ log[r] = None
      /\ seq + Cardinality(Minting) < MaxLogged
  BY DEF Enter, vars
<1>3. [micros |-> t, id |-> None] \in RequestLog
  BY DEF RequestLog
<1>4. LogTypes'
  BY <1>1, <1>2, <1>3 DEF IInv, LogInv, LogTypes
<1>5. Minting' = Minting \cup {r} /\ Open' = Open /\ r \notin Minting
  BY <1>1, <1>2, <1>3, RequestsAssumption DEF IInv, LogInv, LogTypes, Minting, Open
<1>6. LifeInv'
  BY <1>1, <1>2 DEF IInv, LogInv, LogTypes, LifeInv
<1>7. CounterInv'
  <2>1. IsFiniteSet(Minting) /\ Cardinality(Minting) \in Nat
    BY Counting DEF Minting, IInv, ServerInv
  <2>2. Cardinality(Minting') = Cardinality(Minting) + 1
    BY <1>5, <2>1, FS_AddElement
  <2> QED BY <1>2, <2>1, <2>2, RequestsAssumption DEF IInv, LogInv, LogTypes, CounterInv
<1>8. \A q \in Open : log'[q] = log[q]
  BY <1>1, <1>2 DEF IInv, LogInv, LogTypes, Open
<1>9. OpenDistinct'
  BY <1>5, <1>8 DEF IInv, LogInv, OpenDistinct
<1>10. LogTellsTheStory'
  BY <1>2, <1>5, <1>8 DEF IInv, LogInv, LogTellsTheStory
<1> QED BY <1>4, <1>6, <1>7, <1>9, <1>10 DEF LogInv

\* The counter gives a log an id nobody has, and a fresh trail.
LEMMA MintInv ==
  ASSUME IInv, NEW r \in Req, Mint(r)
  PROVE  LogInv'
<1> DEFINE i == <<log[r].micros, seq>>
<1>0. LogTypes /\ LifeInv /\ CounterInv /\ OpenDistinct /\ LogTellsTheStory
  BY DEF IInv, LogInv
<1>1. /\ r \in Minting /\ seq' = seq + 1
      /\ log' = [log EXCEPT ![r].id = i]
      /\ trail' = [trail EXCEPT ![i] = Append(@, "started")]
      /\ UNCHANGED <<req, reply>>
  BY DEF Mint, Line, vars
<1>2. IsFiniteSet(Minting) /\ Cardinality(Minting) \in Nat /\ Cardinality(Minting) # 0
  BY <1>1, Counting, FS_EmptySet DEF Minting, IInv, ServerInv
<1>3. i \in Id /\ seq \in Nat
  <2>1. log[r].micros \in Micros
    BY <1>0, <1>1, OpenFacts DEF RequestLog
  <2>2. seq \in 0..(MaxLogged - 1) /\ seq \in Nat
    BY <1>0, <1>2, RequestsAssumption DEF LogTypes, CounterInv
  <2> QED BY <2>1, <2>2 DEF Id
<1>4. i[2] = seq
  OBVIOUS
<1> HIDE DEF i
<1>5. trail[i] = <<>>
  BY <1>0, <1>3, <1>4 DEF CounterInv
<1>6. trail'[i] = <<"started">> /\ \A j \in Id : j # i => trail'[j] = trail[j]
  BY <1>0, <1>1, <1>3, <1>5, TrailFacts DEF LogTypes
<1>7. log'[r] = [log[r] EXCEPT !.id = i] /\ log'[r] \in RequestLog /\ log'[r].id = i
      /\ \A q \in Req : q # r => log'[q] = log[q]
  BY <1>0, <1>1, <1>3, OpenFacts DEF LogTypes, RequestLog
<1>8. LogTypes'
  <2>1. log' \in [Req -> RequestLog \cup {None}]
    BY <1>0, <1>1, <1>7 DEF LogTypes
  <2>2. trail' \in [Id -> Trails]
    BY <1>0, <1>1, <1>6 DEF LogTypes, Trails
  <2> QED BY <1>0, <1>1, <1>3, <2>1, <2>2 DEF LogTypes
<1>9. Minting' = Minting \ {r} /\ Open' = Open \cup {r} /\ r \notin Open
  BY <1>1, <1>3, <1>7, RequestsAssumption DEF Minting, Open
<1>10. LifeInv'
  BY <1>0, <1>1, <1>7 DEF LifeInv, Minting
<1>11. CounterInv'
  <2>1. Cardinality(Minting') = Cardinality(Minting) - 1
    BY <1>1, <1>2, <1>9, FS_RemoveElement
  <2>2. \A j \in Id : j[2] \in Nat
    BY DEF Id
  <2>3. \A j \in Id : j[2] >= seq + 1 => j # i /\ trail[j] = <<>>
    BY <1>0, <1>3, <1>4, <2>2 DEF CounterInv
  <2> QED BY <1>0, <1>1, <1>2, <1>3, <1>6, <2>1, <2>3, RequestsAssumption DEF CounterInv
<1>12. \A q \in Open : log[q].id \in Id /\ log[q].id # i /\ log'[q].id = log[q].id
  BY <1>0, <1>1, <1>5, <1>7, <1>9, OpenFacts, TrailFacts DEF LogTellsTheStory
<1>13. OpenDistinct'
  <2> SUFFICES ASSUME NEW q \in Open', NEW p \in Open', q # p
               PROVE  log'[q].id # log'[p].id
    BY DEF OpenDistinct
  <2>1. CASE q = r
    BY <1>7, <1>9, <1>12, <2>1
  <2>2. CASE p = r
    BY <1>7, <1>9, <1>12, <2>2
  <2>3. CASE q # r /\ p # r
    BY <1>0, <1>9, <1>12, <2>3 DEF OpenDistinct
  <2> QED BY <2>1, <2>2, <2>3
<1>14. LogTellsTheStory'
  <2>1. \A q \in Req : reply[q] # None /\ reply[q].id # None =>
           reply[q].id \in Id /\ reply[q].id # i
    BY <1>0, <1>5, TrailFacts DEF LogTypes, Reply, LogTellsTheStory
  <2>2. \A j \in Id : trail'[j] \in Trails
    BY <1>8 DEF LogTypes
  <2>3. \A q \in Open' : trail'[log'[q].id] = <<"started">>
    <3> SUFFICES ASSUME NEW q \in Open' PROVE trail'[log'[q].id] = <<"started">>
      OBVIOUS
    <3>1. CASE q = r
      BY <1>6, <1>7, <3>1
    <3>2. CASE q # r
      BY <1>0, <1>6, <1>9, <1>12, <3>2 DEF LogTellsTheStory
    <3> QED BY <3>1, <3>2
  <2> QED BY <1>0, <1>1, <1>6, <2>1, <2>2, <2>3 DEF LogTellsTheStory
<1> QED BY <1>8, <1>10, <1>11, <1>13, <1>14 DEF LogInv

\* The handler answers: its trail is finished and its response carries the id.
LEMMA AnswerInv ==
  ASSUME IInv, NEW r \in Req, Answer(r)
  PROVE  LogInv'
<1> DEFINE i == log[r].id
           Last(b) == IF b THEN "completed" ELSE "failed"
<1>0. LogTypes /\ LifeInv /\ CounterInv /\ OpenDistinct /\ LogTellsTheStory
  BY DEF IInv, LogInv
<1>1. r \in Open /\ Respond(r) /\ log' = [log EXCEPT ![r] = None] /\ seq' = seq
  BY DEF Answer
<1>2. PICK ok \in BOOLEAN : /\ reply' = [reply EXCEPT ![r] = [id |-> i, ok |-> ok]]
                            /\ trail' = [trail EXCEPT ![i] = Append(@, Last(ok))]
  BY DEF Answer, Line
<1>3. i \in Id /\ trail[i] = <<"started">> /\ log[r] \in RequestLog
  BY <1>0, <1>1, OpenFacts DEF LogTellsTheStory
<1> HIDE DEF i
<1>4. /\ trail'[i] = <<"started", Last(ok)>> /\ trail'[i] \in Trails
      /\ \A j \in Id : j # i => trail'[j] = trail[j]
  BY <1>0, <1>2, <1>3, TrailFacts DEF LogTypes, Trails
<1>5. /\ reply'[r] = [id |-> i, ok |-> ok] /\ reply'[r] \in Reply
      /\ \A q \in Req : q # r => reply'[q] = reply[q]
  BY <1>0, <1>2, <1>3 DEF LogTypes, Reply
<1>6. LogTypes'
  <2>1. reply' \in [Req -> Reply \cup {None}]
    BY <1>0, <1>2, <1>5 DEF LogTypes
  <2>2. trail' \in [Id -> Trails]
    BY <1>0, <1>2, <1>4 DEF LogTypes
  <2> QED BY <1>0, <1>1, <2>1, <2>2 DEF LogTypes
<1>7. Minting' = Minting /\ Open' = Open \ {r}
  BY <1>0, <1>1 DEF LogTypes, Minting, Open
<1>8. LifeInv'
  BY <1>0, <1>1, <1>5, RespondMoves DEF LifeInv, LogTypes
<1>9. CounterInv'
  BY <1>0, <1>1, <1>3, <1>4, <1>7, TrailFacts DEF CounterInv
<1>10. \A q \in Open' : q \in Open /\ log'[q] = log[q] /\ log[q].id # i /\ log[q].id \in Id
  BY <1>0, <1>1, <1>7, OpenFacts DEF OpenDistinct, LogTypes, i
<1>11. OpenDistinct'
  BY <1>0, <1>10 DEF OpenDistinct
<1>12. ASSUME NEW q \in Req, q # r, reply[q] # None, reply[q].id # None
       PROVE  reply[q].id \in Id /\ reply[q].id # i
  BY <1>0, <1>3, <1>12, TrailFacts DEF LogTypes, Reply, LogTellsTheStory
<1>13. LogTellsTheStory'
  <2>1. \A j \in Id : trail'[j] \in Trails
    BY <1>6 DEF LogTypes
  <2>2. \A q \in Open' : trail'[log'[q].id] = <<"started">>
    BY <1>0, <1>4, <1>10 DEF LogTellsTheStory
  <2>3. ASSUME NEW q \in Req, reply'[q] # None, reply'[q].id # None
        PROVE  trail'[reply'[q].id] = <<"started", Last(reply'[q].ok)>>
    <3>1. CASE q = r
      BY <1>4, <1>5, <3>1
    <3>2. CASE q # r
      BY <1>0, <1>4, <1>5, <1>12, <2>3, <3>2 DEF LogTellsTheStory
    <3> QED BY <3>1, <3>2
  <2>4. ASSUME NEW p \in Req, NEW q \in Req, p # q, reply'[p] # None, reply'[q] # None
        PROVE  reply'[p].id = None \/ reply'[p].id # reply'[q].id
    <3>1. CASE p = r
      BY <1>5, <1>12, <2>4, <3>1
    <3>2. CASE q = r
      BY <1>5, <1>12, <2>4, <3>2
    <3>3. CASE p # r /\ q # r
      BY <1>0, <1>5, <2>4, <3>3 DEF LogTellsTheStory
    <3> QED BY <3>1, <3>2, <3>3
  <2> QED BY <2>1, <2>2, <2>3, <2>4 DEF LogTellsTheStory
<1> QED BY <1>6, <1>8, <1>9, <1>11, <1>13 DEF LogInv

\* Requests end, and the drop of their logs finishes their trails.
LEMMA EndsInv ==
  ASSUME IInv, NEW S \in SUBSET Req, Dropped(S), Ends
  PROVE  LogInv'
<1> DEFINE R == Ended
<1>0. LogTypes /\ LifeInv /\ CounterInv /\ OpenDistinct /\ LogTellsTheStory
  BY DEF IInv, LogInv
<1>1. R \in SUBSET Req /\ \A q \in Req \ R : req'[q].pc = req[q].pc
  BY DroppedRequests DEF IInv, Ended, Free
<1>2. /\ log' = [q \in Req |-> IF q \in R THEN None ELSE log[q]]
      /\ trail' = [i \in Id |-> IF \E q \in R \cap Open : log[q].id = i
                                  THEN Append(trail[i], "failed") ELSE trail[i]]
      /\ reply' = [q \in Req |-> IF q \in R THEN None ELSE reply[q]]
      /\ seq' = seq
  BY DEF Ends, Drop
<1> HIDE DEF R
<1>3. ASSUME NEW i \in Id
      PROVE  \/ trail'[i] = trail[i] /\ ~ \E q \in R \cap Open : log[q].id = i
             \/ /\ trail[i] = <<"started">> /\ trail'[i] = <<"started", "failed">>
                /\ \E q \in R \cap Open : log[q].id = i
  BY <1>0, <1>2, TrailFacts DEF LogTellsTheStory
<1>4. \A i \in Id : trail'[i] \in Trails
  BY <1>0, <1>3 DEF LogTypes, Trails
<1>5. LogTypes'
  BY <1>0, <1>2, <1>4 DEF LogTypes
<1>6. Minting' = Minting \ R /\ Open' = Open \ R
  BY <1>2 DEF Minting, Open
<1>7. LifeInv'
  BY <1>0, <1>1, <1>2 DEF LifeInv
<1>8. CounterInv'
  <2>1. /\ Cardinality(Minting') \in Nat /\ Cardinality(Minting) \in Nat
        /\ Cardinality(Minting') <= Cardinality(Minting)
    BY <1>6, Counting, FS_Subset, FS_CardinalityType DEF IInv, ServerInv, Minting
  <2>2. seq' + Cardinality(Minting') <= MaxLogged
    BY <1>0, <1>2, <2>1, RequestsAssumption DEF CounterInv, LogTypes
  <2>3. \A i \in Id : i[2] >= seq => trail'[i] = <<>>
    BY <1>0, <1>3, TrailFacts DEF CounterInv
  <2> QED BY <1>2, <2>2, <2>3 DEF CounterInv
<1>9. \A q \in Open' : q \in Open /\ q \notin R /\ log'[q] = log[q] /\ log[q].id \in Id
  BY <1>0, <1>2, <1>6, OpenFacts
<1>10. OpenDistinct'
  BY <1>0, <1>9 DEF OpenDistinct
<1>11. LogTellsTheStory'
  <2>1. ASSUME NEW q \in Open' PROVE trail'[log'[q].id] = <<"started">>
    <3>1. ~ \E p \in R \cap Open : log[p].id = log[q].id
      BY <1>0, <1>9 DEF OpenDistinct
    <3> QED BY <1>0, <1>3, <1>9, <3>1 DEF LogTellsTheStory
  <2>2. ASSUME NEW q \in Req, reply'[q] # None
        PROVE  reply'[q] = reply[q] /\ (reply[q].id # None => reply[q].id \in Id)
    BY <1>0, <1>2, <2>2 DEF LogTypes, Reply
  <2>3. ASSUME NEW q \in Req, reply'[q] # None, reply'[q].id # None
        PROVE  trail'[reply'[q].id]
                 = <<"started", IF reply'[q].ok THEN "completed" ELSE "failed">>
    BY <1>0, <1>3, <2>2, <2>3, TrailFacts DEF LogTellsTheStory
  <2>4. \A p, q \in Req : p # q /\ reply'[p] # None /\ reply'[q] # None =>
           reply'[p].id = None \/ reply'[p].id # reply'[q].id
    BY <1>0, <2>2 DEF LogTellsTheStory
  <2> QED BY <1>4, <2>1, <2>3, <2>4 DEF LogTellsTheStory
<1> QED BY <1>5, <1>7, <1>8, <1>10, <1>11 DEF LogInv

\* A killed process keeps what it has logged.
LEMMA KillInv ==
  ASSUME IInv, Kill
  PROVE  LogInv'
<1>1. /\ log' = [r \in Req |-> None] /\ reply' = [r \in Req |-> None]
      /\ UNCHANGED <<seq, trail>>
  BY DEF Kill
<1>2. Minting' = {} /\ Open' = {}
  BY <1>1 DEF Minting, Open
<1>3. seq' + Cardinality(Minting') <= MaxLogged
  <2>1. Cardinality(Minting) \in Nat
    BY Counting DEF IInv, ServerInv, Minting
  <2> QED BY <1>1, <1>2, <2>1, FS_EmptySet, RequestsAssumption
          DEF IInv, LogInv, LogTypes, CounterInv
<1> QED BY <1>1, <1>2, <1>3 DEF IInv, LogInv, LogTypes, LifeInv, CounterInv, OpenDistinct,
                            LogTellsTheStory

-----------------------------------------------------------------------------
(* The composition.                                                        *)

\* Every step of the composition is a step of the server, or leaves it alone.
LEMMA ServerStep == RequestsNext => [Next]_vars
<1> SUFFICES ASSUME RequestsNext PROVE [Next]_vars
  OBVIOUS
<1>1. ASSUME NEW r \in Req, Handle(r) PROVE [Next]_vars
  BY <1>1 DEF Handle, Refuse, Enter, Mint, Answer, Next
<1>2. ASSUME NEW r \in Req, Break(r) \/ Sent(r) PROVE Next
  BY <1>2 DEF Break, Sent, Next
<1>3. ASSUME NEW c \in Conn, Leave(c) PROVE Next
  BY <1>3 DEF Leave, Next, Client
<1>4. CASE Around
  BY <1>4 DEF Around, Next, Client
<1>5. CASE Shut \/ Kill
  BY <1>5 DEF Shut, Kill, Next
<1> QED BY <1>1, <1>2, <1>3, <1>4, <1>5 DEF RequestsNext

\* Every step of the composition preserves the log's invariant.
LEMMA NextLogInv ==
  ASSUME IInv, RequestsNext
  PROVE  LogInv'
<1>1. ASSUME NEW r \in Req, Handle(r) PROVE LogInv'
  BY <1>1, RefuseInv, EnterInv, MintInv, AnswerInv DEF Handle
<1>2. ASSUME NEW r \in Req, Break(r) \/ Sent(r) PROVE LogInv'
  <2>1. {r} \in SUBSET Req /\ Dropped({r}) /\ Ends
    BY <1>2 DEF Break, Sent, Fail, Finish
  <2> QED BY <2>1, EndsInv
<1>3. ASSUME NEW c \in Conn, Leave(c) PROVE LogInv'
  <2>1. On(c) \in SUBSET Req /\ Dropped(On(c)) /\ Ends
    BY <1>3 DEF Leave, Disconnect, On
  <2> QED BY <2>1, EndsInv
<1>4. CASE Shut
  <2>1. Req \in SUBSET Req /\ Dropped(Req) /\ Ends
    BY <1>4 DEF Shut, Exit
  <2> QED BY <2>1, EndsInv
<1> QED BY <1>1, <1>2, <1>3, <1>4, AroundInv, KillInv DEF RequestsNext

\* Every reachable state satisfies the inductive invariant.
THEOREM Invariance == RequestsSpec => []IInv
<1>1. RequestsInit => IInv
  BY InitServerInv, InitLogInv DEF RequestsInit, IInv
<1>2. IInv /\ [RequestsNext]_allVars => IInv'
  <2> SUFFICES ASSUME IInv, [RequestsNext]_allVars PROVE IInv'
    OBVIOUS
  <2>1. CASE RequestsNext
    BY <2>1, ServerStep, NextServerInv, NextLogInv DEF IInv
  <2>2. CASE UNCHANGED allVars
    <3>1. UNCHANGED vars /\ UNCHANGED <<req, seq, log, reply, trail>>
      BY <2>2 DEF allVars, vars
    <3>2. ServerInv'
      BY <3>1, NextServerInv DEF IInv
    <3>3. Minting' = Minting /\ Open' = Open
      BY <3>1 DEF Minting, Open
    <3> QED BY <3>1, <3>2, <3>3 DEF IInv, LogInv, LogTypes, LifeInv, CounterInv,
                                OpenDistinct, LogTellsTheStory
  <2> QED BY <2>1, <2>2
<1> QED BY <1>1, <1>2, PTL DEF RequestsSpec

\* The handlers with their logs are a server as Server describes it: what holds of
\* its safety holds of the composition.
THEOREM RequestsImplementServer == RequestsSpec => Init /\ [][Next]_vars
<1>1. RequestsInit => Init
  BY DEF RequestsInit
<1>2. [RequestsNext]_allVars => [Next]_vars
  BY ServerStep DEF allVars
<1> QED BY <1>1, <1>2, PTL DEF RequestsSpec

\* The state keeps its type; in particular the semaphore stays within its limit.
THEOREM TypeCorrect == RequestsSpec => []TypeOK
<1>1. IInv => TypeOK
  <2> SUFFICES ASSUME IInv PROVE TypeOK
    OBVIOUS
  <2>1. Cap \in Nat /\ Cardinality(Holding) \in Nat
    BY Counting DEF IInv, ServerInv, Holding
  <2>2. sem \in 0..Cap
    BY <2>1 DEF IInv, ServerInv, Types, PermitInv
  <2> QED BY <2>2 DEF IInv, ServerInv, Types, Request, TypeOK
<1> QED BY <1>1, Invariance, PTL

\* BackpressureService and PermitBody neither lose nor double a permit, whatever
\* mix of ends, failures and disconnects they see.
THEOREM PermitsExact == RequestsSpec => []PermitsAccounted
<1>1. IInv => PermitsAccounted
  <2> SUFFICES ASSUME IInv PROVE PermitsAccounted
    OBVIOUS
  <2>1. Holding = InFlight
    BY DEF IInv, ServerInv, RequestInv, Holding, InFlight
  <2> QED BY <2>1 DEF IInv, ServerInv, PermitInv, PermitsAccounted
<1> QED BY <1>1, Invariance, PTL

\* serve returns under requests in flight only after its ten seconds.
THEOREM CutsNobodyEarly == RequestsSpec => []CutOnlyAfterTimeout
<1>1. IInv => CutOnlyAfterTimeout
  BY DEF IInv, ServerInv, PhaseInv
<1> QED BY <1>1, Invariance, PTL

\* An id of new_request_id stands for one request and its lines tell what happened
\* to it, even if the clock stands still or jumps back.
THEOREM LogsAreTrue == RequestsSpec => []LogTellsTheStory
<1>1. IInv => LogTellsTheStory
  BY DEF IInv, LogInv
<1> QED BY <1>1, Invariance, PTL
=============================================================================
