-------------------------- MODULE PyProcessProofs --------------------------
(***************************************************************************)
(* The Python side for any number of Python threads, starts, log lines and *)
(* attempts.                                                               *)
(*                                                                         *)
(* That no server thread escapes rests on PyO3's borrow flag: a call that  *)
(* changes self.thread has the object to itself from its first to its last *)
(* step.  ProcessImplementsGateway carries this over to the process, where *)
(* the argument about the exit starts from it.  The log bridge is an       *)
(* argument of its own, about the order of the lines on their way.         *)
(***************************************************************************)
EXTENDS PyProcess, SequenceTheorems, TLAPS

Changing == {"starting", "stopping", "joining"}

\* A call that changes the object is alone with it.
Borrowed ==
  \A t, u \in Caller :
     t # u /\ caller[t] \in Changing => caller[u] \notin Changing \cup Blocking

\* The handle is that of the latest thread; a start has none yet, a join has one.
HandleInv ==
  /\ thread \in {0, started}
  /\ \A t \in Caller : caller[t] = "starting" => thread = 0 /\ started # 0
  /\ \A t \in Caller : caller[t] = "joining" => thread # 0

\* A collected object has no call and no handle.
CollectedInv == collected => thread = 0 /\ \A t \in Caller : caller[t] = "idle"

\* What the latest thread has reported to the start that waits for it.
ReportInv ==
  /\ ~collected => \A i \in Server : server[i] \in Setup => report = "none"
  /\ (\E t \in Caller : caller[t] = "starting") /\ report = "err" =>
       server[started] \notin Alive

\* The inductive invariant of PyGateway.
GatewayInv == TypeOK /\ Borrowed /\ HandleInv /\ CollectedInv /\ ReportInv /\ NoOrphan

-----------------------------------------------------------------------------
(* The gateway object.                                                     *)

\* A new object has no thread.
LEMMA InitGatewayInv == Init => GatewayInv
<1> SUFFICES ASSUME Init PROVE GatewayInv
  OBVIOUS
<1>1. TypeOK
  <2>1. caller \in [Caller -> Blocking \cup
                          {"idle", "starting", "stopping", "joining", "refused"}]
    BY DEF Init
  <2>2. server \in [Server -> Alive \cup {"none", "finished"}]
    BY DEF Init
  <2>3. 0 \in 0..MaxStarts
    BY GatewayAssumption
  <2>4. gil \in BOOLEAN /\ permit \in BOOLEAN /\ stopped \in BOOLEAN
        /\ collected \in BOOLEAN
    BY DEF Init
  <2> QED BY <2>1, <2>2, <2>3, <2>4 DEF Init, TypeOK
<1>2. Borrowed /\ HandleInv /\ CollectedInv /\ ReportInv /\ NoOrphan
  BY DEF Init, Borrowed, HandleInv, CollectedInv, ReportInv, NoOrphan, Changing, Alive, Setup
<1> QED BY <1>1, <1>2 DEF GatewayInv

\* The thread start spawns is the only one alive.
LEMMA StartInv ==
  ASSUME GatewayInv, NEW t \in Caller, Start(t)
  PROVE  GatewayInv'
<1>0. TypeOK /\ Borrowed /\ HandleInv /\ CollectedInv /\ ReportInv /\ NoOrphan
  BY DEF GatewayInv
<1>1. started' \in 0..MaxStarts /\ started' \in Server /\ started' # 0 /\ started' = started + 1
  BY <1>0, GatewayAssumption DEF TypeOK, Start, Server
<1>2. TypeOK'
  BY <1>0, <1>1 DEF TypeOK, Start, Alive, Setup, Blocking
<1>3. \A u \in Caller : caller[u] \notin Changing \cup Blocking
  BY DEF Start, Exclusive, Shared, Changing
<1>4. \A u \in Caller : caller'[u] = IF u = t THEN "starting" ELSE caller[u]
  BY <1>0 DEF TypeOK, Start
<1>5. Borrowed'
  BY <1>3, <1>4 DEF Borrowed, Changing, Blocking
<1>6. HandleInv'
  BY <1>0, <1>1, <1>3, <1>4 DEF HandleInv, Changing, Start
<1>7. \A i \in Server : server[i] \notin Alive
  BY <1>0, <1>3 DEF NoOrphan, Changing, Start, CanCall, Server
<1>8. \A i \in Server : server'[i] = IF i = started' THEN "spawned" ELSE server[i]
  BY <1>0, <1>1 DEF TypeOK, Start
<1>9. NoOrphan'
  BY <1>4, <1>7, <1>8 DEF NoOrphan
<1>10. ReportInv'
  BY DEF ReportInv, Start
<1>11. CollectedInv'
  BY DEF CollectedInv, Start, CanCall
<1> QED BY <1>2, <1>5, <1>6, <1>9, <1>10, <1>11 DEF GatewayInv

\* start keeps the handle of a thread that reported, and lets go only a dead one.
LEMMA StartReturnsInv ==
  ASSUME GatewayInv, NEW t \in Caller, StartReturns(t)
  PROVE  GatewayInv'
<1>0. TypeOK /\ Borrowed /\ HandleInv /\ CollectedInv /\ ReportInv /\ NoOrphan
  BY DEF GatewayInv
<1>1. thread' \in 0..MaxStarts /\ thread' \in {0, started} /\ started # 0
      /\ (thread' = 0 => report = "err") /\ UNCHANGED <<started, server, report, collected>>
      /\ ~collected
  BY <1>0 DEF TypeOK, HandleInv, CollectedInv, StartReturns
<1>2. TypeOK'
  BY <1>0, <1>1 DEF TypeOK, StartReturns
<1>3. \A u \in Caller : caller'[u] = IF u = t THEN "idle" ELSE caller[u]
  BY <1>0 DEF TypeOK, StartReturns
<1>4. \A u \in Caller : caller'[u] \notin Changing
  BY <1>0, <1>3 DEF Borrowed, Changing, StartReturns
<1>5. Borrowed' /\ HandleInv' /\ CollectedInv' /\ ReportInv'
  BY <1>0, <1>1, <1>4 DEF Borrowed, HandleInv, CollectedInv, ReportInv, Changing
<1>6. NoOrphan'
  BY <1>0, <1>1 DEF NoOrphan, HandleInv, ReportInv, StartReturns, Server
<1> QED BY <1>2, <1>5, <1>6 DEF GatewayInv

\* What a server thread does by itself.
LEMMA ServerInv ==
  ASSUME GatewayInv, NEW i \in Server, Background(i) \/ Breaks(i)
  PROVE  GatewayInv'
<1> USE DEF Background, RuntimeBuilds, ServerBinds, ServerServes, ServerNotified,
            ServerReturns, Breaks, RuntimeFails, ServerFails, ServerPanics
<1>0. TypeOK /\ Borrowed /\ HandleInv /\ CollectedInv /\ ReportInv /\ NoOrphan
  BY DEF GatewayInv
<1>1. UNCHANGED <<caller, started, thread, collected>> /\ server[i] \in Alive
  BY DEF Alive, Setup
<1>2. TypeOK'
  BY <1>0 DEF TypeOK, Alive, Setup
<1>3. /\ server'[i] \in Setup => server[i] \in Setup /\ report' = report
      /\ \A j \in Server : j # i => server'[j] = server[j]
  BY <1>0 DEF TypeOK, Setup
<1>4. NoOrphan'
  BY <1>0, <1>1, <1>3 DEF NoOrphan
<1>5. Borrowed' /\ HandleInv' /\ CollectedInv'
  BY <1>0, <1>1 DEF Borrowed, HandleInv, CollectedInv
<1>6. ReportInv'
  <2>1. ~collected' => \A j \in Server : server'[j] \in Setup => report' = "none"
    <3> SUFFICES ASSUME ~collected', NEW j \in Server, server'[j] \in Setup
                 PROVE  report' = "none"
      OBVIOUS
    <3>1. CASE j = i
      BY <1>0, <1>1, <1>3, <3>1 DEF ReportInv
    <3>2. CASE j # i
      <4>1. server[j] \in Setup
        BY <1>3, <3>2
      <4>2. (thread = i \/ i = started) /\ (thread = j \/ j = started) /\ i # 0 /\ j # 0
        BY <1>0, <1>1, <4>1 DEF NoOrphan, Alive, Server
      <4> QED BY <1>0, <3>2, <4>2 DEF HandleInv
    <3> QED BY <3>1, <3>2
  <2>2. ASSUME NEW t \in Caller, caller'[t] = "starting", report' = "err"
        PROVE  server'[started'] \notin Alive
    <3>1. ~collected
      BY <1>0, <1>1, <2>2 DEF CollectedInv
    <3>2. i = started
      BY <1>0, <1>1, <2>2, <3>1 DEF NoOrphan, HandleInv, Server
    <3> QED BY <1>0, <1>1, <1>3, <2>2, <3>2 DEF ReportInv, TypeOK, Alive, Setup
  <2> QED BY <2>1, <2>2 DEF ReportInv
<1> QED BY <1>2, <1>4, <1>5, <1>6 DEF GatewayInv

\* A collected object asks for nothing any more.
LEMMA CollectInv ==
  ASSUME GatewayInv, Collect
  PROVE  GatewayInv'
<1> USE DEF Collect
<1>0. TypeOK /\ Borrowed /\ HandleInv /\ CollectedInv /\ ReportInv /\ NoOrphan
  BY DEF GatewayInv
<1>1. TypeOK'
  BY <1>0, GatewayAssumption DEF TypeOK
<1>2. Borrowed' /\ HandleInv' /\ CollectedInv' /\ ReportInv' /\ NoOrphan'
  BY <1>0 DEF Borrowed, HandleInv, CollectedInv, ReportInv, NoOrphan, Changing
<1> QED BY <1>1, <1>2 DEF GatewayInv

\* stop, from its is_finished check to its join.
LEMMA StopInv ==
  ASSUME GatewayInv, NEW t \in Caller,
         StopDead(t) \/ Stop(t) \/ StopNotify(t) \/ StopJoined(t)
  PROVE  GatewayInv'
<1>0. TypeOK /\ Borrowed /\ HandleInv /\ CollectedInv /\ ReportInv /\ NoOrphan
  BY DEF GatewayInv
<1>1. CASE StopDead(t)
  <2> USE <1>1 DEF StopDead
  <2>1. TypeOK'
    BY <1>0, GatewayAssumption DEF TypeOK
  <2>2. NoOrphan'
    BY <1>0 DEF NoOrphan, Alive, Setup
  <2> QED BY <1>0, <2>1, <2>2
          DEF GatewayInv, Borrowed, HandleInv, CollectedInv, ReportInv, Exclusive
<1>2. CASE Stop(t)
  <2> USE <1>2 DEF Stop
  <2>1. TypeOK'
    BY <1>0 DEF TypeOK
  <2>2. \A u \in Caller : caller'[u] = IF u = t THEN "stopping" ELSE caller[u]
    BY <1>0 DEF TypeOK
  <2>3. \A u \in Caller : caller[u] \notin Changing \cup Blocking
    BY DEF Exclusive, Shared, Changing
  <2>4. Borrowed' /\ HandleInv' /\ CollectedInv' /\ ReportInv' /\ NoOrphan'
    BY <1>0, <2>2, <2>3
       DEF Borrowed, HandleInv, CollectedInv, CanCall, ReportInv, NoOrphan, Changing, Blocking
  <2> QED BY <2>1, <2>4 DEF GatewayInv
<1>3. CASE StopNotify(t)
  <2> USE <1>3 DEF StopNotify
  <2>1. TypeOK'
    BY <1>0 DEF TypeOK
  <2>2. /\ \A u \in Caller : u # t => caller'[u] = caller[u]
        /\ caller'[t] = IF thread = 0 THEN "idle" ELSE "joining"
    BY <1>0 DEF TypeOK
  <2>3. Borrowed' /\ HandleInv' /\ CollectedInv' /\ ReportInv' /\ NoOrphan'
    BY <1>0, <2>2
       DEF Borrowed, HandleInv, CollectedInv, ReportInv, NoOrphan, Changing, Blocking
  <2> QED BY <2>1, <2>3 DEF GatewayInv
<1>4. CASE StopJoined(t)
  <2> USE <1>4 DEF StopJoined
  <2>1. TypeOK'
    BY <1>0, GatewayAssumption DEF TypeOK
  <2>2. \A u \in Caller : caller'[u] = IF u = t THEN "idle" ELSE caller[u]
    BY <1>0 DEF TypeOK
  <2>3. \A u \in Caller : caller'[u] \notin Changing
    BY <1>0, <2>2 DEF Borrowed, Changing
  <2>4. NoOrphan'
    BY <1>0, <2>2 DEF NoOrphan, HandleInv, Alive, Setup, Borrowed, Changing
  <2>5. Borrowed' /\ HandleInv' /\ CollectedInv' /\ ReportInv'
    BY <1>0, <2>3 DEF Borrowed, HandleInv, CollectedInv, ReportInv, Changing
  <2> QED BY <2>1, <2>4, <2>5 DEF GatewayInv
<1> QED BY <1>1, <1>2, <1>3, <1>4

\* serve_blocking and refused calls do not touch the handle.
LEMMA BlockInv ==
  ASSUME GatewayInv, NEW t \in Caller,
         \/ StopRefused(t) \/ Recover(t) \/ Block(t) \/ BlockFails(t)
         \/ BlockBinds(t) \/ BlockNotified(t) \/ BlockReturns(t)
  PROVE  GatewayInv'
<1> USE DEF StopRefused, Recover, Block, BlockFails, BlockBinds, BlockNotified, BlockReturns
<1>0. TypeOK /\ Borrowed /\ HandleInv /\ CollectedInv /\ ReportInv /\ NoOrphan
  BY DEF GatewayInv
<1>1. UNCHANGED <<started, server, report, thread, collected>> /\ ~collected
  BY <1>0 DEF CanCall, CollectedInv
<1>2. TypeOK'
  BY <1>0 DEF TypeOK, Blocking
<1>3. /\ \A u \in Caller : u # t => caller'[u] = caller[u]
      /\ caller'[t] \notin Changing /\ caller[t] \notin Changing
      /\ caller'[t] \in Blocking => \A u \in Caller : caller[u] \notin Changing
  BY <1>0 DEF TypeOK, Borrowed, Changing, Blocking, CanCall, Exclusive
<1>4. Borrowed'
  BY <1>0, <1>3 DEF Borrowed
<1>5. HandleInv' /\ CollectedInv' /\ ReportInv'
  BY <1>0, <1>1, <1>3 DEF HandleInv, CollectedInv, ReportInv, Changing
<1>6. NoOrphan'
  BY <1>0, <1>1, <1>3 DEF NoOrphan, Changing
<1> QED BY <1>2, <1>4, <1>5, <1>6 DEF GatewayInv

\* Every step of the gateway preserves its invariant.
LEMMA NextGatewayInv == GatewayInv /\ [Next]_vars => GatewayInv'
<1> SUFFICES ASSUME GatewayInv, [Next]_vars PROVE GatewayInv'
  OBVIOUS
<1>1. CASE UNCHANGED vars
  BY <1>1 DEF vars, GatewayInv, TypeOK, Borrowed, HandleInv, CollectedInv, ReportInv, NoOrphan
<1> QED BY <1>1, StartInv, StartReturnsInv, ServerInv, StopInv, BlockInv, CollectInv
        DEF Next, Proceed

-----------------------------------------------------------------------------
(* The exit.                                                               *)

\* At exit only the main thread still calls, and only stop; when it is back from
\* the hook, no server of a tracked gateway is left.
ExitInv ==
  /\ interp \in {"running", "atexit", "hooked", "leaving", "final"}
  /\ interp # "running" => \A t \in Caller : t # Main => caller[t] = "idle"
  /\ interp \in {"atexit", "hooked", "final"} => caller[Main] = "idle"
  /\ interp = "leaving" => caller[Main] \in {"idle", "stopping", "joining"}
  /\ interp \in {"leaving", "final"} /\ caller[Main] = "idle" /\ Tracked =>
       \A i \in Server : server[i] \notin Alive

\* A step of the gateway that is no new call and leaves the interpreter alone.
LEMMA SameInterp ==
  ASSUME GatewayInv, ExitInv, interp' = interp, UNCHANGED <<caller, server, collected>>,
         interp = "running" \/ package' = package
  PROVE  ExitInv'
  BY DEF ExitInv, Tracked

\* Server threads can only end.
LEMMA ServerExit ==
  ASSUME GatewayInv, ExitInv, NEW i \in Server, Background(i) \/ Breaks(i),
         interp' = interp, package' = package
  PROVE  ExitInv'
<1> USE DEF Background, RuntimeBuilds, ServerBinds, ServerServes, ServerNotified,
            ServerReturns, Breaks, RuntimeFails, ServerFails, ServerPanics
<1>1. UNCHANGED <<caller, collected>> /\ server[i] \in Alive
  BY DEF Alive, Setup
<1>2. \A j \in Server : j # i => server'[j] = server[j]
  BY DEF GatewayInv, TypeOK
<1> QED BY <1>1, <1>2 DEF ExitInv, Tracked

\* A call goes on: at exit that is the hook's stop, which leaves nothing alive.
LEMMA CallExit ==
  ASSUME GatewayInv, ExitInv, NEW t \in Caller, Proceed(t), interp' = interp,
         package' = package
  PROVE  ExitInv'
<1>0. caller \in [Caller -> Blocking \cup {"idle", "starting", "stopping", "joining", "refused"}]
  BY DEF GatewayInv, TypeOK
<1>1. CASE interp = "running"
  BY <1>1 DEF ExitInv
<1>2. CASE interp # "running"
  <2>1. t = Main /\ caller[t] \in {"stopping", "joining"} /\ interp = "leaving"
    BY <1>2, ProcessAssumption
       DEF ExitInv, Proceed, StartReturns, StopNotify, StopJoined, Recover, BlockFails,
           BlockBinds, BlockNotified, BlockReturns
  <2>2. StopNotify(t) \/ StopJoined(t)
    BY <2>1 DEF Proceed, StartReturns, StopNotify, StopJoined, Recover, BlockFails,
           BlockBinds, BlockNotified, BlockReturns
  <2>3. server' = server /\ \A u \in Caller : u # t => caller'[u] = caller[u]
    BY <1>0, <2>2 DEF StopNotify, StopJoined
  <2>4. caller'[t] \in {"idle", "joining"} /\ (caller'[t] = "idle" => thread' = 0)
    BY <1>0, <2>2 DEF StopNotify, StopJoined
  <2>5. GatewayInv'
    BY <2>2, StopInv
  <2>6. caller'[t] = "idle" /\ Tracked' => \A i \in Server : server'[i] \notin Alive
    BY <2>1, <2>3, <2>4, <2>5, <1>2 DEF GatewayInv, NoOrphan, ExitInv, Tracked, Server
  <2> QED BY <2>1, <2>3, <2>4, <2>6 DEF ExitInv
<1> QED BY <1>1, <1>2

\* The steps of the exit themselves.
LEMMA LeaveExit ==
  ASSUME GatewayInv, ExitInv, BeginExit \/ HookCheck \/ HookStop \/ Finalize
  PROVE  ExitInv'
<1>0. Main \in Caller
  BY ProcessAssumption
<1>1. CASE BeginExit
  BY <1>0, <1>1 DEF BeginExit, ExitInv, vars
<1>2. CASE HookCheck
  <2>1. UNCHANGED <<caller, server, thread, collected, package>> /\ interp = "atexit"
        /\ interp' = IF Tracked /\ is_running THEN "hooked" ELSE "leaving"
    BY <1>2 DEF HookCheck, vars
  <2>2. \A u \in Caller : caller[u] = "idle"
    BY <2>1 DEF ExitInv
  <2>3. ~is_running /\ Tracked => \A i \in Server : server[i] \notin Alive
    BY <2>2 DEF is_running, GatewayInv, NoOrphan, Tracked, Alive, Setup, Server
  <2> QED BY <1>0, <2>1, <2>2, <2>3 DEF ExitInv, Tracked
<1>3. CASE HookStop
  <2>1. interp = "hooked" /\ interp' = "leaving" /\ server' = server
        /\ (Stop(Main) \/ StopDead(Main))
    BY <1>3 DEF HookStop, Stop, StopDead
  <2>2. \A u \in Caller : caller[u] = "idle"
    BY <2>1 DEF ExitInv
  <2>3. CASE Stop(Main)
    <3>1. caller' = [caller EXCEPT ![Main] = "stopping"]
      BY <2>3 DEF Stop
    <3>2. \A u \in Caller : caller'[u] = IF u = Main THEN "stopping" ELSE caller[u]
      BY <3>1 DEF GatewayInv, TypeOK
    <3> QED BY <1>0, <2>1, <2>2, <3>2 DEF ExitInv
  <2>4. CASE StopDead(Main)
    <3>1. caller' = caller /\ thread # 0 /\ server[thread] = "finished" /\ ~collected
      BY <2>4 DEF StopDead, CanCall
    <3>2. \A i \in Server : server[i] \notin Alive
      BY <2>2, <3>1 DEF GatewayInv, NoOrphan, Alive, Setup
    <3> QED BY <1>0, <2>1, <2>2, <3>1, <3>2 DEF ExitInv
  <2> QED BY <2>1, <2>3, <2>4
<1>4. CASE Finalize
  BY <1>0, <1>4 DEF Finalize, ExitInv, Tracked, vars
<1> QED BY <1>1, <1>2, <1>3, <1>4

-----------------------------------------------------------------------------
(* The process.                                                            *)

\* Every step of the process is a step of the gateway, or leaves it alone.
LEMMA GatewayStep == ProcessNext => [Next]_vars
<1> SUFFICES ASSUME ProcessNext PROVE [Next]_vars
  OBVIOUS
<1>1. ASSUME NEW t \in Caller, Calls(t) \/ Goes(t) PROVE Next
  BY <1>1 DEF Calls, Goes, Blocks, Next, Proceed
<1>2. ASSUME NEW i \in Server, Works(i) PROVE Next
  BY <1>2 DEF Works, Serves, Next, Background
<1>3. CASE Fails \/ Drop
  BY <1>3 DEF Fails, Drop, Next, Proceed
<1>4. CASE Leaves
  BY <1>4, ProcessAssumption DEF Leaves, HookCheck, HookStop, Finalize, Next
<1>5. CASE \/ \E level \in BOOLEAN, to \in {"stderr", "python"} : set_logging(level, to)
           \/ \E valid \in BOOLEAN : gateway(valid)
           \/ \E level \in BOOLEAN, to \in {"stderr", "python"} : Gateway(level, to)
           \/ Hold \/ LetGo \/ init_tracing \/ Log \/ Bridge \/ EmitFails \/ BeginExit
  <2>1. UNCHANGED vars
    BY <1>5 DEF set_logging, gateway, Gateway, Hold, LetGo, init_tracing, Log, Bridge, Resolve,
                Receive, Emit, Discard, EmitFails, BeginExit
  <2> QED BY <2>1
<1> QED BY <1>1, <1>2, <1>3, <1>4, <1>5 DEF ProcessNext

\* Every step of the process preserves what holds of the exit.
LEMMA NextExitInv ==
  ASSUME GatewayInv, ExitInv, ProcessNext
  PROVE  ExitInv'
<1>1. ASSUME NEW t \in Caller, Calls(t) PROVE ExitInv'
  BY <1>1 DEF Calls, ExitInv, bridgeVars
<1>2. ASSUME NEW t \in Caller, Goes(t) PROVE ExitInv'
  <2>1. Proceed(t) /\ UNCHANGED <<interp, package>>
    BY <1>2 DEF Goes, Blocks, write, Proceed, bridgeVars
  <2> QED BY <2>1, CallExit
<1>3. ASSUME NEW i \in Server, Works(i) PROVE ExitInv'
  <2>1. Background(i) /\ UNCHANGED <<interp, package>>
    BY <1>3 DEF Works, Serves, write, Background, bridgeVars
  <2> QED BY <2>1, ServerExit
<1>4. CASE Fails
  <2>1. UNCHANGED <<interp, package>>
    BY <1>4 DEF Fails, bridgeVars
  <2>2. ASSUME NEW t \in Caller, BlockFails(t) PROVE ExitInv'
    BY <2>1, <2>2, CallExit DEF Proceed
  <2>3. ASSUME NEW i \in Server, Breaks(i) PROVE ExitInv'
    BY <2>1, <2>3, ServerExit
  <2> QED BY <1>4, <2>2, <2>3 DEF Fails
<1>5. CASE \/ \E level \in BOOLEAN, to \in {"stderr", "python"} : set_logging(level, to)
           \/ \E valid \in BOOLEAN : gateway(valid)
           \/ \E level \in BOOLEAN, to \in {"stderr", "python"} : Gateway(level, to)
           \/ Hold \/ LetGo \/ init_tracing \/ Log \/ Bridge \/ EmitFails
  <2>1. UNCHANGED vars /\ interp' = interp /\ (interp = "running" \/ package' = package)
    BY <1>5 DEF set_logging, gateway, Gateway, Hold, LetGo, init_tracing, Log, write, Bridge, Resolve,
                Receive, Emit, Discard, EmitFails, bridgeVars
  <2> QED BY <2>1, SameInterp DEF vars
<1>6. CASE Drop
  BY <1>6 DEF Drop, ExitInv, bridgeVars
<1> QED BY <1>1, <1>2, <1>3, <1>4, <1>5, <1>6, LeaveExit DEF ProcessNext, Leaves

-----------------------------------------------------------------------------
(* The log bridge: chunks of lines, in terms of what is in a sequence.     *)

In(x, s) == \E j \in 1..Len(s) : s[j] = x

Asc(s) == \A j, k \in 1..Len(s) : j < k => s[j] < s[k]

Below(s, t) == \A x, y \in Nat : In(x, s) /\ In(y, t) => x < y

\* A line is queued, in chunks q.
Queued(x, q) == \E c \in 1..Len(q) : In(x, q[c])

Chunks == Seq(Nat)

\* The first line leaves a chunk.
LEMMA TailIn ==
  ASSUME NEW s \in Chunks, s # <<>>
  PROVE  /\ Tail(s) \in Chunks /\ Head(s) \in Nat
         /\ \A x : In(x, s) <=> x = Head(s) \/ In(x, Tail(s))
         /\ Asc(s) => Asc(Tail(s)) /\ \A x : In(x, Tail(s)) => Head(s) < x
<1>1. /\ Head(s) \in Nat /\ Tail(s) \in Chunks /\ Len(Tail(s)) = Len(s) - 1
      /\ \A i \in 1..Len(Tail(s)) : Tail(s)[i] = s[i + 1]
  BY HeadTailProperties DEF Chunks
<1>2. Len(s) \in Nat \ {0} /\ Head(s) = s[1]
  BY EmptySeq DEF Chunks
<1>3. \A i \in 1..Len(s) : i = 1 \/ (i - 1 \in 1..Len(Tail(s)) /\ Tail(s)[i - 1] = s[i])
  BY <1>1, <1>2
<1>4. \A i \in 1..Len(Tail(s)) : i + 1 \in 1..Len(s) /\ i + 1 > 1
  BY <1>1, <1>2
<1>5. \A x : In(x, s) <=> x = Head(s) \/ In(x, Tail(s))
  <2> TAKE x
  <2>1. ASSUME In(x, s) PROVE x = Head(s) \/ In(x, Tail(s))
    BY <2>1, <1>2, <1>3 DEF In
  <2>2. ASSUME x = Head(s) PROVE In(x, s)
    BY <2>2, <1>2 DEF In
  <2>3. ASSUME In(x, Tail(s)) PROVE In(x, s)
    BY <2>3, <1>1, <1>4 DEF In
  <2> QED BY <2>1, <2>2, <2>3
<1>6. ASSUME Asc(s) PROVE Asc(Tail(s)) /\ \A x : In(x, Tail(s)) => Head(s) < x
  <2>1. \A i, k \in 1..Len(Tail(s)) : i < k => s[i + 1] < s[k + 1]
    BY <1>4, <1>6, <1>1, <1>2 DEF Asc
  <2>2. \A i \in 1..Len(Tail(s)) : s[1] < s[i + 1]
    BY <1>4, <1>6, <1>2 DEF Asc
  <2> QED BY <2>1, <2>2, <1>1, <1>2 DEF Asc, In
<1> QED BY <1>1, <1>5, <1>6

\* A line is added to those that were delivered.
LEMMA AppendIn ==
  ASSUME NEW s \in Chunks, NEW e \in Nat
  PROVE  /\ Append(s, e) \in Chunks
         /\ \A x : In(x, Append(s, e)) <=> In(x, s) \/ x = e
         /\ Asc(s) /\ (\A x : In(x, s) => x < e) => Asc(Append(s, e))
<1> DEFINE a == Append(s, e)
<1>1. /\ a \in Chunks /\ Len(a) = Len(s) + 1 /\ a[Len(s) + 1] = e /\ Len(s) \in Nat
      /\ \A i \in 1..Len(s) : a[i] = s[i]
  BY AppendProperties, LenProperties DEF Chunks
<1> HIDE DEF a
<1>2. \A i \in 1..Len(a) : i \in 1..Len(s) \/ i = Len(s) + 1
  BY <1>1
<1>3. 1..Len(s) \subseteq 1..Len(a) /\ Len(s) + 1 \in 1..Len(a)
  BY <1>1
<1>4. \A x : In(x, a) <=> In(x, s) \/ x = e
  <2> TAKE x
  <2>1. ASSUME In(x, a) PROVE In(x, s) \/ x = e
    BY <2>1, <1>1, <1>2 DEF In
  <2>2. ASSUME In(x, s) PROVE In(x, a)
    BY <2>2, <1>1, <1>3 DEF In
  <2>3. ASSUME x = e PROVE In(x, a)
    BY <2>3, <1>1, <1>3 DEF In
  <2> QED BY <2>1, <2>2, <2>3
<1>5. ASSUME Asc(s), \A x : In(x, s) => x < e PROVE Asc(a)
  <2>1. \A i \in 1..Len(s) : s[i] < e
    BY <1>5 DEF In
  <2> SUFFICES ASSUME NEW j \in 1..Len(a), NEW k \in 1..Len(a), j < k PROVE a[j] < a[k]
    BY DEF Asc
  <2>2. j \in 1..Len(s)
    BY <1>1
  <2> QED BY <1>1, <1>2, <1>5, <2>1, <2>2 DEF Asc
<1> QED BY <1>1, <1>4, <1>5 DEF a

\* Chunks q wait, p is in hand, d was delivered, l is lost and w lines were written.
Good(q, p, d, l, w) ==
  /\ Asc(d) /\ Asc(p) /\ Below(d, p)
  /\ \A c \in 1..Len(q) : Asc(q[c]) /\ Below(d, q[c]) /\ Below(p, q[c])
  /\ \A b, c \in 1..Len(q) : b < c => Below(q[b], q[c])
  /\ \A x : In(x, d) \/ In(x, p) \/ Queued(x, q) => x \notin l
  /\ \A x : x \in 1..w <=> In(x, d) \/ In(x, p) \/ Queued(x, q) \/ x \in l

\* A chunk of the next n lines.
LEMMA ChunkIn ==
  ASSUME NEW w \in Nat, NEW n \in 1..2
  PROVE  LET s == [k \in 1..n |-> w + k] IN
         s \in Chunks /\ Asc(s) /\ \A x : In(x, s) <=> x \in (w + 1)..(w + n)
<1> DEFINE s == [k \in 1..n |-> w + k]
<1>1. s \in Chunks /\ Len(s) = n
  BY IsASeq DEF Chunks
<1>2. \A k \in 1..n : s[k] = w + k
  OBVIOUS
<1> HIDE DEF s
<1>3. Asc(s)
  BY <1>1, <1>2 DEF Asc
<1>4. \A x : In(x, s) <=> x \in (w + 1)..(w + n)
  <2> TAKE x
  <2>1. ASSUME In(x, s) PROVE x \in (w + 1)..(w + n)
    BY <2>1, <1>1, <1>2 DEF In
  <2>2. ASSUME x \in (w + 1)..(w + n) PROVE In(x, s)
    <3>1. x - w \in 1..n /\ s[x - w] = x
      BY <2>2, <1>2
    <3> QED BY <3>1, <1>1 DEF In
  <2> QED BY <2>1, <2>2
<1> QED BY <1>1, <1>3, <1>4 DEF s

\* PyLogger::write sends its lines behind all others.
LEMMA WriteGood ==
  ASSUME NEW q \in Seq(Chunks), NEW p \in Chunks, NEW d \in Chunks, NEW l, NEW w \in Nat,
         NEW n \in 1..2, Good(q, p, d, l, w)
  PROVE  LET r == Append(q, [k \in 1..n |-> w + k]) IN
         r \in Seq(Chunks) /\ Good(r, p, d, l, w + n)
<1> DEFINE s == [k \in 1..n |-> w + k]
           r == Append(q, s)
<1>1. s \in Chunks /\ Asc(s) /\ \A x : In(x, s) <=> x \in (w + 1)..(w + n)
  BY ChunkIn
<1>2. /\ r \in Seq(Chunks) /\ Len(r) = Len(q) + 1 /\ r[Len(q) + 1] = s /\ Len(q) \in Nat
      /\ \A i \in 1..Len(q) : r[i] = q[i]
  <2> HIDE DEF s
  <2> QED BY <1>1, AppendProperties, LenProperties
<1> HIDE DEF r, s
<1>3. \A c \in 1..Len(r) : \/ c \in 1..Len(q) /\ r[c] = q[c]
                           \/ c = Len(q) + 1 /\ r[c] = s
  BY <1>2
<1>4. 1..Len(q) \subseteq 1..Len(r) /\ Len(q) + 1 \in 1..Len(r)
  BY <1>2
<1>5. \A x : Queued(x, r) <=> Queued(x, q) \/ In(x, s)
  <2> TAKE x
  <2>1. ASSUME Queued(x, r) PROVE Queued(x, q) \/ In(x, s)
    BY <2>1, <1>3 DEF Queued
  <2>2. ASSUME Queued(x, q) PROVE Queued(x, r)
    BY <2>2, <1>2, <1>4 DEF Queued
  <2>3. ASSUME In(x, s) PROVE Queued(x, r)
    BY <2>3, <1>2, <1>4 DEF Queued
  <2> QED BY <2>1, <2>2, <2>3
<1>6. \A x : In(x, d) \/ In(x, p) \/ Queued(x, q) \/ x \in l => x \in 1..w
  BY DEF Good
<1>7. Below(d, s) /\ Below(p, s) /\ \A c \in 1..Len(q) : Below(q[c], s)
  <2>1. \A x, y \in Nat : x \in 1..w /\ y \in (w + 1)..(w + n) => x < y
    OBVIOUS
  <2> QED BY <1>1, <1>6, <2>1 DEF Below, Queued
<1>8. \A c \in 1..Len(r) : Asc(r[c]) /\ Below(d, r[c]) /\ Below(p, r[c])
  BY <1>1, <1>3, <1>7 DEF Good
<1>9. \A b, c \in 1..Len(r) : b < c => Below(r[b], r[c])
  BY <1>2, <1>3, <1>7 DEF Good
<1>10. \A x : In(x, d) \/ In(x, p) \/ Queued(x, r) => x \notin l
  <2>1. \A x : x \in (w + 1)..(w + n) => x \notin 1..w
    OBVIOUS
  <2> QED BY <1>1, <1>5, <1>6, <2>1 DEF Good
<1>11. \A x : x \in 1..(w + n) <=> In(x, d) \/ In(x, p) \/ Queued(x, r) \/ x \in l
  <2>1. \A x : x \in 1..(w + n) <=> x \in 1..w \/ x \in (w + 1)..(w + n)
    OBVIOUS
  <2> QED BY <1>1, <1>5, <2>1 DEF Good
<1> QED BY <1>2, <1>8, <1>9, <1>10, <1>11 DEF Good, r, s

\* The consumer takes the first chunk when it has none in hand.
LEMMA ReceiveGood ==
  ASSUME NEW q \in Seq(Chunks), q # <<>>, NEW d \in Chunks, NEW l, NEW w \in Nat,
         Good(q, <<>>, d, l, w)
  PROVE  /\ Head(q) \in Chunks /\ Tail(q) \in Seq(Chunks)
         /\ Good(Tail(q), Head(q), d, l, w)
<1> DEFINE h == Head(q)
           t == Tail(q)
<1>1. /\ h \in Chunks /\ t \in Seq(Chunks) /\ Len(t) = Len(q) - 1
      /\ \A i \in 1..Len(t) : t[i] = q[i + 1]
  BY HeadTailProperties
<1>2. Len(q) \in Nat \ {0} /\ h = q[1]
  BY EmptySeq
<1> HIDE DEF h, t
<1>3. \A i \in 1..Len(q) : i = 1 \/ (i - 1 \in 1..Len(t) /\ t[i - 1] = q[i])
  BY <1>1, <1>2
<1>4. \A i \in 1..Len(t) : i + 1 \in 1..Len(q) /\ i + 1 > 1
  BY <1>1, <1>2
<1>5. \A x : Queued(x, q) <=> In(x, h) \/ Queued(x, t)
  <2> TAKE x
  <2>1. ASSUME Queued(x, q) PROVE In(x, h) \/ Queued(x, t)
    BY <2>1, <1>2, <1>3 DEF Queued
  <2>2. ASSUME In(x, h) PROVE Queued(x, q)
    BY <2>2, <1>2 DEF Queued
  <2>3. ASSUME Queued(x, t) PROVE Queued(x, q)
    BY <2>3, <1>1, <1>4 DEF Queued
  <2> QED BY <2>1, <2>2, <2>3
<1>6. \A x : ~In(x, <<>>)
  BY DEF In
<1>7. Asc(h) /\ Below(d, h)
  BY <1>2 DEF Good
<1>8. \A c \in 1..Len(t) : Asc(t[c]) /\ Below(d, t[c]) /\ Below(h, t[c])
  <2> TAKE c \in 1..Len(t)
  <2>1. c + 1 \in 1..Len(q) /\ t[c] = q[c + 1] /\ 1 < c + 1 /\ 1 \in 1..Len(q)
    BY <1>1, <1>2, <1>4
  <2> QED BY <2>1, <1>2 DEF Good
<1>9. \A b, c \in 1..Len(t) : b < c => Below(t[b], t[c])
  <2> TAKE b, c \in 1..Len(t)
  <2>1. /\ b + 1 \in 1..Len(q) /\ c + 1 \in 1..Len(q) /\ (b < c => b + 1 < c + 1)
        /\ t[b] = q[b + 1] /\ t[c] = q[c + 1]
    BY <1>1, <1>2, <1>4
  <2> QED BY <2>1 DEF Good
<1> QED BY <1>1, <1>5, <1>6, <1>7, <1>8, <1>9 DEF Good, h, t

\* The first line in hand is delivered ...
LEMMA EmitGood ==
  ASSUME NEW q \in Seq(Chunks), NEW p \in Chunks, p # <<>>, NEW d \in Chunks, NEW l,
         NEW w \in Nat, Good(q, p, d, l, w)
  PROVE  /\ Tail(p) \in Chunks /\ Append(d, Head(p)) \in Chunks
         /\ Good(q, Tail(p), Append(d, Head(p)), l, w)
<1> DEFINE h == Head(p)
           t == Tail(p)
           a == Append(d, h)
<1>1. /\ t \in Chunks /\ h \in Nat /\ \A x : In(x, p) <=> x = h \/ In(x, t)
      /\ Asc(t) /\ \A x : In(x, t) => h < x
  BY TailIn DEF Good
<1> HIDE DEF h, t
<1>2. /\ a \in Chunks /\ \A x : In(x, a) <=> In(x, d) \/ x = h
      /\ Asc(d) /\ (\A x : In(x, d) => x < h) => Asc(a)
  BY <1>1, AppendIn
<1>3. \A x : In(x, d) => x \in Nat
  BY ElementOfSeq DEF In, Chunks
<1> HIDE DEF a
<1>4. Asc(a)
  BY <1>1, <1>2, <1>3 DEF Good, Below
<1>5. Below(a, t) /\ \A c \in 1..Len(q) : Below(a, q[c]) /\ Below(t, q[c])
  BY <1>1, <1>2 DEF Good, Below
<1> QED BY <1>1, <1>2, <1>4, <1>5 DEF Good, h, t, a

\* ... or given up.
LEMMA DropGood ==
  ASSUME NEW q \in Seq(Chunks), NEW p \in Chunks, p # <<>>, NEW d \in Chunks, NEW l,
         NEW w \in Nat, Good(q, p, d, l, w)
  PROVE  Tail(p) \in Chunks /\ Good(q, Tail(p), d, l \cup {Head(p)}, w)
<1> DEFINE h == Head(p)
           t == Tail(p)
<1>1. /\ t \in Chunks /\ h \in Nat /\ \A x : In(x, p) <=> x = h \/ In(x, t)
      /\ Asc(t) /\ \A x : In(x, t) => h < x
  BY TailIn DEF Good
<1> HIDE DEF h, t
<1>2. ~In(h, d) /\ ~In(h, t) /\ ~Queued(h, q)
  BY <1>1 DEF Good, Below, Queued
<1>3. Below(d, t) /\ \A c \in 1..Len(q) : Below(t, q[c])
  BY <1>1 DEF Good, Below
<1> QED BY <1>1, <1>2, <1>3 DEF Good, h, t

\* The inductive invariant of the bridge.
BridgeInv ==
  /\ queue \in Seq(Chunks) /\ pending \in Chunks /\ delivered \in Chunks /\ written \in Nat
  /\ Good(queue, pending, delivered, lost, written)

\* It says of the lines in their stages what LinesInOrder says.
LEMMA BridgeOrder == BridgeInv => LinesInOrder
<1> SUFFICES ASSUME BridgeInv PROVE LinesInOrder
  OBVIOUS
<1>0. /\ queue \in Seq(Chunks) /\ pending \in Chunks /\ delivered \in Chunks
      /\ written \in Nat /\ Good(queue, pending, delivered, lost, written)
  BY DEF BridgeInv
<1> DEFINE lines == UNION {Range(Stage(c)) : c \in Stages}
<1>1. \A c \in Stages : /\ c = 0 => Stage(c) = delivered
                        /\ c = 1 => Stage(c) = pending
                        /\ c \notin {0, 1} => /\ c - 1 \in 1..Len(queue)
                                             /\ Stage(c) = queue[c - 1]
  BY <1>0, LenProperties DEF Stages, Stage
<1>2. Stages \subseteq Nat /\ {0, 1} \subseteq Stages
  BY <1>0, LenProperties DEF Stages
<1>3. \A c \in 1..Len(queue) : c + 1 \in Stages /\ Stage(c + 1) = queue[c]
  BY <1>0, LenProperties DEF Stages, Stage
<1>4. \A c \in Stages : Stage(c) \in Chunks
  <2> TAKE c \in Stages
  <2>1. c \notin {0, 1} => queue[c - 1] \in Chunks
    BY <1>0, <1>1, ElementOfSeq
  <2> QED BY <1>0, <1>1, <2>1
<1>5. \A c \in Stages : /\ DOMAIN Stage(c) = 1..Len(Stage(c))
                        /\ \A j \in DOMAIN Stage(c) : Stage(c)[j] \in Nat
  BY <1>4, LenProperties, ElementOfSeq DEF Chunks
<1>6. \A c \in Stages : Asc(Stage(c))
  BY <1>0, <1>1 DEF Good
<1>7. \A c, d \in Stages : c < d => Below(Stage(c), Stage(d))
  <2> SUFFICES ASSUME NEW c \in Stages, NEW d \in Stages, c < d
               PROVE  Below(Stage(c), Stage(d))
    OBVIOUS
  <2>1. c \in Nat /\ d \in Nat /\ d # 0
    BY <1>2
  <2>2. CASE c \in {0, 1}
    BY <2>1, <2>2, <1>0, <1>1 DEF Good
  <2>3. CASE c \notin {0, 1}
    <3>1. d \notin {0, 1} /\ c - 1 < d - 1
      BY <2>1, <2>3
    <3> QED BY <2>3, <3>1, <1>0, <1>1 DEF Good
  <2> QED BY <2>2, <2>3
<1>8. \A c, d \in Stages : \A j \in DOMAIN Stage(c), k \in DOMAIN Stage(d) :
        c < d \/ (c = d /\ j < k) => Stage(c)[j] < Stage(d)[k]
  <2> SUFFICES ASSUME NEW c \in Stages, NEW d \in Stages,
                      NEW j \in DOMAIN Stage(c), NEW k \in DOMAIN Stage(d),
                      c < d \/ (c = d /\ j < k)
               PROVE  Stage(c)[j] < Stage(d)[k]
    OBVIOUS
  <2>1. CASE c = d /\ j < k
    BY <2>1, <1>5, <1>6 DEF Asc
  <2>2. CASE c < d
    <3>1. In(Stage(c)[j], Stage(c)) /\ In(Stage(d)[k], Stage(d))
      BY <1>5 DEF In
    <3> QED BY <2>2, <3>1, <1>5, <1>7 DEF Below
  <2> QED BY <2>1, <2>2
<1>9. \A x : x \in lines <=> In(x, delivered) \/ In(x, pending) \/ Queued(x, queue)
  <2> TAKE x
  <2>1. x \in lines <=> \E c \in Stages : In(x, Stage(c))
    BY <1>5 DEF Range, In
  <2>2. ASSUME NEW c \in Stages, In(x, Stage(c))
        PROVE  In(x, delivered) \/ In(x, pending) \/ Queued(x, queue)
    BY <2>2, <1>1 DEF Queued
  <2>3. ASSUME In(x, delivered) \/ In(x, pending) PROVE \E c \in Stages : In(x, Stage(c))
    BY <2>3, <1>1, <1>2
  <2>4. ASSUME Queued(x, queue) PROVE \E c \in Stages : In(x, Stage(c))
    BY <2>4, <1>3 DEF Queued
  <2> QED BY <2>1, <2>2, <2>3, <2>4
<1>10. lines \cap lost = {} /\ lines \cup lost = 1..written
  <2> HIDE DEF lines
  <2> QED BY <1>0, <1>9 DEF Good
<1> QED BY <1>8, <1>10 DEF LinesInOrder

\* PyLogger::write, whatever the target.
LEMMA WriteInv ==
  ASSUME BridgeInv, write
  PROVE  BridgeInv'
<1>1. CASE UNCHANGED bridgeVars
  BY <1>1 DEF BridgeInv, bridgeVars
<1>2. ASSUME NEW n \in 1..2, written' = written + n,
             queue' = Append(queue, [k \in 1..n |-> written + k]),
             UNCHANGED <<pending, delivered, lost>>
      PROVE  BridgeInv'
  <2>1. /\ queue' \in Seq(Chunks)
        /\ Good(queue', pending, delivered, lost, written + n)
    BY <1>2, WriteGood DEF BridgeInv
  <2>2. written + n \in Nat
    BY DEF BridgeInv
  <2> QED BY <1>2, <2>1, <2>2 DEF BridgeInv
<1> QED BY <1>1, <1>2 DEF write

\* What leaves the lines alone.
LEMMA SameBridge ==
  ASSUME BridgeInv, UNCHANGED <<queue, pending, delivered, lost, written>>
  PROVE  BridgeInv'
BY DEF BridgeInv

\* Every step of the process keeps the lines in order.
LEMMA NextBridgeInv ==
  ASSUME BridgeInv, ProcessNext
  PROVE  BridgeInv'
<1>0. /\ queue \in Seq(Chunks) /\ pending \in Chunks /\ delivered \in Chunks
      /\ written \in Nat /\ Good(queue, pending, delivered, lost, written)
  BY DEF BridgeInv
<1>1. CASE Receive
  BY <1>0, <1>1, ReceiveGood DEF Receive, BridgeInv
<1>2. CASE Emit
  BY <1>0, <1>2, EmitGood DEF Emit, BridgeInv
<1>3. CASE Discard
  BY <1>0, <1>3, DropGood DEF Discard, BridgeInv
<1>4. CASE EmitFails
  <2>1. CASE UNCHANGED <<pending, lost>>
    BY <1>4, <2>1, SameBridge DEF EmitFails
  <2>2. CASE pending' = Tail(pending) /\ lost' = lost \cup {Head(pending)}
    BY <1>0, <1>4, <2>2, DropGood DEF EmitFails, BridgeInv
  <2> QED BY <1>4, <2>1, <2>2 DEF EmitFails
<1>5. CASE \/ Log \/ \E i \in Server : Serves(i)
           \/ \E t \in Caller : Blocks(t)
  BY <1>5, WriteInv DEF Log, Serves, Blocks
<1>6. ASSUME NEW t \in Caller, Calls(t) \/ Goes(t) PROVE BridgeInv'
  BY <1>5, <1>6, SameBridge DEF Calls, Goes, bridgeVars
<1>7. ASSUME NEW i \in Server, Works(i) PROVE BridgeInv'
  BY <1>5, <1>7, SameBridge DEF Works, bridgeVars
<1>8. CASE \/ \E level \in BOOLEAN, to \in {"stderr", "python"} : set_logging(level, to)
           \/ \E valid \in BOOLEAN : gateway(valid)
           \/ \E level \in BOOLEAN, to \in {"stderr", "python"} : Gateway(level, to)
           \/ Drop \/ Hold \/ LetGo \/ init_tracing \/ Fails \/ Resolve \/ BeginExit
           \/ Leaves
  <2>1. UNCHANGED <<queue, pending, delivered, lost, written>>
    BY <1>8 DEF set_logging, gateway, Gateway, Drop, Hold, LetGo, init_tracing, Fails, Resolve, BeginExit,
                Leaves, HookCheck, HookStop, Finalize, bridgeVars
  <2> QED BY <2>1, SameBridge
<1> QED BY <1>1, <1>2, <1>3, <1>4, <1>5, <1>6, <1>7, <1>8 DEF ProcessNext, Bridge

-----------------------------------------------------------------------------
(* The theorems.                                                           *)

IInv == GatewayInv /\ ExitInv /\ BridgeInv

\* A process starts with no thread and no line.
LEMMA InitIInv == ProcessInit => IInv
<1> SUFFICES ASSUME ProcessInit PROVE IInv
  OBVIOUS
<1>1. GatewayInv
  BY InitGatewayInv DEF ProcessInit
<1>2. ExitInv
  BY DEF ProcessInit, ExitInv
<1>3. BridgeInv
  <2>1. <<>> \in Seq(Chunks) /\ <<>> \in Chunks /\ Len(<<>>) = 0
    BY EmptySeq DEF Chunks
  <2>2. \A x : ~In(x, <<>>) /\ ~Queued(x, <<>>)
    BY DEF In, Queued
  <2>3. 1..0 = {}
    OBVIOUS
  <2>4. Good(<<>>, <<>>, <<>>, {}, 0)
    BY <2>1, <2>2, <2>3 DEF Good, Asc, Below
  <2> QED BY <2>1, <2>4 DEF ProcessInit, BridgeInv
<1> QED BY <1>1, <1>2, <1>3 DEF IInv

\* The inductive invariant of the whole process holds.
THEOREM Invariance == ProcessSpec => []IInv
<1>1. IInv /\ [ProcessNext]_processVars => IInv'
  <2> SUFFICES ASSUME IInv, [ProcessNext]_processVars PROVE IInv'
    OBVIOUS
  <2>1. GatewayInv /\ ExitInv /\ BridgeInv
    BY DEF IInv
  <2>2. CASE ProcessNext
    <3>1. GatewayInv'
      BY <2>1, <2>2, GatewayStep, NextGatewayInv
    <3>2. ExitInv' /\ BridgeInv'
      BY <2>1, <2>2, NextExitInv, NextBridgeInv
    <3> QED BY <3>1, <3>2 DEF IInv
  <2>3. CASE UNCHANGED processVars
    <3>1. UNCHANGED vars /\ UNCHANGED <<interp, package>>
          /\ UNCHANGED <<queue, pending, delivered, lost, written>>
      BY <2>3 DEF processVars, bridgeVars
    <3>2. GatewayInv'
      BY <2>1, <3>1, NextGatewayInv
    <3>3. ExitInv' /\ BridgeInv'
      BY <2>1, <3>1, SameInterp, SameBridge DEF vars
    <3> QED BY <3>2, <3>3 DEF IInv
  <2> QED BY <2>2, <2>3
<1> QED BY InitIInv, <1>1, PTL DEF ProcessSpec

\* Seen without its logging and its exit, the process does with the gateway object
\* only what PyGateway allows: the GIL and the hook take behaviours away and add none.
THEOREM ProcessImplementsGateway == ProcessSpec => Init /\ [][Next]_vars
<1>1. ProcessInit => Init
  BY DEF ProcessInit
<1>2. [ProcessNext]_processVars => [Next]_vars
  BY GatewayStep DEF processVars
<1> QED BY <1>1, <1>2, PTL DEF ProcessSpec

\* Every value of the gateway object's state is of its type.
THEOREM TypeCorrect == ProcessSpec => []TypeOK
<1>1. IInv => TypeOK
  BY DEF IInv, GatewayInv
<1> QED BY <1>1, Invariance, PTL

\* While the object exists, start and stop never lose a server thread: whichever one is
\* alive is the one that self.thread holds, or that a start still waits for, so a later
\* stop reaches it.
THEOREM NoThreadEscapes == ProcessSpec => []NoOrphan
<1>1. IInv => NoOrphan
  BY DEF IInv, GatewayInv
<1> QED BY <1>1, Invariance, PTL

\* _shutdown_live_gateways stops what is_running said was running: when the interpreter
\* is gone, a gateway that the factory made and that was not collected before has no
\* server thread left to be killed in the middle of a request.  (Of a Gateway made by
\* its class, or collected while it ran, the hook knows nothing.)
THEOREM ExitLeavesNoServer == ProcessSpec => []ExitDrains
<1>1. IInv => ExitDrains
  BY DEF IInv, ExitInv, ExitDrains
<1> QED BY <1>1, Invariance, PTL

\* The bridge to Python's logging keeps the order of the lines, repeats none, and
\* accounts for every one of them: delivered, on its way or given up.
THEOREM BridgeKeepsOrder == ProcessSpec => []LinesInOrder
<1>1. IInv => LinesInOrder
  BY BridgeOrder DEF IInv
<1> QED BY <1>1, Invariance, PTL
=============================================================================
