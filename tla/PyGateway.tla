----------------------------- MODULE PyGateway -----------------------------
(***************************************************************************)
(* python/src/lib.rs: one Gateway object, used from several Python         *)
(* threads: start, stop and serve_blocking, the background server threads  *)
(* that start spawns, and the tokio Notify that stop signals through.      *)
(*                                                                         *)
(* PyO3 guards the object: a &self method (serve_blocking) holds a shared  *)
(* borrow and a &mut self method (start, stop) an exclusive one for as     *)
(* long as it runs; a call that cannot get its borrow raises RuntimeError  *)
(* and does nothing.  start keeps the GIL while it waits for the server    *)
(* thread; stop and serve_blocking give it up while they wait.             *)
(***************************************************************************)
EXTENDS Naturals, FiniteSets

CONSTANTS Caller,      \* Python threads
          MaxStarts    \* bound: background threads spawned in the object's life

ASSUME GatewayAssumption == MaxStarts \in Nat

Server == 1..MaxStarts

VARIABLES caller,    \* per Python thread: what it is doing with the object
          gil,       \* start, or the first half of stop, is holding the GIL
          started,   \* background threads spawned so far; the latest one's number
          server,    \* per background thread: its state
          report,    \* what the latest background thread sent through the channel
          thread,    \* self.thread, or the handle a stop has taken from it to join: 0 or
                     \* the background thread's number
          permit,    \* the Notify's stored permit
          stopped,   \* a stop() has begun since the latest background start
          collected  \* Python has freed the object

vars == <<caller, gil, started, server, report, thread, permit, stopped, collected>>

\* A background thread that has not reported yet.
Setup == {"spawned", "attaching", "built"}

Alive == Setup \cup {"bound", "serving", "draining"}

\* The borrow flag of the PyO3 cell.
Exclusive == \E t \in Caller : caller[t] \in {"starting", "stopping", "joining"}
Blocking  == {"binding", "serving", "draining"}
Shared    == \E t \in Caller : caller[t] \in Blocking

CanCall(t) == caller[t] = "idle" /\ ~gil /\ ~collected

Init ==
  /\ caller = [t \in Caller |-> "idle"]
  /\ gil = FALSE
  /\ started = 0
  /\ server = [i \in Server |-> "none"]
  /\ report = "none"
  /\ thread = 0
  /\ permit = FALSE
  /\ stopped = FALSE
  /\ collected = FALSE

-----------------------------------------------------------------------------
(* start                                                                   *)

\* Mutant: a start on a running gateway is let through.
StartAgain(t) ==
  /\ CanCall(t)
  /\ ~Exclusive /\ ~Shared
  /\ started < MaxStarts
  /\ started' = started + 1
  /\ server' = [server EXCEPT ![started + 1] = "spawned"]
  /\ report' = "none"
  /\ caller' = [caller EXCEPT ![t] = "starting"]
  /\ gil' = TRUE
  /\ stopped' = FALSE
  /\ UNCHANGED <<thread, permit, collected>>

\* "gateway is already running", or the borrow is refused: an exception and no
\* effect; otherwise a thread is spawned and start waits for its report.
Start(t) ==
  /\ CanCall(t)
  /\ ~Exclusive /\ ~Shared
  /\ thread = 0
  /\ started < MaxStarts
  /\ started' = started + 1
  /\ server' = [server EXCEPT ![started + 1] = "spawned"]
  /\ report' = "none"
  /\ caller' = [caller EXCEPT ![t] = "starting"]
  /\ gil' = TRUE
  /\ stopped' = FALSE
  /\ UNCHANGED <<thread, permit, collected>>

\* build_runtime succeeds.
RuntimeBuilds(i) ==
  /\ server[i] = "spawned"
  /\ server' = [server EXCEPT ![i] = "built"]
  /\ UNCHANGED <<caller, gil, started, report, thread, permit, stopped, collected>>

\* build_runtime fails.  Its error is a PyErr, and to_string() on it attaches to the
\* interpreter before anything is sent; start keeps the GIL until something is.  No
\* step leads on from here: the thread waits for start and start for the thread.
RuntimeFails(i) ==
  /\ server[i] = "spawned"
  /\ server' = [server EXCEPT ![i] = "attaching"]
  /\ UNCHANGED <<caller, gil, started, report, thread, permit, stopped, collected>>

\* The HDFS client, the address or the bind fails, or the set-up panics: the report
\* is a plain String.
ServerFails(i) ==
  /\ server[i] = "built"
  /\ server' = [server EXCEPT ![i] = "finished"]
  /\ report' = "err"
  /\ UNCHANGED <<caller, gil, started, thread, permit, stopped, collected>>

\* The thread is bound and reports its address ...
ServerBinds(i) ==
  /\ server[i] = "built"
  /\ server' = [server EXCEPT ![i] = "bound"]
  /\ report' = "ok"
  /\ UNCHANGED <<caller, gil, started, thread, permit, stopped, collected>>

\* ... and only then enters serve, which waits for the signal.
ServerServes(i) ==
  /\ server[i] = "bound"
  /\ server' = [server EXCEPT ![i] = "serving"]
  /\ UNCHANGED <<caller, gil, started, report, thread, permit, stopped, collected>>

\* rx.recv() returns: keep the handle, or raise and let the thread go.
StartReturns(t) ==
  /\ caller[t] = "starting"
  /\ report # "none"
  /\ thread' = IF report = "ok" THEN started ELSE 0
  /\ caller' = [caller EXCEPT ![t] = "idle"]
  /\ gil' = FALSE
  /\ UNCHANGED <<started, server, report, permit, stopped, collected>>

\* serve's shutdown future: notified() takes the permit; serve drains and returns.
ServerNotified(i) ==
  /\ server[i] = "serving"
  /\ permit
  /\ permit' = FALSE
  /\ server' = [server EXCEPT ![i] = "draining"]
  /\ UNCHANGED <<caller, gil, started, report, thread, stopped, collected>>

ServerReturns(i) ==
  /\ server[i] = "draining"
  /\ server' = [server EXCEPT ![i] = "finished"]
  /\ UNCHANGED <<caller, gil, started, report, thread, permit, stopped, collected>>

\* A panic, contained by catch_unwind, ends the thread.
ServerPanics(i) ==
  /\ server[i] \in {"bound", "serving"}
  /\ server' = [server EXCEPT ![i] = "finished"]
  /\ UNCHANGED <<caller, gil, started, report, thread, permit, stopped, collected>>

-----------------------------------------------------------------------------
(* stop                                                                    *)

\* stop up to its is_finished check: a thread that died by itself is let go and
\* an exception raised.
StopDead(t) ==
  /\ CanCall(t)
  /\ ~Exclusive /\ ~Shared
  /\ thread # 0 /\ server[thread] = "finished"
  /\ thread' = 0
  /\ UNCHANGED <<caller, gil, started, server, report, permit, stopped, collected>>

Stop(t) ==
  /\ CanCall(t)
  /\ ~Exclusive /\ ~Shared
  /\ thread # 0 => server[thread] # "finished"
  /\ caller' = [caller EXCEPT ![t] = "stopping"]
  /\ gil' = TRUE
  /\ stopped' = TRUE
  /\ UNCHANGED <<started, server, report, thread, permit, collected>>

\* Borrowed by another call: RuntimeError.
StopRefused(t) ==
  /\ CanCall(t)
  /\ Exclusive \/ Shared
  /\ caller' = [caller EXCEPT ![t] = "refused"]
  /\ UNCHANGED <<gil, started, server, report, thread, permit, stopped, collected>>

\* Mutant: notify_waiters reaches only a server that already waits.
StopNotifyWaiters(t) ==
  /\ caller[t] = "stopping"
  /\ server' = [i \in Server |-> IF server[i] = "serving" THEN "draining" ELSE server[i]]
  /\ caller' = [caller EXCEPT ![t] = IF thread = 0 THEN "idle" ELSE "joining"]
  /\ gil' = FALSE
  /\ UNCHANGED <<started, report, thread, permit, stopped, collected>>

\* notify_one (the server thread may have ended since the check), then join.
StopNotify(t) ==
  /\ caller[t] = "stopping"
  /\ permit' = TRUE
  /\ caller' = [caller EXCEPT ![t] = IF thread = 0 THEN "idle" ELSE "joining"]
  /\ gil' = FALSE
  /\ UNCHANGED <<started, server, report, thread, stopped, collected>>

StopJoined(t) ==
  /\ caller[t] = "joining"
  /\ server[thread] = "finished"
  /\ thread' = 0
  /\ caller' = [caller EXCEPT ![t] = "idle"]
  /\ UNCHANGED <<gil, started, server, report, permit, stopped, collected>>

\* The caller handles the exception.
Recover(t) ==
  /\ caller[t] = "refused"
  /\ caller' = [caller EXCEPT ![t] = "idle"]
  /\ UNCHANGED <<gil, started, server, report, thread, permit, stopped, collected>>

-----------------------------------------------------------------------------
(* serve_blocking                                                          *)

Block(t) ==
  /\ CanCall(t)
  /\ ~Exclusive
  /\ caller' = [caller EXCEPT ![t] = "binding"]
  /\ UNCHANGED <<gil, started, server, report, thread, permit, stopped, collected>>

BlockFails(t) ==
  /\ caller[t] = "binding"
  /\ caller' = [caller EXCEPT ![t] = "idle"]
  /\ UNCHANGED <<gil, started, server, report, thread, permit, stopped, collected>>

BlockBinds(t) ==
  /\ caller[t] = "binding"
  /\ caller' = [caller EXCEPT ![t] = "serving"]
  /\ UNCHANGED <<gil, started, server, report, thread, permit, stopped, collected>>

BlockNotified(t) ==
  /\ caller[t] = "serving"
  /\ permit
  /\ permit' = FALSE
  /\ caller' = [caller EXCEPT ![t] = "draining"]
  /\ UNCHANGED <<gil, started, server, report, thread, stopped, collected>>

BlockReturns(t) ==
  /\ caller[t] = "draining"
  /\ caller' = [caller EXCEPT ![t] = "idle"]
  /\ UNCHANGED <<gil, started, server, report, thread, permit, stopped, collected>>

-----------------------------------------------------------------------------
\* The last reference goes while no call runs: the JoinHandle is dropped with the
\* object, which detaches a thread that still runs.
Collect ==
  /\ ~collected /\ ~gil
  /\ \A t \in Caller : caller[t] = "idle"
  /\ collected' = TRUE
  /\ thread' = 0
  /\ UNCHANGED <<caller, gil, started, server, report, permit, stopped>>

-----------------------------------------------------------------------------
\* What a background thread does if all goes well.
Background(i) ==
  \/ RuntimeBuilds(i) \/ ServerBinds(i) \/ ServerServes(i) \/ ServerNotified(i)
  \/ ServerReturns(i)

\* How it may fail.
Breaks(i) == RuntimeFails(i) \/ ServerFails(i) \/ ServerPanics(i)

\* What a call does once it has begun.
Proceed(t) ==
  \/ StartReturns(t) \/ StopNotify(t) \/ StopJoined(t) \/ Recover(t)
  \/ BlockFails(t) \/ BlockBinds(t) \/ BlockNotified(t) \/ BlockReturns(t)

Next ==
  \/ \E t \in Caller : \/ Start(t) \/ StopDead(t) \/ Stop(t) \/ StopRefused(t) \/ Block(t)
                       \/ Proceed(t)
  \/ \E i \in Server : Background(i) \/ Breaks(i)
  \/ Collect

\* Threads are scheduled; serve returns at most 10 s after its signal.
Fairness ==
  /\ \A t \in Caller : WF_vars(Proceed(t))
  /\ \A i \in Server : WF_vars(Background(i))

Spec == Init /\ [][Next]_vars /\ Fairness
-----------------------------------------------------------------------------
TypeOK ==
  /\ caller \in [Caller -> Blocking \cup
                          {"idle", "starting", "stopping", "joining", "refused"}]
  /\ gil \in BOOLEAN /\ permit \in BOOLEAN /\ stopped \in BOOLEAN /\ collected \in BOOLEAN
  /\ started \in 0..MaxStarts
  /\ server \in [Server -> Alive \cup {"none", "finished"}]
  /\ report \in {"none", "ok", "err"}
  /\ thread \in 0..MaxStarts

\* While the object exists a background server is always within reach of stop: it is
\* the one self.thread holds, or the one start is waiting for.  At most one is alive.
\* (An object that is collected while it runs leaves its server to itself.)
NoOrphan ==
  ~collected => \A i \in Server : server[i] \in Alive =>
     \/ thread = i
     \/ i = started /\ \E t \in Caller : caller[t] = "starting"

\* A stop() that has signalled returns, whenever it was called: before the server
\* thread waits for the signal, while it drains, or after it died.
StopReturns == \A t \in Caller : caller[t] = "joining" ~> caller[t] = "idle"

\* "No-op if the gateway is not running in the background" and "stop() should be a
\* clean no-op": a background server shuts down only because of a stop() that came
\* after its own start().
DrainsOnlyWhenStopped == (\E i \in Server : server[i] = "draining") => stopped

\* "blocks the calling thread until stop() is invoked from another thread".
StopEndsServeBlocking ==
  \A t, u \in Caller :
     (caller[t] = "serving" /\ caller[u] = "refused") ~> caller[t] # "serving"
=============================================================================
