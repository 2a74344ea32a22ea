----------------------------- MODULE PyProcess -----------------------------
(***************************************************************************)
(* python/src/lib.rs and python/hdfs_s3_gateway/__init__.py: the process   *)
(* around the Gateway of PyGateway.  The package freezes the logging       *)
(* settings with the first gateway and stops what still runs when the      *)
(* interpreter exits; the server threads write log lines; and with the     *)
(* target "python" a consumer thread forwards them to Python's logging.    *)
(*                                                                         *)
(* The GIL ties them together: start keeps it while it waits for the       *)
(* server thread, other Python code keeps it for a while, and the consumer *)
(* needs it for each line.                                                 *)
(***************************************************************************)
EXTENDS PyGateway, Sequences, Functions

CONSTANTS Main,        \* the Python thread that runs the atexit hook
          MaxLines,    \* bound: lines logged
          Tries,       \* attempts emit_line makes (50)
          RUST_LOG     \* the environment variable is set

ASSUME ProcessAssumption == Main \in Caller /\ MaxLines \in Nat /\ Tries \in Nat \ {0}
                             /\ RUST_LOG \in BOOLEAN

VARIABLES package,   \* _log_level given, _log_target, and the stage: "open", "frozen"
                     \* (_log_frozen), then "tracked" or "untracked": the Gateway is made,
                     \* level and to are its own copies, and _live_gateways has it or not
          installed, \* INIT_TRACING has run
          consumer,  \* the bridge's thread: "none", "resolving", "ready" or "deaf", its
                     \* logger found or not
          queue,     \* the channel's chunks, each a sequence of lines
          pending,   \* lines of the chunk in hand
          tries,     \* failed attempts at the first of them
          written,   \* lines logged so far; the latest one's number
          delivered, \* lines logging has got, in its order
          lost,      \* lines given up
          busy,      \* other Python code holds the GIL
          interp     \* "running"; at exit "atexit", "hooked", "leaving"; "final"

bridgeVars == <<package, installed, consumer, queue, pending, tries, written,
                delivered, lost, busy, interp>>
processVars == <<vars, bridgeVars>>

\* The destination of the lines: level None without RUST_LOG is silent.
Target == IF ~package.level /\ ~RUST_LOG THEN "silent" ELSE package.to

\* Whether a thread without the GIL can have it now.  At exit the main thread keeps
\* it, except while stop joins.
GilFree ==
  /\ ~gil /\ ~busy
  /\ interp = "running" \/ caller[Main] = "joining"

-----------------------------------------------------------------------------
(* The package.                                                            *)

Made == package.stage \in {"tracked", "untracked"}

\* The object is in _live_gateways, a WeakSet.
Tracked == package.stage = "tracked" /\ ~collected

\* set_logging; once frozen it raises.  (Once the one gateway of this model exists,
\* nothing reads the package's settings any more.)
set_logging(level, to) ==
  /\ interp = "running" /\ GilFree
  /\ package.stage = "open"
  /\ package' = [package EXCEPT !.level = level, !.to = to]
  /\ UNCHANGED <<vars, installed, consumer, queue, pending, tries, written,
                 delivered, lost, busy, interp>>

\* gateway, the factory: the settings freeze, also if the configuration is refused;
\* the object copies them and is added to _live_gateways.
gateway(valid) ==
  /\ interp = "running" /\ GilFree
  /\ ~Made
  /\ package' = [package EXCEPT !.stage = IF valid THEN "tracked" ELSE "frozen"]
  /\ UNCHANGED <<vars, installed, consumer, queue, pending, tries, written,
                 delivered, lost, busy, interp>>

\* The class itself, which the package exports: the object has the settings it is
\* given, whether the package's are frozen or not, and is not tracked.
Gateway(level, to) ==
  /\ interp = "running" /\ GilFree
  /\ ~Made
  /\ package' = [level |-> level, to |-> to, stage |-> "untracked"]
  /\ UNCHANGED <<vars, installed, consumer, queue, pending, tries, written,
                 delivered, lost, busy, interp>>

\* The program lets go of the object.
Drop ==
  /\ interp = "running" /\ GilFree
  /\ Made
  /\ Collect
  /\ UNCHANGED bridgeVars

\* Python code outside the package takes the GIL and lets it go.
Hold ==
  /\ interp = "running" /\ GilFree
  /\ busy' = TRUE
  /\ UNCHANGED <<vars, package, installed, consumer, queue, pending, tries,
                 written, delivered, lost, interp>>

LetGo ==
  /\ busy
  /\ busy' = FALSE
  /\ UNCHANGED <<vars, package, installed, consumer, queue, pending, tries,
                 written, delivered, lost, interp>>

-----------------------------------------------------------------------------
(* init_tracing and the lines that are logged.                             *)

\* A thread between its runtime and its listener.
Initialising == (\E i \in Server : server[i] = "built")
                  \/ (\E t \in Caller : caller[t] = "binding")

\* Mutant: the logger is looked up here, under the GIL, before the thread is spawned.
init_tracing_attached ==
  /\ Initialising
  /\ GilFree
  /\ Target # "silent" /\ ~installed
  /\ installed' = TRUE
  /\ consumer' = IF Target = "python" THEN "ready" ELSE consumer
  /\ UNCHANGED <<vars, package, queue, pending, tries, written, delivered,
                 lost, busy, interp>>

\* Once per process; the consumer is spawned, and nothing here waits.
init_tracing ==
  /\ Initialising
  /\ Target # "silent" /\ ~installed
  /\ installed' = TRUE
  /\ consumer' = IF Target = "python" THEN "resolving" ELSE consumer
  /\ UNCHANGED <<vars, package, queue, pending, tries, written, delivered,
                 lost, busy, interp>>

Traced == Target = "silent" \/ installed

\* PyLogger::write: a chunk of one or two lines is sent, if it goes to the bridge.
write ==
  \/ /\ Target = "python"
     /\ \E n \in 1..2 :
          /\ written + n =< MaxLines
          /\ written' = written + n
          /\ queue' = Append(queue, [k \in 1..n |-> written + k])
     /\ UNCHANGED <<package, installed, consumer, pending, tries, delivered,
                    lost, busy, interp>>
  \/ /\ Target # "python" \/ written = MaxLines
     /\ UNCHANGED bridgeVars

\* "gateway listening" follows the report to start; requests log while they are
\* served.
Serves(i) == ServerServes(i) /\ write
Blocks(t) == BlockBinds(t) /\ Traced /\ write

Log ==
  /\ (\E i \in Server : server[i] \in {"serving", "draining"})
       \/ (\E t \in Caller : caller[t] \in {"serving", "draining"})
  /\ Target = "python" /\ written < MaxLines
  /\ write
  /\ UNCHANGED vars

-----------------------------------------------------------------------------
(* spawn_log_consumer and emit_line.                                       *)

\* Python::attach waits for the GIL.
Resolve ==
  /\ consumer = "resolving"
  /\ GilFree
  /\ consumer' \in {"ready", "deaf"}
  /\ UNCHANGED <<vars, package, installed, queue, pending, tries, written,
                 delivered, lost, busy, interp>>

Receive ==
  /\ consumer \in {"ready", "deaf"}
  /\ pending = <<>> /\ queue # <<>>
  /\ pending' = Head(queue)
  /\ queue' = Tail(queue)
  /\ UNCHANGED <<vars, package, installed, consumer, tries, written,
                 delivered, lost, busy, interp>>

\* try_attach succeeds and logger.info is called.
Emit ==
  /\ consumer = "ready" /\ pending # <<>>
  /\ GilFree
  /\ delivered' = Append(delivered, Head(pending))
  /\ pending' = Tail(pending)
  /\ tries' = 0
  /\ UNCHANGED <<vars, package, installed, consumer, queue, written, lost,
                 busy, interp>>

\* Mutant: a line that could not be emitted goes to the back of the queue.
EmitFailsRequeue ==
  /\ consumer = "ready" /\ pending # <<>>
  /\ ~GilFree
  /\ queue' = Append(queue, <<Head(pending)>>)
  /\ pending' = Tail(pending)
  /\ UNCHANGED <<vars, package, installed, consumer, tries, written,
                 delivered, lost, busy, interp>>

\* try_attach returns None; after the last attempt the line is dropped.
EmitFails ==
  /\ consumer = "ready" /\ pending # <<>>
  /\ ~GilFree
  /\ \/ /\ tries + 1 < Tries
        /\ tries' = tries + 1
        /\ UNCHANGED <<pending, lost>>
     \/ /\ tries + 1 = Tries
        /\ tries' = 0
        /\ lost' = lost \cup {Head(pending)}
        /\ pending' = Tail(pending)
  /\ UNCHANGED <<vars, package, installed, consumer, queue, written,
                 delivered, busy, interp>>

\* Without a logger emit_line returns at once.
Discard ==
  /\ consumer = "deaf" /\ pending # <<>>
  /\ lost' = lost \cup {Head(pending)}
  /\ pending' = Tail(pending)
  /\ UNCHANGED <<vars, package, installed, consumer, queue, tries, written,
                 delivered, busy, interp>>

-----------------------------------------------------------------------------
(* The interpreter exits: atexit runs once the other Python threads are    *)
(* joined.                                                                 *)

BeginExit ==
  /\ interp = "running" /\ GilFree
  /\ \A t \in Caller : caller[t] = "idle"
  /\ interp' = "atexit"
  /\ UNCHANGED <<vars, package, installed, consumer, queue, pending, tries,
                 written, delivered, lost, busy>>

is_running == thread # 0 /\ server[thread] # "finished"

\* Mutant: no hook is registered.
HookMissing ==
  /\ interp = "atexit"
  /\ interp' = "leaving"
  /\ UNCHANGED <<vars, package, installed, consumer, queue, pending, tries,
                 written, delivered, lost, busy>>

\* _shutdown_live_gateways: if gw.is_running ...
HookCheck ==
  /\ interp = "atexit"
  /\ interp' = IF Tracked /\ is_running THEN "hooked" ELSE "leaving"
  /\ UNCHANGED <<vars, package, installed, consumer, queue, pending, tries,
                 written, delivered, lost, busy>>

\* ... gw.stop(), whose exception is swallowed.
HookStop ==
  /\ interp = "hooked"
  /\ Stop(Main) \/ StopDead(Main)
  /\ interp' = "leaving"
  /\ UNCHANGED <<package, installed, consumer, queue, pending, tries, written,
                 delivered, lost, busy>>

Finalize ==
  /\ interp = "leaving"
  /\ caller[Main] = "idle"
  /\ interp' = "final"
  /\ UNCHANGED <<vars, package, installed, consumer, queue, pending, tries,
                 written, delivered, lost, busy>>

-----------------------------------------------------------------------------
ProcessInit ==
  /\ Init
  /\ package = [level |-> FALSE, to |-> "stderr", stage |-> "open"]
  /\ installed = FALSE /\ busy = FALSE
  /\ consumer = "none"
  /\ queue = <<>> /\ pending = <<>> /\ delivered = <<>>
  /\ tries = 0 /\ written = 0 /\ lost = {}
  /\ interp = "running"

\* A Python thread calls a method of the gateway.
Calls(t) ==
  /\ Made
  /\ interp = "running" /\ GilFree
  /\ Start(t) \/ StopDead(t) \/ Stop(t) \/ StopRefused(t) \/ Block(t)
  /\ UNCHANGED bridgeVars

\* A call goes on; where it runs Python code again it needs the GIL.
Goes(t) ==
  \/ /\ StartReturns(t) \/ StopNotify(t) \/ BlockNotified(t)
     /\ UNCHANGED bridgeVars
  \/ /\ StopJoined(t) \/ BlockReturns(t) \/ Recover(t)
     /\ GilFree
     /\ UNCHANGED bridgeVars
  \/ Blocks(t)

\* A server thread goes on.
Works(i) ==
  \/ /\ RuntimeBuilds(i) \/ ServerNotified(i) \/ ServerReturns(i)
     /\ UNCHANGED bridgeVars
  \/ ServerBinds(i) /\ Traced /\ UNCHANGED bridgeVars
  \/ Serves(i)

\* The set-up fails, before or after its tracing, or the server panics.
Fails ==
  /\ \/ \E i \in Server : Breaks(i)
     \/ \E t \in Caller : BlockFails(t) /\ GilFree
  /\ UNCHANGED bridgeVars

Bridge == Resolve \/ Receive \/ Emit \/ Discard

Leaves == HookCheck \/ HookStop \/ Finalize

ProcessNext ==
  \/ \E level \in BOOLEAN, to \in {"stderr", "python"} : set_logging(level, to)
  \/ \E valid \in BOOLEAN : gateway(valid)
  \/ \E level \in BOOLEAN, to \in {"stderr", "python"} : Gateway(level, to)
  \/ Drop
  \/ Hold \/ LetGo
  \/ \E t \in Caller : Calls(t) \/ Goes(t)
  \/ \E i \in Server : Works(i)
  \/ Fails \/ init_tracing \/ Log
  \/ Bridge \/ EmitFails
  \/ BeginExit \/ Leaves

\* Threads are scheduled (no failure is counted on), Python code lets the GIL go
\* and CPython hands it on to a thread that waits for it.
ProcessFairness ==
  /\ WF_processVars(LetGo) /\ WF_processVars(init_tracing) /\ WF_processVars(Leaves)
  /\ SF_processVars(Bridge)
  /\ \A t \in Caller : SF_processVars(Goes(t))
  /\ \A i \in Server : WF_processVars(Works(i))

ProcessSpec == ProcessInit /\ [][ProcessNext]_processVars /\ ProcessFairness
-----------------------------------------------------------------------------
\* A line's way: the chunks in the queue, the one in hand, logging.
Stages == 0..(Len(queue) + 1)

Stage(c) == CASE c = 0 -> delivered [] c = 1 -> pending [] OTHER -> queue[c - 1]

\* "Ordering is preserved because the channel is FIFO", and no line twice: what
\* logging got, what the consumer has in hand and what is queued is, in this order,
\* what was logged, except for lines that were given up - and those only because
\* there is no logger or somebody else had the GIL all the time.
LinesInOrder ==
  LET lines == UNION {Range(Stage(c)) : c \in Stages} IN
  /\ \A c, d \in Stages : \A j \in DOMAIN Stage(c), k \in DOMAIN Stage(d) :
       c < d \/ (c = d /\ j < k) => Stage(c)[j] < Stage(d)[k]
  /\ lines \cap lost = {}
  /\ lines \cup lost = 1..written

\* The hook leaves no server of a gateway it knows behind for the exit of the process
\* to kill: one that the factory made and the program still refers to.
ExitDrains == interp = "final" /\ Tracked => \A i \in Server : server[i] \notin Alive

\* A server thread whose runtime could not be built waits for the GIL of the start
\* that waits for its report.
Wedged == \E i \in Server : server[i] = "attaching"

\* Nothing hangs on the GIL: start comes back although it keeps the GIL while the
\* server thread sets up its logging, a stop that has signalled comes back, the exit
\* gets through, and a logged line is delivered or given up - unless a runtime cannot
\* be built: then start, and every Python thread after it, waits for ever.
NothingHangs ==
  /\ StopReturns
  /\ \A t \in Caller : caller[t] = "starting" ~> (caller[t] = "idle" \/ Wedged)
  /\ interp = "atexit" ~> interp = "final"
  /\ written > Len(delivered) + Cardinality(lost)
       ~> (\/ written = Len(delivered) + Cardinality(lost)
           \/ interp # "running" \/ Wedged)
=============================================================================
