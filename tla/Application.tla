----------------------------- MODULE Application -----------------------------
(***************************************************************************)
(* The process: Application.run (sensflow/application/lifecycle.py), the   *)
(* start-up recovery (recovery.py) and the schedule of the automation loop *)
(* (automation_loop.py, start, stop and _run).                             *)
(*                                                                         *)
(* Three asyncio tasks share the HTTP clients and the database engine: the *)
(* main one, which starts and stops the others, the polling task of        *)
(* aiogram, and the automation loop.  What passes do is in the other       *)
(* modules; here a pass either succeeds or raises.  The tasks aiogram      *)
(* makes of the updates it receives are not modelled: nobody awaits them.  *)
(*                                                                         *)
(* A timer next_* is the question whether its time has come: "due" holds   *)
(* the timers whose has, and finishing a pass sets it into the future.     *)
(***************************************************************************)
EXTENDS Naturals

CONSTANTS
    MaxFailures   \* bound on passes that raise

ASSUME FailuresAssumption == MaxFailures \in Nat

VARIABLES
    main,      \* where Application.run stands
    requested, \* _shutdown_requested
    polling,   \* _polling_task
    loop,      \* AutomationLoop._task: its position, and the timers it found due
    stopLoop,  \* AutomationLoop._shutdown
    due,       \* timers whose time has come
    failures,  \* how often a pass raised
    open       \* connections not closed yet

processVars == <<main, requested, polling, loop, stopLoop, due, failures, open>>
loopVars == <<loop, due, failures>>

\* Application.stop closes them in this order.
Closing == <<"roblox", "rbxcrate", "bot", "engine">>
Connections == {Closing[i] : i \in DOMAIN Closing}

\* The timers each step of _run looks at, and the step after it.
Timers == [sync |-> {"sync"}, fallback |-> {"fallback"}, balance |-> {"balance"},
           stock |-> {"monitoring", "requeue", "notification"}]
After == [sync |-> "fallback", fallback |-> "balance", balance |-> "stock", stock |-> "sleep"]
Passes == DOMAIN Timers
AllTimers == UNION {Timers[p] : p \in Passes}

Loop(pc, ready) == [pc |-> pc, ready |-> ready]
PollingDone == polling \in {"ended", "failed", "cancelled"}
LoopDone == loop.pc \in {"none", "done"}

ProcessInit ==
    /\ main = "verify"
    /\ requested = FALSE
    /\ polling = "none"
    /\ loop = Loop("none", {})
    /\ stopLoop = FALSE
    /\ due = AllTimers
    /\ failures = 0
    /\ open = Connections

-----------------------------------------------------------------------------
(***************************************************************************)
(* Defective variants, one per property; no behaviour uses them.           *)
(***************************************************************************)

\* A polling task that has not begun to run is not cancelled, only asked to stop.
StopPollingPolitely ==
    /\ main = "stopPolling"
    /\ polling' = IF polling = "running" THEN "stopping" ELSE polling
    /\ main' = "joinPolling"
    /\ UNCHANGED <<requested, loopVars, stopLoop, open>>

\* The automation loop is told to stop and not awaited.
JoinAutomationAtOnce ==
    /\ main = "joinAutomation"
    /\ main' = "close"
    /\ UNCHANGED <<requested, polling, loopVars, stopLoop, open>>

\* An exception while closing one connection ends the closing.
CloseOrGiveUp ==
    /\ main = "close"
    /\ \E i \in DOMAIN Closing :
        /\ Closing[i] \in open
        /\ \A j \in 1 .. i - 1 : Closing[j] \notin open
        /\ open' = open \ {Closing[i]}
        /\ main' \in {IF open' = {} THEN "ended" ELSE "close", "ended"}
    /\ UNCHANGED <<requested, polling, loopVars, stopLoop>>

\* One pass per iteration.
PassSucceedsAlone(p) ==
    /\ loop.pc = p
    /\ due' = due \ (loop.ready \cap Timers[p])
    /\ loop' = IF loop.ready \cap Timers[p] = {} THEN Loop(After[p], loop.ready) ELSE Loop("sleep", {})
    /\ UNCHANGED failures

-----------------------------------------------------------------------------
(***************************************************************************)
(* Application.start                                                       *)
(***************************************************************************)
\* verify_database_connection; if it raises, run goes on with stop, where neither polling
\* nor automation has been started.
Verify ==
    /\ main = "verify"
    /\ main' \in {"recover", "stopAutomation"}
    /\ UNCHANGED <<requested, polling, loopVars, stopLoop, open>>

\* recover_incomplete_orders went through its orders, whatever came of each.  The loop and
\* the polling task are created without a pause in between, and start later.
Recovered ==
    /\ main = "recover"
    /\ main' = "serve"
    /\ loop' = Loop("top", {})
    /\ stopLoop' = FALSE
    /\ polling' = "created"
    /\ UNCHANGED <<requested, due, failures, open>>

\* Its list of orders could not be read.
RecoveryFails ==
    /\ main = "recover"
    /\ main' = "stopPolling"
    /\ UNCHANGED <<requested, polling, loopVars, stopLoop, open>>

\* A signal: also one that arrives while the process still starts or already stops.
RequestShutdown ==
    /\ main # "ended"
    /\ requested' = TRUE
    /\ UNCHANGED <<main, polling, loopVars, stopLoop, open>>

-----------------------------------------------------------------------------
(***************************************************************************)
(* Polling (aiogram)                                                       *)
(***************************************************************************)
PollingStarts ==
    /\ polling = "created"
    /\ polling' = "running"
    /\ UNCHANGED <<main, requested, loopVars, stopLoop, open>>

\* start_polling returns or raises; _polling_stopped then requests the shutdown.
PollingEnds ==
    /\ \/ polling = "running" /\ polling' \in {"ended", "failed"}
       \/ polling = "stopping" /\ polling' = "ended"
    /\ requested' = TRUE
    /\ UNCHANGED <<main, loopVars, stopLoop, open>>

-----------------------------------------------------------------------------
(***************************************************************************)
(* Application.stop                                                        *)
(***************************************************************************)
Stop ==
    /\ main = "serve"
    /\ requested
    /\ main' = "stopPolling"
    /\ UNCHANGED <<requested, polling, loopVars, stopLoop, open>>

\* stop_polling raises RuntimeError when polling has not begun: the task is cancelled, and
\* its callback does not count that as a stop.
StopPolling ==
    /\ main = "stopPolling"
    /\ polling' = CASE polling = "running" -> "stopping"
                    [] polling = "created" -> "cancelled"
                    [] OTHER -> polling
    /\ main' = "joinPolling"
    /\ UNCHANGED <<requested, loopVars, stopLoop, open>>

JoinPolling ==
    /\ main = "joinPolling"
    /\ PollingDone \/ polling = "none"
    /\ main' = "stopAutomation"
    /\ UNCHANGED <<requested, polling, loopVars, stopLoop, open>>

\* AutomationLoop.stop
StopAutomation ==
    /\ main = "stopAutomation"
    /\ stopLoop' = (stopLoop \/ loop.pc # "none")
    /\ main' = "joinAutomation"
    /\ UNCHANGED <<requested, polling, loopVars, open>>

JoinAutomation ==
    /\ main = "joinAutomation"
    /\ LoopDone
    /\ main' = "close"
    /\ UNCHANGED <<requested, polling, loopVars, stopLoop, open>>

\* The next connection is closed, or at least asked to.  If that raises, the one after it
\* follows all the same, except after the session of the bot.
Close ==
    /\ main = "close"
    /\ \E i \in DOMAIN Closing :
        /\ Closing[i] \in open
        /\ \A j \in 1 .. i - 1 : Closing[j] \notin open
        /\ open' = open \ {Closing[i]}
        /\ \/ main' = IF open' = {} THEN "ended" ELSE "close"
           \/ Closing[i] = "bot" /\ main' = "ended"
    /\ UNCHANGED <<requested, polling, loopVars, stopLoop>>

-----------------------------------------------------------------------------
(***************************************************************************)
(* AutomationLoop._run                                                     *)
(***************************************************************************)
\* The head of the loop: settings are read, and one "now" decides which timers are due.
Iterate ==
    /\ loop.pc = "top"
    /\ loop' = IF stopLoop THEN Loop("done", {}) ELSE Loop("sync", due)
    /\ UNCHANGED <<due, failures>>

\* A pass is run when one of its timers was due, and sets those into the future.
PassSucceeds(p) ==
    /\ loop.pc = p
    /\ due' = due \ (loop.ready \cap Timers[p])
    /\ loop' = Loop(After[p], loop.ready \ Timers[p])
    /\ UNCHANGED failures

\* An exception, of a pass or of reading the settings, skips the passes after it; the
\* iteration is repeated in a second.
PassFails(p) ==
    /\ loop.pc = p
    /\ loop.ready \cap Timers[p] # {} \/ p = "sync"
    /\ failures < MaxFailures
    /\ failures' = failures + 1
    /\ loop' = Loop("retry", {})
    /\ UNCHANGED due

Wake ==
    /\ \/ loop.pc = "retry"
       \/ loop.pc = "sleep" /\ (due # {} \/ stopLoop)
    /\ loop' = Loop("top", {})
    /\ UNCHANGED <<due, failures>>

LoopStep ==
    /\ Iterate \/ Wake \/ \E p \in Passes : PassSucceeds(p) \/ PassFails(p)
    /\ UNCHANGED <<main, requested, polling, stopLoop, open>>

\* Time passes.
Elapse(timer) ==
    /\ due' = due \cup {timer}
    /\ UNCHANGED <<main, requested, polling, loop, stopLoop, failures, open>>

-----------------------------------------------------------------------------
MainStep ==
    \/ Verify \/ Recovered \/ RecoveryFails
    \/ Stop \/ StopPolling \/ JoinPolling \/ StopAutomation \/ JoinAutomation \/ Close

ProcessNext ==
    \/ MainStep \/ RequestShutdown
    \/ PollingStarts \/ PollingEnds
    \/ LoopStep \/ \E timer \in AllTimers : Elapse(timer)

(***************************************************************************)
(* Fairness: the event loop runs every task that can go on, and every call *)
(* a pass or the recovery makes ends (RBXCrate's by its timeouts).  Polling*)
(* ends when it was asked to.                                              *)
(***************************************************************************)
Fairness ==
    /\ WF_processVars(MainStep)
    /\ WF_processVars(LoopStep)
    /\ WF_processVars(polling = "stopping" /\ PollingEnds)

ProcessSpec == ProcessInit /\ [][ProcessNext]_processVars /\ Fairness

-----------------------------------------------------------------------------
(***************************************************************************)
(* Properties                                                              *)
(***************************************************************************)

\* Neither a pass of the automation loop nor the recovery ever runs on a connection that was
\* closed, also when the process is told to stop before everything is started.
AutomationIsConnected ==
    main = "recover" \/ loop.pc \in Passes => open = Connections

\* When the process ends, its HTTP clients are closed, although closing one may raise; only
\* a bot session that cannot be closed leaves the database engine as it is.
ClientsAreClosed == main = "ended" => open \subseteq {"engine"}

\* A process that is told to stop, or whose bot stopped polling, comes to its end, wherever
\* its tasks stand.
ShutdownCompletes == (requested \/ PollingDone) ~> main = "ended"

\* Every timer that is due is served while the loop runs, however often the others become
\* due, as long as passes do not fail for ever.
EveryTimerIsServed == \A timer \in AllTimers : timer \in due ~> (timer \notin due \/ stopLoop \/ main = "ended")

(***************************************************************************)
(* The inductive invariant: connections are closed by the main task only,  *)
(* and only after the loop is done.                                        *)
(***************************************************************************)
IInv ==
    /\ loop.pc \in {"none", "top", "sleep", "retry", "done"} \cup Passes
    /\ main \in {"verify", "recover"} => loop.pc = "none"
    /\ main \in {"close", "ended"} => LoopDone
    /\ main \notin {"close", "ended"} => open = Connections
    /\ open \subseteq Connections
    /\ ClientsAreClosed

=============================================================================
