-------------------------- MODULE GovernorShutdown --------------------------
(***************************************************************************)
(* How a governor ends.  Four threads of one process take part:            *)
(*   - the drain thread of crates/bridge/src/network.rs, which writes out  *)
(*     what the runs have logged and closes them on its last pass;         *)
(*   - the main thread of run_governor_with_app in                         *)
(*     crates/cli/src/commands/server.rs, which polls the app it spawned,  *)
(*     names the reason, raises the flag, waits, and flushes;              *)
(*   - the cloud forwarder, fed by the drain thread through a channel;     *)
(*   - the signal thread, which kills the app and exits on the spot.       *)
(* Requests keep arriving meanwhile: Governor's actions are composed here  *)
(* with Drain replaced by the drain thread's own steps.                    *)
(***************************************************************************)
EXTENDS GovernorProperties

VARIABLES
  child,      \* the governed app: "none" when headless
  main,       \* the main thread
  served,     \* the listener is done: serve has returned
  killed,     \* the signal thread has killed the app
  flag,       \* drain_shutdown
  reason,     \* stop_reason: the closing reason, once named and until taken
  done,       \* drain_done
  drain,      \* the drain thread; "off" once it has returned
  todo,       \* the runs its current sweep has still to take
  final,      \* its local `stopping`
  sink,       \* the forwarder: "none" when not syncing, "gone" when its thread died
  channel,    \* the runs with a batch in the channel to it
  exit        \* how the process ended, "none" while it runs

mainVars  == <<child, main, served, killed, flag, exit>>
drainVars == <<reason, done, drain, todo, final, sink, channel>>
allVars   == <<vars, mainVars, drainVars>>

Fallbacks == {"AgentCompleted", "ProcessCrashed"}
Exited    == {"success", "failure"}

ShutdownTypeOK ==
  /\ TypeOK
  /\ child \in {"none", "running", "killed"} \cup Exited
  /\ main \in {"serve", "poll", "raise", "wait", "flush", "gone"}
  /\ {served, killed, flag, done, final} \subseteq BOOLEAN
  /\ reason \in Fallbacks \cup {NoName}
  /\ drain \in {"tick", "woken", "sweep", "off"}
  /\ todo \subseteq Runs
  /\ sink \in {"none", "up", "gone"}
  /\ channel \subseteq Runs
  /\ exit \in {"none", "signal"} \cup Exited

\* A governor with an app has opened its run with ExecutionStarted; a headless
\* one holds a placeholder.
ShutdownInit ==
  /\ Init
  /\ \/ run[Primary].events[1].kind = "ExecutionStarted" /\ child = "running" /\ main = "poll"
     \/ run[Primary].events[1].kind # "ExecutionStarted" /\ child = "none" /\ main = "serve"
  /\ exit = "none"
  /\ served = FALSE /\ killed = FALSE /\ flag = FALSE /\ done = FALSE /\ final = FALSE
  /\ reason = NoName
  /\ drain = "tick" /\ todo = {}
  /\ sink \in {"none", "up"}
  /\ channel = {}

-----------------------------------------------------------------------------
(* The listener and its requests *)

\* Requests go on being served until the process is gone: nothing on the way
\* out stops the listener except a SIGTERM.
Request(c) ==
  /\ exit = "none"
  /\ ~served
  /\ Arrive(c) \/ Handle(c)
  /\ UNCHANGED <<mainVars, drainVars>>

\* serve returns.  After a SIGTERM it does when every request is answered, or
\* after 10 s of grace; a handler that has begun runs to its end either way,
\* and the grace is a time without arrivals, which are never owed.  Serving
\* may also fail: a certificate that does not load fails it after server.addr
\* is published.
Finish ==
  /\ exit = "none"
  /\ ~served
  /\ \A c \in Clients : pc[c] = "idle"
  /\ served' = TRUE
  /\ UNCHANGED <<vars, drainVars, child, main, killed, flag, exit>>

-----------------------------------------------------------------------------
(* The drain thread *)

\* No shutdown yet: sleep 250 ms, then sweep.
Nap ==
  /\ exit = "none"
  /\ drain = "tick"
  /\ ~flag
  /\ drain' = "woken" /\ final' = FALSE
  /\ UNCHANGED <<vars, mainVars, reason, done, todo, sink, channel>>

\* The fault of announcing the last sweep before making it.
CloseRuns_Early ==
  /\ exit = "none"
  /\ drain = "tick"
  /\ flag
  /\ run' = [r \in Runs |-> IF r \in open /\ reason # NoName THEN CloseRun(run[r], reason)
                            ELSE run[r]]
  /\ reason' = NoName
  /\ done' = TRUE
  /\ drain' = "woken" /\ final' = TRUE
  /\ UNCHANGED <<open, log, pc, call, issued, mark, mainVars, todo, sink, channel>>

\* The flag is up: take the reason and close every run in the map, which stays
\* locked meanwhile.  The runs are closed one by one; a request on another run
\* in between commutes with the closing, so it is one step here.
CloseRuns ==
  /\ exit = "none"
  /\ drain = "tick"
  /\ flag
  /\ run' = [r \in Runs |-> IF r \in open /\ reason # NoName THEN CloseRun(run[r], reason)
                            ELSE run[r]]
  /\ reason' = NoName
  /\ drain' = "woken" /\ final' = TRUE
  /\ UNCHANGED <<open, log, pc, call, issued, mark, mainVars, done, todo, sink, channel>>

\* The ids of the map as it is now, a run opened since the closing included.
Snapshot ==
  /\ exit = "none"
  /\ drain = "woken"
  /\ todo' = open
  /\ drain' = "sweep"
  /\ UNCHANGED <<vars, mainVars, reason, done, final, sink, channel>>

\* One run of the sweep: its lines go to stdout, then to the forwarder.  With
\* the forwarder gone the thread returns there and then.
Sweep(r) ==
  /\ exit = "none"
  /\ drain = "sweep"
  /\ r \in todo
  /\ todo' = todo \ {r}
  /\ log' = [log EXCEPT ![r] = @ \o run[r].events]
  /\ run' = [run EXCEPT ![r] = TakeEvents(@)]
  /\ \/ /\ run[r].events = <<>> \/ sink = "none"
        /\ UNCHANGED <<drain, channel>>
     \/ /\ run[r].events # <<>> /\ sink = "up"
        /\ channel' = channel \cup {r}
        /\ UNCHANGED drain
     \/ /\ run[r].events # <<>> /\ sink = "gone"
        /\ drain' = "off"
        /\ UNCHANGED channel
  /\ UNCHANGED <<open, pc, call, issued, mark, mainVars, reason, done, final, sink>>

\* The sweep is over: go round again, or announce the last one and return.
Rest ==
  /\ exit = "none"
  /\ drain = "sweep"
  /\ todo = {}
  /\ drain' = IF final THEN "off" ELSE "tick"
  /\ done' = final
  /\ UNCHANGED <<vars, mainVars, reason, todo, final, sink, channel>>

DrainThread == Nap \/ CloseRuns \/ Snapshot \/ (\E r \in Runs : Sweep(r)) \/ Rest

-----------------------------------------------------------------------------
(* The forwarder *)

\* The forwarder delivers, spools or gives up on the last batch it has of some
\* run (which of these is a matter of the spool).
Forward ==
  /\ exit = "none"
  /\ sink = "up"
  /\ \E r \in channel : channel' = channel \ {r}
  /\ UNCHANGED <<vars, mainVars, reason, done, drain, todo, final, sink>>

\* Its thread ends early: the HTTP client cannot be built.  The channel goes
\* with it.
ForwarderDies ==
  /\ exit = "none"
  /\ sink = "up"
  /\ sink' = "gone"
  /\ channel' = {}
  /\ UNCHANGED <<vars, mainVars, reason, done, drain, todo, final>>

-----------------------------------------------------------------------------
(* The app and the main thread *)

ChildExits ==
  /\ exit = "none"
  /\ child = "running"
  /\ child' \in Exited
  /\ UNCHANGED <<vars, drainVars, main, served, killed, flag, exit>>

\* The poll found the app gone, killed by the signal thread included, or kills
\* it because the governor is gone.  Killing it leaves a default exit status,
\* which counts as success.
Reap ==
  /\ exit = "none"
  /\ main = "poll"
  /\ \/ /\ child \in Exited \cup {"killed"}
        /\ reason' = IF child = "success" THEN "AgentCompleted" ELSE "ProcessCrashed"
        /\ UNCHANGED child
     \/ /\ child = "running" /\ served
        /\ reason' = "AgentCompleted"
        /\ child' = "success"
  /\ main' = "raise"
  /\ UNCHANGED <<vars, served, killed, flag, exit,
                 done, drain, todo, final, sink, channel>>

\* drain_shutdown is raised after the reason is named.
Raise ==
  /\ exit = "none"
  /\ main = "raise"
  /\ flag' = TRUE
  /\ main' = "wait"
  /\ UNCHANGED <<vars, drainVars, child, served, killed, exit>>

Announced ==
  /\ exit = "none"
  /\ main = "wait"
  /\ done
  /\ main' = "flush"
  /\ UNCHANGED <<vars, drainVars, child, served, killed, flag, exit>>

\* The fault of waiting for the last sweep without a limit.
TimeOut_Never == FALSE /\ UNCHANGED allVars

\* Two seconds without an announcement.
TimeOut ==
  /\ exit = "none"
  /\ main = "wait"
  /\ main' = "flush"
  /\ UNCHANGED <<vars, drainVars, child, served, killed, flag, exit>>

\* The fault of exiting with batches still in the channel.
Flush_Unjoined ==
  /\ exit = "none"
  /\ main = "flush"
  /\ main' = "gone"
  /\ exit' = IF child = "success" THEN "success" ELSE "failure"
  /\ UNCHANGED <<vars, drainVars, child, served, killed, flag>>

\* flush_and_join: the forwarder ends when the drain thread has dropped its end
\* of the channel and the channel is empty.  Then the process exits with the
\* app's status.
Flush ==
  /\ exit = "none"
  /\ main = "flush"
  /\ sink = "up" => drain = "off" /\ channel = {}
  /\ main' = "gone"
  /\ exit' = IF child = "success" THEN "success" ELSE "failure"
  /\ UNCHANGED <<vars, drainVars, child, served, killed, flag>>

\* Headless, the main thread is the server: it returns with it.
ServeReturns ==
  /\ exit = "none"
  /\ main = "serve"
  /\ served
  /\ main' = "gone" /\ exit' = "success"
  /\ UNCHANGED <<vars, drainVars, child, served, killed, flag>>

MainThread == Reap \/ Raise \/ Announced \/ TimeOut \/ Flush \/ ServeReturns

-----------------------------------------------------------------------------
(* Signals *)

\* SIGINT or SIGTERM, with an app: the signal thread kills it.  The listener
\* sees a SIGTERM too, and finishes.
Terminate ==
  /\ exit = "none"
  /\ child # "none"
  /\ ~killed
  /\ killed' = TRUE
  /\ child' = IF child = "running" THEN "killed" ELSE child
  /\ UNCHANGED <<vars, drainVars, main, served, flag, exit>>

\* Then it exits the process with 130, whatever the other threads are doing.
ExitNow ==
  /\ exit = "none"
  /\ killed
  /\ exit' = "signal"
  /\ UNCHANGED <<vars, drainVars, child, main, served, killed, flag>>

-----------------------------------------------------------------------------
ShutdownNext ==
  \/ \E c \in Clients : Request(c)
  \/ Finish
  \/ DrainThread
  \/ Forward \/ ForwarderDies
  \/ ChildExits \/ MainThread
  \/ Terminate \/ ExitNow

\* Every thread of the process runs.  The app, the clients and the sender of
\* signals owe nothing, and neither does a listener nobody asked to stop.
ShutdownFairness ==
  /\ \A c \in Clients : WF_allVars(exit = "none" /\ ~served /\ Handle(c) /\ UNCHANGED <<mainVars, drainVars>>)
  /\ WF_allVars(DrainThread)
  /\ WF_allVars(Forward)
  /\ WF_allVars(MainThread)
  /\ WF_allVars(ExitNow)

ShutdownSpec == ShutdownInit /\ [][ShutdownNext]_allVars

FairShutdownSpec == ShutdownSpec /\ ShutdownFairness
=============================================================================
