------------------------------ MODULE Discovery ------------------------------
(***************************************************************************)
(* How a governor is found: the directory ~/.nanny/servers/<app> with      *)
(* server.addr, server.token and server.pid, the governors that publish    *)
(* themselves in it and clear it (start_blocking_synced in network.rs,     *)
(* run_governor_with_app in commands/server.rs), and the clients that read *)
(* it: nanny run --join, nanny stop, and the main thread of every nanny    *)
(* run, which waits there for the governor on its own other thread.        *)
(*                                                                         *)
(* A process is three threads: the main thread, which runs the app of      *)
(* [start]; the governor thread, which serves; and the thread of the       *)
(* signal handler.  A headless governor has no app: it serves on the main  *)
(* thread and has no handler.  Each mints a session token of its own, so   *)
(* its name stands for its token and for its process id.  server.sync is   *)
(* left out: nothing but the text of nanny status depends on it.           *)
(***************************************************************************)
EXTENDS Naturals

CONSTANTS
  Apps,
  Governors,  \* the processes of nanny run, each started at most once
  AppOf,      \* AppOf[g]: the app of the directory g is started in
  Headless,   \* the governors without [start]
  Joiners,    \* the processes of nanny run --join
  Ports,      \* the ports a governor falls forward through, 1 .. n
  Absent,     \* no such file, and no port
  Torn,       \* a file cut to nothing and not filled yet
  MaxSignals  \* bound: how many signals are sent

ASSUME DiscoveryAssumption ==
  /\ AppOf \in [Governors -> Apps] /\ Headless \subseteq Governors
  /\ Governors \cap Joiners = {}
  /\ Ports \subseteq Nat \ {0} /\ \A p \in Ports : 1 .. p \subseteq Ports
  /\ Absent # Torn /\ {Absent, Torn} \cap (Ports \cup Governors) = {}
  /\ MaxSignals \in Nat

VARIABLES
  file,     \* file[a]: the discovery files of the app a
  main,     \* main[g]: the main thread
  thread,   \* thread[g]: start_blocking_synced
  handler,  \* handler[g]: the signal handler
  failed,   \* the governors whose start_blocking_synced returned an error
  bound,    \* bound[g]: the port g listens on
  child,    \* child[g]: the app of [start]
  look,     \* look[c]: how far the client c has got with the files
  signals,  \* how many signals were sent
  alone,    \* history variable: alone[g], no other governor of the app beside g
  fresh     \* history variable: fresh[g], g was started in an empty directory

threads == <<main, thread, handler, failed>>
history == <<alone, fresh>>
vars    == <<file, threads, bound, child, look, signals, history>>

Clients == Governors \cup Joiners

Empty   == [addr |-> Absent, token |-> Absent, pid |-> Absent]
Unasked == [at |-> "none", app |-> Absent, addr |-> Absent, token |-> Absent]

DiscoveryInit ==
  /\ file = [a \in Apps |-> Empty]
  /\ main = [g \in Governors |-> "off"] /\ thread = [g \in Governors |-> "off"]
  /\ handler = [g \in Governors |-> "idle"] /\ failed = {}
  /\ bound = [g \in Governors |-> Absent]
  /\ child = [g \in Governors |-> "none"]
  /\ look = [c \in Clients |-> Unasked]
  /\ signals = 0
  /\ alone = [g \in Governors |-> FALSE] /\ fresh = [g \in Governors |-> FALSE]

Alive(g) == main[g] \notin {"off", "gone"}

Directory(g) == AppOf[g]

\* The fault of a writer that keeps the name it finds in a file.
Put_IfMissing(g, name, value) ==
  file' = [file EXCEPT ![Directory(g)][name] =
             IF value \in Governors /\ @ \in Governors THEN @ ELSE value]

Put(g, name, value) == file' = [file EXCEPT ![Directory(g)][name] = value]

\* The process ends.  Its socket closes with it; its app does not.
Gone(g) ==
  /\ main' = [main EXCEPT ![g] = "gone"] /\ thread' = [thread EXCEPT ![g] = "gone"]
  /\ handler' = [handler EXCEPT ![g] = "idle"] /\ failed' = failed \ {g}
  /\ bound' = [bound EXCEPT ![g] = Absent]
  /\ child' = [child EXCEPT ![g] = IF @ = "running" THEN @ ELSE "none"]
  /\ look' = [look EXCEPT ![g] = Unasked]
  /\ alone' = [alone EXCEPT ![g] = FALSE] /\ fresh' = [fresh EXCEPT ![g] = FALSE]

-----------------------------------------------------------------------------
(* The governor thread: start_blocking_synced *)

ToThread(g, from, to) == thread[g] = from /\ thread' = [thread EXCEPT ![g] = to]

Free(p) == \A g \in Governors : bound[g] # p

\* bind_with_fallforward: the first port nobody has.
Bind(g) ==
  /\ ToThread(g, "bind", "openAddr")
  /\ \E p \in Ports : /\ Free(p)
                      /\ \A q \in 1 .. p - 1 : ~Free(q)
                      /\ bound' = [bound EXCEPT ![g] = p]
  /\ UNCHANGED <<file, main, handler, failed, child, look, signals, history>>

\* No port is free: the error is returned at once, and nothing is cleared.
BindFails(g) ==
  /\ ToThread(g, "bind", "end")
  /\ \A p \in Ports : ~Free(p)
  /\ failed' = failed \cup {g}
  /\ UNCHANGED <<file, main, handler, bound, child, look, signals, history>>

\* The address that was bound, the token and the process id, in this order.
\* The first two are read by others, who may find a file that is still empty.
Publish(g) ==
  /\ \/ ToThread(g, "openAddr", "writeAddr")   /\ Put(g, "addr", Torn)
     \/ ToThread(g, "writeAddr", "openToken")  /\ Put(g, "addr", bound[g])
     \/ ToThread(g, "openToken", "writeToken") /\ Put(g, "token", Torn)
     \/ ToThread(g, "writeToken", "writePid")  /\ Put(g, "token", g)
     \/ ToThread(g, "writePid", "load")        /\ Put(g, "pid", g)
  /\ UNCHANGED <<main, handler, failed, bound, child, look, signals, history>>

Serve(g) ==
  /\ ToThread(g, "load", "serve")
  /\ UNCHANGED <<file, main, handler, failed, bound, child, look, signals, history>>

\* The certificates do not load, or a drain is over: the socket is closed.
StopServing(g) ==
  /\ \/ ToThread(g, "load", "dropPid")  /\ failed' = failed \cup {g}
     \/ ToThread(g, "drain", "dropPid") /\ UNCHANGED failed
  /\ bound' = [bound EXCEPT ![g] = Absent]
  /\ UNCHANGED <<file, main, handler, child, look, signals, history>>

\* What it clears on its way out: not the address.
Withdraw(g) ==
  /\ \/ ToThread(g, "dropPid", "dropToken") /\ Put(g, "pid", Absent)
     \/ ToThread(g, "dropToken", "end")     /\ Put(g, "token", Absent)
  /\ UNCHANGED <<main, handler, failed, bound, child, look, signals, history>>

\* Headless, the process ends with it.
HeadlessEnds(g) ==
  /\ main[g] = "serve" /\ thread[g] = "end"
  /\ Gone(g)
  /\ UNCHANGED <<file, signals>>

ThreadStep(g) ==
  Bind(g) \/ BindFails(g) \/ Publish(g) \/ Serve(g) \/ StopServing(g) \/ Withdraw(g)
    \/ HeadlessEnds(g)

-----------------------------------------------------------------------------
(* The clients: detect_joined_server *)

At(c, from, to) == look[c].at = from /\ look' = [look EXCEPT ![c] = to]

Lost(c) == [Unasked EXCEPT !.at = "lost"]

\* nanny run --join: any app may be asked for.
Join(j, a) ==
  /\ At(j, "none", [Unasked EXCEPT !.at = "addr", !.app = a])
  /\ UNCHANGED <<file, threads, bound, child, signals, history>>

ReadAddr(c) ==
  LET addr == file[look[c].app].addr IN
  /\ At(c, "addr", IF addr = Absent THEN Lost(c)
                   ELSE [look[c] EXCEPT !.at = "token", !.addr = addr])
  /\ UNCHANGED <<file, threads, bound, child, signals, history>>

\* The fault of a reader that takes an empty address or token.
ReadToken_Unchecked(c) ==
  LET token == file[look[c].app].token IN
  /\ At(c, "token", IF token = Absent THEN Lost(c)
                    ELSE [look[c] EXCEPT !.at = "connect", !.token = token])
  /\ UNCHANGED <<file, threads, bound, child, signals, history>>

\* A missing token is an error, and so is an empty address or token.
ReadToken(c) ==
  LET token == file[look[c].app].token IN
  /\ At(c, "token", IF token \in {Absent, Torn} \/ look[c].addr = Torn THEN Lost(c)
                    ELSE [look[c] EXCEPT !.at = "connect", !.token = token])
  /\ UNCHANGED <<file, threads, bound, child, signals, history>>

\* Whoever listens there: the token is not tried.
Connect(c) ==
  /\ At(c, "connect", IF Free(look[c].addr) THEN Lost(c)
                      ELSE [look[c] EXCEPT !.at = "found"])
  /\ UNCHANGED <<file, threads, bound, child, signals, history>>

Detect(c) == ReadAddr(c) \/ ReadToken(c) \/ Connect(c)

-----------------------------------------------------------------------------
(* The main thread: cmd_server_start and run_governor_with_app *)

ToMain(g, from, to) == main[g] = from /\ main' = [main EXCEPT ![g] = to]

Rivals(g) == {h \in Governors \ {g} : Directory(h) = Directory(g) /\ Alive(h)}

\* nanny run: the governor thread is started, and the main thread waits for it.
Launch(g) ==
  /\ ToMain(g, "off", IF g \in Headless THEN "serve" ELSE "wait")
  /\ thread' = [thread EXCEPT ![g] = "bind"]
  /\ alone' = [h \in Governors |-> IF h = g THEN Rivals(g) = {}
                                   ELSE alone[h] /\ h \notin Rivals(g)]
  /\ fresh' = [fresh EXCEPT ![g] = file[Directory(g)] = Empty]
  /\ UNCHANGED <<file, handler, failed, bound, child, look, signals>>

\* wait_for_governor: there is a server.addr, whoever wrote it.
SeeAddress(g) ==
  /\ ToMain(g, "wait", "detect") /\ file[Directory(g)].addr # Absent
  /\ look' = [look EXCEPT ![g] = [Unasked EXCEPT !.at = "addr", !.app = Directory(g)]]
  /\ UNCHANGED <<file, thread, handler, failed, bound, child, signals, history>>

\* The governor thread has ended, or ten seconds are over; or the files name
\* nobody who answers; or the thread has failed since.  An error ends the
\* process, and nothing is cleared.
GiveUp(g) ==
  /\ \/ main[g] = "wait" /\ file[Directory(g)].addr = Absent
     \/ main[g] = "detect" /\ look[g].at = "lost"
     \/ main[g] = "detect" /\ look[g].at = "found" /\ thread[g] = "end" /\ g \in failed
  /\ Gone(g)
  /\ UNCHANGED <<file, signals>>

Spawn(g) ==
  /\ ToMain(g, "detect", "spawned") /\ look[g].at = "found"
  /\ ~(thread[g] = "end" /\ g \in failed)
  /\ child' = [child EXCEPT ![g] = "running"]
  /\ UNCHANGED <<file, thread, handler, failed, bound, look, signals, history>>

\* From here on the handler knows the app's process id.
NoteChild(g) ==
  /\ ToMain(g, "spawned", "poll")
  /\ UNCHANGED <<file, thread, handler, failed, bound, child, look, signals, history>>

AppEnds(g) ==
  /\ Alive(g) /\ child[g] = "running"
  /\ child' = [child EXCEPT ![g] = "ended"]
  /\ UNCHANGED <<file, threads, bound, look, signals, history>>

\* The fault of a main thread that looks only at its app.
Ended_Unseen(g) == FALSE

Ended(g) == thread[g] = "end"

\* The app has ended, or the governor has and the app is ended with it.
Poll(g) ==
  /\ ToMain(g, "poll", "pid")
  /\ child[g] = "ended" \/ Ended(g)
  /\ child' = [child EXCEPT ![g] = "ended"]
  /\ UNCHANGED <<file, thread, handler, failed, bound, look, signals, history>>

\* The fault of a list of files that lacks the address.
ClearByMain_NoAddr(g) ==
  /\ \/ ToMain(g, "pid", "token")   /\ Put(g, "pid", Absent)
     \/ ToMain(g, "token", "flush") /\ Put(g, "token", Absent)
  /\ UNCHANGED <<thread, handler, failed, bound, child, look, signals, history>>

\* remove_discovery_files
ClearByMain(g) ==
  /\ \/ ToMain(g, "pid", "addr")    /\ Put(g, "pid", Absent)
     \/ ToMain(g, "addr", "token")  /\ Put(g, "addr", Absent)
     \/ ToMain(g, "token", "flush") /\ Put(g, "token", Absent)
  /\ UNCHANGED <<thread, handler, failed, bound, child, look, signals, history>>

\* The last sweep and the forwarder are waited for, and the process ends.
Leave(g) ==
  /\ main[g] = "flush"
  /\ Gone(g)
  /\ UNCHANGED <<file, signals>>

MainStep(g) ==
  SeeAddress(g) \/ Detect(g) \/ GiveUp(g) \/ Spawn(g) \/ NoteChild(g) \/ Poll(g) \/ ClearByMain(g)
    \/ Leave(g)

-----------------------------------------------------------------------------
(* Signals *)

ToHandler(g, from, to) == handler[g] = from /\ handler' = [handler EXCEPT ![g] = to]

Signal(g) == Alive(g) /\ signals < MaxSignals /\ signals' = signals + 1

\* SIGINT, and SIGTERM as the handler sees it.
Handle(g) == g \notin Headless /\ ToHandler(g, "idle", "kill")

\* Ctrl-C.  A headless governor has no handler for it.
Interrupt(g) ==
  /\ Signal(g)
  /\ \/ Handle(g) /\ UNCHANGED <<main, thread, failed, bound, child, look, history>>
     \/ g \in Headless /\ Gone(g)
  /\ UNCHANGED file

\* SIGTERM, from the system or from nanny stop.  While the governor serves,
\* its runtime has a handler too: it stops accepting and drains.
Terminate(g) ==
  /\ Signal(g)
  /\ \/ /\ Handle(g)
        /\ thread' = [thread EXCEPT ![g] = IF @ = "serve" THEN "drain" ELSE @]
        /\ UNCHANGED <<main, failed, bound, child, look, history>>
     \/ /\ g \in Headless /\ ToThread(g, "serve", "drain")
        /\ UNCHANGED <<main, handler, failed, bound, child, look, history>>
     \/ /\ g \in Headless
        /\ thread[g] \notin {"serve", "drain", "dropPid", "dropToken", "end"}
        /\ Gone(g)
  /\ UNCHANGED file

\* nanny stop: whoever the process id in the directory names.
StopCommand(a) == \E g \in Governors : file[a].pid = g /\ Terminate(g)

\* kill -9, or the machine.
Kill(g) ==
  /\ Signal(g)
  /\ Gone(g)
  /\ UNCHANGED file

\* The app is killed if its process id is known.
KillChild(g) ==
  /\ ToHandler(g, "kill", "pid")
  /\ child' = [child EXCEPT ![g] =
                 IF @ = "running" /\ main[g] # "spawned" THEN "ended" ELSE @]
  /\ UNCHANGED <<file, main, thread, failed, bound, look, signals, history>>

ClearByHandler(g) ==
  /\ \/ ToHandler(g, "pid", "addr")   /\ Put(g, "pid", Absent)
     \/ ToHandler(g, "addr", "token") /\ Put(g, "addr", Absent)
     \/ ToHandler(g, "token", "exit") /\ Put(g, "token", Absent)
  /\ UNCHANGED <<main, thread, failed, bound, child, look, signals, history>>

ExitByHandler(g) ==
  /\ handler[g] = "exit"
  /\ Gone(g)
  /\ UNCHANGED <<file, signals>>

HandlerStep(g) == KillChild(g) \/ ClearByHandler(g) \/ ExitByHandler(g)

-----------------------------------------------------------------------------
DiscoveryNext ==
  \/ \E g \in Governors :
       \/ Launch(g) \/ MainStep(g) \/ ThreadStep(g) \/ HandlerStep(g)
       \/ AppEnds(g) \/ Interrupt(g) \/ Terminate(g) \/ Kill(g)
  \/ \E j \in Joiners : Detect(j) \/ \E a \in Apps : Join(j, a)
  \/ \E a \in Apps : StopCommand(a)

DiscoverySpec == DiscoveryInit /\ [][DiscoveryNext]_vars

\* The main thread and the governor thread of a process run.  Its handler,
\* its app and its operator do as they like, and so do the joiners.
DiscoveryFairness ==
  /\ \A g \in Governors : WF_vars(ThreadStep(g))
  /\ \A g \in Governors \ Headless : WF_vars(MainStep(g))

FairDiscoverySpec == DiscoverySpec /\ DiscoveryFairness
=============================================================================
