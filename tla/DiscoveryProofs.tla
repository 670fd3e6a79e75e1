--------------------------- MODULE DiscoveryProofs ---------------------------
(***************************************************************************)
(* Proofs about the discovery files, for any number of apps, governors,    *)
(* joiners and ports: that a governor nobody has crossed is found under    *)
(* its own address and token, and that the app it launches reaches it.     *)
(***************************************************************************)
EXTENDS DiscoveryProperties, TLAPS

-----------------------------------------------------------------------------
(* One process at a time *)

\* The steps of a governor's process, and what happens to it.
GovernorStep(g) ==
  \/ Launch(g) \/ MainStep(g) \/ ThreadStep(g) \/ HandlerStep(g)
  \/ AppEnds(g) \/ Interrupt(g) \/ Terminate(g) \/ Kill(g)

\* A client that only reads.
JoinerStep(j) == Detect(j) \/ \E a \in Apps : Join(j, a)

LEMMA Steps ==
  ASSUME [DiscoveryNext]_vars
  PROVE  \/ \E g \in Governors : GovernorStep(g)
         \/ \E j \in Joiners : JoinerStep(j)
         \/ UNCHANGED vars
  BY DEF DiscoveryNext, GovernorStep, JoinerStep, StopCommand

\* How far every lookup has got, and what it holds by then.
Looks ==
  \A c \in Clients :
    /\ look[c].at \in {"addr", "token", "connect", "found"} => look[c].app \in Apps
    /\ look[c].at = "token" => look[c].addr # Absent
    /\ look[c].at \in {"connect", "found"} =>
         look[c].addr \in Ports /\ look[c].token \in Governors

\* A process that is not there does nothing; one that waits has not looked; one
\* that has launched its app has found a governor.
ThreadsOf(g) ==
  /\ ~Alive(g) => handler[g] = "idle" /\ thread[g] \in {"off", "gone"}
  /\ main[g] \in {"off", "wait", "serve", "gone"} => look[g] = Unasked
  /\ main[g] \in {"spawned", "poll", "pid", "addr", "token", "flush"} => look[g].at = "found"
  /\ look[g].at \in {"addr", "token", "connect", "found"} => look[g].app = Directory(g)

Threads == \A g \in Governors : ThreadsOf(g)

\* Nobody else of the app is there while a governor is alone.
Alone ==
  \A g \in Governors :
    alone[g] => /\ Alive(g)
                /\ \A h \in Governors \ {g} : Directory(h) = Directory(g) => ~Alive(h)

\* The inductive form of DiscoveryTypeOK.
Sound == DiscoveryTypeOK /\ Looks /\ Threads /\ Alone

LEMMA SoundInit == DiscoveryInit => Sound
<1> SUFFICES ASSUME DiscoveryInit
             PROVE  Sound
  OBVIOUS
<1> USE DiscoveryAssumption DEF DiscoveryInit
<1>1. Empty \in [addr : Ports \cup {Absent, Torn}, token : Governors \cup {Absent, Torn},
                 pid : Governors \cup {Absent}]
  BY DEF Empty
<1>2. Unasked \in Lookups
  BY DEF Unasked, Lookups
<1>3. DiscoveryTypeOK
  BY <1>1, <1>2 DEF DiscoveryTypeOK, Empty
<1>4. Looks /\ Threads
  BY DEF Looks, Threads, ThreadsOf, Unasked, Clients, Alive
<1>5. Alone
  BY DEF Alone
<1> QED
  BY <1>3, <1>4, <1>5 DEF Sound

Files == [addr : Ports \cup {Absent, Torn}, token : Governors \cup {Absent, Torn},
          pid : Governors \cup {Absent}]

\* What the files of an app may say of governors.
Named(files) ==
  \A a \in Apps : /\ files[a].token \in Governors => AppOf[files[a].token] = a
                  /\ files[a].pid \in Governors => AppOf[files[a].pid] = a

LEMMA PutType ==
  ASSUME Sound, NEW g \in Governors, NEW name \in {"addr", "token", "pid"}, NEW value,
         name = "addr" => value \in Ports \cup {Absent, Torn},
         name = "token" => value \in {g, Absent, Torn},
         name = "pid" => value \in {g, Absent},
         Put(g, name, value)
  PROVE  /\ file' \in [Apps -> Files] /\ Named(file')
         /\ \A a \in Apps : a # Directory(g) => file'[a] = file[a]
         /\ file'[Directory(g)] = [file[Directory(g)] EXCEPT ![name] = value]
<1>1. file \in [Apps -> Files] /\ Named(file)
  BY DEF Sound, DiscoveryTypeOK, Files, Named
<1>2. Directory(g) \in Apps
  BY DiscoveryAssumption DEF Directory
<1>3. PICK a \in Apps : a = Directory(g)
  BY <1>2
<1>4. file' = [file EXCEPT ![a][name] = value]
  BY <1>3 DEF Put
<1>5. file' = [file EXCEPT ![a] = [file[a] EXCEPT ![name] = value]]
  BY <1>1, <1>4
<1>6. file[a] \in Files
  BY <1>1
<1>7. [file[a] EXCEPT ![name] = value] \in Files
  BY <1>6 DEF Files
<1>8. file' \in [Apps -> Files]
  BY <1>1, <1>5, <1>7
<1>9. /\ \A b \in Apps : b # a => file'[b] = file[b]
      /\ file'[a] = [file[a] EXCEPT ![name] = value]
  BY <1>1, <1>5
<1>10. /\ file'[a].token = IF name = "token" THEN value ELSE file[a].token
       /\ file'[a].pid = IF name = "pid" THEN value ELSE file[a].pid
  BY <1>6, <1>9 DEF Files
<1>11. AppOf[g] = a
  BY <1>3 DEF Directory
<1>12. Absent \notin Governors /\ Torn \notin Governors
  BY DiscoveryAssumption
<1>13. Named(file')
  <2> SUFFICES ASSUME NEW b \in Apps
               PROVE  /\ file'[b].token \in Governors => AppOf[file'[b].token] = b
                      /\ file'[b].pid \in Governors => AppOf[file'[b].pid] = b
    BY DEF Named
  <2>1. /\ file[b].token \in Governors => AppOf[file[b].token] = b
        /\ file[b].pid \in Governors => AppOf[file[b].pid] = b
    BY <1>1 DEF Named
  <2>2. CASE b # a
    BY <1>9, <2>1, <2>2
  <2>3. CASE b = a
    <3>1. file'[a].token \in Governors => AppOf[file'[a].token] = a
      BY <1>10, <1>11, <1>12, <2>1, <2>3
    <3>2. file'[a].pid \in Governors => AppOf[file'[a].pid] = a
      BY <1>10, <1>11, <1>12, <2>1, <2>3
    <3> QED
      BY <2>3, <3>1, <3>2
  <2> QED
    BY <2>2, <2>3
<1> QED
  BY <1>3, <1>8, <1>9, <1>13

\* Every write is of this kind, by a process that is there.
Writes(g) ==
  \E name \in {"addr", "token", "pid"}, value \in Contents :
    /\ name = "addr" => value \in Ports \cup {Absent, Torn}
    /\ name = "token" => value \in {g, Absent, Torn}
    /\ name = "pid" => value \in {g, Absent}
    /\ Put(g, name, value)

LEMMA StepWrites ==
  ASSUME Sound, NEW g \in Governors, GovernorStep(g)
  PROVE  file' = file \/ (Writes(g) /\ Alive(g))
<1> USE DEF Writes, Contents
<1>1. CASE Publish(g)
  <2>1. bound[g] \in Ports \cup {Absent}
    BY DEF Sound, DiscoveryTypeOK
  <2>2. Writes(g)
    BY <1>1, <2>1 DEF Publish
  <2>3. Alive(g)
    BY <1>1 DEF Publish, ToThread, Sound, Threads, ThreadsOf
  <2> QED
    BY <2>2, <2>3
<1>2. CASE Withdraw(g)
  <2>1. Writes(g)
    BY <1>2 DEF Withdraw
  <2> QED
    BY <1>2, <2>1 DEF Withdraw, ToThread, Sound, Threads, ThreadsOf
<1>3. CASE ClearByMain(g)
  <2>1. Writes(g)
    BY <1>3 DEF ClearByMain
  <2> QED
    BY <1>3, <2>1 DEF ClearByMain, ToMain, Alive
<1>4. CASE ClearByHandler(g)
  <2>1. Writes(g)
    BY <1>4 DEF ClearByHandler
  <2> QED
    BY <1>4, <2>1 DEF ClearByHandler, ToHandler, Sound, Threads, ThreadsOf
<1>5. CASE Launch(g) \/ AppEnds(g) \/ Interrupt(g) \/ Terminate(g) \/ Kill(g)
  BY <1>5 DEF Launch, AppEnds, Interrupt, Terminate, Kill
<1>6. CASE Bind(g) \/ BindFails(g) \/ Serve(g) \/ StopServing(g) \/ HeadlessEnds(g)
  BY <1>6 DEF Bind, BindFails, Serve, StopServing, HeadlessEnds
<1>7. CASE SeeAddress(g) \/ Detect(g) \/ GiveUp(g) \/ Spawn(g) \/ NoteChild(g) \/ Poll(g) \/ Leave(g)
  BY <1>7 DEF SeeAddress, Detect, ReadAddr, ReadToken, Connect, GiveUp, Spawn, NoteChild, Poll,
              Leave
<1>8. CASE KillChild(g) \/ ExitByHandler(g)
  BY <1>8 DEF KillChild, ExitByHandler
<1> QED
  BY <1>1, <1>2, <1>3, <1>4, <1>5, <1>6, <1>7, <1>8
  DEF GovernorStep, MainStep, ThreadStep, HandlerStep

Mains    == {"off", "wait", "detect", "spawned", "poll", "pid", "addr", "token", "flush",
             "serve", "gone"}
Stages   == {"off", "bind", "openAddr", "writeAddr", "openToken", "writeToken", "writePid",
             "load", "serve", "drain", "dropPid", "dropToken", "end", "gone"}
Handlers == {"idle", "kill", "pid", "addr", "token", "exit"}

\* The variables other than file, each of its kind.
Kinds ==
  /\ main \in [Governors -> Mains] /\ thread \in [Governors -> Stages]
  /\ handler \in [Governors -> Handlers] /\ failed \subseteq Governors
  /\ bound \in [Governors -> Ports \cup {Absent}]
  /\ child \in [Governors -> {"none", "running", "ended"}]
  /\ look \in [Clients -> Lookups] /\ signals \in 0 .. MaxSignals
  /\ alone \in [Governors -> BOOLEAN] /\ fresh \in [Governors -> BOOLEAN]

OwnPort == \A g, h \in Governors : bound[g] = bound[h] /\ bound[g] # Absent => g = h

LEMMA TypeParts ==
  DiscoveryTypeOK <=> file \in [Apps -> Files] /\ Named(file) /\ Kinds /\ OwnPort
BY DEF DiscoveryTypeOK, Files, Named, Kinds, OwnPort, Mains, Stages, Handlers

\* A step of g leaves the others as they are.
OnlyOf(g) ==
  /\ \A h \in Governors : h # g =>
       /\ main'[h] = main[h] /\ thread'[h] = thread[h] /\ handler'[h] = handler[h]
       /\ bound'[h] = bound[h] /\ fresh'[h] = fresh[h] /\ alone'[h] \in {alone[h], FALSE}
  /\ \A c \in Clients : c # g => look'[c] = look[c]

LEMMA GoneKeepsKinds ==
  ASSUME Kinds, OwnPort, NEW g \in Governors, Gone(g)
  PROVE  /\ (signals' \in 0 .. MaxSignals => Kinds') /\ OwnPort' /\ OnlyOf(g)
         /\ main'[g] = "gone" /\ thread'[g] = "gone" /\ handler'[g] = "idle"
         /\ bound'[g] = Absent /\ look'[g] = Unasked /\ ~alone'[g] /\ ~fresh'[g]
<1>1. g \in Clients /\ Unasked \in Lookups
  BY DEF Clients, Unasked, Lookups
<1>2. main' \in [Governors -> Mains] /\ thread' \in [Governors -> Stages]
  BY DEF Kinds, Gone, Mains, Stages
<1>3. handler' \in [Governors -> Handlers] /\ failed' \subseteq Governors
  BY DEF Kinds, Gone, Handlers
<1>4. bound' \in [Governors -> Ports \cup {Absent}]
  BY DEF Kinds, Gone
<1>5. child' \in [Governors -> {"none", "running", "ended"}]
  BY DEF Kinds, Gone
<1>6. look' \in [Clients -> Lookups]
  BY <1>1 DEF Kinds, Gone
<1>7. alone' \in [Governors -> BOOLEAN] /\ fresh' \in [Governors -> BOOLEAN]
  BY DEF Kinds, Gone
<1>8. OwnPort'
  BY DEF OwnPort, Gone, Kinds
<1>9. OnlyOf(g)
  BY <1>1 DEF OnlyOf, Gone, Kinds
<1>10. /\ main'[g] = "gone" /\ thread'[g] = "gone" /\ handler'[g] = "idle"
       /\ bound'[g] = Absent /\ look'[g] = Unasked /\ ~alone'[g] /\ ~fresh'[g]
  BY <1>1 DEF Gone, Kinds
<1> QED
  BY <1>2, <1>3, <1>4, <1>5, <1>6, <1>7, <1>8, <1>9, <1>10 DEF Kinds

\* What the governor thread does, but for a headless governor's end.
Serving(g) ==
  Bind(g) \/ BindFails(g) \/ Publish(g) \/ Serve(g) \/ StopServing(g) \/ Withdraw(g)

LEMMA ServingKeepsKinds ==
  ASSUME Kinds, OwnPort, NEW g \in Governors, Serving(g)
  PROVE  /\ Kinds' /\ OwnPort' /\ OnlyOf(g)
         /\ main' = main /\ handler' = handler /\ look' = look /\ alone' = alone
         /\ fresh' = fresh /\ thread[g] \notin {"off", "gone"}
<1>1. PICK to \in Stages : thread' = [thread EXCEPT ![g] = to]
  BY DEF Serving, Bind, BindFails, Publish, Serve, StopServing, Withdraw, ToThread, Stages
<1>2. thread' \in [Governors -> Stages] /\ \A h \in Governors : h # g => thread'[h] = thread[h]
  BY <1>1 DEF Kinds
<1>3. /\ UNCHANGED <<main, handler, child, look, signals, history>>
      /\ thread[g] \notin {"off", "gone"}
  BY DEF Serving, Bind, BindFails, Publish, Serve, StopServing, Withdraw, ToThread
<1>4. failed' \subseteq Governors
  BY DEF Serving, Bind, BindFails, Publish, Serve, StopServing, Withdraw, Kinds
<1>5. /\ bound' \in [Governors -> Ports \cup {Absent}] /\ OwnPort'
      /\ \A h \in Governors : h # g => bound'[h] = bound[h]
  <2>1. CASE Bind(g)
    <3>1. PICK p \in Ports : Free(p) /\ bound' = [bound EXCEPT ![g] = p]
      BY <2>1 DEF Bind
    <3> QED
      BY <3>1 DEF Kinds, OwnPort, Free
  <2>2. CASE StopServing(g)
    BY <2>2 DEF StopServing, Kinds, OwnPort
  <2>3. CASE bound' = bound
    BY <2>3 DEF Kinds, OwnPort
  <2> QED
    BY <2>1, <2>2, <2>3 DEF Serving, BindFails, Publish, Serve, Withdraw
<1>6. Kinds'
  BY <1>2, <1>3, <1>4, <1>5 DEF Kinds, history
<1>7. OnlyOf(g)
  BY <1>2, <1>3, <1>5 DEF OnlyOf, history
<1> QED
  BY <1>3, <1>5, <1>6, <1>7 DEF history

\* A lookup that ends without an answer forgets what it was about.
LEMMA LostForgets ==
  ASSUME NEW c
  PROVE  Lost(c) = [at |-> "lost", app |-> Absent, addr |-> Absent, token |-> Absent]
BY DEF Lost, Unasked

\* Where a lookup stands, and where it goes.
LEMMA DetectGoesOn ==
  ASSUME Sound, NEW c \in Clients, Detect(c)
  PROVE  /\ look' = [look EXCEPT ![c] = look'[c]] /\ look'[c] \in Lookups
         /\ \/ look'[c] = Lost(c)
            \/ /\ look[c].at = "addr" /\ look'[c].at = "token" /\ look'[c].app = look[c].app
               /\ look'[c].addr = file[look[c].app].addr /\ look'[c].addr # Absent
               /\ look'[c].token = look[c].token
            \/ /\ look[c].at = "token" /\ look'[c].at = "connect" /\ look'[c].app = look[c].app
               /\ look'[c].addr = look[c].addr /\ look'[c].addr \in Ports
               /\ look'[c].token = file[look[c].app].token /\ look'[c].token \in Governors
            \/ /\ look[c].at = "connect" /\ look'[c].at = "found" /\ look'[c].app = look[c].app
               /\ look'[c].addr = look[c].addr /\ look'[c].token = look[c].token
         /\ UNCHANGED <<file, threads, bound, child, signals, history>>
<1>1. look \in [Clients -> Lookups] /\ look[c] \in Lookups
  BY TypeParts DEF Sound, Kinds
<1>2. Lost(c) \in Lookups
  BY LostForgets DEF Lookups
<1>3. CASE ReadAddr(c)
  <2>1. look[c].at = "addr" /\ look[c].app \in Apps
    BY <1>3 DEF ReadAddr, At, Sound, Looks
  <2>2. file[look[c].app] \in Files
    BY <2>1, TypeParts DEF Sound
  <2>3. file[look[c].app].addr \in Ports \cup {Absent, Torn}
    BY <2>2 DEF Files
  <2>4. CASE file[look[c].app].addr = Absent
    BY <1>1, <1>2, <1>3, <2>4 DEF ReadAddr, At
  <2>5. CASE file[look[c].app].addr # Absent
    <3>1. look' = [look EXCEPT ![c] = [look[c] EXCEPT !.at = "token",
                                                      !.addr = file[look[c].app].addr]]
      BY <1>3, <2>5 DEF ReadAddr, At
    <3> QED
      BY <1>1, <1>3, <2>1, <2>3, <2>5, <3>1 DEF ReadAddr, Lookups
  <2> QED
    BY <2>4, <2>5
<1>4. CASE ReadToken(c)
  <2>1. look[c].at = "token" /\ look[c].app \in Apps /\ look[c].addr # Absent
    BY <1>4 DEF ReadToken, At, Sound, Looks
  <2>2. file[look[c].app] \in Files
    BY <2>1, TypeParts DEF Sound
  <2>3. file[look[c].app].token \in Governors \cup {Absent, Torn}
    BY <2>2 DEF Files
  <2>4. CASE file[look[c].app].token \in {Absent, Torn} \/ look[c].addr = Torn
    BY <1>1, <1>2, <1>4, <2>4 DEF ReadToken, At
  <2>5. CASE ~(file[look[c].app].token \in {Absent, Torn} \/ look[c].addr = Torn)
    <3>1. look' = [look EXCEPT ![c] = [look[c] EXCEPT !.at = "connect",
                                                      !.token = file[look[c].app].token]]
      BY <1>4, <2>5 DEF ReadToken, At
    <3>2. look[c].addr \in Ports
      BY <1>1, <2>1, <2>5 DEF Lookups
    <3> QED
      BY <1>1, <1>4, <2>1, <2>3, <2>5, <3>1, <3>2 DEF ReadToken, Lookups
  <2> QED
    BY <2>4, <2>5
<1>5. CASE Connect(c)
  <2>1. CASE Free(look[c].addr)
    BY <1>1, <1>2, <1>5, <2>1 DEF Connect, At
  <2>2. CASE ~Free(look[c].addr)
    BY <1>1, <1>5, <2>2 DEF Connect, At, Lookups
  <2> QED
    BY <2>1, <2>2
<1> QED
  BY <1>3, <1>4, <1>5 DEF Detect

LEMMA DetectKeepsLooks ==
  ASSUME Sound, NEW c \in Clients, Detect(c)
  PROVE  /\ Kinds' /\ OwnPort' /\ Looks'
         /\ \A d \in Clients : d # c => look'[d] = look[d]
         /\ UNCHANGED <<file, threads, bound, child, signals, history>>
         /\ look'[c].at \in {"addr", "token", "connect", "found"} => look'[c].app = look[c].app
<1>1. /\ UNCHANGED <<file, threads, bound, child, signals, history>>
      /\ look' = [look EXCEPT ![c] = look'[c]] /\ look'[c] \in Lookups
  BY DetectGoesOn
<1>2. Kinds /\ OwnPort
  BY TypeParts DEF Sound
<1>3. look' \in [Clients -> Lookups] /\ \A d \in Clients : d # c => look'[d] = look[d]
  BY <1>1, <1>2 DEF Kinds
<1>4. Kinds'
  BY <1>1, <1>2, <1>3 DEF Kinds, threads, history
<1>5. OwnPort'
  BY <1>1, <1>2 DEF OwnPort
<1>6. Lost(c).at = "lost"
  BY LostForgets
<1>7. look'[c].at \in {"addr", "token", "connect", "found"} => look'[c].app = look[c].app
  BY DetectGoesOn, <1>6
<1>8. Looks'
  <2> SUFFICES ASSUME NEW d \in Clients
               PROVE  /\ look'[d].at \in {"addr", "token", "connect", "found"} =>
                           look'[d].app \in Apps
                      /\ look'[d].at = "token" => look'[d].addr # Absent
                      /\ look'[d].at \in {"connect", "found"} =>
                           look'[d].addr \in Ports /\ look'[d].token \in Governors
    BY DEF Looks
  <2>1. CASE d # c
    BY <1>3, <2>1 DEF Sound, Looks
  <2>2. CASE d = c
    <3>1. /\ look[c].at \in {"addr", "token", "connect", "found"} => look[c].app \in Apps
          /\ look[c].at \in {"connect", "found"} =>
               look[c].addr \in Ports /\ look[c].token \in Governors
      BY DEF Sound, Looks
    <3> QED
      BY <2>2, <3>1, <1>6, DetectGoesOn
  <2> QED
    BY <2>1, <2>2
<1> QED
  BY <1>1, <1>3, <1>4, <1>5, <1>7, <1>8

\* A signal that is handled, or starts a drain.
Handled(g) ==
  /\ Signal(g)
  /\ \/ Handle(g) /\ \/ thread' = thread
                     \/ thread' = [thread EXCEPT ![g] = IF @ = "serve" THEN "drain" ELSE @]
     \/ ToThread(g, "serve", "drain") /\ handler' = handler
  /\ UNCHANGED <<file, main, failed, bound, child, look, history>>

\* The end of the process.
Ends(g) == Alive(g) /\ Gone(g) /\ file' = file /\ (signals' = signals \/ Signal(g))

\* What the process does besides, while it is there.
Moves(g) ==
  SeeAddress(g) \/ Spawn(g) \/ NoteChild(g) \/ Poll(g) \/ ClearByMain(g) \/ AppEnds(g)
    \/ KillChild(g) \/ ClearByHandler(g) \/ Handled(g)

LEMMA GovernorCases ==
  ASSUME Sound, NEW g \in Governors, GovernorStep(g)
  PROVE  Launch(g) \/ Detect(g) \/ Serving(g) \/ Moves(g) \/ Ends(g)
<1> USE DEF Moves, Ends
<1>1. CASE ThreadStep(g)
  BY <1>1 DEF ThreadStep, Serving, HeadlessEnds, Alive
<1>2. CASE MainStep(g)
  BY <1>2 DEF MainStep, GiveUp, Leave, Alive
<1>3. CASE HandlerStep(g)
  BY <1>3 DEF HandlerStep, ExitByHandler, Sound, Threads, ThreadsOf
<1>4. CASE Interrupt(g)
  BY <1>4 DEF Interrupt, Handled, Signal
<1>5. CASE Terminate(g)
  BY <1>5 DEF Terminate, Handled, Signal
<1>6. CASE Kill(g)
  BY <1>6 DEF Kill, Signal
<1>7. CASE Launch(g) \/ AppEnds(g)
  BY <1>7
<1> QED
  BY <1>1, <1>2, <1>3, <1>4, <1>5, <1>6, <1>7 DEF GovernorStep

LEMMA SignalType ==
  ASSUME signals \in 0 .. MaxSignals, NEW g, Signal(g)
  PROVE  signals' \in 0 .. MaxSignals
<1>1. MaxSignals \in Nat
  BY DiscoveryAssumption
<1> QED
  BY <1>1 DEF Signal

LEMMA MovesKeepKinds ==
  ASSUME Sound, NEW g \in Governors, Moves(g)
  PROVE  /\ Kinds' /\ OwnPort' /\ OnlyOf(g) /\ Alive(g) /\ Alive(g)'
         /\ UNCHANGED <<bound, alone, fresh>>
         /\ thread'[g] = thread[g] \/ (thread[g] = "serve" /\ thread'[g] = "drain")
         /\ handler'[g] = "idle" => handler[g] = "idle"
<1>1. Kinds /\ OwnPort /\ ThreadsOf(g)
  BY TypeParts DEF Sound, Threads
<1>2. g \in Clients
  BY DEF Clients
<1>3. Alive(g)
  BY <1>1 DEF Moves, SeeAddress, Spawn, NoteChild, Poll, ClearByMain, AppEnds, KillChild,
         ClearByHandler, Handled, Signal, ThreadsOf, ToMain, ToHandler, Alive
<1>4. /\ UNCHANGED <<bound, alone, fresh, failed>>
      /\ signals' = signals \/ Signal(g)
  BY DEF Moves, SeeAddress, Spawn, NoteChild, Poll, ClearByMain, AppEnds, KillChild,
         ClearByHandler, Handled, threads, history
<1>5. PICK m \in Mains \ {"off", "gone"} : main' = [main EXCEPT ![g] = m]
  <2>1. CASE main' = main
    <3>1. main[g] \in Mains \ {"off", "gone"} /\ main' = [main EXCEPT ![g] = main[g]]
      BY <1>1, <1>3, <2>1 DEF Kinds, Alive
    <3> QED
      BY <3>1
  <2>2. CASE SeeAddress(g) \/ Spawn(g) \/ NoteChild(g) \/ Poll(g) \/ ClearByMain(g)
    BY <2>2 DEF SeeAddress, Spawn, NoteChild, Poll, ClearByMain, ToMain, Mains
  <2> QED
    BY <2>1, <2>2 DEF Moves, AppEnds, KillChild, ClearByHandler, Handled, threads
<1>6. PICK t \in Stages : /\ thread' = [thread EXCEPT ![g] = t]
                          /\ t = thread[g] \/ (thread[g] = "serve" /\ t = "drain")
  <2>1. CASE thread' = thread
    <3>1. thread[g] \in Stages /\ thread' = [thread EXCEPT ![g] = thread[g]]
      BY <1>1, <2>1 DEF Kinds
    <3> QED
      BY <3>1
  <2>2. CASE Handled(g)
    <3>1. thread[g] \in Stages /\ "drain" \in Stages
      BY <1>1 DEF Kinds, Stages
    <3> QED
      BY <2>1, <2>2, <3>1 DEF Handled, ToThread
  <2> QED
    BY <2>1, <2>2 DEF Moves, SeeAddress, Spawn, NoteChild, Poll, ClearByMain, AppEnds, KillChild,
         ClearByHandler, threads
<1>7. PICK k \in Handlers : /\ handler' = [handler EXCEPT ![g] = k]
                            /\ k = "idle" => handler[g] = "idle"
  <2>1. CASE handler' = handler
    <3>1. handler[g] \in Handlers /\ handler' = [handler EXCEPT ![g] = handler[g]]
      BY <1>1, <2>1 DEF Kinds
    <3> QED
      BY <3>1
  <2>2. CASE Handled(g) /\ Handle(g)
    BY <2>2 DEF Handle, ToHandler, Handlers
  <2>3. CASE KillChild(g) \/ ClearByHandler(g)
    BY <2>3 DEF KillChild, ClearByHandler, ToHandler, Handlers
  <2> QED
    BY <2>1, <2>2, <2>3 DEF Moves, SeeAddress, Spawn, NoteChild, Poll, ClearByMain, AppEnds,
         Handled, threads
<1>8. PICK l \in Lookups : look' = [look EXCEPT ![g] = l]
  <2>1. CASE look' = look
    <3>1. look[g] \in Lookups /\ look' = [look EXCEPT ![g] = look[g]]
      BY <1>1, <1>2, <2>1 DEF Kinds
    <3> QED
      BY <3>1
  <2>2. CASE SeeAddress(g)
    <3>1. Directory(g) \in Apps
      BY DiscoveryAssumption DEF Directory
    <3>2. [Unasked EXCEPT !.at = "addr", !.app = Directory(g)] \in Lookups
      BY <3>1 DEF Unasked, Lookups
    <3> QED
      BY <2>2, <3>2 DEF SeeAddress
  <2> QED
    BY <2>1, <2>2 DEF Moves, Spawn, NoteChild, Poll, ClearByMain, AppEnds, KillChild,
         ClearByHandler, Handled
<1>9. child' \in [Governors -> {"none", "running", "ended"}]
  BY <1>1 DEF Kinds, Moves, SeeAddress, Spawn, NoteChild, Poll, ClearByMain, AppEnds, KillChild,
         ClearByHandler, Handled
<1>10. signals' \in 0 .. MaxSignals
  BY <1>1, <1>4, SignalType DEF Kinds
<1>11. Kinds'
  BY <1>1, <1>4, <1>5, <1>6, <1>7, <1>8, <1>9, <1>10 DEF Kinds
<1>12. OwnPort'
  BY <1>1, <1>4 DEF OwnPort
<1>13. OnlyOf(g)
  BY <1>1, <1>4, <1>5, <1>6, <1>7, <1>8 DEF OnlyOf, Kinds
<1>14. Alive(g)'
  BY <1>1, <1>5 DEF Kinds, Alive
<1> QED
  BY <1>1, <1>3, <1>4, <1>6, <1>7, <1>11, <1>12, <1>13, <1>14 DEF Kinds

LEMMA LaunchKeepsKinds ==
  ASSUME Sound, NEW g \in Governors, Launch(g)
  PROVE  /\ Kinds' /\ OwnPort' /\ OnlyOf(g) /\ Alive(g)' /\ ~Alive(g)
         /\ main'[g] \in {"wait", "serve"} /\ thread'[g] = "bind"
         /\ UNCHANGED <<file, bound, look, handler>>
         /\ fresh'[g] = (file[Directory(g)] = Empty)
         /\ \A h \in Governors : h # g => alone'[h] = (alone[h] /\ h \notin Rivals(g))
         /\ alone'[g] = (Rivals(g) = {})
<1>1. Kinds /\ OwnPort
  BY TypeParts DEF Sound
<1>2. PICK m \in {"wait", "serve"} : main' = [main EXCEPT ![g] = m]
  BY DEF Launch, ToMain
<1>3. main' \in [Governors -> Mains] /\ main'[g] \in {"wait", "serve"}
  BY <1>1, <1>2 DEF Kinds, Mains
<1>4. thread' \in [Governors -> Stages] /\ thread'[g] = "bind"
  BY <1>1 DEF Kinds, Stages, Launch
<1>5. /\ alone' \in [Governors -> BOOLEAN] /\ alone'[g] = (Rivals(g) = {})
      /\ \A h \in Governors : h # g => alone'[h] = (alone[h] /\ h \notin Rivals(g))
  <2>1. \A h \in Governors : alone[h] \in BOOLEAN
    BY <1>1 DEF Kinds
  <2>2. alone' = [h \in Governors |-> IF h = g THEN Rivals(g) = {}
                                      ELSE alone[h] /\ h \notin Rivals(g)]
    BY DEF Launch
  <2> QED
    BY <2>1, <2>2
<1>6. fresh' \in [Governors -> BOOLEAN] /\ fresh'[g] = (file[Directory(g)] = Empty)
  <2>1. fresh' = [fresh EXCEPT ![g] = file[Directory(g)] = Empty]
    BY DEF Launch
  <2>2. fresh \in [Governors -> BOOLEAN] /\ (file[Directory(g)] = Empty) \in BOOLEAN
    BY <1>1 DEF Kinds
  <2> QED
    BY <2>1, <2>2
<1>7. UNCHANGED <<file, handler, failed, bound, child, look, signals>>
  BY DEF Launch
<1>8. Kinds'
  BY <1>1, <1>3, <1>4, <1>5, <1>6, <1>7 DEF Kinds
<1>9. OwnPort'
  BY <1>1, <1>7 DEF OwnPort
<1>10. OnlyOf(g)
  <2>1. \A h \in Governors : h # g => main'[h] = main[h] /\ thread'[h] = thread[h]
    BY <1>1, <1>2 DEF Kinds, Launch
  <2>2. \A h \in Governors : h # g => fresh'[h] = fresh[h]
    BY <1>1 DEF Kinds, Launch
  <2>3. \A h \in Governors : h # g => alone'[h] \in {alone[h], FALSE}
    BY <1>1, <1>5 DEF Kinds
  <2> QED
    BY <1>7, <2>1, <2>2, <2>3 DEF OnlyOf
<1>11. ~Alive(g) /\ Alive(g)'
  BY <1>3 DEF Launch, ToMain, Alive
<1> QED
  BY <1>3, <1>4, <1>5, <1>6, <1>7, <1>8, <1>9, <1>10, <1>11

\* The part of Sound that a process brings about by itself.
LEMMA OwnThreads ==
  ASSUME Sound, NEW g \in Governors, GovernorStep(g)
  PROVE  /\ Kinds' /\ OwnPort' /\ OnlyOf(g) /\ Looks' /\ ThreadsOf(g)'
         /\ Alive(g) \/ Launch(g)
         /\ alone'[g] => Alive(g)' /\ (Launch(g) \/ alone[g])
<1>1. /\ g \in Clients /\ Kinds /\ OwnPort /\ ThreadsOf(g) /\ Looks
      /\ alone[g] => Alive(g)
  BY TypeParts DEF Sound, Threads, Clients, Alone
<1>2. CASE Launch(g)
  <2>1. look[g] = Unasked /\ handler[g] = "idle"
    BY <1>1, <1>2, LaunchKeepsKinds DEF ThreadsOf, Launch, ToMain, Alive
  <2>2. ThreadsOf(g)'
    BY <1>2, <2>1, LaunchKeepsKinds DEF ThreadsOf, Alive, Unasked
  <2>3. Looks'
    BY <1>1, <1>2, LaunchKeepsKinds DEF Looks
  <2> QED
    BY <1>2, <2>2, <2>3, LaunchKeepsKinds
<1>3. CASE Detect(g)
  <2>1. look[g].at \in {"addr", "token", "connect"}
    BY <1>3 DEF Detect, ReadAddr, ReadToken, Connect, At
  <2>2. main[g] \in Mains
    BY <1>1 DEF Kinds
  <2>3. Unasked.at = "none"
    BY DEF Unasked
  <2>4. main[g] = "detect" /\ look[g].app = Directory(g)
    BY <1>1, <2>1, <2>2, <2>3 DEF ThreadsOf, Mains
  <2>5. main' = main /\ thread' = thread /\ handler' = handler /\ bound' = bound
        /\ alone' = alone /\ fresh' = fresh
    BY <1>1, <1>3, DetectKeepsLooks DEF threads, history
  <2>6. ThreadsOf(g)'
    BY <1>1, <1>3, <2>4, <2>5, DetectKeepsLooks DEF ThreadsOf, Alive
  <2>7. OnlyOf(g)
    BY <1>1, <1>3, <2>5, DetectKeepsLooks DEF OnlyOf
  <2>8. Alive(g) /\ Alive(g)' /\ (alone'[g] => alone[g])
    BY <2>4, <2>5 DEF Alive
  <2> QED
    BY <1>1, <1>3, <2>6, <2>7, <2>8, DetectKeepsLooks
<1>4. CASE Serving(g)
  <2>1. /\ Kinds' /\ OwnPort' /\ OnlyOf(g)
        /\ main' = main /\ handler' = handler /\ look' = look /\ alone' = alone
        /\ thread[g] \notin {"off", "gone"}
    BY <1>1, <1>4, ServingKeepsKinds
  <2>2. Alive(g) /\ Alive(g)' /\ (alone'[g] => alone[g])
    BY <1>1, <2>1 DEF ThreadsOf, Alive
  <2>3. ThreadsOf(g)'
    BY <1>1, <2>1, <2>2 DEF ThreadsOf
  <2>4. Looks'
    BY <1>1, <2>1 DEF Looks
  <2> QED
    BY <2>1, <2>2, <2>3, <2>4
<1>5. CASE Moves(g)
  <2>1. /\ Kinds' /\ OwnPort' /\ OnlyOf(g) /\ Alive(g) /\ Alive(g)'
        /\ alone'[g] => alone[g]
    BY <1>5, MovesKeepKinds
  <2>2. CASE SeeAddress(g)
    <3>1. main'[g] = "detect"
      BY <1>1, <2>2 DEF SeeAddress, ToMain, Kinds
    <3>2. look'[g] = [Unasked EXCEPT !.at = "addr", !.app = Directory(g)]
      BY <1>1, <2>2 DEF SeeAddress, Kinds
    <3>3. look'[g].at = "addr" /\ look'[g].app = Directory(g) /\ Directory(g) \in Apps
      BY <3>2, DiscoveryAssumption DEF Unasked, Directory
    <3>4. ThreadsOf(g)'
      BY <2>1, <3>1, <3>3 DEF ThreadsOf
    <3>5. Looks'
      <4>1. \A c \in Clients : c # g => look'[c] = look[c]
        BY <2>1 DEF OnlyOf
      <4> SUFFICES ASSUME NEW c \in Clients
                   PROVE  /\ look'[c].at \in {"addr", "token", "connect", "found"} =>
                               look'[c].app \in Apps
                          /\ look'[c].at = "token" => look'[c].addr # Absent
                          /\ look'[c].at \in {"connect", "found"} =>
                               look'[c].addr \in Ports /\ look'[c].token \in Governors
        BY DEF Looks
      <4>2. CASE c = g
        BY <3>3, <4>2
      <4>3. CASE c # g
        BY <1>1, <4>1, <4>3 DEF Looks
      <4> QED
        BY <4>2, <4>3
    <3> QED
      BY <2>1, <3>4, <3>5
  <2>3. CASE look' = look
    <3>1. main'[g] = main[g] \/ (main[g] \notin {"off", "gone", "wait", "serve"}
                                 /\ look[g].at = "found"
                                 /\ main'[g] \in {"spawned", "poll", "pid", "addr", "token",
                                                  "flush"})
      <4>1. CASE main' = main
        BY <4>1
      <4>2. CASE Spawn(g) \/ NoteChild(g) \/ Poll(g) \/ ClearByMain(g)
        BY <1>1, <4>2 DEF Spawn, NoteChild, Poll, ClearByMain, ToMain, Kinds, ThreadsOf
      <4>3. CASE SeeAddress(g)
        <5>1. look[g] = Unasked
          BY <1>1, <4>3 DEF SeeAddress, ToMain, ThreadsOf
        <5>2. look'[g] = [Unasked EXCEPT !.at = "addr", !.app = Directory(g)]
          BY <1>1, <4>3 DEF SeeAddress, Kinds
        <5>3. look[g].at = "none" /\ look'[g].at = "addr"
          BY <5>1, <5>2 DEF Unasked
        <5> QED
          BY <2>3, <5>3
      <4> QED
        BY <1>5, <4>1, <4>2, <4>3 DEF Moves, AppEnds, KillChild, ClearByHandler, Handled, threads
    <3>2. ThreadsOf(g)'
      BY <1>1, <2>1, <2>3, <3>1 DEF ThreadsOf
    <3>3. Looks'
      BY <1>1, <2>3 DEF Looks
    <3> QED
      BY <2>1, <3>2, <3>3
  <2> QED
    BY <1>5, <2>2, <2>3 DEF Moves, Spawn, NoteChild, Poll, ClearByMain, AppEnds, KillChild,
       ClearByHandler, Handled
<1>6. CASE Ends(g)
  <2>1. signals' \in 0 .. MaxSignals
    BY <1>1, <1>6, SignalType DEF Ends, Kinds
  <2>2. /\ Kinds' /\ OwnPort' /\ OnlyOf(g)
        /\ main'[g] = "gone" /\ thread'[g] = "gone" /\ handler'[g] = "idle"
        /\ look'[g] = Unasked /\ ~alone'[g]
    BY <1>1, <1>6, <2>1, GoneKeepsKinds DEF Ends
  <2>3. ThreadsOf(g)'
    BY <2>2 DEF ThreadsOf, Unasked
  <2>4. Looks'
    BY <1>1, <2>2 DEF Looks, OnlyOf, Unasked
  <2>5. Alive(g)
    BY <1>1, <1>6 DEF Ends
  <2> QED
    BY <2>2, <2>3, <2>4, <2>5
<1> QED
  BY <1>2, <1>3, <1>4, <1>5, <1>6, GovernorCases

LEMMA GovernorKeepsSound ==
  ASSUME Sound, NEW g \in Governors, GovernorStep(g)
  PROVE  Sound'
<1>1. /\ Kinds' /\ OwnPort' /\ OnlyOf(g) /\ Looks' /\ ThreadsOf(g)'
      /\ Alive(g) \/ Launch(g)
      /\ alone'[g] => Alive(g)' /\ (Launch(g) \/ alone[g])
  BY OwnThreads
<1>2. file \in [Apps -> Files] /\ Named(file) /\ Kinds /\ Threads /\ Alone
  BY TypeParts DEF Sound
<1>3. file' \in [Apps -> Files] /\ Named(file')
  <2>1. CASE file' = file
    BY <1>2, <2>1
  <2>2. CASE Writes(g)
    <3>1. PICK name \in {"addr", "token", "pid"}, value \in Contents :
            /\ name = "addr" => value \in Ports \cup {Absent, Torn}
            /\ name = "token" => value \in {g, Absent, Torn}
            /\ name = "pid" => value \in {g, Absent}
            /\ Put(g, name, value)
      BY <2>2 DEF Writes
    <3> QED
      BY <3>1, PutType
  <2> QED
    BY <2>1, <2>2, StepWrites
<1>4. DiscoveryTypeOK'
  BY <1>1, <1>3 DEF DiscoveryTypeOK, Files, Named, Kinds, OwnPort, Mains, Stages, Handlers
<1>5. Threads'
  <2> SUFFICES ASSUME NEW h \in Governors
               PROVE  ThreadsOf(h)'
    BY DEF Threads
  <2>1. CASE h = g
    BY <1>1, <2>1
  <2>2. CASE h # g
    <3>1. main'[h] = main[h] /\ thread'[h] = thread[h] /\ handler'[h] = handler[h]
      BY <1>1, <2>2 DEF OnlyOf
    <3>2. look'[h] = look[h]
      BY <1>1, <2>2 DEF OnlyOf, Clients
    <3> QED
      BY <1>2, <3>1, <3>2 DEF Threads, ThreadsOf, Alive
  <2> QED
    BY <2>1, <2>2
<1>6. Alone'
  <2> SUFFICES ASSUME NEW h \in Governors, alone'[h]
               PROVE  /\ Alive(h)'
                      /\ \A k \in Governors \ {h} : Directory(k) = Directory(h) => ~Alive(k)'
    BY DEF Alone, Directory
  <2>1. \A k \in Governors : k # g => (Alive(k)' <=> Alive(k))
    BY <1>1 DEF OnlyOf, Alive
  <2>2. h # g => alone[h]
    BY <1>1 DEF OnlyOf
  <2>3. Alive(h)'
    BY <1>1, <1>2, <2>1, <2>2 DEF Alone
  <2> SUFFICES ASSUME NEW k \in Governors \ {h}, Directory(k) = Directory(h), Alive(k)'
               PROVE  FALSE
    BY <2>3
  <2>4. CASE Launch(g)
    <3>1. /\ \A i \in Governors : i # g => alone'[i] = (alone[i] /\ i \notin Rivals(g))
          /\ alone'[g] = (Rivals(g) = {}) /\ ~Alive(g)
      BY <2>4, LaunchKeepsKinds
    <3>2. CASE h = g
      BY <2>1, <3>1, <3>2 DEF Rivals
    <3>3. CASE k = g
      <4>1. alone[h] /\ h \notin Rivals(g) /\ h # g
        BY <3>1, <3>3
      <4>2. Alive(h)
        BY <1>2, <4>1 DEF Alone
      <4> QED
        BY <3>3, <4>1, <4>2 DEF Rivals
    <3>4. CASE h # g /\ k # g
      BY <1>2, <2>1, <2>2, <3>4 DEF Alone
    <3> QED
      BY <3>2, <3>3, <3>4
  <2>5. CASE Alive(g)
    <3>1. Alive(k)
      BY <2>1, <2>5
    <3>2. alone[h]
      BY <1>1, <2>2, <2>5, LaunchKeepsKinds
    <3> QED
      BY <1>2, <3>1, <3>2 DEF Alone
  <2> QED
    BY <1>1, <2>4, <2>5
<1> QED
  BY <1>1, <1>4, <1>5, <1>6 DEF Sound

LEMMA JoinerKeepsSound ==
  ASSUME Sound, NEW j \in Joiners, JoinerStep(j)
  PROVE  /\ Sound'
         /\ UNCHANGED <<file, main, thread, handler, bound, alone, fresh>>
         /\ \A g \in Governors : look'[g] = look[g]
<1>1. file \in [Apps -> Files] /\ Named(file) /\ Kinds /\ OwnPort /\ Looks /\ Threads /\ Alone
  BY TypeParts DEF Sound
<1>2. j \in Clients /\ \A g \in Governors : g \in Clients /\ g # j
  BY DiscoveryAssumption DEF Clients
<1>3. /\ Kinds' /\ OwnPort' /\ Looks'
      /\ UNCHANGED <<file, threads, bound, child, signals, history>>
      /\ \A c \in Clients : c # j => look'[c] = look[c]
  <2>1. CASE Detect(j)
    BY <1>2, <2>1, DetectKeepsLooks
  <2>2. CASE \E a \in Apps : Join(j, a)
    <3>1. PICK a \in Apps : Join(j, a)
      BY <2>2
    <3>2. PICK l \in Lookups : l.at = "addr" /\ l.app = a /\ look' = [look EXCEPT ![j] = l]
      <4>1. [Unasked EXCEPT !.at = "addr", !.app = a] \in Lookups
        BY DEF Unasked, Lookups
      <4>2. /\ [Unasked EXCEPT !.at = "addr", !.app = a].at = "addr"
            /\ [Unasked EXCEPT !.at = "addr", !.app = a].app = a
        BY DEF Unasked
      <4> QED
        BY <3>1, <4>1, <4>2 DEF Join, At
    <3>3. UNCHANGED <<file, threads, bound, child, signals, history>>
      BY <3>1 DEF Join
    <3>4. look' \in [Clients -> Lookups] /\ \A c \in Clients : c # j => look'[c] = look[c]
      BY <1>1, <3>2 DEF Kinds
    <3>5. Kinds'
      BY <1>1, <3>3, <3>4 DEF Kinds, threads, history
    <3>6. look'[j].at = "addr" /\ look'[j].app \in Apps
      BY <1>1, <1>2, <3>2 DEF Kinds
    <3>7. Looks'
      <4> SUFFICES ASSUME NEW c \in Clients
                   PROVE  /\ look'[c].at \in {"addr", "token", "connect", "found"} =>
                               look'[c].app \in Apps
                          /\ look'[c].at = "token" => look'[c].addr # Absent
                          /\ look'[c].at \in {"connect", "found"} =>
                               look'[c].addr \in Ports /\ look'[c].token \in Governors
        BY DEF Looks
      <4>1. CASE c = j
        BY <3>6, <4>1
      <4>2. CASE c # j
        BY <1>1, <3>4, <4>2 DEF Looks
      <4> QED
        BY <4>1, <4>2
    <3>8. OwnPort'
      BY <1>1, <3>3 DEF OwnPort
    <3> QED
      BY <3>3, <3>4, <3>5, <3>7, <3>8
  <2> QED
    BY <2>1, <2>2 DEF JoinerStep
<1>4. DiscoveryTypeOK'
  BY <1>1, <1>3 DEF DiscoveryTypeOK, Files, Named, Kinds, OwnPort, Mains, Stages, Handlers
<1>5. \A g \in Governors : look'[g] = look[g]
  BY <1>2, <1>3
<1>6. Threads' /\ Alone'
  BY <1>1, <1>3, <1>5 DEF Threads, ThreadsOf, Alone, Alive, Directory, threads, history
<1> QED
  BY <1>3, <1>4, <1>5, <1>6 DEF Sound, threads, history

LEMMA SoundStep ==
  ASSUME Sound, [DiscoveryNext]_vars
  PROVE  Sound'
<1>1. CASE \E g \in Governors : GovernorStep(g)
  BY <1>1, GovernorKeepsSound
<1>2. CASE \E j \in Joiners : JoinerStep(j)
  BY <1>2, JoinerKeepsSound
<1>3. CASE UNCHANGED vars
  BY <1>3 DEF vars, threads, history, Sound, DiscoveryTypeOK, Looks, Threads, ThreadsOf, Alone,
     Alive, Directory
<1> QED
  BY <1>1, <1>2, <1>3, Steps

-----------------------------------------------------------------------------
(* A governor nobody has crossed *)

\* What a governor that is not being ended has published, stage by stage: each
\* file is complete before the next is opened.
Published(g) ==
  alone[g] /\ handler[g] = "idle" /\ main[g] \in {"wait", "detect", "spawned", "poll", "serve"} =>
    /\ thread[g] \in {"openToken", "writeToken", "writePid", "load", "serve"} =>
         file[Directory(g)].addr = bound[g]
    /\ thread[g] \in {"writePid", "load", "serve"} => file[Directory(g)].token = g
    /\ thread[g] \in {"load", "serve"} => file[Directory(g)].pid = g

\* The stages at which the token has been written: the address and the token
\* are not written again.
Later == {"writePid", "load", "serve", "drain", "dropPid", "dropToken", "end"}

\* What a governor that found its directory empty knows of the files f of the
\* directory, of its own lookup l, of its threads at m and t and its port b: the
\* files hold nothing but its own, and its lookup cannot be ahead of them.
OwnFiles(g, f, l, m, t, b) ==
  /\ f.token \in {Absent, Torn, g} /\ l.token \in {Absent, g}
  /\ f.addr \in Ports => b \in {f.addr, Absent}
  /\ l.addr \in Ports => b \in {l.addr, Absent}
  /\ t = "bind" => f.addr = Absent /\ m \in {"wait", "serve"}
  /\ f.token = g \/ l.token = g => t \in Later
  /\ m \in {"token", "flush"} => f.addr = Absent
  /\ m = "flush" => f.token = Absent

Fresh(g) ==
  fresh[g] /\ alone[g] =>
    OwnFiles(g, file[Directory(g)], look[g], main[g], thread[g], bound[g])

\* The inductive invariant of the discovery files.
DiscoveryInv == Sound /\ \A g \in Governors : Published(g) /\ Fresh(g)

LEMMA PutFields ==
  ASSUME Sound, NEW g \in Governors, NEW name \in {"addr", "token", "pid"}, NEW value,
         Put(g, name, value)
  PROVE  /\ file'[Directory(g)].addr = IF name = "addr" THEN value ELSE file[Directory(g)].addr
         /\ file'[Directory(g)].token =
              IF name = "token" THEN value ELSE file[Directory(g)].token
         /\ file'[Directory(g)].pid = IF name = "pid" THEN value ELSE file[Directory(g)].pid
<1>1. Directory(g) \in Apps /\ file \in [Apps -> Files]
  BY DiscoveryAssumption, TypeParts DEF Directory, Sound
<1>2. PICK a \in Apps : a = Directory(g)
  BY <1>1
<1>3. file[a] \in Files
  BY <1>1
<1>4. file' = [file EXCEPT ![a] = [file[a] EXCEPT ![name] = value]]
  BY <1>1, <1>2 DEF Put
<1>5. file'[a] = [file[a] EXCEPT ![name] = value]
  BY <1>1, <1>4
<1> QED
  BY <1>2, <1>3, <1>5 DEF Files

\* A step of another process does not touch the directory of one that stays
\* alone.
LEMMA Uncrossed ==
  ASSUME Sound, NEW g \in Governors, GovernorStep(g), NEW h \in Governors, h # g, alone'[h]
  PROVE  /\ alone[h] /\ file'[Directory(h)] = file[Directory(h)]
         /\ main'[h] = main[h] /\ thread'[h] = thread[h] /\ handler'[h] = handler[h]
         /\ bound'[h] = bound[h] /\ fresh'[h] = fresh[h] /\ look'[h] = look[h]
<1>1. OnlyOf(g)
  BY OwnThreads
<1>2. /\ main'[h] = main[h] /\ thread'[h] = thread[h] /\ handler'[h] = handler[h]
      /\ bound'[h] = bound[h] /\ fresh'[h] = fresh[h] /\ look'[h] = look[h] /\ alone[h]
  BY <1>1 DEF OnlyOf, Clients
<1>3. CASE file' = file
  BY <1>2, <1>3
<1>4. CASE Writes(g) /\ Alive(g)
  <2>1. Directory(h) # Directory(g) /\ Directory(h) \in Apps
    BY <1>2, <1>4, DiscoveryAssumption DEF Sound, Alone, Directory
  <2>2. PICK name \in {"addr", "token", "pid"}, value \in Contents :
          /\ name = "addr" => value \in Ports \cup {Absent, Torn}
          /\ name = "token" => value \in {g, Absent, Torn}
          /\ name = "pid" => value \in {g, Absent}
          /\ Put(g, name, value)
    BY <1>4 DEF Writes
  <2>3. file'[Directory(h)] = file[Directory(h)]
    BY <2>1, <2>2, PutType
  <2> QED
    BY <1>2, <2>3
<1> QED
  BY <1>3, <1>4, StepWrites

\* A stage of Publish or Withdraw, and the fields it leaves in the directory.
Wrote(g, from, to, addr, token, pid) ==
  /\ thread[g] = from /\ thread'[g] = to
  /\ file'[Directory(g)].addr = addr /\ file'[Directory(g)].token = token
  /\ file'[Directory(g)].pid = pid

LEMMA PublishFields ==
  ASSUME Sound, NEW g \in Governors, Publish(g)
  PROVE  LET f == file[Directory(g)] IN
         \/ Wrote(g, "openAddr", "writeAddr", Torn, f.token, f.pid)
         \/ Wrote(g, "writeAddr", "openToken", bound[g], f.token, f.pid)
         \/ Wrote(g, "openToken", "writeToken", f.addr, Torn, f.pid)
         \/ Wrote(g, "writeToken", "writePid", f.addr, g, f.pid)
         \/ Wrote(g, "writePid", "load", f.addr, f.token, g)
<1> DEFINE f == file[Directory(g)]
<1>1. thread \in [Governors -> Stages]
  BY TypeParts DEF Sound, Kinds
<1>2. CASE ToThread(g, "openAddr", "writeAddr") /\ Put(g, "addr", Torn)
  <2>1. Wrote(g, "openAddr", "writeAddr", Torn, f.token, f.pid)
    BY <1>1, <1>2, PutFields DEF ToThread, Wrote
  <2> QED
    BY <2>1
<1>3. CASE ToThread(g, "writeAddr", "openToken") /\ Put(g, "addr", bound[g])
  <2>1. Wrote(g, "writeAddr", "openToken", bound[g], f.token, f.pid)
    BY <1>1, <1>3, PutFields DEF ToThread, Wrote
  <2> QED
    BY <2>1
<1>4. CASE ToThread(g, "openToken", "writeToken") /\ Put(g, "token", Torn)
  <2>1. Wrote(g, "openToken", "writeToken", f.addr, Torn, f.pid)
    BY <1>1, <1>4, PutFields DEF ToThread, Wrote
  <2> QED
    BY <2>1
<1>5. CASE ToThread(g, "writeToken", "writePid") /\ Put(g, "token", g)
  <2>1. Wrote(g, "writeToken", "writePid", f.addr, g, f.pid)
    BY <1>1, <1>5, PutFields DEF ToThread, Wrote
  <2> QED
    BY <2>1
<1>6. CASE ToThread(g, "writePid", "load") /\ Put(g, "pid", g)
  <2>1. Wrote(g, "writePid", "load", f.addr, f.token, g)
    BY <1>1, <1>6, PutFields DEF ToThread, Wrote
  <2> QED
    BY <2>1
<1> QED
  BY <1>2, <1>3, <1>4, <1>5, <1>6 DEF Publish

\* What the main thread and the handler do to the files: they only remove.
LEMMA MovesRemove ==
  ASSUME Sound, NEW g \in Governors, Moves(g)
  PROVE  /\ file'[Directory(g)].addr \in {file[Directory(g)].addr, Absent}
         /\ file'[Directory(g)].token \in {file[Directory(g)].token, Absent}
         /\ file' = file \/ ClearByMain(g) \/ ClearByHandler(g)
<1>1. CASE ClearByMain(g) \/ ClearByHandler(g)
  <2>1. Put(g, "pid", Absent) \/ Put(g, "addr", Absent) \/ Put(g, "token", Absent)
    BY <1>1 DEF ClearByMain, ClearByHandler
  <2> QED
    BY <1>1, <2>1, PutFields
<1>2. CASE file' = file
  BY <1>2
<1> QED
  BY <1>1, <1>2 DEF Moves, SeeAddress, Spawn, NoteChild, Poll, AppEnds, KillChild, Handled

\* The main thread moves on by one step, or stays where it is.
LEMMA MovesOfMain ==
  ASSUME Sound, NEW g \in Governors, Moves(g)
  PROVE  \/ main'[g] = main[g] /\ look'[g] = look[g]
         \/ /\ main[g] = "wait" /\ main'[g] = "detect" /\ file[Directory(g)].addr # Absent
            /\ look'[g].addr = Absent /\ look'[g].token = Absent
         \/ /\ main[g] = "detect" /\ main'[g] = "spawned" /\ look'[g] = look[g]
         \/ /\ main[g] = "spawned" /\ main'[g] = "poll" /\ look'[g] = look[g]
         \/ /\ main[g] = "poll" /\ main'[g] = "pid" /\ look'[g] = look[g]
         \/ /\ main[g] = "pid" /\ main'[g] = "addr" /\ look'[g] = look[g]
         \/ /\ main[g] = "addr" /\ main'[g] = "token" /\ look'[g] = look[g]
            /\ file'[Directory(g)].addr = Absent
         \/ /\ main[g] = "token" /\ main'[g] = "flush" /\ look'[g] = look[g]
            /\ file'[Directory(g)].token = Absent
<1>1. main \in [Governors -> Mains] /\ look \in [Clients -> Lookups] /\ g \in Clients
  BY TypeParts DEF Sound, Kinds, Clients
<1>2. \A from, to \in Mains : ToMain(g, from, to) => main[g] = from /\ main'[g] = to
  BY <1>1 DEF ToMain
<1>3. CASE SeeAddress(g)
  <2>1. look'[g] = [Unasked EXCEPT !.at = "addr", !.app = Directory(g)]
    BY <1>1, <1>3 DEF SeeAddress
  <2>2. look'[g].addr = Absent /\ look'[g].token = Absent
    BY <2>1 DEF Unasked
  <2>3. main[g] = "wait" /\ main'[g] = "detect" /\ file[Directory(g)].addr # Absent
    BY <1>1, <1>3 DEF SeeAddress, ToMain
  <2> QED
    BY <2>2, <2>3
<1>4. CASE Spawn(g) \/ NoteChild(g) \/ Poll(g)
  <2>1. CASE Spawn(g)
    BY <1>1, <2>1 DEF Spawn, ToMain
  <2>2. CASE NoteChild(g)
    BY <1>1, <2>2 DEF NoteChild, ToMain
  <2>3. CASE Poll(g)
    BY <1>1, <2>3 DEF Poll, ToMain
  <2> QED
    BY <1>4, <2>1, <2>2, <2>3
<1>5. CASE ClearByMain(g)
  <2>1. look' = look
    BY <1>5 DEF ClearByMain
  <2>2. CASE ToMain(g, "pid", "addr")
    BY <1>1, <2>1, <2>2 DEF ToMain
  <2>3. CASE ToMain(g, "addr", "token") /\ Put(g, "addr", Absent)
    <3>1. file'[Directory(g)].addr = Absent
      BY <2>3, PutFields
    <3> QED
      BY <1>1, <2>1, <2>3, <3>1 DEF ToMain
  <2>4. CASE ToMain(g, "token", "flush") /\ Put(g, "token", Absent)
    <3>1. file'[Directory(g)].token = Absent
      BY <2>4, PutFields
    <3> QED
      BY <1>1, <2>1, <2>4, <3>1 DEF ToMain
  <2> QED
    BY <1>5, <2>2, <2>3, <2>4 DEF ClearByMain
<1>6. CASE AppEnds(g) \/ KillChild(g) \/ ClearByHandler(g) \/ Handled(g)
  BY <1>6 DEF AppEnds, KillChild, ClearByHandler, Handled, threads
<1> QED
  BY <1>3, <1>4, <1>5, <1>6 DEF Moves

LEMMA OwnPublished ==
  ASSUME Sound, NEW g \in Governors, GovernorStep(g), Published(g)
  PROVE  Published(g)'
<1> SUFFICES ASSUME alone'[g], handler'[g] = "idle",
                    main'[g] \in {"wait", "detect", "spawned", "poll", "serve"}
             PROVE  /\ thread'[g] \in {"openToken", "writeToken", "writePid", "load", "serve"} =>
                         file'[Directory(g)].addr = bound'[g]
                    /\ thread'[g] \in {"writePid", "load", "serve"} =>
                         file'[Directory(g)].token = g
                    /\ thread'[g] \in {"load", "serve"} => file'[Directory(g)].pid = g
  BY DEF Published, Directory
<1>1. g \in Clients /\ Kinds /\ OwnPort
  BY TypeParts DEF Sound, Clients
<1>2. CASE Launch(g)
  BY <1>2, LaunchKeepsKinds
<1>3. CASE Detect(g)
  BY <1>1, <1>3, DetectKeepsLooks DEF Published, threads, history
<1>4. CASE Ends(g)
  <2>1. ~alone'[g]
    BY <1>1, <1>4, GoneKeepsKinds DEF Ends
  <2> QED
    BY <2>1
<1>5. CASE Moves(g)
  <2>1. /\ UNCHANGED <<bound, alone>>
        /\ thread'[g] = thread[g] \/ (thread[g] = "serve" /\ thread'[g] = "drain")
        /\ handler[g] = "idle"
    BY <1>5, MovesKeepKinds
  <2>2. main[g] \in {"wait", "detect", "spawned", "poll", "serve"}
    BY <1>5, MovesOfMain
  <2>3. ~ClearByHandler(g)
    BY <1>1 DEF ClearByHandler, ToHandler, Kinds
  <2>4. ~ClearByMain(g)
    BY <1>1 DEF ClearByMain, ToMain, Kinds
  <2>5. file' = file
    BY <1>5, <2>3, <2>4, MovesRemove
  <2> QED
    BY <2>1, <2>2, <2>5 DEF Published
<1>6. CASE Serving(g)
  <2>1. main' = main /\ handler' = handler /\ alone' = alone
    BY <1>1, <1>6, ServingKeepsKinds
  <2>2. /\ thread[g] \in {"openToken", "writeToken", "writePid", "load", "serve"} =>
             file[Directory(g)].addr = bound[g]
        /\ thread[g] \in {"writePid", "load", "serve"} => file[Directory(g)].token = g
        /\ thread[g] \in {"load", "serve"} => file[Directory(g)].pid = g
    BY <2>1 DEF Published
  <2>3. CASE Publish(g)
    <3>1. bound' = bound
      BY <2>3 DEF Publish
    <3> QED
      BY <2>2, <2>3, <3>1, PublishFields DEF Wrote
  <2>4. CASE Serve(g)
    BY <1>1, <2>2, <2>4 DEF Serve, ToThread, Kinds
  <2>5. CASE Bind(g) \/ BindFails(g) \/ StopServing(g) \/ Withdraw(g)
    BY <1>1, <2>5 DEF Bind, BindFails, StopServing, Withdraw, ToThread, Kinds
  <2> QED
    BY <1>6, <2>3, <2>4, <2>5 DEF Serving
<1> QED
  BY <1>2, <1>3, <1>4, <1>5, <1>6, GovernorCases

\* Past the poll the lookup has found a governor, and so has the token.
LEMMA FoundIsNamed ==
  ASSUME Sound, NEW g \in Governors,
         main[g] \in {"spawned", "poll", "pid", "addr", "token", "flush"}
  PROVE  look[g].addr \in Ports /\ look[g].token \in Governors
BY DEF Sound, Threads, ThreadsOf, Looks, Clients

LEMMA OwnFresh ==
  ASSUME Sound, NEW g \in Governors, GovernorStep(g), Fresh(g)
  PROVE  Fresh(g)'
<1> SUFFICES ASSUME fresh'[g], alone'[g]
             PROVE  OwnFiles(g, file'[Directory(g)], look'[g], main'[g], thread'[g], bound'[g])
  BY DEF Fresh, OwnFiles, Directory
<1>1. g \in Clients /\ Kinds /\ OwnPort /\ ThreadsOf(g)
  BY TypeParts DEF Sound, Clients, Threads
<1>2. Absent \notin Ports /\ Torn \notin Ports /\ Absent # g /\ Torn # g /\ Absent # Torn
  BY DiscoveryAssumption
<1> DEFINE f == file[Directory(g)]
           m == main[g]
           t == thread[g]
           b == bound[g]
           l == look[g]
<1>3. CASE Launch(g)
  <2>1. /\ file'[Directory(g)] = Empty /\ main'[g] \in {"wait", "serve"} /\ thread'[g] = "bind"
        /\ look'[g] = Unasked
    BY <1>1, <1>3, LaunchKeepsKinds DEF ThreadsOf, Alive
  <2>2. /\ Empty.addr = Absent /\ Empty.token = Absent
        /\ Unasked.addr = Absent /\ Unasked.token = Absent
    BY DEF Empty, Unasked
  <2> QED
    BY <1>2, <2>1, <2>2 DEF OwnFiles
<1>4. CASE Ends(g)
  <2>1. ~alone'[g]
    BY <1>1, <1>4, GoneKeepsKinds DEF Ends
  <2> QED
    BY <2>1
<1>5. CASE Detect(g)
  <2>1. /\ UNCHANGED <<file, main, thread, bound, alone, fresh>>
    BY <1>1, <1>5, DetectGoesOn DEF threads, history
  <2>2. OwnFiles(g, f, l, m, t, b)
    BY <2>1 DEF Fresh
  <2>3. l.app = Directory(g)
    BY <1>1, <1>5 DEF ThreadsOf, Detect, ReadAddr, ReadToken, Connect, At
  <2>4. /\ look'[g].addr \in {Absent, l.addr, f.addr}
        /\ look'[g].token \in {Absent, l.token} \/ (look'[g].token = f.token /\ f.token \in Governors)
    BY <1>1, <1>5, <2>3, DetectGoesOn, LostForgets
  <2>5. look'[g].token \in {Absent, l.token} \/ (look'[g].token = g /\ f.token = g)
    BY <1>2, <2>2, <2>4, DiscoveryAssumption DEF OwnFiles
  <2> QED
    BY <1>2, <2>1, <2>2, <2>4, <2>5 DEF OwnFiles
<1>6. CASE Moves(g)
  <2>1. /\ UNCHANGED <<bound, alone, fresh>>
        /\ thread'[g] = t \/ (t = "serve" /\ thread'[g] = "drain")
    BY <1>6, MovesKeepKinds
  <2>2. OwnFiles(g, f, l, m, t, b)
    BY <2>1 DEF Fresh
  <2>3. file'[Directory(g)].addr \in {f.addr, Absent} /\ file'[Directory(g)].token \in {f.token, Absent}
    BY <1>6, MovesRemove
  <2>4. thread'[g] = "bind" => t = "bind"
    BY <2>1
  <2>5. t \in Later => thread'[g] \in Later
    BY <2>1 DEF Later
  <2>6. CASE main'[g] = m /\ look'[g] = l
    BY <1>2, <2>1, <2>2, <2>3, <2>4, <2>5, <2>6 DEF OwnFiles
  <2>7. CASE /\ m = "wait" /\ main'[g] = "detect" /\ f.addr # Absent
             /\ look'[g].addr = Absent /\ look'[g].token = Absent
    BY <1>2, <2>1, <2>2, <2>3, <2>4, <2>5, <2>7 DEF OwnFiles
  <2>8. CASE /\ m \in {"detect", "spawned", "poll", "pid"} /\ look'[g] = l
             /\ main'[g] \in {"spawned", "poll", "pid", "addr"}
    BY <1>2, <2>1, <2>2, <2>3, <2>4, <2>5, <2>8 DEF OwnFiles
  <2>9. CASE /\ m = "addr" /\ main'[g] = "token" /\ look'[g] = l
             /\ file'[Directory(g)].addr = Absent
    BY <1>2, <2>1, <2>2, <2>3, <2>4, <2>5, <2>9 DEF OwnFiles
  <2>10. CASE /\ m = "token" /\ main'[g] = "flush" /\ look'[g] = l
              /\ file'[Directory(g)].token = Absent
    BY <1>2, <2>1, <2>2, <2>3, <2>4, <2>5, <2>10 DEF OwnFiles
  <2> QED
    BY <1>6, <2>6, <2>7, <2>8, <2>9, <2>10, MovesOfMain
<1>7. CASE Serving(g)
  <2>1. UNCHANGED <<main, handler, look, alone, fresh>>
    BY <1>1, <1>7, ServingKeepsKinds
  <2>2. OwnFiles(g, f, l, m, t, b)
    BY <2>1 DEF Fresh
  <2>3. m \in {"token", "flush"} => t \in Later
    BY <1>2, <2>2, FoundIsNamed, DiscoveryAssumption DEF OwnFiles
  <2>4. CASE Bind(g)
    <3>1. /\ t = "bind" /\ thread'[g] = "openAddr" /\ file' = file /\ f.addr = Absent
      BY <1>1, <2>2, <2>4 DEF Bind, ToThread, Kinds, OwnFiles
    <3>2. l = Unasked
      BY <1>1, <2>2, <3>1 DEF OwnFiles, ThreadsOf
    <3>3. l.addr = Absent /\ l.token = Absent
      BY <3>2 DEF Unasked
    <3>4. f.token # g /\ m \notin {"token", "flush"}
      BY <2>2, <3>1 DEF OwnFiles, Later
    <3> QED
      BY <1>2, <2>1, <2>2, <3>1, <3>3, <3>4 DEF OwnFiles
  <2>5. CASE BindFails(g) \/ Serve(g)
    <3>1. /\ thread'[g] \in Later /\ thread'[g] # "bind" /\ UNCHANGED <<file, bound>>
      BY <1>1, <2>5 DEF BindFails, Serve, ToThread, Kinds, Later
    <3> QED
      BY <2>1, <2>2, <3>1 DEF OwnFiles
  <2>6. CASE StopServing(g)
    <3>1. /\ thread'[g] \in Later /\ thread'[g] # "bind" /\ file' = file /\ bound'[g] = Absent
      BY <1>1, <2>6 DEF StopServing, ToThread, Kinds, Later
    <3> QED
      BY <2>1, <2>2, <3>1 DEF OwnFiles
  <2>7. CASE Withdraw(g)
    <3>1. /\ thread'[g] \in Later /\ thread'[g] # "bind" /\ bound' = bound
          /\ Put(g, "pid", Absent) \/ Put(g, "token", Absent)
      BY <1>1, <2>7 DEF Withdraw, ToThread, Kinds, Later
    <3>2. /\ file'[Directory(g)].addr = f.addr
          /\ file'[Directory(g)].token \in {f.token, Absent}
      BY <3>1, PutFields
    <3> QED
      BY <1>2, <2>1, <2>2, <3>1, <3>2 DEF OwnFiles
  <2>8. CASE Publish(g)
    <3>1. bound' = bound
      BY <2>8 DEF Publish
    <3>2. CASE Wrote(g, "openAddr", "writeAddr", Torn, f.token, f.pid)
      BY <1>2, <2>1, <2>2, <2>3, <3>1, <3>2 DEF Wrote, OwnFiles, Later
    <3>3. CASE Wrote(g, "writeAddr", "openToken", bound[g], f.token, f.pid)
      BY <1>2, <2>1, <2>2, <2>3, <3>1, <3>3 DEF Wrote, OwnFiles, Later
    <3>4. CASE Wrote(g, "openToken", "writeToken", f.addr, Torn, f.pid)
      BY <1>2, <2>1, <2>2, <2>3, <3>1, <3>4 DEF Wrote, OwnFiles, Later
    <3>5. CASE Wrote(g, "writeToken", "writePid", f.addr, g, f.pid)
      BY <1>2, <2>1, <2>2, <2>3, <3>1, <3>5 DEF Wrote, OwnFiles, Later
    <3>6. CASE Wrote(g, "writePid", "load", f.addr, f.token, g)
      BY <1>2, <2>1, <2>2, <2>3, <3>1, <3>6 DEF Wrote, OwnFiles, Later
    <3> QED
      BY <2>8, <3>2, <3>3, <3>4, <3>5, <3>6, PublishFields
  <2> QED
    BY <1>7, <2>4, <2>5, <2>6, <2>7, <2>8 DEF Serving
<1> QED
  BY <1>3, <1>4, <1>5, <1>6, <1>7, GovernorCases

LEMMA DiscoveryInvInit == DiscoveryInit => DiscoveryInv
<1> SUFFICES ASSUME DiscoveryInit
             PROVE  DiscoveryInv
  OBVIOUS
<1>1. \A g \in Governors : ~alone[g]
  BY DEF DiscoveryInit
<1> QED
  BY <1>1, SoundInit DEF DiscoveryInv, Published, Fresh

LEMMA DiscoveryInvStep ==
  ASSUME DiscoveryInv, [DiscoveryNext]_vars
  PROVE  DiscoveryInv'
<1>1. Sound /\ Sound' /\ \A g \in Governors : Published(g) /\ Fresh(g)
  BY SoundStep DEF DiscoveryInv
<1>2. ASSUME NEW h \in Governors
      PROVE  Published(h)' /\ Fresh(h)'
  <2>1. CASE \E g \in Governors : GovernorStep(g)
    <3>1. PICK g \in Governors : GovernorStep(g)
      BY <2>1
    <3>2. CASE g = h
      BY <1>1, <3>1, <3>2, OwnPublished, OwnFresh
    <3>3. CASE g # h /\ alone'[h]
      BY <1>1, <3>1, <3>3, Uncrossed DEF Published, Fresh, OwnFiles, Directory
    <3>4. CASE ~alone'[h]
      BY <3>4 DEF Published, Fresh
    <3> QED
      BY <3>2, <3>3, <3>4
  <2>2. CASE \E j \in Joiners : JoinerStep(j)
    <3>1. UNCHANGED <<file, main, thread, handler, bound, alone, fresh>> /\ look'[h] = look[h]
      BY <1>1, <2>2, JoinerKeepsSound
    <3> QED
      BY <1>1, <3>1 DEF Published, Fresh, OwnFiles, Directory
  <2>3. CASE UNCHANGED vars
    BY <1>1, <2>3 DEF vars, threads, history, Published, Fresh, OwnFiles, Directory
  <2> QED
    BY <2>1, <2>2, <2>3, Steps
<1> QED
  BY <1>1, <1>2 DEF DiscoveryInv

LEMMA DiscoveryInvHolds == DiscoverySpec => []DiscoveryInv
<1>1. DiscoveryInv /\ [DiscoveryNext]_vars => DiscoveryInv'
  BY DiscoveryInvStep
<1> QED
  BY <1>1, DiscoveryInvInit, PTL DEF DiscoverySpec

-----------------------------------------------------------------------------
(* The theorems *)

\* A governor nobody of its app has crossed and that is not being ended is
\* found while it serves: the directory holds the port it listens on, its own
\* token and its own process id, whatever an earlier governor left there
\* (start_blocking_synced writes each file over what it finds, and serves only
\* then).
THEOREM ServingIsFound == DiscoverySpec => []ServingIsDiscoverable
<1>1. DiscoveryInv => ServingIsDiscoverable
  <2> SUFFICES ASSUME DiscoveryInv, NEW g \in Governors,
                      thread[g] = "serve", alone[g], handler[g] = "idle",
                      main[g] \in {"serve", "poll"}
               PROVE  file[Directory(g)] = [addr |-> bound[g], token |-> g, pid |-> g]
    BY DEF ServingIsDiscoverable
  <2>1. file[Directory(g)] \in Files
    BY TypeParts, DiscoveryAssumption DEF DiscoveryInv, Sound, Directory
  <2>2. /\ file[Directory(g)].addr = bound[g] /\ file[Directory(g)].token = g
        /\ file[Directory(g)].pid = g
    BY DEF DiscoveryInv, Published
  <2> QED
    BY <2>1, <2>2 DEF Files
<1> QED
  BY <1>1, DiscoveryInvHolds, PTL

\* The app of a governor that found its directory empty and that nobody
\* crossed talks to that governor, with that governor's token: waiting for the
\* address alone (wait_for_governor) never lets the main thread read half of
\* what its own governor thread publishes.
THEOREM FreshStartFindsItself == DiscoverySpec => []FreshStartReachesItself
<1>1. DiscoveryInv => FreshStartReachesItself
  <2> SUFFICES ASSUME DiscoveryInv, NEW g \in Governors,
                      main[g] \in {"spawned", "poll"}, fresh[g], alone[g]
               PROVE  /\ look[g].addr \in Ports /\ look[g].token = g
                      /\ bound[g] \in {look[g].addr, Absent}
    BY DEF FreshStartReachesItself
  <2>1. look[g].addr \in Ports /\ look[g].token \in Governors
    BY FoundIsNamed DEF DiscoveryInv
  <2>2. OwnFiles(g, file[Directory(g)], look[g], main[g], thread[g], bound[g])
    BY DEF DiscoveryInv, Fresh
  <2> QED
    BY <2>1, <2>2, DiscoveryAssumption DEF OwnFiles
<1> QED
  BY <1>1, DiscoveryInvHolds, PTL

\* The directory is well formed, a port belongs to one governor, and a run that
\* found it empty and was not crossed leaves neither address nor token behind
\* (remove_discovery_files against a governor thread that is still running).
THEOREM RunIsForgotten == DiscoverySpec => []DiscoveryInvariant
<1>1. DiscoveryInv => DiscoveryInvariant
  BY DEF DiscoveryInv, Sound, Fresh, OwnFiles, DiscoveryInvariant, FinishedRunIsForgotten
<1> QED
  BY <1>1, DiscoveryInvHolds, PTL
=============================================================================
