--------------------------- MODULE ShutdownProofs ---------------------------
(***************************************************************************)
(* Proofs about the end of a governor, for any number of runs, clients and *)
(* tools and any interleaving of its threads with the requests that still  *)
(* arrive: what the threads agree on, what an exit leaves behind, and that *)
(* the closing event of a run tells how it ended.                          *)
(***************************************************************************)
EXTENDS ShutdownProperties, GovernorProofs

-----------------------------------------------------------------------------
(* All but the closing pass is a step of the request path *)

LEMMA CloseRunType ==
  ASSUME NEW st \in RunStates, NEW fallback \in Fallbacks
  PROVE  CloseRun(st, fallback) \in RunStates
<1>1. PICK on \in Subjects : on = IF Stopped(st) THEN st.execution ELSE fallback
  BY DEF RunStates, Stopped, Subjects, StopReasons, Reportable, Fallbacks
<1>2. "ExecutionStopped" \in EventKinds /\ st.tokens \in Nat
  BY TokenAssumption DEF EventKinds, RunStates
<1> QED
  BY <1>1, <1>2, AppendEventType DEF CloseRun

\* A run of the sweep is drained, or has nothing to drain.
LEMMA SweepDrains ==
  ASSUME Typed, todo \subseteq open, NEW r \in Runs, Sweep(r)
  PROVE  [Next]_vars
<1>1. /\ r \in open
      /\ log' = [log EXCEPT ![r] = @ \o run[r].events]
      /\ run' = [run EXCEPT ![r] = TakeEvents(@)]
      /\ UNCHANGED <<open, pc, call, issued, mark>>
  BY DEF Sweep
<1>2. CASE run[r].events # <<>>
  BY <1>1, <1>2 DEF Drain, Next
<1>3. CASE run[r].events = <<>>
  <2>1. run \in [Runs -> RunStates] /\ log \in [Runs -> Seq(Events)]
    BY DEF Typed, TypeOK
  <2>2. log[r] \o <<>> = log[r] /\ TakeEvents(run[r]) = run[r]
    BY <1>3, <2>1 DEF TakeEvents, RunStates
  <2>3. log' = log /\ run' = run
    BY <1>1, <1>3, <2>1, <2>2
  <2> QED
    BY <1>1, <2>3 DEF vars
<1> QED
  BY <1>2, <1>3

\* The steps that matter to the runs.
LEMMA OtherSteps ==
  ASSUME [ShutdownNext]_allVars
  PROVE  \/ \E c \in Clients : Request(c)
         \/ \E r \in Runs : Sweep(r)
         \/ CloseRuns
         \/ UNCHANGED vars
<1>1. CASE Finish \/ Nap \/ Snapshot \/ Rest \/ Forward \/ ForwarderDies \/ ChildExits
  BY <1>1 DEF Finish, Nap, Snapshot, Rest, Forward, ForwarderDies, ChildExits
<1>2. CASE Reap \/ Raise \/ Announced \/ TimeOut \/ Flush \/ ServeReturns
  BY <1>2 DEF Reap, Raise, Announced, TimeOut, Flush, ServeReturns
<1>3. CASE Terminate \/ ExitNow \/ UNCHANGED allVars
  BY <1>3 DEF Terminate, ExitNow, allVars
<1> QED
  BY <1>1, <1>2, <1>3 DEF ShutdownNext, DrainThread, MainThread

LEMMA GovernorSteps ==
  ASSUME Typed, todo \subseteq open, [ShutdownNext]_allVars
  PROVE  CloseRuns \/ [Next]_vars
  BY OtherSteps, SweepDrains DEF Request, Next

-----------------------------------------------------------------------------
(* What the threads agree on *)

\* The exit status of the app as the closing reason tells it.
Fallback == IF child = "success" THEN "AgentCompleted" ELSE "ProcessCrashed"

\* The reason is named before the flag is raised and is there until the closing
\* pass takes it; that pass is the last one; and a forwarder that is waited for
\* has been left by the drain thread when the process exits.
Threads ==
  /\ Primary \in open /\ todo \subseteq open
  /\ main = "serve" => child = "none"
  /\ main \in {"poll", "raise", "wait", "flush"} => child # "none"
  /\ flag => main \in {"wait", "flush", "gone"}
  /\ main = "raise" \/ flag => child \in Exited \cup {"killed"}
  /\ main = "raise" => reason # NoName
  /\ reason # NoName => (main = "raise" \/ flag) /\ reason = Fallback
  /\ final => flag /\ drain # "tick"
  /\ flag /\ ~final => reason # NoName
  /\ done => final /\ drain = "off"
  /\ drain = "off" /\ ~done => sink = "gone"
  /\ (exit \in Exited /\ child # "none" /\ sink = "up") => drain = "off" /\ channel = {}

\* The inductive form of ShutdownTypeOK.
Formed == Typed /\ ShutdownTypeOK

LEMMA FormedInit == ShutdownInit => Formed
  BY TypedInit DEF ShutdownInit, Formed, Typed, ShutdownTypeOK, Exited, Fallbacks

LEMMA ClosingTyped == Formed /\ CloseRuns => Typed'
<1> SUFFICES ASSUME Formed, CloseRuns
             PROVE  Typed'
  OBVIOUS
<1>1. Typed /\ reason \in Fallbacks \cup {NoName}
  BY DEF Formed, ShutdownTypeOK
<1>2. /\ run' = [r \in Runs |-> IF r \in open /\ reason # NoName THEN CloseRun(run[r], reason)
                                ELSE run[r]]
      /\ UNCHANGED <<open, log, pc, call, issued, mark>>
  BY DEF CloseRuns
<1>3. \A r \in Runs : run'[r] \in RunStates
  BY <1>1, <1>2, CloseRunType DEF Typed, TypeOK
<1>4. run' \in [Runs -> RunStates]
  BY <1>2, <1>3
<1> QED
  BY <1>1, <1>2, <1>4 DEF Typed, TypeOK, InFlight, Asked

LEMMA FormedStep == Formed /\ Threads /\ [ShutdownNext]_allVars => Formed'
<1> SUFFICES ASSUME Formed, Threads, [ShutdownNext]_allVars
             PROVE  Formed'
  OBVIOUS
<1>1. Typed'
  <2>1. CloseRuns \/ [Next]_vars
    BY GovernorSteps DEF Formed, Threads
  <2> QED
    BY <2>1, ClosingTyped, TypedStep DEF Formed
<1>2. open' \subseteq Runs
  BY <1>1 DEF Typed, TypeOK
<1> USE DEF Formed, ShutdownTypeOK, Typed
<1>3. ASSUME NEW c \in Clients, Request(c)
      PROVE  ShutdownTypeOK'
  BY <1>1, <1>3 DEF Request, mainVars, drainVars
<1>4. CASE Finish \/ Nap \/ CloseRuns \/ Rest
  BY <1>1, <1>4 DEF Finish, Nap, CloseRuns, Rest, mainVars, drainVars
<1>5. CASE Snapshot
  BY <1>1, <1>5 DEF Snapshot, mainVars, TypeOK
<1>6. ASSUME NEW r \in Runs, Sweep(r)
      PROVE  ShutdownTypeOK'
  BY <1>1, <1>6 DEF Sweep, mainVars
<1>7. CASE Forward \/ ForwarderDies \/ ChildExits
  BY <1>1, <1>7 DEF Forward, ForwarderDies, ChildExits, mainVars, drainVars
<1>8. CASE Reap \/ Raise \/ Announced
  BY <1>1, <1>8 DEF Reap, Raise, Announced, mainVars, drainVars, Exited, Fallbacks
<1>9. CASE TimeOut \/ Flush \/ ServeReturns
  BY <1>1, <1>9 DEF TimeOut, Flush, ServeReturns, mainVars, drainVars, Exited
<1>10. CASE Terminate \/ ExitNow \/ UNCHANGED allVars
  BY <1>1, <1>10 DEF Terminate, ExitNow, allVars, mainVars, drainVars
<1> QED
  BY <1>1, <1>3, <1>4, <1>5, <1>6, <1>7, <1>8, <1>9, <1>10
  DEF ShutdownNext, DrainThread, MainThread

LEMMA ThreadsInit == ShutdownInit => Threads
  BY GovernorAssumption DEF ShutdownInit, Init, Threads, Exited

LEMMA ThreadsStep == Formed /\ Threads /\ [ShutdownNext]_allVars => Threads'
<1> SUFFICES ASSUME Formed, Threads, [ShutdownNext]_allVars
             PROVE  Threads'
  OBVIOUS
<1> USE DEF Threads, Fallback, Exited
<1>1. ASSUME NEW c \in Clients, Request(c)
      PROVE  Threads'
  <2>1. open \subseteq open'
    BY <1>1 DEF Request, Handle, Arrive, Refuse, Admit, Policy, Deny, Allow, Fail, Apply, Commit
  <2> QED
    BY <1>1, <2>1 DEF Request, mainVars, drainVars
<1>2. CASE Finish \/ Nap
  BY <1>2 DEF Finish, Nap, mainVars, drainVars, vars
<1>12. CASE CloseRuns
  BY <1>12 DEF CloseRuns, mainVars
<1>3. CASE Snapshot \/ Rest
  BY <1>3 DEF Snapshot, Rest, mainVars, vars
<1>4. ASSUME NEW r \in Runs, Sweep(r)
      PROVE  Threads'
  BY <1>4 DEF Sweep, mainVars
<1>5. CASE Forward \/ ForwarderDies
  BY <1>5 DEF Forward, ForwarderDies, mainVars, vars
<1>6. CASE ChildExits
  BY <1>6 DEF ChildExits, drainVars, vars
<1>7. CASE Reap
  <2>1. /\ child' \in Exited \cup {"killed"} /\ child' # "none"
        /\ reason' = Fallback' /\ reason' # NoName
    BY <1>7 DEF Reap, NoName
  <2>2. /\ main = "poll" /\ main' = "raise" /\ exit' = exit /\ exit = "none"
        /\ open' = open /\ todo' = todo /\ flag' = flag /\ done' = done /\ drain' = drain
        /\ final' = final /\ sink' = sink /\ channel' = channel
    BY <1>7 DEF Reap, vars
  <2>3. ~flag
    BY <2>2
  <2> QED
    BY <2>1, <2>2, <2>3
<1>8. CASE Raise \/ Announced \/ TimeOut
  BY <1>8 DEF Raise, Announced, TimeOut, drainVars, vars
<1>9. CASE Flush \/ ServeReturns
  BY <1>9 DEF Flush, ServeReturns, drainVars, vars
<1>10. CASE Terminate \/ ExitNow
  BY <1>10 DEF Terminate, ExitNow, drainVars, vars
<1>11. CASE UNCHANGED allVars
  BY <1>11 DEF allVars, mainVars, drainVars, vars
<1> QED
  BY <1>1, <1>2, <1>3, <1>4, <1>5, <1>6, <1>7, <1>8, <1>9, <1>10, <1>11, <1>12
  DEF ShutdownNext, DrainThread, MainThread

-----------------------------------------------------------------------------
(* The streams of the runs *)

\* What the closing pass appends to a run that is open.
ClosingEvent(r) ==
  [seq |-> run[r].next_seq, kind |-> "ExecutionStopped",
   on |-> IF Stopped(run[r]) THEN run[r].execution ELSE reason, tokens |-> run[r].tokens]

LEMMA ClosingPass ==
  ASSUME Formed, Threads, CloseRuns
  PROVE  /\ ~final /\ flag /\ reason # NoName /\ reason = Fallback
         /\ log' = log /\ mark' = mark /\ open' = open /\ child' = child
         /\ final' /\ drain' = "woken" /\ todo' = todo /\ done' = done
         /\ \A r \in Runs \ open : run'[r] = run[r]
         /\ \A r \in open : /\ r \in Runs
                            /\ ClosingEvent(r) \in Events
                            /\ run'[r] = CloseRun(run[r], reason)
                            /\ run'[r] \in RunStates
                            /\ run'[r].events = Append(run[r].events, ClosingEvent(r))
                            /\ run'[r].next_seq = run[r].next_seq + 1
                            /\ run'[r].execution = run[r].execution
                            /\ run'[r].history = run[r].history
                            /\ run'[r].tokens = run[r].tokens
<1>1. ~final /\ flag /\ reason # NoName /\ reason = Fallback
  BY DEF CloseRuns, Threads
<1>2. /\ log' = log /\ mark' = mark /\ open' = open /\ child' = child
      /\ final' /\ drain' = "woken" /\ todo' = todo /\ done' = done
  BY DEF CloseRuns, mainVars
<1>3. \A r \in Runs : run'[r] = IF r \in open THEN CloseRun(run[r], reason) ELSE run[r]
  BY <1>1 DEF CloseRuns
<1>4. ASSUME NEW r \in open
      PROVE  /\ r \in Runs
             /\ ClosingEvent(r) \in Events
             /\ run'[r] = CloseRun(run[r], reason)
             /\ run'[r] \in RunStates
             /\ run'[r].events = Append(run[r].events, ClosingEvent(r))
             /\ run'[r].next_seq = run[r].next_seq + 1
             /\ run'[r].execution = run[r].execution
             /\ run'[r].history = run[r].history
             /\ run'[r].tokens = run[r].tokens
  <2>1. r \in Runs /\ run[r] \in RunStates /\ reason \in Fallbacks
    BY <1>1 DEF Formed, ShutdownTypeOK, Typed, TypeOK
  <2>2. run'[r] = CloseRun(run[r], reason) /\ run'[r] \in RunStates
    BY <1>3, <2>1, CloseRunType
  <2>3. ClosingEvent(r) \in Events
    <3>1. run[r].execution \in StopReasons \cup {Running} /\ run[r].next_seq \in Nat
          /\ run[r].tokens \in Nat
      BY <2>1, TokenAssumption DEF RunStates
    <3>2. (IF Stopped(run[r]) THEN run[r].execution ELSE reason) \in StopReasons
      BY <2>1, <3>1 DEF Stopped, StopReasons, Reportable, Fallbacks
    <3> QED
      BY <3>1, <3>2 DEF ClosingEvent, Events, EventKinds
  <2>4. /\ run'[r].events = Append(run[r].events, ClosingEvent(r))
        /\ run'[r].next_seq = run[r].next_seq + 1
        /\ run'[r].execution = run[r].execution
        /\ run'[r].history = run[r].history
        /\ run'[r].tokens = run[r].tokens
    BY <2>1, <2>2 DEF CloseRun, AppendEvent, ClosingEvent, RunStates
  <2> QED
    BY <2>1, <2>2, <2>3, <2>4
<1> QED
  BY <1>1, <1>2, <1>3, <1>4

LEMMA ClosingNumbered == Formed /\ Threads /\ NumberedInv /\ CloseRuns => NumberedInv'
<1> SUFFICES ASSUME Formed, Threads, NumberedInv, CloseRuns, NEW r \in Runs
             PROVE  NumberedRun(r)'
  BY DEF NumberedInv
<1>1. CASE r \notin open
  BY <1>1, ClosingPass DEF NumberedInv, NumberedRun
<1>2. CASE r \in open
  <2>1. PICK st \in RunStates, on \in Subjects, n \in Nat :
          /\ st = run[r] /\ n = Len(log[r])
          /\ on = IF Stopped(run[r]) THEN run[r].execution ELSE reason
    <3>1. run[r] \in RunStates /\ log[r] \in Seq(Events)
      BY DEF Formed, Typed, TypeOK
    <3>2. ClosingEvent(r).on \in Subjects
      BY <1>2, ClosingPass DEF Events, Subjects
    <3> QED
      BY <3>1, <3>2 DEF ClosingEvent
  <2>2. run'[r] = AppendEvent(st, "ExecutionStopped", on, st.tokens)
    BY <1>2, <2>1, ClosingPass DEF CloseRun
  <2>3. st.tokens \in Nat /\ "ExecutionStopped" \in EventKinds
    BY TokenAssumption DEF RunStates, EventKinds
  <2>4. NumberedFrom(st, n) /\ Numbered(log[r], 0)
    BY <1>2, <2>1 DEF NumberedInv, NumberedRun
  <2>5. NumberedFrom(run'[r], n)
    BY <2>2, <2>3, <2>4, AppendNumbered DEF SameLog
  <2>6. log' = log /\ open' = open
    BY ClosingPass
  <2> QED
    BY <1>2, <2>1, <2>4, <2>5, <2>6 DEF NumberedRun
<1> QED
  BY <1>1, <1>2

\* The stream of a run that is closed.
LEMMA ClosedStream ==
  ASSUME Formed, Threads, CloseRuns, NEW r \in open
  PROVE  /\ Stream(r) \in Seq(Events)
         /\ Stream(r)' = Append(Stream(r), ClosingEvent(r))
<1>1. /\ log[r] \in Seq(Events) /\ run[r].events \in Seq(Events)
  BY DEF Formed, Typed, TypeOK, RunStates
<1>2. /\ Stream(r)' = log[r] \o Append(run[r].events, ClosingEvent(r))
      /\ ClosingEvent(r) \in Events
  BY ClosingPass DEF Stream
<1>3. PICK e \in Events, a \in Seq(Events), b \in Seq(Events) :
        e = ClosingEvent(r) /\ a = log[r] /\ b = run[r].events
  BY <1>1, <1>2
<1>4. a \o Append(b, e) = Append(a \o b, e) /\ a \o b \in Seq(Events)
  OBVIOUS
<1> QED
  BY <1>2, <1>3, <1>4 DEF Stream

LEMMA ClosingBooked == Formed /\ Threads /\ BookedInv /\ CloseRuns => BookedInv'
<1> SUFFICES ASSUME Formed, Threads, BookedInv, CloseRuns, NEW r \in Runs
             PROVE  Booked(Stream(r), run[r])'
  BY DEF BookedInv
<1>1. Booked(Stream(r), run[r])
  BY DEF BookedInv
<1>2. CASE r \notin open
  <2>1. run'[r] = run[r] /\ Stream(r)' = Stream(r)
    BY <1>2, ClosingPass DEF Stream
  <2> QED
    BY <1>1, <2>1 DEF Booked
<1>3. CASE r \in open
  <2>1. PICK s \in Seq(Events), e \in Events, st \in RunStates, st2 \in RunStates :
          /\ s = Stream(r) /\ e = ClosingEvent(r) /\ st = run[r] /\ st2 = run'[r]
    BY <1>3, ClosingPass, ClosedStream DEF Formed, Typed, TypeOK
  <2>2. e.kind = "ExecutionStopped"
    BY <2>1 DEF ClosingEvent
  <2>3. st2.history = st.history /\ st2.tokens = st.tokens
    BY <1>3, <2>1, ClosingPass
  <2>4. Booked(Append(s, e), st2)
    BY <1>1, <2>1, <2>2, <2>3, BookEvent
  <2>5. Stream(r)' = Append(s, e) /\ run'[r] = st2
    BY <1>3, <2>1, ClosedStream
  <2> QED
    BY <2>4, <2>5 DEF Booked
<1> QED
  BY <1>2, <1>3

\* The mark of a stopped run is behind what it logs from then on.
MarksBehind == \A r \in Runs : Stopped(run[r]) => mark[r].seq <= run[r].next_seq

\* What a request does to a run: nothing, or open it, or advance it.
LEMMA RequestMoves ==
  ASSUME Typed, NumberedInv, NEW c \in Clients, Arrive(c) \/ Handle(c), NEW r \in Runs
  PROVE  \/ run'[r] = run[r] /\ log'[r] = log[r] /\ mark'[r] = mark[r]
         \/ /\ r \notin open /\ run'[r] = FreshRun /\ log'[r] = <<>> /\ mark'[r] = mark[r]
         \/ \E st \in RunStates :
              /\ Advances(run[r], st)
              /\ run'[r] = st /\ log'[r] = log[r]
              /\ mark'[r] = IF Stopped(st) /\ ~Stopped(run[r])
                            THEN [seq |-> st.next_seq, calls |-> Len(st.history)]
                            ELSE mark[r]
<1>1. run \in [Runs -> RunStates] /\ mark \in [Runs -> Marks]
  BY DEF Typed, TypeOK
<1>2. CASE Arrive(c)
  <2>1. log' = log /\ mark' = mark
    BY <1>2 DEF Arrive
  <2>2. run'[r] # run[r] => r \notin open /\ run'[r] = FreshRun
    BY <1>1, <1>2 DEF Arrive, Resolve
  <2>3. r \notin open => log[r] = <<>>
    BY DEF NumberedInv, NumberedRun
  <2> QED
    BY <2>1, <2>2, <2>3
<1>3. CASE Refuse(c) \/ Admit(c) \/ Policy(c)
  BY <1>3 DEF Refuse, Admit, Policy
<1>4. CASE Deny(c) \/ Allow(c) \/ Fail(c) \/ Apply(c)
  <2>1. PICK st \in RunStates : Advances(run[RunOf(c)], st) /\ Commit(RunOf(c), st)
    BY <1>4, SectionCommits
  <2>2. /\ run' = [run EXCEPT ![RunOf(c)] = st] /\ log' = log
        /\ mark' = IF Stopped(st) /\ ~Stopped(run[RunOf(c)])
                   THEN [mark EXCEPT ![RunOf(c)] =
                           [seq |-> st.next_seq, calls |-> Len(st.history)]]
                   ELSE mark
    BY <2>1 DEF Commit
  <2>3. CASE r # RunOf(c)
    BY <1>1, <2>2, <2>3
  <2>4. CASE r = RunOf(c)
    BY <1>1, <2>1, <2>2, <2>4
  <2> QED
    BY <2>3, <2>4
<1> QED
  BY <1>2, <1>3, <1>4 DEF Handle

LEMMA SweepKeeps ==
  ASSUME Formed, BookedInv, NEW r \in Runs, Sweep(r)
  PROVE  /\ mark' = mark /\ open' = open
         /\ run'[r].events = <<>>
         /\ \A s \in Runs : /\ Stream(s)' = Stream(s)
                            /\ run'[s].execution = run[s].execution
                            /\ run'[s].next_seq = run[s].next_seq
                            /\ s # r => run'[s] = run[s]
<1>1. /\ log' = [log EXCEPT ![r] = @ \o run[r].events]
      /\ run' = [run EXCEPT ![r] = TakeEvents(@)]
      /\ mark' = mark /\ open' = open
  BY DEF Sweep
<1>2. run \in [Runs -> RunStates]
  BY DEF Formed, Typed, TypeOK
<1>3. /\ TakeEvents(run[r]).events = <<>>
      /\ TakeEvents(run[r]).execution = run[r].execution
      /\ TakeEvents(run[r]).next_seq = run[r].next_seq
  BY <1>2 DEF TakeEvents, RunStates
<1>4. \A s \in Runs : Stream(s)' = Stream(s)
  BY <1>1, BookedTaken DEF Formed
<1> QED
  BY <1>1, <1>2, <1>3, <1>4

LEMMA MarksInit == ShutdownInit => MarksBehind
  BY InitialRuns DEF ShutdownInit, MarksBehind, Stopped

LEMMA MarksStep ==
  Formed /\ Threads /\ NumberedInv /\ BookedInv /\ MarksBehind /\ [ShutdownNext]_allVars
    => MarksBehind'
<1> SUFFICES ASSUME Formed, Threads, NumberedInv, BookedInv, MarksBehind,
                    [ShutdownNext]_allVars, NEW r \in Runs
             PROVE  (Stopped(run[r]) => mark[r].seq <= run[r].next_seq)'
  BY DEF MarksBehind
<1>1. /\ Stopped(run[r]) => mark[r].seq <= run[r].next_seq
      /\ mark[r].seq \in Nat /\ run[r].next_seq \in Nat
  BY DEF MarksBehind, Formed, Typed, TypeOK, RunStates, Marks
<1>2. ASSUME NEW c \in Clients, Request(c)
      PROVE  Stopped(run'[r]) => mark'[r].seq <= run'[r].next_seq
  <2>1. Arrive(c) \/ Handle(c)
    BY <1>2 DEF Request
  <2>2. CASE run'[r] = run[r] /\ mark'[r] = mark[r]
    BY <1>1, <2>2
  <2>3. CASE run'[r] = FreshRun
    BY <2>3 DEF FreshRun, Stopped
  <2>4. ASSUME NEW st \in RunStates, Advances(run[r], st), run'[r] = st,
               mark'[r] = IF Stopped(st) /\ ~Stopped(run[r])
                          THEN [seq |-> st.next_seq, calls |-> Len(st.history)]
                          ELSE mark[r]
        PROVE  Stopped(run'[r]) => mark'[r].seq <= run'[r].next_seq
    <3>1. st.next_seq \in Nat /\ run[r].next_seq <= st.next_seq
      BY <2>4 DEF Advances, RunStates
    <3> QED
      BY <1>1, <2>4, <3>1
  <2> QED
    BY <2>1, <2>2, <2>3, <2>4, RequestMoves DEF Formed
<1>3. ASSUME NEW s \in Runs, Sweep(s)
      PROVE  Stopped(run'[r]) => mark'[r].seq <= run'[r].next_seq
  BY <1>1, <1>3, SweepKeeps DEF Stopped
<1>4. CASE CloseRuns
  <2>1. CASE r \in open
    <3>1. /\ run'[r].execution = run[r].execution /\ mark' = mark
          /\ run'[r].next_seq = run[r].next_seq + 1
      BY <1>4, <2>1, ClosingPass
    <3> QED
      BY <1>1, <3>1 DEF Stopped
  <2>2. CASE r \notin open
    BY <1>1, <1>4, <2>2, ClosingPass
  <2> QED
    BY <2>1, <2>2
<1>5. CASE UNCHANGED vars
  BY <1>1, <1>5 DEF vars
<1> QED
  BY <1>2, <1>3, <1>4, <1>5, OtherSteps

-----------------------------------------------------------------------------
(* What is closed is written *)

Unclosed(s) == \A i \in 1 .. Len(s) : s[i].kind # "ExecutionStopped"

\* The drain thread is in its last pass and has yet to take what r has buffered,
\* or it returned before it did.
Unwritten(r) ==
  /\ final /\ r \in open
  /\ \/ drain = "woken"
     \/ drain = "sweep" /\ r \in todo
     \/ drain = "off" /\ ~done

Buffers == \A r \in Runs : Unclosed(run[r].events) \/ Unwritten(r)

\* No request logs a closing.
LEMMA AdvancesUnclosed ==
  ASSUME NEW st \in RunStates, NEW st2 \in RunStates, Advances(st, st2), Unclosed(st.events)
  PROVE  Unclosed(st2.events)
<1> SUFFICES ASSUME NEW i \in 1 .. Len(st2.events)
             PROVE  st2.events[i].kind # "ExecutionStopped"
  BY DEF Unclosed
<1>1. Len(st.events) \in Nat /\ Len(st2.events) \in Nat
  BY DEF RunStates
<1>2. CASE i <= Len(st.events)
  BY <1>1, <1>2 DEF Advances, Prefixes, Unclosed
<1>3. CASE i > Len(st.events)
  BY <1>3 DEF Advances
<1> QED
  BY <1>1, <1>2, <1>3

LEMMA FreshUnclosed == Unclosed(FreshRun.events)
<1>1. Len(FreshRun.events) = 1 /\ FreshRun.events[1].kind = "ExecutionStarted"
  BY DEF FreshRun
<1> QED
  BY <1>1 DEF Unclosed

LEMMA OpenGrows == ASSUME [ShutdownNext]_allVars PROVE open \subseteq open'
<1>1. ASSUME NEW c \in Clients, Request(c)
      PROVE  open \subseteq open'
  BY <1>1 DEF Request, Handle, Arrive, Refuse, Admit, Policy, Deny, Allow, Fail, Apply, Commit
<1>2. ASSUME NEW r \in Runs, Sweep(r)
      PROVE  open \subseteq open'
  BY <1>2 DEF Sweep
<1>3. CASE CloseRuns \/ UNCHANGED vars
  BY <1>3 DEF CloseRuns, vars
<1> QED
  BY <1>1, <1>2, <1>3, OtherSteps

LEMMA BuffersInit == ShutdownInit => Buffers
  BY FirstEvents DEF ShutdownInit, Buffers, Unclosed, Verdicts

LEMMA BuffersStep ==
  Formed /\ Threads /\ NumberedInv /\ BookedInv /\ Buffers /\ [ShutdownNext]_allVars => Buffers'
<1> SUFFICES ASSUME Formed, Threads, NumberedInv, BookedInv, Buffers, [ShutdownNext]_allVars,
                    NEW r \in Runs
             PROVE  Unclosed(run'[r].events) \/ Unwritten(r)'
  BY DEF Buffers
<1>1. Unclosed(run[r].events) \/ Unwritten(r)
  BY DEF Buffers
<1>2. open \subseteq open'
  BY OpenGrows
<1>3. ASSUME NEW c \in Clients, Request(c)
      PROVE  Unclosed(run'[r].events) \/ Unwritten(r)'
  <2>1. Unwritten(r) => Unwritten(r)'
    BY <1>2, <1>3 DEF Request, drainVars, mainVars, Unwritten
  <2>2. Arrive(c) \/ Handle(c)
    BY <1>3 DEF Request
  <2>3. CASE run'[r] = run[r]
    BY <1>1, <2>1, <2>3
  <2>4. CASE run'[r] = FreshRun
    BY <2>4, FreshUnclosed
  <2>5. ASSUME NEW st \in RunStates, Advances(run[r], st), run'[r] = st
        PROVE  Unclosed(run'[r].events) \/ Unwritten(r)'
    <3>1. run[r] \in RunStates
      BY DEF Formed, Typed, TypeOK
    <3> QED
      BY <1>1, <2>1, <2>5, <3>1, AdvancesUnclosed
  <2> QED
    BY <2>2, <2>3, <2>4, <2>5, RequestMoves DEF Formed
<1>4. ASSUME NEW s \in Runs, Sweep(s)
      PROVE  Unclosed(run'[r].events) \/ Unwritten(r)'
  <2>1. CASE s = r
    <3>1. run'[r].events = <<>>
      BY <1>4, <2>1, SweepKeeps
    <3> QED
      BY <3>1 DEF Unclosed
  <2>2. CASE s # r
    <3>1. run'[r] = run[r] /\ open' = open
      BY <1>4, <2>2, SweepKeeps
    <3>2. /\ drain = "sweep" /\ drain' \in {"sweep", "off"}
          /\ final' = final /\ done' = done /\ todo' = todo \ {s}
      BY <1>4 DEF Sweep
    <3>3. ~done
      BY <3>2 DEF Threads
    <3>4. Unwritten(r) => Unwritten(r)'
      BY <2>2, <3>1, <3>2, <3>3 DEF Unwritten
    <3> QED
      BY <1>1, <3>1, <3>4
  <2> QED
    BY <2>1, <2>2
<1>5. CASE CloseRuns
  <2>1. CASE r \in open
    <3>1. final' /\ drain' = "woken" /\ open' = open
      BY <1>5, ClosingPass
    <3> QED
      BY <2>1, <3>1 DEF Unwritten
  <2>2. CASE r \notin open
    <3>1. run'[r] = run[r]
      BY <1>5, <2>2, ClosingPass
    <3> QED
      BY <1>1, <2>2, <3>1 DEF Unwritten
  <2> QED
    BY <2>1, <2>2
<1>6. CASE Snapshot
  BY <1>1, <1>6 DEF Snapshot, vars, Unwritten
<1>7. CASE Rest
  BY <1>1, <1>7 DEF Rest, vars, Unwritten
<1>8. CASE Nap
  BY <1>1, <1>8 DEF Nap, vars, Unwritten, Threads
<1>9. ASSUME UNCHANGED <<vars, drain, todo, done, final>>
      PROVE  Unclosed(run'[r].events) \/ Unwritten(r)'
  BY <1>1, <1>9 DEF vars, Unwritten
<1>10. CASE Finish \/ Forward \/ ForwarderDies \/ ChildExits
  BY <1>9, <1>10 DEF Finish, Forward, ForwarderDies, ChildExits, drainVars
<1>11. CASE MainThread
  BY <1>9, <1>11 DEF MainThread, Reap, Raise, Announced, TimeOut, Flush, ServeReturns, drainVars
<1>12. CASE Terminate \/ ExitNow \/ UNCHANGED allVars
  BY <1>9, <1>12 DEF Terminate, ExitNow, drainVars, allVars
<1> QED
  BY <1>3, <1>4, <1>5, <1>6, <1>7, <1>8, <1>10, <1>11, <1>12 DEF ShutdownNext, DrainThread

-----------------------------------------------------------------------------
(* What the closing event tells *)

\* The closing event of run r at place i of its stream is the only one, and tells
\* the reason and the tokens as they stood when it was logged.
Accurate(r, i) ==
  LET s == Stream(r)
  IN  /\ s[i].on = IF Stopped(run[r]) /\ mark[r].seq <= s[i].seq
                   THEN run[r].execution ELSE Fallback
      /\ s[i].tokens = TokensOf(OfKind(SubSeq(s, 1, i - 1), "LlmUsageRecorded")) % TokenWrap
      /\ \A j \in 1 .. Len(s) : s[j].kind = "ExecutionStopped" => j = i

Told(r) ==
  \A i \in 1 .. Len(Stream(r)) :
    Stream(r)[i].kind = "ExecutionStopped" => final /\ r \in open /\ Accurate(r, i)

ToldInv == \A r \in Runs : Told(r)

PrimaryClosed == final => ~Unclosed(Stream(Primary))

\* Once the closing pass has begun the app is gone, and its status stands.
LEMMA FinalStays ==
  ASSUME Threads, [ShutdownNext]_allVars, final
  PROVE  final' /\ Fallback' = Fallback
<1>1. flag /\ drain # "tick" /\ child \in Exited \cup {"killed"} /\ main \notin {"poll", "raise"}
  BY DEF Threads
<1>2. CASE (\E c \in Clients : Request(c)) \/ Finish
  BY <1>2 DEF Request, Finish, mainVars, drainVars, Fallback
<1>3. CASE DrainThread
  BY <1>1, <1>3 DEF DrainThread, Nap, CloseRuns, Snapshot, Sweep, Rest, mainVars, Fallback
<1>4. CASE Forward \/ ForwarderDies \/ ChildExits
  BY <1>1, <1>4 DEF Forward, ForwarderDies, ChildExits, mainVars, drainVars, Fallback, Exited
<1>5. CASE MainThread
  BY <1>1, <1>5 DEF MainThread, Reap, Raise, Announced, TimeOut, Flush, ServeReturns,
                    drainVars, Fallback
<1>6. CASE Terminate \/ ExitNow \/ UNCHANGED allVars
  BY <1>1, <1>6 DEF Terminate, ExitNow, allVars, mainVars, drainVars, Fallback, Exited
<1> QED
  BY <1>2, <1>3, <1>4, <1>5, <1>6 DEF ShutdownNext

\* t holds what s holds, and no closing behind it.
Extends(t, s) ==
  /\ Len(s) \in Nat /\ Len(t) \in Nat /\ Len(s) <= Len(t)
  /\ \A i \in 1 .. Len(s) : t[i] = s[i]
  /\ \A i \in 1 .. Len(t) : t[i].kind = "ExecutionStopped" => i <= Len(s)

LEMMA GrownItems ==
  ASSUME NEW old \in Seq(Events), NEW st \in RunStates, NEW st2 \in RunStates,
         Advances(st, st2)
  PROVE  Extends(old \o st2.events, old \o st.events)
<1> DEFINE s == old \o st.events
<1> DEFINE t == old \o st2.events
<1>1. st.events \in Seq(Events) /\ st2.events \in Seq(Events)
  BY DEF RunStates
<1>2. PICK n \in Nat, a \in Nat, b \in Nat :
        n = Len(old) /\ a = Len(st.events) /\ b = Len(st2.events)
  BY <1>1, LenProperties
<1>3. /\ Len(s) = n + a
      /\ \A i \in 1 .. n + a : s[i] = IF i <= n THEN old[i] ELSE st.events[i - n]
  BY <1>1, <1>2, ConcatProperties
<1>4. /\ Len(t) = n + b
      /\ \A i \in 1 .. n + b : t[i] = IF i <= n THEN old[i] ELSE st2.events[i - n]
  BY <1>1, <1>2, ConcatProperties
<1> HIDE DEF s, t
<1>5. a <= b /\ \A i \in 1 .. a : st2.events[i] = st.events[i]
  BY <1>2 DEF Advances, Prefixes
<1>6. \A i \in 1 .. b : i > a => st2.events[i].kind # "ExecutionStopped"
  BY <1>2 DEF Advances
<1>7. ASSUME NEW i \in 1 .. n + a
      PROVE  t[i] = s[i]
  <2>1. CASE i <= n
    BY <1>2, <1>3, <1>4, <1>5, <2>1
  <2>2. CASE i > n
    <3>1. i - n \in 1 .. a /\ i \in 1 .. n + b
      BY <1>2, <1>5, <2>2
    <3> QED
      BY <1>2, <1>3, <1>4, <1>5, <2>2, <3>1
  <2>3. n \in Nat /\ n + a \in Nat /\ i \in Nat
    BY <1>2
  <2>4. i <= n \/ i > n
    BY <2>3
  <2> QED
    BY <2>1, <2>2, <2>4
<1>8. ASSUME NEW i \in 1 .. n + b, i > n + a
      PROVE  t[i].kind # "ExecutionStopped"
  <2>1. i - n \in 1 .. b /\ i - n > a /\ i > n
    BY <1>2, <1>8
  <2> QED
    BY <1>2, <1>4, <1>6, <2>1
<1> QED
  BY <1>2, <1>3, <1>4, <1>5, <1>7, <1>8 DEF Extends, s, t

LEMMA SamePrefix ==
  ASSUME NEW s \in Seq(Events), NEW t \in Seq(Events), Len(s) <= Len(t),
         \A i \in 1 .. Len(s) : t[i] = s[i], NEW m \in Nat, m <= Len(s)
  PROVE  SubSeq(t, 1, m) = SubSeq(s, 1, m)
<1>1. Len(s) \in Nat /\ Len(t) \in Nat
  BY LenProperties
<1>2. \A i \in 1 .. m : s[i] \in Events /\ t[i] \in Events
  BY <1>1, ElementOfSeq
<1>3. /\ SubSeq(s, 1, m) \in Seq(Events) /\ Len(SubSeq(s, 1, m)) = m
      /\ \A i \in 1 .. m : SubSeq(s, 1, m)[i] = s[i]
  <2>1. /\ SubSeq(s, 1, m) \in Seq(Events)
        /\ Len(SubSeq(s, 1, m)) = IF 1 <= m THEN m - 1 + 1 ELSE 0
        /\ \A i \in 1 .. m - 1 + 1 : SubSeq(s, 1, m)[i] = s[1 + i - 1]
    BY <1>1, <1>2, SubSeqProperties
  <2> QED
    BY <2>1
<1>4. /\ SubSeq(t, 1, m) \in Seq(Events) /\ Len(SubSeq(t, 1, m)) = m
      /\ \A i \in 1 .. m : SubSeq(t, 1, m)[i] = t[i]
  <2>1. /\ SubSeq(t, 1, m) \in Seq(Events)
        /\ Len(SubSeq(t, 1, m)) = IF 1 <= m THEN m - 1 + 1 ELSE 0
        /\ \A i \in 1 .. m - 1 + 1 : SubSeq(t, 1, m)[i] = t[1 + i - 1]
    BY <1>1, <1>2, SubSeqProperties
  <2> QED
    BY <2>1
<1>5. \A i \in 1 .. m : SubSeq(t, 1, m)[i] = SubSeq(s, 1, m)[i]
  BY <1>1, <1>3, <1>4
<1> QED
  BY <1>3, <1>4, <1>5, SeqEqual

\* The stream of a run in the map: a sequence of events, numbered from 0.
LEMMA StreamItems ==
  ASSUME Formed, NumberedInv, NEW r \in Runs
  PROVE  /\ Stream(r) \in Seq(Events) /\ Len(Stream(r)) \in Nat
         /\ r \in open => /\ run[r].next_seq = Len(Stream(r))
                          /\ \A i \in 1 .. Len(Stream(r)) : Stream(r)[i].seq = i - 1
<1>1. log[r] \in Seq(Events) /\ run[r].events \in Seq(Events)
  BY DEF Formed, Typed, TypeOK, RunStates
<1>2. Stream(r) \in Seq(Events)
  BY <1>1, ConcatProperties DEF Stream
<1>3. Len(Stream(r)) \in Nat /\ DOMAIN Stream(r) = 1 .. Len(Stream(r))
  BY <1>2, LenProperties
<1> QED
  BY <1>2, <1>3, StreamNumbered DEF StreamContiguous, Formed

\* A step that leaves the stream of r and what it stopped for.
LEMMA ToldSame ==
  ASSUME Threads, [ShutdownNext]_allVars, NEW r \in Runs, Told(r),
         Stream(r)' = Stream(r), run'[r].execution = run[r].execution, mark'[r] = mark[r]
  PROVE  Told(r)'
<1> SUFFICES ASSUME NEW i \in 1 .. Len(Stream(r)), Stream(r)[i].kind = "ExecutionStopped"
             PROVE  final' /\ r \in open' /\ Accurate(r, i)'
  BY DEF Told
<1>1. final /\ r \in open /\ Accurate(r, i)
  BY DEF Told
<1>2. final' /\ Fallback' = Fallback /\ open \subseteq open'
  BY <1>1, FinalStays, OpenGrows
<1>3. Accurate(r, i)'
  BY <1>1, <1>2 DEF Accurate, Stopped
<1> QED
  BY <1>1, <1>2, <1>3

\* A request that advances r.
LEMMA ToldAdvance ==
  ASSUME Formed, Threads, NumberedInv, [ShutdownNext]_allVars, NEW r \in Runs, Told(r),
         NEW st \in RunStates, Advances(run[r], st), run'[r] = st, log'[r] = log[r],
         mark'[r] = IF Stopped(st) /\ ~Stopped(run[r])
                    THEN [seq |-> st.next_seq, calls |-> Len(st.history)]
                    ELSE mark[r]
  PROVE  Told(r)'
<1>1. PICK s \in Seq(Events), t \in Seq(Events), old \in Seq(Events) :
        /\ s = Stream(r) /\ old = log[r]
        /\ s = old \o run[r].events /\ t = old \o st.events
  <2>1. log[r] \in Seq(Events) /\ st.events \in Seq(Events) /\ Stream(r) \in Seq(Events)
    BY StreamItems DEF Formed, Typed, TypeOK, RunStates
  <2>2. log[r] \o st.events \in Seq(Events)
    BY <2>1, ConcatProperties
  <2> QED
    BY <2>1, <2>2 DEF Stream
<1>2. Stream(r)' = t
  BY <1>1 DEF Stream
<1>3. run[r] \in RunStates
  BY DEF Formed, Typed, TypeOK
<1>4. /\ Len(s) \in Nat /\ Len(t) \in Nat /\ Len(s) <= Len(t)
      /\ \A i \in 1 .. Len(s) : t[i] = s[i]
      /\ \A i \in 1 .. Len(t) : t[i].kind = "ExecutionStopped" => i <= Len(s)
  <2>1. log[r] \in Seq(Events)
    BY DEF Formed, Typed, TypeOK
  <2>2. Extends(log[r] \o st.events, log[r] \o run[r].events)
    BY <1>3, <2>1, GrownItems
  <2>3. Extends(t, s)
    BY <1>1, <2>2
  <2> QED
    BY <2>3 DEF Extends
<1> SUFFICES ASSUME NEW i \in 1 .. Len(t), t[i].kind = "ExecutionStopped"
             PROVE  final' /\ r \in open' /\ Accurate(r, i)'
  BY <1>2 DEF Told
<1>5. i \in 1 .. Len(s) /\ t[i] = s[i]
  BY <1>4
<1>6. final /\ r \in open /\ Accurate(r, i)
  BY <1>1, <1>5 DEF Told
<1>7. final' /\ Fallback' = Fallback /\ open \subseteq open'
  BY <1>6, FinalStays, OpenGrows
<1>8. t[i].on = IF Stopped(st) /\ mark'[r].seq <= t[i].seq THEN st.execution ELSE Fallback
  <2>1. s[i].on = IF Stopped(run[r]) /\ mark[r].seq <= s[i].seq
                  THEN run[r].execution ELSE Fallback
    BY <1>1, <1>6 DEF Accurate
  <2>2. CASE Stopped(run[r])
    <3>1. st.execution = run[r].execution
      BY <2>2 DEF Advances
    <3> QED
      BY <1>5, <2>1, <2>2, <3>1 DEF Stopped
  <2>3. CASE ~Stopped(run[r]) /\ Stopped(st)
    <3>1. run[r].next_seq = Len(s) /\ s[i].seq = i - 1
      BY <1>1, <1>5, <1>6, StreamItems
    <3>2. st.next_seq \in Nat /\ run[r].next_seq <= st.next_seq /\ mark'[r].seq = st.next_seq
      BY <2>3 DEF Advances, RunStates
    <3>3. ~(mark'[r].seq <= t[i].seq)
      BY <1>4, <1>5, <3>1, <3>2
    <3> QED
      BY <1>5, <2>1, <2>3, <3>3
  <2>4. CASE ~Stopped(st) /\ ~Stopped(run[r])
    BY <1>5, <2>1, <2>4
  <2> QED
    BY <2>2, <2>3, <2>4
<1>9. SubSeq(t, 1, i - 1) = SubSeq(s, 1, i - 1)
  <2>1. i - 1 \in Nat /\ i - 1 <= Len(s)
    BY <1>4, <1>5
  <2> QED
    BY <1>4, <2>1, SamePrefix
<1>10. t[i].tokens = TokensOf(OfKind(SubSeq(t, 1, i - 1), "LlmUsageRecorded")) % TokenWrap
  BY <1>1, <1>5, <1>6, <1>9 DEF Accurate
<1>11. \A j \in 1 .. Len(t) : t[j].kind = "ExecutionStopped" => j = i
  <2> SUFFICES ASSUME NEW j \in 1 .. Len(t), t[j].kind = "ExecutionStopped"
               PROVE  j = i
    OBVIOUS
  <2>1. j \in 1 .. Len(s) /\ s[j].kind = "ExecutionStopped"
    BY <1>4
  <2> QED
    BY <1>1, <1>6, <2>1 DEF Accurate
<1>12. Accurate(r, i)'
  BY <1>2, <1>7, <1>8, <1>10, <1>11 DEF Accurate
<1> QED
  BY <1>6, <1>7, <1>12

\* The closing pass on a run it closes: no earlier pass closed it, so far the run
\* has logged what its accounts say, and its stop, if any, is behind it.
LEMMA ToldClosed ==
  ASSUME Formed, Threads, NumberedInv, BookedInv, MarksBehind, CloseRuns,
         NEW r \in open, Told(r)
  PROVE  Told(r)'
<1>1. /\ ~final /\ reason = Fallback /\ mark' = mark /\ open' = open /\ child' = child
      /\ final' /\ r \in Runs /\ ClosingEvent(r) \in Events
      /\ run'[r].execution = run[r].execution
  BY ClosingPass
<1>2. PICK s \in Seq(Events), e \in Events, n \in Nat :
        s = Stream(r) /\ e = ClosingEvent(r) /\ n = Len(s)
  BY <1>1, StreamItems
<1>3. PICK t \in Seq(Events) : t = Append(s, e)
  BY AppendProperties
<1>4. Len(t) = n + 1 /\ t[n + 1] = e /\ \A i \in 1 .. n : t[i] = s[i]
  BY <1>2, <1>3, AppendProperties
<1>5. Stream(r)' = t
  BY <1>2, <1>3, ClosedStream
<1>6. \A i \in 1 .. n : s[i].kind # "ExecutionStopped"
  BY <1>1, <1>2 DEF Told
<1> SUFFICES ASSUME NEW i \in 1 .. Len(t), t[i].kind = "ExecutionStopped"
             PROVE  Accurate(r, i)'
  BY <1>1, <1>5 DEF Told
<1>7. i = n + 1
  BY <1>4, <1>6
<1>8. e.on = IF Stopped(run[r]) /\ mark[r].seq <= e.seq THEN run[r].execution ELSE Fallback
  <2>1. /\ e.on = IF Stopped(run[r]) THEN run[r].execution ELSE reason
        /\ e.seq = run[r].next_seq
    BY <1>2 DEF ClosingEvent
  <2>2. Stopped(run[r]) => mark[r].seq <= run[r].next_seq
    BY <1>1 DEF MarksBehind
  <2> QED
    BY <1>1, <2>1, <2>2
<1>9. SubSeq(t, 1, n) = s
  <2>1. SubSeq(t, 1, n) = SubSeq(s, 1, n)
    BY <1>2, <1>4, SamePrefix
  <2> QED
    BY <1>2, <2>1, SubSeqFull
<1>10. e.tokens = TokensOf(OfKind(s, "LlmUsageRecorded")) % TokenWrap
  <2>1. Booked(s, run[r])
    BY <1>1, <1>2 DEF BookedInv
  <2> QED
    BY <1>2, <2>1 DEF Booked, ClosingEvent
<1>11. \A j \in 1 .. Len(t) : t[j].kind = "ExecutionStopped" => j = i
  BY <1>4, <1>6, <1>7
<1>12. Fallback' = Fallback
  BY <1>1 DEF Fallback
<1>13. i - 1 = n /\ t[i] = e
  BY <1>4, <1>7
<1>14. /\ t[i].on = IF Stopped(run'[r]) /\ mark'[r].seq <= t[i].seq
                    THEN run'[r].execution ELSE Fallback'
       /\ t[i].tokens = TokensOf(OfKind(SubSeq(t, 1, i - 1), "LlmUsageRecorded")) % TokenWrap
  BY <1>1, <1>8, <1>9, <1>10, <1>12, <1>13 DEF Stopped
<1> QED
  BY <1>5, <1>11, <1>14 DEF Accurate

LEMMA ToldInit == ShutdownInit => ToldInv /\ PrimaryClosed
<1> SUFFICES ASSUME ShutdownInit
             PROVE  ToldInv /\ PrimaryClosed
  OBVIOUS
<1>1. Init /\ ~final
  BY DEF ShutdownInit
<1>2. ASSUME NEW r \in Runs
      PROVE  Told(r)
  <2>1. log[r] = <<>> /\ run[r].events \in Seq(Events)
    BY <1>1, TypedInit DEF Init, Typed, TypeOK, RunStates
  <2>2. Stream(r) = run[r].events
    BY <2>1 DEF Stream
  <2>3. \A i \in 1 .. Len(Stream(r)) : Stream(r)[i].kind # "ExecutionStopped"
    BY <1>1, <2>2, FirstEvents DEF Verdicts
  <2> QED
    BY <2>3 DEF Told
<1> QED
  BY <1>1, <1>2 DEF ToldInv, PrimaryClosed

LEMMA ToldStep ==
  ASSUME Formed, Threads, NumberedInv, BookedInv, MarksBehind, ToldInv,
         [ShutdownNext]_allVars
  PROVE  ToldInv'
<1> SUFFICES ASSUME NEW r \in Runs
             PROVE  Told(r)'
  BY DEF ToldInv
<1>1. Told(r)
  BY DEF ToldInv
<1>2. ASSUME NEW c \in Clients, Request(c)
      PROVE  Told(r)'
  <2>1. Arrive(c) \/ Handle(c)
    BY <1>2 DEF Request
  <2>2. CASE run'[r] = run[r] /\ log'[r] = log[r] /\ mark'[r] = mark[r]
    <3>1. Stream(r)' = Stream(r) /\ run'[r].execution = run[r].execution
      BY <2>2 DEF Stream
    <3> QED
      BY <1>1, <2>2, <3>1, ToldSame
  <2>3. CASE run'[r] = FreshRun /\ log'[r] = <<>>
    <3>1. FreshRun.events \in Seq(Events)
      BY FreshRunType DEF RunStates
    <3>2. Stream(r)' = FreshRun.events
      BY <2>3, <3>1 DEF Stream
    <3> QED
      BY <3>2, FreshUnclosed DEF Unclosed, Told
  <2>4. ASSUME NEW st \in RunStates, Advances(run[r], st), run'[r] = st, log'[r] = log[r],
               mark'[r] = IF Stopped(st) /\ ~Stopped(run[r])
                          THEN [seq |-> st.next_seq, calls |-> Len(st.history)]
                          ELSE mark[r]
        PROVE  Told(r)'
    BY <1>1, <2>4, ToldAdvance
  <2> QED
    BY <2>1, <2>2, <2>3, <2>4, RequestMoves DEF Formed
<1>3. ASSUME NEW s \in Runs, Sweep(s)
      PROVE  Told(r)'
  <2>1. Stream(r)' = Stream(r) /\ run'[r].execution = run[r].execution /\ mark' = mark
    BY <1>3, SweepKeeps
  <2> QED
    BY <1>1, <2>1, ToldSame
<1>4. CASE CloseRuns
  <2>1. CASE r \in open
    BY <1>1, <1>4, <2>1, ToldClosed
  <2>2. CASE r \notin open
    <3>1. run'[r] = run[r] /\ log' = log /\ mark' = mark
      BY <1>4, <2>2, ClosingPass
    <3>2. Stream(r)' = Stream(r) /\ run'[r].execution = run[r].execution
      BY <3>1 DEF Stream
    <3> QED
      BY <1>1, <3>1, <3>2, ToldSame
  <2> QED
    BY <2>1, <2>2
<1>5. CASE UNCHANGED vars
  <2>1. Stream(r)' = Stream(r) /\ run' = run /\ mark' = mark
    BY <1>5 DEF vars, Stream
  <2> QED
    BY <1>1, <2>1, ToldSame
<1> QED
  BY <1>2, <1>3, <1>4, <1>5, OtherSteps

\* What a run logged stays in its stream, so a closed run stays closed.
LEMMA PrimaryStep ==
  ASSUME Formed, Threads, NumberedInv, BookedInv, PrimaryClosed, [ShutdownNext]_allVars
  PROVE  PrimaryClosed'
<1> SUFFICES ASSUME final'
             PROVE  ~Unclosed(Stream(Primary))'
  BY DEF PrimaryClosed
<1>1. Primary \in open /\ Primary \in Runs
  BY GovernorAssumption DEF Threads
<1>2. CASE CloseRuns
  <2>1. PICK s \in Seq(Events), e \in Events :
          s = Stream(Primary) /\ e = ClosingEvent(Primary)
    BY <1>1, <1>2, ClosingPass, StreamItems
  <2>2. Stream(Primary)' = Append(s, e) /\ e.kind = "ExecutionStopped"
    BY <1>1, <1>2, <2>1, ClosedStream DEF ClosingEvent
  <2>3. /\ Len(s) \in Nat /\ Len(Append(s, e)) = Len(s) + 1
        /\ Append(s, e)[Len(s) + 1] = e
    BY <2>1, LenProperties, AppendProperties
  <2>4. Len(s) + 1 \in 1 .. Len(Append(s, e))
    BY <2>3
  <2> QED
    BY <2>2, <2>3, <2>4 DEF Unclosed
<1>3. CASE ~CloseRuns
  <2>1. final
    <3>1. [Next]_vars
      BY <1>3, GovernorSteps DEF Formed, Threads
    <3>2. CASE (\E c \in Clients : Request(c)) \/ Finish
      BY <3>2 DEF Request, Finish, drainVars
    <3>3. CASE DrainThread
      BY <1>3, <3>3 DEF DrainThread, Nap, Snapshot, Sweep, Rest
    <3>4. CASE Forward \/ ForwarderDies \/ ChildExits
      BY <3>4 DEF Forward, ForwarderDies, ChildExits, drainVars
    <3>5. CASE MainThread
      BY <3>5 DEF MainThread, Reap, Raise, Announced, TimeOut, Flush, ServeReturns, drainVars
    <3>6. CASE Terminate \/ ExitNow \/ UNCHANGED allVars
      BY <3>6 DEF Terminate, ExitNow, allVars, drainVars
    <3> QED
      BY <3>2, <3>3, <3>4, <3>5, <3>6 DEF ShutdownNext
  <2>2. [Next]_vars /\ Typed
    BY <1>3, GovernorSteps DEF Formed, Threads
  <2>3. PICK i \in 1 .. Len(Stream(Primary)) : Stream(Primary)[i].kind = "ExecutionStopped"
    BY <2>1 DEF PrimaryClosed, Unclosed
  <2>4. /\ Len(Stream(Primary)) <= Len(Stream(Primary)')
        /\ SubSeq(Stream(Primary)', 1, Len(Stream(Primary))) = Stream(Primary)
    BY <1>1, <2>2, AppendOnlyStep
  <2>5. Formed' /\ NumberedInv'
    BY <2>2, FormedStep, NumberedStep
  <2>6. PICK s \in Seq(Events), t \in Seq(Events) :
          s = Stream(Primary) /\ t = Stream(Primary)'
    <3>1. Stream(Primary) \in Seq(Events)
      BY <1>1, StreamItems
    <3>2. Stream(Primary)' \in Seq(Events)
      <4>1. log'[Primary] \in Seq(Events) /\ run'[Primary].events \in Seq(Events)
        BY <1>1, <2>5 DEF Formed, Typed, TypeOK, RunStates
      <4> QED
        BY <4>1, ConcatProperties DEF Stream
    <3> QED
      BY <3>1, <3>2
  <2>7. Len(s) \in Nat /\ Len(t) \in Nat /\ Len(s) <= Len(t) /\ SubSeq(t, 1, Len(s)) = s
    BY <2>4, <2>6, LenProperties
  <2>8. \A j \in 1 .. Len(s) : t[j] \in Events
    BY <2>6, <2>7, ElementOfSeq
  <2>9. \A j \in 1 .. Len(s) - 1 + 1 : SubSeq(t, 1, Len(s))[j] = t[1 + j - 1]
    BY <2>7, <2>8, SubSeqProperties
  <2>10. i \in 1 .. Len(s) /\ s[i].kind = "ExecutionStopped"
    BY <2>3, <2>6
  <2>11. t[i] = s[i] /\ i \in 1 .. Len(t)
    BY <2>7, <2>9, <2>10
  <2> QED
    BY <2>6, <2>10, <2>11 DEF Unclosed
<1> QED
  BY <1>2, <1>3

-----------------------------------------------------------------------------
(* The theorems *)

\* Everything the shutdown keeps, as one inductive invariant.
ShutdownInv ==
  /\ Formed /\ Threads /\ NumberedInv /\ BookedInv /\ MarksBehind
  /\ Buffers /\ ToldInv /\ PrimaryClosed

LEMMA ShutdownInvInit == ShutdownInit => ShutdownInv
  BY FormedInit, ThreadsInit, NumberedInit, BookedInit, MarksInit, BuffersInit, ToldInit
  DEF ShutdownInv, ShutdownInit

LEMMA ShutdownInvStep == ShutdownInv /\ [ShutdownNext]_allVars => ShutdownInv'
<1> SUFFICES ASSUME ShutdownInv, [ShutdownNext]_allVars
             PROVE  ShutdownInv'
  OBVIOUS
<1>1. /\ Formed /\ Threads /\ NumberedInv /\ BookedInv /\ MarksBehind
      /\ Buffers /\ ToldInv /\ PrimaryClosed
  BY DEF ShutdownInv
<1>2. CloseRuns \/ [Next]_vars
  BY <1>1, GovernorSteps DEF Formed, Threads
<1>3. NumberedInv' /\ BookedInv'
  BY <1>1, <1>2, ClosingNumbered, ClosingBooked, NumberedStep, BookedStep DEF Formed
<1>4. Formed' /\ Threads' /\ MarksBehind' /\ Buffers'
  BY <1>1, FormedStep, ThreadsStep, MarksStep, BuffersStep
<1>5. ToldInv' /\ PrimaryClosed'
  BY <1>1, ToldStep, PrimaryStep
<1> QED
  BY <1>3, <1>4, <1>5 DEF ShutdownInv

LEMMA NothingClosing ==
  ASSUME NEW s \in Seq(Events)
  PROVE  Closing(s) = {} <=> Unclosed(s)
<1>1. DOMAIN s = 1 .. Len(s)
  BY LenProperties
<1> QED
  BY <1>1 DEF Closing, Unclosed

\* With the drain thread at its end, what was closed is on stdout.
LEMMA AllWritten ==
  ASSUME ShutdownInv, done
  PROVE  /\ Closing(log[Primary]) # {}
         /\ \A r \in open : Closing(run[r].events) = {}
<1>1. final /\ drain = "off"
  BY DEF ShutdownInv, Threads
<1>2. \A r \in Runs : Unclosed(run[r].events)
  BY <1>1 DEF ShutdownInv, Buffers, Unwritten
<1>3. \A r \in Runs : log[r] \in Seq(Events) /\ run[r].events \in Seq(Events)
  BY DEF ShutdownInv, Formed, Typed, TypeOK, RunStates
<1>4. \A r \in open : Closing(run[r].events) = {}
  BY <1>2, <1>3, NothingClosing DEF ShutdownInv, Formed, Typed, TypeOK
<1>5. Closing(log[Primary]) # {}
  <2>1. Primary \in Runs
    BY GovernorAssumption
  <2>2. PICK i \in 1 .. Len(Stream(Primary)) : Stream(Primary)[i].kind = "ExecutionStopped"
    BY <1>1 DEF ShutdownInv, PrimaryClosed, Unclosed
  <2>3. \/ \E j \in 1 .. Len(log[Primary]) : Stream(Primary)[i] = log[Primary][j]
        \/ \E j \in 1 .. Len(run[Primary].events) : Stream(Primary)[i] = run[Primary].events[j]
    BY <1>3, <2>1, <2>2, ConcatItem DEF Stream
  <2>4. ~Unclosed(log[Primary])
    BY <1>2, <2>1, <2>2, <2>3 DEF Unclosed
  <2> QED
    BY <1>3, <2>1, <2>4, NothingClosing
<1> QED
  BY <1>4, <1>5

\* Whatever the order of the app's exit, the kill, the drain thread's passes, the
\* forwarder's death and the requests that still arrive, drain_done is set only
\* when every run that was closed is written up to its closing event.
THEOREM DoneIsWritten == ShutdownSpec => []ShutdownInvariant
<1>1. ShutdownInv => ShutdownInvariant
  BY AllWritten DEF ShutdownInv, Formed, ShutdownInvariant, DoneMeansWritten
<1> QED
  BY <1>1, ShutdownInvInit, ShutdownInvStep, PTL DEF ShutdownSpec

\* A process that exits on its own, with an app and a forwarder that lives, leaves
\* nothing behind: flush_and_join outlasts the drain thread, so the limit on the
\* wait for drain_done never costs an event.
THEOREM ExitLeavesNothing == ShutdownSpec => []SyncedExitIsComplete
<1>1. ShutdownInv => SyncedExitIsComplete
  <2> SUFFICES ASSUME ShutdownInv, exit \in Exited, child # "none", sink = "up"
               PROVE  /\ channel = {}
                      /\ Closing(log[Primary]) # {}
                      /\ \A r \in open : Closing(run[r].events) = {}
    BY DEF SyncedExitIsComplete
  <2>1. channel = {} /\ done
    BY DEF ShutdownInv, Threads
  <2> QED
    BY <2>1, AllWritten
<1> QED
  BY <1>1, ShutdownInvInit, ShutdownInvStep, PTL DEF ShutdownSpec

\* The closing event of a run comes once and is true: it names the run's own stop
\* when there was one and the app's exit otherwise, and its tokens are the sum of
\* those logged before it, whatever requests raced the closing pass.
THEOREM ClosingIsTrue == ShutdownSpec => []ClosingEventIsAccurate
<1>1. ShutdownInv => ClosingEventIsAccurate
  <2> SUFFICES ASSUME ShutdownInv, NEW r \in open
               PROVE  LET s == Stream(r)
                      IN  /\ Cardinality(Closing(s)) <= 1
                          /\ \A i \in Closing(s) :
                               /\ Stopped(run[r]) /\ mark[r].seq <= s[i].seq =>
                                    s[i].on = run[r].execution
                               /\ ~(Stopped(run[r]) /\ mark[r].seq <= s[i].seq) =>
                                    s[i].on = Fallback
                               /\ s[i].tokens =
                                    TokensOf(OfKind(SubSeq(s, 1, i - 1), "LlmUsageRecorded"))
                                      % TokenWrap
    BY DEF ClosingEventIsAccurate, Fallback
  <2>1. r \in Runs
    BY DEF ShutdownInv, Formed, Typed, TypeOK
  <2>2. DOMAIN Stream(r) = 1 .. Len(Stream(r))
    BY <2>1, StreamItems, LenProperties DEF ShutdownInv
  <2>3. \A i \in Closing(Stream(r)) :
          /\ i \in 1 .. Len(Stream(r)) /\ Stream(r)[i].kind = "ExecutionStopped"
          /\ Accurate(r, i)
    BY <2>1, <2>2 DEF Closing, ShutdownInv, ToldInv, Told
  <2>4. \A i, j \in Closing(Stream(r)) : i = j
    BY <2>3 DEF Accurate
  <2>5. Cardinality(Closing(Stream(r))) <= 1
    <3>1. CASE Closing(Stream(r)) = {}
      BY <3>1, FS_EmptySet
    <3>2. CASE Closing(Stream(r)) # {}
      <4>1. PICK i : Closing(Stream(r)) = {i}
        BY <2>4, <3>2
      <4> QED
        <5>1. Cardinality({i}) = 1
          BY FS_Singleton
        <5> QED
          BY <4>1, <5>1
    <3> QED
      BY <3>1, <3>2
  <2> QED
    BY <2>3, <2>5 DEF Accurate
<1> QED
  BY <1>1, ShutdownInvInit, ShutdownInvStep, PTL DEF ShutdownSpec
=============================================================================
