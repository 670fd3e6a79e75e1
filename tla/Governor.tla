------------------------------ MODULE Governor ------------------------------
(***************************************************************************)
(* The governor's request path: the router of crates/bridge/src/network.rs *)
(* over the handlers of crates/bridge/src/lib.rs.  One governor holds many *)
(* runs.  A request resolves its run (creating it on first reference),     *)
(* most check that the run has not stopped, and then a handler runs one or *)
(* two critical sections on the run's mutex.  Nothing holds that mutex     *)
(* between the check, the evaluation and the recording, and the tool       *)
(* itself executes with no lock at all, so the steps of different requests *)
(* interleave.                                                             *)
(*                                                                         *)
(* A client here is one request slot: an agent process or thread with at   *)
(* most one request outstanding.  The drain thread is the one action Drain *)
(* in this module; its shutdown protocol is module GovernorShutdown.       *)
(***************************************************************************)
EXTENDS RunState, FiniteSets

CONSTANTS
  Runs,         \* run ids a client may name
  Primary,      \* the run created at start, of the governor's own app
  Clients,      \* request slots
  Requests,     \* the requests a client may send
  Builtin,      \* the tools in the governor's own registry
  MaxRequests   \* bound: how many requests arrive in one behaviour

\* /health, /status and /events answer from a run, opened if need be.
Reads == {"read"}

\* /rule/evaluate asks the policy what it would say, and records nothing.
Consults == {"consult"}

Ops ==
  {"tool", "enter", "exit", "usage", "identify", "stop", "stopRule"} \cup Reads \cup Consults

RequestSpace ==
  [op : Ops, which : Identities,
   on : Tools \cup Names \cup StopReasons \cup {NoName, "BridgeUnavailable"}, tokens : Nat]

\* What the fields of a request may be, operation by operation.
WellFormed(q) ==
  /\ q.op \in {"tool", "stopRule"} => q.on \in Tools
  /\ q.op = "enter" => q.on \in Names
  /\ q.op \in {"usage", "identify"} => q.on \in Names \cup {NoName}

ASSUME GovernorAssumption ==
  /\ Primary \in Runs
  /\ IsFiniteSet(Clients) /\ Clients # {}
  /\ Requests \subseteq RequestSpace
  /\ \A q \in Requests : WellFormed(q)
  /\ Builtin \subseteq Tools
  /\ MaxRequests \in Nat

VARIABLES
  open,     \* the runs in the map; the state of a run outside it is the template's
  run,      \* run[r]: what the mutex of run r guards
  log,      \* log[r]: the lines of run r drained so far, in the order written
  pc,       \* pc[c]: where the request of client c stands
  call,     \* call[c]: that request and the run it resolved, once it has one
  issued,   \* how many requests have arrived
  mark      \* history variable: where run r stood when it stopped

vars == <<open, run, log, pc, call, issued, mark>>

\* A request waits at "gate" for the stopped check, at "evaluate" for the
\* policy, at a verdict for it to be recorded ("execute" is the verdict to
\* run the tool), and at "apply" for the one critical section of any other
\* handler.
Steps == {"idle", "gate", "evaluate", "ToolDenied", "RuleDenied", "execute", "apply"}

Calls == [run : Runs, q : Requests]

NoCall == [run |-> Primary, q |-> [op |-> "none"]]

\* The run a call works on, and what it asks.
RunOf(c) == call[c].run
Asked(c) == call[c].q

Marks == [seq : Nat, calls : Nat]

\* Everything a run has logged, drained or not.
Stream(r) == log[r] \o run[r].events

\* The calls allowed and not yet recorded.
Executing(r, t) ==
  {c \in Clients : pc[c] = "execute" /\ RunOf(c) = r /\ Asked(c).on = t}

\* The tool calls of a run that are past its stopped check.
Admitted(r) ==
  {c \in Clients :
     /\ pc[c] \in {"evaluate", "execute", "ToolDenied", "RuleDenied"}
     /\ RunOf(c) = r}
-----------------------------------------------------------------------------
TypeOK ==
  /\ open \in SUBSET Runs
  /\ run \in [Runs -> RunStates]
  /\ log \in [Runs -> Seq(Events)]
  /\ pc \in [Clients -> Steps]
  /\ call \in [Clients -> Calls \cup {NoCall}]
  /\ \A c \in Clients : pc[c] # "idle" => call[c] \in Calls
  /\ issued \in 0 .. MaxRequests
  /\ mark \in [Runs -> Marks]

\* The governor starts with its app's run open and its own identity recorded,
\* or headless with a placeholder for that run.
Init ==
  /\ open = {Primary}
  /\ \E first \in {FreshRun, PlaceholderRun}, name \in Names :
       run = [r \in Runs |->
                IF r = Primary THEN RecordIdentity(first, "governor", name) ELSE FreshRun]
  /\ log = [r \in Runs |-> <<>>]
  /\ pc = [c \in Clients |-> "idle"]
  /\ call = [c \in Clients |-> NoCall]
  /\ issued = 0
  /\ mark = [r \in Runs |-> [seq |-> 0, calls |-> 0]]

-----------------------------------------------------------------------------
(* Routing *)

\* The routes served on a stopped run: /stop and the reads by design, and
\* /agent/exit.
Ungated == {"stop", "stopRule", "exit"} \cup Reads

\* The fault of minting a run on every reference to it.
Resolve_Minting(r) == [run EXCEPT ![r] = FreshRun]

\* run_state: the run named by the header, from the template on first reference.
Resolve(r) == IF r \in open THEN run ELSE [run EXCEPT ![r] = FreshRun]

Arrive(c) ==
  /\ pc[c] = "idle"
  /\ issued < MaxRequests
  /\ issued' = issued + 1
  /\ \E r \in Runs, q \in Requests :
       /\ open' = open \cup {r}
       /\ run' = Resolve(r)
       /\ call' = [call EXCEPT ![c] = [run |-> r, q |-> q]]
       /\ pc' = [pc EXCEPT ![c] = IF q.op \in Ungated THEN "apply" ELSE "gate"]
  /\ UNCHANGED <<log, mark>>

\* A request is answered: its slot is free again.
Answered(c) ==
  /\ pc' = [pc EXCEPT ![c] = "idle"]
  /\ call' = [call EXCEPT ![c] = NoCall]

\* 410: the run has stopped.
Refuse(c) ==
  /\ pc[c] = "gate"
  /\ Stopped(run[RunOf(c)])
  /\ Answered(c)
  /\ UNCHANGED <<open, run, log, issued, mark>>

\* The fault of a tool route without the stopped check.
Admit_Ungated(c) ==
  /\ pc[c] = "gate"
  /\ pc' = [pc EXCEPT ![c] = IF Asked(c).op = "tool" THEN "evaluate" ELSE "apply"]
  /\ UNCHANGED <<open, run, log, call, issued, mark>>

\* The run is live: on to the handler, with the run's mutex released.
Admit(c) ==
  /\ pc[c] = "gate"
  /\ ~Stopped(run[RunOf(c)])
  /\ pc' = [pc EXCEPT ![c] = IF Asked(c).op = "tool" THEN "evaluate" ELSE "apply"]
  /\ UNCHANGED <<open, run, log, call, issued, mark>>

-----------------------------------------------------------------------------
(* The critical sections, each one step *)

\* Run r moves to state st; where it stood is noted if that stops it.
Commit(r, st) ==
  /\ run' = [run EXCEPT ![r] = st]
  /\ mark' = IF Stopped(st) /\ ~Stopped(run[r])
             THEN [mark EXCEPT ![r] = [seq |-> st.next_seq, calls |-> Len(st.history)]]
             ELSE mark
  /\ UNCHANGED <<open, log, issued>>

\* handle_tool_call, the policy: the counters are read, nothing is written,
\* and the verdict is acted on after the mutex is released.
Policy(c) ==
  /\ pc[c] = "evaluate"
  /\ LET verdict == Evaluate(run[RunOf(c)], Asked(c).on)
     IN  pc' = [pc EXCEPT ![c] = IF verdict = "Allow" THEN "execute" ELSE verdict]
  /\ UNCHANGED <<open, run, log, call, issued, mark>>

\* The fault of a denial logged in one critical section and stopped on in
\* another that never comes.
Deny_LoggedOnly(c) ==
  /\ pc[c] \in {"ToolDenied", "RuleDenied"}
  /\ Commit(RunOf(c), AppendEvent(run[RunOf(c)], pc[c], Asked(c).on, 0))
  /\ Answered(c)

Deny(c) ==
  /\ pc[c] \in {"ToolDenied", "RuleDenied"}
  /\ Commit(RunOf(c), RecordDenied(run[RunOf(c)], Asked(c).on, pc[c]))
  /\ Answered(c)

\* The registry ran the tool, or has no such tool: recorded, stopped or not,
\* under the cap or not.
Allow(c) ==
  /\ pc[c] = "execute"
  /\ Commit(RunOf(c), RecordAllowed(run[RunOf(c)], Asked(c).on))
  /\ Answered(c)

\* The registry's tool returned an error.
Fail(c) ==
  /\ pc[c] = "execute"
  /\ Asked(c).on \in Builtin
  /\ Commit(RunOf(c), RecordFailed(run[RunOf(c)], Asked(c).on))
  /\ Answered(c)

\* What each single-section handler does to the run.
Effect(st, q) ==
  CASE q.op = "enter"    -> EnterScope(st, q.on)
    [] q.op = "exit"     -> ExitScope(st)
    [] q.op = "usage"    -> RecordUsage(st, q.on, q.tokens)
    [] q.op = "identify" -> RecordIdentity(st, q.which, q.on)
    [] q.op = "stop"     -> ReportStop(st, q.on)
    [] q.op = "stopRule" -> ReportRuleDenied(st, q.on)
    [] q.op \in Reads \cup Consults -> st

Apply(c) ==
  /\ pc[c] = "apply"
  /\ Commit(RunOf(c), Effect(run[RunOf(c)], Asked(c)))
  /\ Answered(c)

\* The fault of a drain that leaves out the runs that stopped.
Drain_LiveOnly(r) ==
  /\ r \in open
  /\ ~Stopped(run[r])
  /\ run[r].events # <<>>
  /\ log' = [log EXCEPT ![r] = @ \o run[r].events]
  /\ run' = [run EXCEPT ![r] = TakeEvents(@)]
  /\ UNCHANGED <<open, pc, call, issued, mark>>

\* The drain thread takes what run r has buffered and writes it out.
Drain(r) ==
  /\ r \in open
  /\ run[r].events # <<>>
  /\ log' = [log EXCEPT ![r] = @ \o run[r].events]
  /\ run' = [run EXCEPT ![r] = TakeEvents(@)]
  /\ UNCHANGED <<open, pc, call, issued, mark>>

Handle(c) == Refuse(c) \/ Admit(c) \/ Policy(c) \/ Deny(c) \/ Allow(c) \/ Fail(c) \/ Apply(c)

Next ==
  \/ \E c \in Clients : Arrive(c)
  \/ \E c \in Clients : Handle(c)
  \/ \E r \in Runs : Drain(r)

\* A request that reached a handler finishes: no handler waits for anything
\* but a mutex nobody keeps, and the one builtin that waits on the network
\* gives up after 5 s.  The drain thread wakes every 250 ms.  Clients owe
\* nothing.
Fairness ==
  /\ \A c \in Clients : WF_vars(Handle(c))
  /\ \A r \in Runs : WF_vars(Drain(r))

Spec == Init /\ [][Next]_vars

FairSpec == Spec /\ Fairness
=============================================================================
