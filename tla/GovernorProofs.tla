---------------------------- MODULE GovernorProofs ----------------------------
(***************************************************************************)
(* Proofs about the governor's request path, for any number of runs,       *)
(* clients and tools and any interleaving with the drain thread: its types,*)
(* what the gap between evaluating and recording a call can cost (the two  *)
(* bounds by the number of clients, whose inductive invariants count the   *)
(* calls in the gap), that the log of a run has no gap and no repeat, what *)
(* the log tells of the verdict and the counters of its run, and that      *)
(* every run keeps the contract of module RunContract.                     *)
(***************************************************************************)
EXTENDS GovernorProperties, FiniteSetTheorems, SequenceTheorems, WellFoundedInduction, TLAPS

-----------------------------------------------------------------------------
(* The critical sections keep a run state well typed *)

\* What an event can be about.
Subjects == Tools \cup Names \cup StopReasons \cup {NoName}

LEMMA AppendEventType ==
  ASSUME NEW st \in RunStates, NEW kind \in EventKinds, NEW on \in Subjects,
         NEW tokens \in Nat
  PROVE  AppendEvent(st, kind, on, tokens) \in RunStates
<1> DEFINE e == [seq |-> st.next_seq, kind |-> kind, on |-> on, tokens |-> tokens]
<1>1. e \in Events
  BY DEF RunStates, Events, Subjects
<1>2. Append(st.events, e) \in Seq(Events)
  <2>1. st.events \in Seq(Events)
    BY DEF RunStates
  <2> QED
    BY <1>1, <2>1
<1>3. st.next_seq + 1 \in Nat
  BY DEF RunStates
<1> QED
  BY <1>2, <1>3 DEF AppendEvent, RunStates

LEMMA MarkStoppedType ==
  ASSUME NEW st \in RunStates, NEW reason \in StopReasons
  PROVE  MarkStopped(st, reason) \in RunStates
  BY DEF MarkStopped, Stopped, RunStates

LEMMA RecordIdentityType ==
  ASSUME NEW st \in RunStates, NEW which \in Identities, NEW name \in Names \cup {NoName}
  PROVE  RecordIdentity(st, which, name) \in RunStates
<1>1. CASE name = NoName \/ st.last[which] = name
  BY <1>1 DEF RecordIdentity
<1>2. CASE ~(name = NoName \/ st.last[which] = name)
  <2> DEFINE named == [st EXCEPT !.last[which] = name]
  <2>1. named \in RunStates
    BY DEF RunStates
  <2>2. which \in EventKinds /\ name \in Subjects
    BY DEF EventKinds, Subjects
  <2>3. AppendEvent(named, which, name, 0) \in RunStates
    BY <2>1, <2>2, AppendEventType
  <2> QED
    BY <1>2, <2>3 DEF RecordIdentity
<1> QED
  BY <1>1, <1>2

LEMMA RecordDeniedType ==
  ASSUME NEW st \in RunStates, NEW tool \in Tools, NEW verdict \in {"ToolDenied", "RuleDenied"}
  PROVE  RecordDenied(st, tool, verdict) \in RunStates
<1>1. AppendEvent(st, verdict, tool, 0) \in RunStates
  BY AppendEventType DEF EventKinds, Subjects
<1> QED
  BY <1>1, MarkStoppedType DEF RecordDenied, StopReasons, Reportable

LEMMA RecordAllowedType ==
  ASSUME NEW st \in RunStates, NEW tool \in Tools
  PROVE  RecordAllowed(st, tool) \in RunStates
<1> DEFINE counted == [st EXCEPT !.counts[tool] = @ + 1, !.history = Append(@, tool)]
<1>1. st.counts[tool] + 1 \in Nat /\ Append(st.history, tool) \in Seq(Tools)
  BY DEF RunStates
<1>2. counted \in RunStates
  BY <1>1 DEF RunStates
<1> HIDE DEF counted
<1>3. AppendEvent(counted, "ToolAllowed", tool, 0) \in RunStates
  BY <1>2, AppendEventType DEF EventKinds, Subjects
<1> QED
  BY <1>3 DEF RecordAllowed, counted

LEMMA RecordFailedType ==
  ASSUME NEW st \in RunStates, NEW tool \in Tools
  PROVE  RecordFailed(st, tool) \in RunStates
  BY AppendEventType DEF RecordFailed, EventKinds, Subjects

LEMMA EnterScopeType ==
  ASSUME NEW st \in RunStates, NEW name \in Names
  PROVE  EnterScope(st, name) \in RunStates
<1> DEFINE inside == [st EXCEPT !.stack = Append(@, name)]
<1>1. Append(st.stack, name) \in Seq(Names)
  BY DEF RunStates
<1>2. inside \in RunStates
  BY <1>1 DEF RunStates
<1> HIDE DEF inside
<1>3. AppendEvent(inside, "AgentScopeEntered", name, 0) \in RunStates
  BY <1>2, AppendEventType DEF EventKinds, Subjects
<1> QED
  BY <1>3 DEF EnterScope, inside

LEMMA ExitScopeType ==
  ASSUME NEW st \in RunStates
  PROVE  ExitScope(st) \in RunStates
<1>1. CASE st.stack = <<>>
  <2>1. AppendEvent(st, "AgentScopeExited", NoName, 0) \in RunStates
    BY AppendEventType DEF EventKinds, Subjects
  <2> QED
    BY <1>1, <2>1 DEF ExitScope
<1>2. CASE st.stack # <<>>
  <2> DEFINE outside == [st EXCEPT !.stack = SubSeq(@, 1, Len(@) - 1)]
  <2>1. st.stack \in Seq(Names)
    BY DEF RunStates
  <2>2. SubSeq(st.stack, 1, Len(st.stack) - 1) \in Seq(Names)
    BY <1>2, <2>1
  <2>3. st.stack[Len(st.stack)] \in Names
    BY <1>2, <2>1
  <2>4. outside \in RunStates
    BY <2>2 DEF RunStates
  <2> HIDE DEF outside
  <2>5. AppendEvent(outside, "AgentScopeExited", st.stack[Len(st.stack)], 0) \in RunStates
    BY <2>3, <2>4, AppendEventType DEF EventKinds, Subjects
  <2> QED
    BY <1>2, <2>5 DEF ExitScope, outside
<1> QED
  BY <1>1, <1>2

\* tokens_spent stays within its word.
LEMMA SpentType ==
  ASSUME NEW st \in RunStates, NEW total \in Nat
  PROVE  (st.tokens + total) % TokenWrap \in 0 .. (TokenWrap - 1)
  BY TokenAssumption DEF RunStates

LEMMA RecordUsageType ==
  ASSUME NEW st \in RunStates, NEW harness \in Names \cup {NoName}, NEW total \in Nat
  PROVE  RecordUsage(st, harness, total) \in RunStates
<1> DEFINE named == RecordIdentity(st, "harness", harness)
<1> DEFINE spent == [named EXCEPT !.tokens = (@ + total) % TokenWrap]
<1>1. named \in RunStates
  BY RecordIdentityType DEF Identities
<1> HIDE DEF named
<1>2. (named.tokens + total) % TokenWrap \in 0 .. (TokenWrap - 1)
  BY <1>1, SpentType
<1>3. spent \in RunStates
  BY <1>1, <1>2 DEF RunStates
<1> HIDE DEF spent
<1>4. AppendEvent(spent, "LlmUsageRecorded", NoName, total) \in RunStates
  BY <1>3, AppendEventType DEF EventKinds, Subjects
<1> QED
  BY <1>1, <1>4 DEF RecordUsage, named, spent

LEMMA ReportType ==
  ASSUME NEW st \in RunStates
  PROVE  /\ \A raw : ReportStop(st, raw) \in RunStates
         /\ \A tool \in Tools : ReportRuleDenied(st, tool) \in RunStates
<1>1. ASSUME NEW raw
      PROVE  ReportStop(st, raw) \in RunStates
  <2>1. ValidReason(raw) \in StopReasons
    BY DEF ValidReason, StopReasons
  <2> QED
    BY <2>1, MarkStoppedType DEF ReportStop
<1>2. ASSUME NEW tool \in Tools
      PROVE  ReportRuleDenied(st, tool) \in RunStates
  <2>1. AppendEvent(st, "RuleDenied", tool, 0) \in RunStates
    BY AppendEventType DEF EventKinds, Subjects
  <2> QED
    BY <2>1, MarkStoppedType DEF ReportRuleDenied, StopReasons, Reportable
<1> QED
  BY <1>1, <1>2

LEMMA TakeEventsType ==
  ASSUME NEW st \in RunStates
  PROVE  TakeEvents(st) \in RunStates
<1>1. <<>> \in Seq(Events)
  OBVIOUS
<1> QED
  BY <1>1 DEF TakeEvents, RunStates

LEMMA FreshRunType ==
  FreshRun \in RunStates /\ PlaceholderRun \in RunStates
<1>1. [seq |-> 0, kind |-> "ExecutionStarted", on |-> NoName, tokens |-> 0] \in Events
  BY DEF Events, EventKinds
<1>2. 0 \in 0 .. (TokenWrap - 1)
  BY TokenAssumption
<1>3. FreshRun \in RunStates
  BY <1>1, <1>2 DEF FreshRun, RunStates
<1>4. <<>> \in Seq(Events)
  OBVIOUS
<1> QED
  BY <1>3, <1>4 DEF PlaceholderRun, RunStates

LEMMA EffectType ==
  ASSUME NEW st \in RunStates, NEW q \in Requests, q.op # "tool"
  PROVE  Effect(st, q) \in RunStates
<1>1. /\ \/ q.op \in {"enter", "exit", "usage", "identify", "stop", "stopRule"}
         \/ q.op \in Reads \cup Consults
      /\ q.which \in Identities
      /\ q.tokens \in Nat
      /\ q.op = "stopRule" => q.on \in Tools
      /\ q.op = "enter" => q.on \in Names
      /\ q.op \in {"usage", "identify"} => q.on \in Names \cup {NoName}
  BY GovernorAssumption DEF RequestSpace, Ops, WellFormed
<1>2. CASE q.op = "enter"
  BY <1>1, <1>2, EnterScopeType DEF Effect
<1>3. CASE q.op = "exit"
  BY <1>1, <1>3, ExitScopeType DEF Effect
<1>4. CASE q.op = "usage"
  BY <1>1, <1>4, RecordUsageType DEF Effect
<1>5. CASE q.op = "identify"
  BY <1>1, <1>5, RecordIdentityType DEF Effect
<1>6. CASE q.op = "stop"
  BY <1>1, <1>6, ReportType DEF Effect
<1>7. CASE q.op = "stopRule"
  BY <1>1, <1>7, ReportType DEF Effect
<1>8. CASE q.op \in Reads \cup Consults
  BY <1>8 DEF Effect, Reads, Consults
<1> QED
  BY <1>1, <1>2, <1>3, <1>4, <1>5, <1>6, <1>7, <1>8

-----------------------------------------------------------------------------
(* Type correctness *)

ToolSteps == {"evaluate", "execute", "ToolDenied", "RuleDenied"}

\* A request in a handler is in the handler of its own operation.
InFlight ==
  \A c \in Clients :
    /\ pc[c] \in ToolSteps => Asked(c).op = "tool"
    /\ pc[c] = "apply" => Asked(c).op # "tool"

Typed == TypeOK /\ InFlight

LEMMA RequestType ==
  ASSUME TypeOK, NEW c \in Clients, pc[c] # "idle"
  PROVE  /\ RunOf(c) \in Runs
         /\ Asked(c) \in Requests
         /\ Asked(c).op = "tool" => Asked(c).on \in Tools
         /\ run[RunOf(c)] \in RunStates
<1>1. call[c] \in Calls
  BY DEF TypeOK
<1>2. RunOf(c) \in Runs /\ Asked(c) \in Requests
  BY <1>1 DEF Calls, RunOf, Asked
<1> QED
  BY <1>2, GovernorAssumption DEF WellFormed, TypeOK

\* A critical section that leaves a well typed state leaves the rest alone.
LEMMA CommitTyped ==
  ASSUME Typed, NEW c \in Clients, NEW st \in RunStates, pc[c] # "idle",
         Commit(RunOf(c), st), Answered(c)
  PROVE  Typed'
<1>1. RunOf(c) \in Runs
  BY RequestType DEF Typed
<1>2. run' \in [Runs -> RunStates]
  BY <1>1 DEF Typed, TypeOK, Commit
<1>3. mark' \in [Runs -> Marks]
  <2>1. [seq |-> st.next_seq, calls |-> Len(st.history)] \in Marks
    BY DEF RunStates, Marks
  <2> QED
    BY <1>1, <2>1 DEF Typed, TypeOK, Commit
<1>4. /\ pc' \in [Clients -> Steps]
      /\ call' \in [Clients -> Calls \cup {NoCall}]
      /\ \A d \in Clients : pc'[d] # "idle" => pc'[d] = pc[d] /\ call'[d] = call[d]
  BY DEF Typed, TypeOK, Answered, Steps
<1>5. TypeOK'
  BY <1>2, <1>3, <1>4 DEF Typed, TypeOK, Commit
<1>6. InFlight'
  BY <1>4 DEF Typed, InFlight, Asked, ToolSteps
<1> QED
  BY <1>5, <1>6 DEF Typed

LEMMA TypedInit == Init => Typed
<1> SUFFICES ASSUME Init
             PROVE  Typed
  OBVIOUS
<1>1. run \in [Runs -> RunStates]
  <2>1. PICK first \in {FreshRun, PlaceholderRun}, name \in Names :
          run = [r \in Runs |->
                   IF r = Primary THEN RecordIdentity(first, "governor", name) ELSE FreshRun]
    BY DEF Init
  <2>2. RecordIdentity(first, "governor", name) \in RunStates
    BY FreshRunType, RecordIdentityType DEF Identities
  <2> QED
    BY <2>1, <2>2, FreshRunType
<1>2. log \in [Runs -> Seq(Events)]
  <2>1. <<>> \in Seq(Events)
    OBVIOUS
  <2> QED
    BY <2>1 DEF Init
<1>3. TypeOK
  BY <1>1, <1>2, GovernorAssumption DEF Init, TypeOK, Steps, Marks
<1>4. InFlight
  BY DEF Init, InFlight, ToolSteps
<1> QED
  BY <1>3, <1>4 DEF Typed

LEMMA TypedStep == Typed /\ [Next]_vars => Typed'
<1> SUFFICES ASSUME Typed, [Next]_vars
             PROVE  Typed'
  OBVIOUS
<1> USE DEF Typed
<1>1. ASSUME NEW c \in Clients, Arrive(c)
      PROVE  Typed'
  <2>1. PICK r \in Runs, q \in Requests :
          /\ open' = open \cup {r}
          /\ run' = Resolve(r)
          /\ call' = [call EXCEPT ![c] = [run |-> r, q |-> q]]
          /\ pc' = [pc EXCEPT ![c] = IF q.op \in Ungated THEN "apply" ELSE "gate"]
    BY <1>1 DEF Arrive
  <2>2. run' \in [Runs -> RunStates]
    BY <2>1, FreshRunType DEF Resolve, TypeOK
  <2>3. [run |-> r, q |-> q] \in Calls
    BY <2>1 DEF Calls
  <2>4. issued' \in 0 .. MaxRequests
    BY <1>1, GovernorAssumption DEF Arrive, TypeOK
  <2>5. TypeOK'
    BY <1>1, <2>1, <2>2, <2>3, <2>4 DEF Arrive, TypeOK, Steps
  <2>6. InFlight'
    BY <2>1 DEF InFlight, Asked, ToolSteps, Ungated, Reads, TypeOK
  <2> QED
    BY <2>5, <2>6
<1>2. ASSUME NEW c \in Clients, Refuse(c)
      PROVE  Typed'
  <2>1. TypeOK'
    BY <1>2 DEF Refuse, Answered, TypeOK, Steps
  <2>2. InFlight'
    BY <1>2 DEF Refuse, Answered, InFlight, Asked, ToolSteps, TypeOK
  <2> QED
    BY <2>1, <2>2
<1>3. ASSUME NEW c \in Clients, Admit(c)
      PROVE  Typed'
  <2>1. TypeOK'
    BY <1>3 DEF Admit, TypeOK, Steps
  <2>2. InFlight'
    BY <1>3 DEF Admit, InFlight, Asked, ToolSteps, TypeOK
  <2> QED
    BY <2>1, <2>2
<1>4. ASSUME NEW c \in Clients, Policy(c)
      PROVE  Typed'
  <2>1. PICK v \in {"execute", "ToolDenied", "RuleDenied"} : pc' = [pc EXCEPT ![c] = v]
    <3>1. Evaluate(run[RunOf(c)], Asked(c).on) \in {"ToolDenied", "RuleDenied", "Allow"}
      BY DEF Evaluate
    <3> QED
      BY <1>4, <3>1 DEF Policy
  <2>2. TypeOK'
    BY <1>4, <2>1 DEF Policy, TypeOK, Steps
  <2>3. InFlight'
    BY <1>4, <2>1 DEF Policy, InFlight, Asked, ToolSteps, TypeOK
  <2> QED
    BY <2>2, <2>3
<1>5. ASSUME NEW c \in Clients, Deny(c)
      PROVE  Typed'
  <2>1. Asked(c).on \in Tools /\ run[RunOf(c)] \in RunStates /\ pc[c] # "idle"
    BY <1>5, RequestType DEF Deny, InFlight, ToolSteps
  <2>2. RecordDenied(run[RunOf(c)], Asked(c).on, pc[c]) \in RunStates
    BY <1>5, <2>1, RecordDeniedType DEF Deny
  <2> QED
    BY <1>5, <2>1, <2>2, CommitTyped DEF Deny
<1>6. ASSUME NEW c \in Clients, Allow(c)
      PROVE  Typed'
  <2>1. Asked(c).on \in Tools /\ run[RunOf(c)] \in RunStates /\ pc[c] # "idle"
    BY <1>6, RequestType DEF Allow, InFlight, ToolSteps
  <2>2. RecordAllowed(run[RunOf(c)], Asked(c).on) \in RunStates
    BY <2>1, RecordAllowedType
  <2> QED
    BY <1>6, <2>1, <2>2, CommitTyped DEF Allow
<1>7. ASSUME NEW c \in Clients, Fail(c)
      PROVE  Typed'
  <2>1. Asked(c).on \in Tools /\ run[RunOf(c)] \in RunStates /\ pc[c] # "idle"
    BY <1>7, RequestType DEF Fail, InFlight, ToolSteps
  <2>2. RecordFailed(run[RunOf(c)], Asked(c).on) \in RunStates
    BY <2>1, RecordFailedType
  <2> QED
    BY <1>7, <2>1, <2>2, CommitTyped DEF Fail
<1>8. ASSUME NEW c \in Clients, Apply(c)
      PROVE  Typed'
  <2>1. /\ Asked(c) \in Requests /\ Asked(c).op # "tool"
        /\ run[RunOf(c)] \in RunStates /\ pc[c] # "idle"
    BY <1>8, RequestType DEF Apply, InFlight
  <2>2. Effect(run[RunOf(c)], Asked(c)) \in RunStates
    BY <2>1, EffectType
  <2> QED
    BY <1>8, <2>1, <2>2, CommitTyped DEF Apply
<1>9. ASSUME NEW r \in Runs, Drain(r)
      PROVE  Typed'
  <2>1. run' \in [Runs -> RunStates]
    BY <1>9, TakeEventsType DEF Drain, TypeOK
  <2>2. log[r] \o run[r].events \in Seq(Events)
    BY DEF TypeOK, RunStates
  <2>3. log' \in [Runs -> Seq(Events)]
    BY <1>9, <2>2 DEF Drain, TypeOK
  <2> QED
    BY <1>9, <2>1, <2>3 DEF Drain, TypeOK, InFlight, Asked
<1>10. CASE UNCHANGED vars
  BY <1>10 DEF vars, TypeOK, InFlight, Asked
<1> QED
  BY <1>1, <1>2, <1>3, <1>4, <1>5, <1>6, <1>7, <1>8, <1>9, <1>10 DEF Next, Handle

\* Every reachable state is well typed: the counters stay natural numbers,
\* tokens_spent stays in its word, a run only ever has one of the known stop
\* reasons whatever a client sends to /stop, and a request in a tool handler
\* asks for a tool.
THEOREM TypeCorrect == Spec => []Typed
<1>1. Init => Typed
  BY TypedInit
<1>2. Typed /\ [Next]_vars => Typed'
  BY TypedStep
<1> QED
  BY <1>1, <1>2, PTL DEF Spec

\* TypeOK is the part of it the runs check.
THEOREM TypeInvariant == Spec => []TypeOK
<1>1. Typed => TypeOK
  BY DEF Typed
<1> QED
  BY <1>1, TypeCorrect, PTL

-----------------------------------------------------------------------------
(* What the critical sections do to the ledger of a run *)

\* The calls of st2 are those of st, and a stop of st stands.
SameCalls(st, st2) ==
  /\ st2.counts = st.counts
  /\ st2.history = st.history
  /\ Stopped(st) => st2.execution = st.execution

LEMMA SameCallsAppend ==
  ASSUME NEW st \in RunStates, NEW kind, NEW on, NEW tokens
  PROVE  /\ SameCalls(st, AppendEvent(st, kind, on, tokens))
         /\ AppendEvent(st, kind, on, tokens).execution = st.execution
  BY DEF SameCalls, AppendEvent, RunStates

LEMMA SameCallsMark ==
  ASSUME NEW st \in RunStates, NEW reason
  PROVE  SameCalls(st, MarkStopped(st, reason))
  BY DEF SameCalls, MarkStopped, Stopped, RunStates

LEMMA SameCallsIdentity ==
  ASSUME NEW st \in RunStates, NEW which \in Identities, NEW name
  PROVE  SameCalls(st, RecordIdentity(st, which, name))
  BY DEF SameCalls, RecordIdentity, AppendEvent, RunStates

LEMMA SameCallsDenied ==
  ASSUME NEW st \in RunStates, NEW tool \in Tools, NEW verdict \in {"ToolDenied", "RuleDenied"}
  PROVE  /\ SameCalls(st, RecordDenied(st, tool, verdict))
         /\ SameCalls(st, RecordFailed(st, tool))
         /\ SameCalls(st, ReportRuleDenied(st, tool))
  BY DEF SameCalls, RecordDenied, RecordFailed, ReportRuleDenied,
         MarkStopped, AppendEvent, Stopped, RunStates

LEMMA SameCallsEffect ==
  ASSUME NEW st \in RunStates, NEW q \in Requests, q.op # "tool"
  PROVE  SameCalls(st, Effect(st, q))
<1>1. /\ \/ q.op \in {"enter", "exit", "usage", "identify", "stop", "stopRule"}
         \/ q.op \in Reads \cup Consults
      /\ q.which \in Identities
      /\ q.op = "stopRule" => q.on \in Tools
      /\ q.op \in {"usage", "identify"} => q.on \in Names \cup {NoName}
  BY GovernorAssumption DEF RequestSpace, Ops, WellFormed
<1>2. CASE q.op = "enter"
  BY <1>2 DEF Effect, Reads, Consults, EnterScope, SameCalls, AppendEvent, Stopped, RunStates
<1>3. CASE q.op = "exit"
  BY <1>3 DEF Effect, Reads, Consults, ExitScope, SameCalls, AppendEvent, Stopped, RunStates
<1>4. CASE q.op = "usage"
  <2> DEFINE named == RecordIdentity(st, "harness", q.on)
  <2>1. named \in RunStates /\ SameCalls(st, named)
    BY <1>1, <1>4, RecordIdentityType, SameCallsIdentity DEF Identities
  <2> HIDE DEF named
  <2>2. \/ Effect(st, q) = named
        \/ Effect(st, q) = AppendEvent([named EXCEPT !.tokens = (@ + q.tokens) % TokenWrap],
                                       "LlmUsageRecorded", NoName, q.tokens)
    BY <1>4 DEF Effect, Reads, Consults, RecordUsage, named
  <2> QED
    BY <2>1, <2>2 DEF SameCalls, AppendEvent, Stopped, RunStates
<1>5. CASE q.op = "identify"
  BY <1>1, <1>5, SameCallsIdentity DEF Effect, Reads, Consults
<1>6. CASE q.op = "stop"
  BY <1>6, SameCallsMark DEF Effect, Reads, Consults, ReportStop
<1>7. CASE q.op = "stopRule"
  BY <1>1, <1>7, SameCallsDenied DEF Effect, Reads, Consults
<1>8. CASE q.op \in Reads \cup Consults
  BY <1>8 DEF Effect, Reads, Consults, SameCalls
<1> QED
  BY <1>1, <1>2, <1>3, <1>4, <1>5, <1>6, <1>7, <1>8

LEMMA AllowedCounts ==
  ASSUME NEW st \in RunStates, NEW tool \in Tools
  PROVE  LET st2 == RecordAllowed(st, tool)
         IN  /\ st2.counts = [st.counts EXCEPT ![tool] = @ + 1]
             /\ Len(st2.history) = Len(st.history) + 1
             /\ st2.execution = st.execution
  BY DEF RecordAllowed, AppendEvent, RunStates

-----------------------------------------------------------------------------
(* Counting clients *)

LEMMA ClientCount ==
  ASSUME NEW S \in SUBSET Clients, NEW T \in SUBSET Clients, NEW c \in Clients
  PROVE  /\ Cardinality(S) \in Nat
         /\ Cardinality(Clients) \in Nat /\ Cardinality(Clients) >= 1
         /\ c \notin S => Cardinality(S) <= Cardinality(Clients) - 1
         /\ c \notin S /\ T = S \cup {c} => Cardinality(T) = Cardinality(S) + 1
         /\ c \in S /\ T = S \ {c} => Cardinality(T) = Cardinality(S) - 1
         /\ T \subseteq S => Cardinality(T) <= Cardinality(S)
<1>1. IsFiniteSet(Clients)
  BY GovernorAssumption
<1>2. IsFiniteSet(S) /\ IsFiniteSet(T)
  BY <1>1, FS_Subset
<1>3. Cardinality(S) \in Nat /\ Cardinality(T) \in Nat /\ Cardinality(Clients) \in Nat
  BY <1>1, <1>2, FS_CardinalityType
<1>4. Cardinality(Clients \ {c}) = Cardinality(Clients) - 1 /\ IsFiniteSet(Clients \ {c})
  BY <1>1, FS_RemoveElement
<1>5. c \notin S => Cardinality(S) <= Cardinality(Clients) - 1
  <2>1. c \notin S => S \in SUBSET (Clients \ {c})
    OBVIOUS
  <2> QED
    BY <1>4, <2>1, FS_Subset
<1>6. Cardinality(Clients) >= 1
  BY <1>1, <1>3, FS_EmptySet
<1>7. T \subseteq S => Cardinality(T) <= Cardinality(S)
  BY <1>2, FS_Subset
<1>8. c \notin S /\ T = S \cup {c} => Cardinality(T) = Cardinality(S) + 1
  BY <1>2, FS_AddElement
<1>9. c \in S /\ T = S \ {c} => Cardinality(T) = Cardinality(S) - 1
  BY <1>2, FS_RemoveElement
<1> QED
  BY <1>3, <1>5, <1>6, <1>7, <1>8, <1>9

\* A step of one client leaves the others where they are.
LEMMA OthersStay ==
  ASSUME Typed, NEW c \in Clients, Arrive(c) \/ Handle(c)
  PROVE  \A d \in Clients : d # c => pc'[d] = pc[d] /\ call'[d] = call[d]
<1>1. pc \in [Clients -> Steps] /\ call \in [Clients -> Calls \cup {NoCall}]
  BY DEF Typed, TypeOK
<1>2. CASE Arrive(c)
  BY <1>1, <1>2 DEF Arrive
<1>3. CASE Handle(c)
  BY <1>1, <1>3 DEF Handle, Refuse, Admit, Policy, Deny, Allow, Fail, Apply, Answered
<1> QED
  BY <1>2, <1>3

-----------------------------------------------------------------------------
(* The cap *)

\* The calls recorded and the calls in the gap, together.  A tool capped at
\* zero never gets into the gap.
CapKept(r, t) ==
  IF MaxCalls[t] = 0
  THEN run[r].counts[t] = 0 /\ Executing(r, t) = {}
  ELSE Cardinality(Executing(r, t)) + run[r].counts[t]
         <= MaxCalls[t] + Cardinality(Clients) - 1

CapInv == \A r \in Runs, t \in Capped : CapKept(r, t)

LEMMA CapTypes ==
  ASSUME Typed, NEW r \in Runs, NEW t \in Capped
  PROVE  /\ run[r].counts[t] \in Nat
         /\ t \in Tools
         /\ MaxCalls[t] \in Nat
         /\ Executing(r, t) \in SUBSET Clients
  BY ToolsAssumption DEF Typed, TypeOK, RunStates, Executing

\* No call more recorded and none more in the gap.
LEMMA CapQuiet ==
  ASSUME Typed, Typed', NEW r \in Runs, NEW t \in Capped, CapKept(r, t),
         run'[r].counts[t] <= run[r].counts[t],
         Executing(r, t)' \subseteq Executing(r, t)
  PROVE  CapKept(r, t)'
<1>1. /\ run[r].counts[t] \in Nat /\ MaxCalls[t] \in Nat
      /\ Executing(r, t) \in SUBSET Clients
  BY CapTypes
<1>2. run'[r].counts[t] \in Nat
  BY ToolsAssumption DEF Typed, TypeOK, RunStates
<1>3. Executing(r, t)' \in SUBSET Clients
  BY DEF Executing
<1>4. PICK c \in Clients : TRUE
  BY GovernorAssumption
<1>5. /\ Cardinality(Executing(r, t)) \in Nat /\ Cardinality(Executing(r, t)') \in Nat
      /\ Cardinality(Clients) \in Nat
      /\ Cardinality(Executing(r, t)') <= Cardinality(Executing(r, t))
  BY <1>1, <1>3, <1>4, ClientCount
<1>6. CASE MaxCalls[t] = 0
  BY <1>1, <1>2, <1>6 DEF CapKept
<1>7. CASE MaxCalls[t] # 0
  BY <1>1, <1>2, <1>5, <1>7 DEF CapKept
<1> QED
  BY <1>6, <1>7

\* A critical section that records no call.
LEMMA CapCommit ==
  ASSUME Typed, Typed', NEW c \in Clients, pc[c] # "idle", NEW st,
         SameCalls(run[RunOf(c)], st), Commit(RunOf(c), st), Answered(c),
         NEW r \in Runs, NEW t \in Capped, CapKept(r, t)
  PROVE  CapKept(r, t)'
<1>1. run'[r].counts[t] <= run[r].counts[t]
  <2>1. run[r].counts[t] \in Nat
    BY CapTypes
  <2>2. run'[r].counts = run[r].counts
    BY DEF Commit, SameCalls, Typed, TypeOK
  <2> QED
    BY <2>1, <2>2
<1>2. Executing(r, t)' \subseteq Executing(r, t)
  BY DEF Answered, Executing, RunOf, Asked, Typed, TypeOK
<1> QED
  BY <1>1, <1>2, CapQuiet

LEMMA CapStep == Typed /\ CapInv /\ [Next]_vars => CapInv'
<1> SUFFICES ASSUME Typed, CapInv, [Next]_vars,
                    NEW r \in Runs, NEW t \in Capped
             PROVE  CapKept(r, t)'
  BY DEF CapInv
<1>1. Typed'
  BY TypedStep
<1>2. CapKept(r, t)
  BY DEF CapInv
<1>3. /\ run[r].counts[t] \in Nat /\ MaxCalls[t] \in Nat
      /\ t \in Tools /\ Executing(r, t) \in SUBSET Clients
  BY CapTypes
<1>4. pc \in [Clients -> Steps] /\ run \in [Runs -> RunStates]
  BY DEF Typed, TypeOK
<1>5. ASSUME NEW c \in Clients, Arrive(c)
      PROVE  CapKept(r, t)'
  <2>1. run'[r] = run[r] \/ run'[r] = FreshRun
    BY <1>4, <1>5 DEF Arrive, Resolve
  <2>2. run'[r].counts[t] <= run[r].counts[t]
    BY <1>3, <2>1 DEF FreshRun
  <2>3. Executing(r, t)' \subseteq Executing(r, t)
    BY <1>4, <1>5, OthersStay DEF Arrive, Executing, RunOf, Asked
  <2> QED
    BY <1>1, <1>2, <2>2, <2>3, CapQuiet
<1>6. ASSUME NEW c \in Clients, Refuse(c) \/ Admit(c)
      PROVE  CapKept(r, t)'
  <2>1. run' = run
    BY <1>6 DEF Refuse, Admit
  <2>2. Executing(r, t)' \subseteq Executing(r, t)
    BY <1>4, <1>6, OthersStay DEF Handle, Refuse, Admit, Answered, Executing, RunOf, Asked
  <2> QED
    BY <1>1, <1>2, <1>3, <2>1, <2>2, CapQuiet
<1>7. ASSUME NEW c \in Clients, Policy(c)
      PROVE  CapKept(r, t)'
  <2>1. run' = run /\ call' = call
    BY <1>7 DEF Policy
  <2>2. CASE RunOf(c) = r /\ Asked(c).on = t /\ pc'[c] = "execute"
    <3>1. Evaluate(run[r], t) = "Allow"
      BY <1>4, <1>7, <2>2 DEF Policy, Evaluate
    <3>2. run[r].counts[t] < MaxCalls[t]
      BY <1>3, <3>1 DEF Evaluate, OverCap
    <3>3. c \notin Executing(r, t) /\ Executing(r, t)' = Executing(r, t) \cup {c}
      BY <1>4, <1>7, <2>2, OthersStay DEF Handle, Policy, Executing, RunOf, Asked
    <3>4. Executing(r, t)' \in SUBSET Clients
      BY DEF Executing
    <3>5. /\ Cardinality(Executing(r, t)) \in Nat /\ Cardinality(Clients) \in Nat
          /\ Cardinality(Executing(r, t)) <= Cardinality(Clients) - 1
          /\ Cardinality(Executing(r, t)') = Cardinality(Executing(r, t)) + 1
      BY <1>3, <3>3, <3>4, ClientCount
    <3> QED
      BY <1>3, <2>1, <3>2, <3>5 DEF CapKept
  <2>3. CASE ~(RunOf(c) = r /\ Asked(c).on = t /\ pc'[c] = "execute")
    <3>1. Executing(r, t)' \subseteq Executing(r, t)
      BY <1>4, <1>7, <2>1, <2>3, OthersStay DEF Handle, Executing, RunOf, Asked
    <3> QED
      BY <1>1, <1>2, <1>3, <2>1, <3>1, CapQuiet
  <2> QED
    BY <2>2, <2>3
<1>8. ASSUME NEW c \in Clients, Deny(c)
      PROVE  CapKept(r, t)'
  <2>1. Asked(c).on \in Tools /\ run[RunOf(c)] \in RunStates /\ pc[c] # "idle"
    BY <1>8, RequestType DEF Deny, Typed, InFlight, ToolSteps
  <2>2. SameCalls(run[RunOf(c)], RecordDenied(run[RunOf(c)], Asked(c).on, pc[c]))
    BY <1>8, <2>1, SameCallsDenied DEF Deny
  <2> QED
    BY <1>1, <1>2, <1>8, <2>1, <2>2, CapCommit DEF Deny
<1>9. ASSUME NEW c \in Clients, Fail(c)
      PROVE  CapKept(r, t)'
  <2>1. Asked(c).on \in Tools /\ run[RunOf(c)] \in RunStates /\ pc[c] # "idle"
    BY <1>9, RequestType DEF Fail, Typed, InFlight, ToolSteps
  <2>2. SameCalls(run[RunOf(c)], RecordFailed(run[RunOf(c)], Asked(c).on))
    BY <2>1, SameCallsDenied
  <2> QED
    BY <1>1, <1>2, <1>9, <2>1, <2>2, CapCommit DEF Fail
<1>10. ASSUME NEW c \in Clients, Apply(c)
       PROVE  CapKept(r, t)'
  <2>1. /\ Asked(c) \in Requests /\ Asked(c).op # "tool"
        /\ run[RunOf(c)] \in RunStates /\ pc[c] # "idle"
    BY <1>10, RequestType DEF Apply, Typed, InFlight
  <2>2. SameCalls(run[RunOf(c)], Effect(run[RunOf(c)], Asked(c)))
    BY <2>1, SameCallsEffect
  <2> QED
    BY <1>1, <1>2, <1>10, <2>1, <2>2, CapCommit DEF Apply
<1>11. ASSUME NEW c \in Clients, Allow(c)
       PROVE  CapKept(r, t)'
  <2>1. Asked(c).on \in Tools /\ run[RunOf(c)] \in RunStates /\ pc[c] = "execute"
    BY <1>11, RequestType DEF Allow, Typed, InFlight, ToolSteps
  <2>2. run' = [run EXCEPT ![RunOf(c)] = RecordAllowed(run[RunOf(c)], Asked(c).on)]
    BY <1>11 DEF Allow, Commit
  <2>3. RecordAllowed(run[RunOf(c)], Asked(c).on).counts
          = [run[RunOf(c)].counts EXCEPT ![Asked(c).on] = @ + 1]
    BY <2>1, AllowedCounts
  <2>4. run[r].counts \in [Tools -> Nat]
    BY <1>4 DEF RunStates
  <2>5. pc'[c] = "idle" /\ \A d \in Clients : d # c => pc'[d] = pc[d] /\ call'[d] = call[d]
    BY <1>4, <1>11, OthersStay DEF Handle, Allow, Answered
  <2>6. CASE RunOf(c) = r /\ Asked(c).on = t
    <3>1. run'[r].counts[t] = run[r].counts[t] + 1
      BY <1>3, <1>4, <2>2, <2>3, <2>4, <2>6
    <3>2. c \in Executing(r, t) /\ Executing(r, t)' = Executing(r, t) \ {c}
      BY <2>1, <2>5, <2>6 DEF Executing, RunOf, Asked
    <3>3. Executing(r, t)' \in SUBSET Clients
      BY DEF Executing
    <3>4. /\ Cardinality(Executing(r, t)) \in Nat
          /\ Cardinality(Clients) \in Nat
          /\ Cardinality(Executing(r, t)') = Cardinality(Executing(r, t)) - 1
      BY <1>3, <3>2, <3>3, ClientCount
    <3> QED
      BY <1>2, <1>3, <3>1, <3>2, <3>4 DEF CapKept
  <2>7. CASE ~(RunOf(c) = r /\ Asked(c).on = t)
    <3>1. run'[r].counts[t] = run[r].counts[t]
      BY <1>3, <1>4, <2>2, <2>3, <2>4, <2>7
    <3>2. Executing(r, t)' \subseteq Executing(r, t)
      BY <2>5 DEF Executing, RunOf, Asked
    <3> QED
      BY <1>1, <1>2, <1>3, <3>1, <3>2, CapQuiet
  <2> QED
    BY <2>6, <2>7
<1>12. ASSUME NEW s \in Runs, Drain(s)
       PROVE  CapKept(r, t)'
  <2>1. run'[r].counts = run[r].counts
    BY <1>4, <1>12 DEF Drain, TakeEvents, RunStates
  <2>2. Executing(r, t)' = Executing(r, t)
    BY <1>12 DEF Drain, Executing, RunOf, Asked
  <2> QED
    BY <1>1, <1>2, <1>3, <2>1, <2>2, CapQuiet
<1>13. CASE UNCHANGED vars
  BY <1>2, <1>13 DEF vars, CapKept, Executing, RunOf, Asked
<1> QED
  BY <1>5, <1>6, <1>7, <1>8, <1>9, <1>10, <1>11, <1>12, <1>13 DEF Next, Handle

\* No run starts with a call recorded, or stopped.
LEMMA InitialRuns ==
  ASSUME Init, NEW r \in Runs
  PROVE  /\ \A t \in Tools : run[r].counts[t] = 0
         /\ run[r].execution = Running
<1>1. PICK first \in {FreshRun, PlaceholderRun}, name \in Names :
        run = [s \in Runs |->
                 IF s = Primary THEN RecordIdentity(first, "governor", name) ELSE FreshRun]
  BY DEF Init
<1>2. /\ first.counts = [t \in Tools |-> 0] /\ FreshRun.counts = [t \in Tools |-> 0]
      /\ first.execution = Running /\ FreshRun.execution = Running
  <2>1. FreshRun.counts = [t \in Tools |-> 0] /\ FreshRun.execution = Running
    BY DEF FreshRun
  <2>2. /\ PlaceholderRun.counts = FreshRun.counts
        /\ PlaceholderRun.execution = FreshRun.execution
    BY FreshRunType DEF PlaceholderRun, RunStates
  <2> QED
    BY <2>1, <2>2
<1>3. first \in RunStates
  BY FreshRunType
<1>4. SameCalls(first, RecordIdentity(first, "governor", name))
  BY <1>3, SameCallsIdentity DEF Identities
<1>5. RecordIdentity(first, "governor", name).execution = first.execution
  BY <1>3 DEF RecordIdentity, AppendEvent, RunStates
<1> QED
  BY <1>1, <1>2, <1>4, <1>5 DEF SameCalls

LEMMA CapInit == Init => CapInv
<1> SUFFICES ASSUME Init, NEW r \in Runs, NEW t \in Capped
             PROVE  CapKept(r, t)
  BY DEF CapInv
<1>1. t \in Tools /\ MaxCalls[t] \in Nat
  BY ToolsAssumption
<1>2. run[r].counts[t] = 0
  BY <1>1, InitialRuns
<1>3. Executing(r, t) = {}
  BY DEF Init, Executing
<1>4. PICK c \in Clients : TRUE
  BY GovernorAssumption
<1>5. Cardinality(Clients) \in Nat /\ Cardinality(Clients) >= 1
  BY <1>4, ClientCount
<1> QED
  BY <1>1, <1>2, <1>3, <1>5, FS_EmptySet DEF CapKept

\* However many clients call at once, a cap is overshot by at most one call
\* for each client but one, and a tool capped at zero is never recorded:
\* handle_tool_call evaluates in one critical section and counts in another,
\* and nothing else stands between the two.
THEOREM CapOvershoot == Spec => []CapOvershootBounded
<1>1. Typed /\ CapInv => CapOvershootBounded
  <2> SUFFICES ASSUME Typed, CapInv, NEW r \in Runs, NEW t \in Capped
               PROVE  run[r].counts[t] <=
                        IF MaxCalls[t] = 0 THEN 0
                        ELSE MaxCalls[t] + Cardinality(Clients) - 1
    BY DEF CapOvershootBounded
  <2>1. /\ run[r].counts[t] \in Nat /\ MaxCalls[t] \in Nat
        /\ Executing(r, t) \in SUBSET Clients
    BY CapTypes
  <2>2. PICK c \in Clients : TRUE
    BY GovernorAssumption
  <2>3. Cardinality(Executing(r, t)) \in Nat /\ Cardinality(Clients) \in Nat
    BY <2>1, <2>2, ClientCount
  <2>4. CapKept(r, t)
    BY DEF CapInv
  <2> QED
    BY <2>1, <2>3, <2>4 DEF CapKept
<1>2. Init => CapInv
  BY CapInit
<1>3. Typed /\ CapInv /\ [Next]_vars => CapInv'
  BY CapStep
<1> QED
  BY <1>1, <1>2, <1>3, TypeCorrect, PTL DEF Spec

-----------------------------------------------------------------------------
(* The calls that outlive a stop *)

\* The calls recorded since the stop and the calls past the stopped check,
\* together.
LateKept(r) ==
  Stopped(run[r]) =>
    Cardinality(Admitted(r)) + (Len(run[r].history) - mark[r].calls)
      <= Cardinality(Clients) - 1

LateInv == \A r \in Runs : LateKept(r)

LEMMA LateTypes ==
  ASSUME Typed, NEW r \in Runs
  PROVE  /\ Len(run[r].history) \in Nat /\ mark[r].calls \in Nat
         /\ Admitted(r) \in SUBSET Clients
         /\ Cardinality(Admitted(r)) \in Nat /\ Cardinality(Clients) \in Nat
<1>1. Admitted(r) \in SUBSET Clients
  BY DEF Admitted
<1>2. PICK c \in Clients : TRUE
  BY GovernorAssumption
<1>3. Cardinality(Admitted(r)) \in Nat /\ Cardinality(Clients) \in Nat
  BY <1>1, <1>2, ClientCount
<1> QED
  BY <1>1, <1>3 DEF Typed, TypeOK, RunStates, Marks

\* A step after which a run is stopped only if it was, that records no call of
\* it, moves no mark and lets no call of it past the check.
LEMMA LateQuiet ==
  ASSUME Typed, Typed', NEW r \in Runs, LateKept(r),
         Stopped(run'[r]) => Stopped(run[r]) /\ run'[r].history = run[r].history,
         Stopped(run'[r]) => mark'[r] = mark[r],
         Stopped(run'[r]) => Admitted(r)' \subseteq Admitted(r)
  PROVE  LateKept(r)'
<1>1. SUFFICES ASSUME Stopped(run'[r])
               PROVE  LateKept(r)'
  BY DEF LateKept, Stopped
<1>2. /\ Len(run[r].history) \in Nat /\ mark[r].calls \in Nat
      /\ Admitted(r) \in SUBSET Clients
      /\ Cardinality(Admitted(r)) \in Nat /\ Cardinality(Clients) \in Nat
  BY LateTypes
<1>3. Admitted(r)' \in SUBSET Clients
  BY DEF Admitted
<1>4. PICK c \in Clients : TRUE
  BY GovernorAssumption
<1>5. /\ Cardinality(Admitted(r)') \in Nat
      /\ Cardinality(Admitted(r)') <= Cardinality(Admitted(r))
  BY <1>1, <1>2, <1>3, <1>4, ClientCount
<1>6. /\ Len(run'[r].history) = Len(run[r].history)
      /\ mark'[r].calls = mark[r].calls
      /\ Stopped(run[r])
  BY <1>1
<1>7. Cardinality(Admitted(r)) + (Len(run[r].history) - mark[r].calls)
        <= Cardinality(Clients) - 1
  BY <1>6 DEF LateKept
<1>8. Cardinality(Admitted(r)') + (Len(run'[r].history) - mark'[r].calls)
        <= Cardinality(Clients) - 1
  BY <1>2, <1>5, <1>6, <1>7
<1> QED
  BY <1>8 DEF LateKept

\* A critical section that records no call: one that stops the run marks where
\* it stands, and its own request is not among those past the check.
LEMMA LateCommit ==
  ASSUME Typed, Typed', NEW c \in Clients, pc[c] # "idle", NEW st,
         SameCalls(run[RunOf(c)], st), Commit(RunOf(c), st), Answered(c),
         NEW r \in Runs, LateKept(r)
  PROVE  LateKept(r)'
<1>1. RunOf(c) \in Runs
  BY RequestType DEF Typed
<1>2. /\ pc \in [Clients -> Steps] /\ call \in [Clients -> Calls \cup {NoCall}]
      /\ run \in [Runs -> RunStates] /\ mark \in [Runs -> Marks]
  BY DEF Typed, TypeOK
<1>3. Admitted(r)' \subseteq Admitted(r) /\ c \notin Admitted(r)'
  BY <1>2 DEF Answered, Admitted, RunOf
<1>4. CASE r = RunOf(c) /\ Stopped(st) /\ ~Stopped(run[r])
  <2>1. run'[r] = st /\ mark'[r].calls = Len(st.history)
    BY <1>1, <1>2, <1>4 DEF Commit
  <2>2. Admitted(r)' \in SUBSET Clients
    BY DEF Admitted
  <2>3. Cardinality(Admitted(r)') <= Cardinality(Clients) - 1
    BY <1>3, <2>2, ClientCount
  <2>4. Len(st.history) \in Nat
    BY <1>1, <1>2, <1>4 DEF SameCalls, RunStates
  <2>5. Cardinality(Admitted(r)') \in Nat /\ Cardinality(Clients) \in Nat
    BY <2>2, ClientCount
  <2> QED
    BY <2>1, <2>3, <2>4, <2>5 DEF LateKept
<1>5. CASE ~(r = RunOf(c) /\ Stopped(st) /\ ~Stopped(run[r]))
  <2>1. Stopped(run'[r]) => Stopped(run[r]) /\ run'[r].history = run[r].history
    BY <1>1, <1>2, <1>5 DEF Commit, SameCalls
  <2>2. mark'[r] = mark[r]
    BY <1>1, <1>2, <1>5 DEF Commit
  <2> QED
    BY <1>3, <2>1, <2>2, LateQuiet
<1> QED
  BY <1>4, <1>5

LEMMA LateStep == Typed /\ LateInv /\ [Next]_vars => LateInv'
<1> SUFFICES ASSUME Typed, LateInv, [Next]_vars, NEW r \in Runs
             PROVE  LateKept(r)'
  BY DEF LateInv
<1>1. Typed'
  BY TypedStep
<1>2. LateKept(r)
  BY DEF LateInv
<1>3. /\ Len(run[r].history) \in Nat /\ mark[r].calls \in Nat
      /\ Admitted(r) \in SUBSET Clients
      /\ Cardinality(Admitted(r)) \in Nat /\ Cardinality(Clients) \in Nat
  BY LateTypes
<1>4. /\ pc \in [Clients -> Steps] /\ call \in [Clients -> Calls \cup {NoCall}]
      /\ run \in [Runs -> RunStates]
  BY DEF Typed, TypeOK
<1>5. ASSUME NEW c \in Clients, Arrive(c)
      PROVE  LateKept(r)'
  <2>1. run'[r] = run[r] \/ run'[r] = FreshRun
    BY <1>4, <1>5 DEF Arrive, Resolve
  <2>2. ~Stopped(FreshRun)
    BY DEF Stopped, FreshRun
  <2>3. Admitted(r)' \subseteq Admitted(r)
    BY <1>4, <1>5, OthersStay DEF Arrive, Admitted, RunOf
  <2> QED
    BY <1>1, <1>2, <1>5, <2>1, <2>2, <2>3, LateQuiet DEF Arrive
<1>6. ASSUME NEW c \in Clients, Refuse(c) \/ Admit(c) \/ Policy(c)
      PROVE  LateKept(r)'
  <2>1. run' = run /\ mark' = mark
    BY <1>6 DEF Refuse, Admit, Policy
  <2>2. Stopped(run[r]) => Admitted(r)' \subseteq Admitted(r)
    BY <1>4, <1>6, OthersStay DEF Handle, Refuse, Admit, Policy, Answered, Admitted, RunOf
  <2> QED
    BY <1>1, <1>2, <2>1, <2>2, LateQuiet
<1>7. ASSUME NEW c \in Clients, Deny(c)
      PROVE  LateKept(r)'
  <2>1. Asked(c).on \in Tools /\ run[RunOf(c)] \in RunStates /\ pc[c] # "idle"
    BY <1>7, RequestType DEF Deny, Typed, InFlight, ToolSteps
  <2>2. SameCalls(run[RunOf(c)], RecordDenied(run[RunOf(c)], Asked(c).on, pc[c]))
    BY <1>7, <2>1, SameCallsDenied DEF Deny
  <2> QED
    BY <1>1, <1>2, <1>7, <2>1, <2>2, LateCommit DEF Deny
<1>8. ASSUME NEW c \in Clients, Fail(c)
      PROVE  LateKept(r)'
  <2>1. Asked(c).on \in Tools /\ run[RunOf(c)] \in RunStates /\ pc[c] # "idle"
    BY <1>8, RequestType DEF Fail, Typed, InFlight, ToolSteps
  <2>2. SameCalls(run[RunOf(c)], RecordFailed(run[RunOf(c)], Asked(c).on))
    BY <2>1, SameCallsDenied
  <2> QED
    BY <1>1, <1>2, <1>8, <2>1, <2>2, LateCommit DEF Fail
<1>9. ASSUME NEW c \in Clients, Apply(c)
      PROVE  LateKept(r)'
  <2>1. /\ Asked(c) \in Requests /\ Asked(c).op # "tool"
        /\ run[RunOf(c)] \in RunStates /\ pc[c] # "idle"
    BY <1>9, RequestType DEF Apply, Typed, InFlight
  <2>2. SameCalls(run[RunOf(c)], Effect(run[RunOf(c)], Asked(c)))
    BY <2>1, SameCallsEffect
  <2> QED
    BY <1>1, <1>2, <1>9, <2>1, <2>2, LateCommit DEF Apply
<1>10. ASSUME NEW c \in Clients, Allow(c)
       PROVE  LateKept(r)'
  <2> DEFINE st == RecordAllowed(run[RunOf(c)], Asked(c).on)
  <2>1. /\ Asked(c).on \in Tools /\ run[RunOf(c)] \in RunStates
        /\ RunOf(c) \in Runs /\ pc[c] = "execute"
    BY <1>10, RequestType DEF Allow, Typed, InFlight, ToolSteps
  <2>2. /\ Len(st.history) = Len(run[RunOf(c)].history) + 1
        /\ st.execution = run[RunOf(c)].execution
    BY <2>1, AllowedCounts
  <2>3. Commit(RunOf(c), st) /\ Answered(c)
    BY <1>10 DEF Allow
  <2> HIDE DEF st
  <2>4. run' = [run EXCEPT ![RunOf(c)] = st] /\ mark' = mark
    BY <2>2, <2>3 DEF Commit, Stopped
  <2>5. pc'[c] = "idle" /\ \A d \in Clients : d # c => pc'[d] = pc[d] /\ call'[d] = call[d]
    BY <1>4, <1>10, OthersStay DEF Handle, Allow, Answered
  <2>6. CASE RunOf(c) = r /\ Stopped(run[r])
    <3>1. c \in Admitted(r) /\ Admitted(r)' = Admitted(r) \ {c}
      BY <2>1, <2>5, <2>6 DEF Admitted, RunOf
    <3>2. Admitted(r)' \in SUBSET Clients
      BY DEF Admitted
    <3>3. Cardinality(Admitted(r)') = Cardinality(Admitted(r)) - 1
      BY <1>3, <3>1, <3>2, ClientCount
    <3>4. Len(run'[r].history) = Len(run[r].history) + 1
      BY <1>4, <2>1, <2>2, <2>4, <2>6
    <3> QED
      BY <1>2, <1>3, <2>4, <2>6, <3>3, <3>4 DEF LateKept
  <2>7. CASE ~(RunOf(c) = r /\ Stopped(run[r]))
    <3>1. Stopped(run'[r]) => Stopped(run[r]) /\ run'[r].history = run[r].history
      BY <1>4, <2>1, <2>2, <2>4, <2>7 DEF Stopped
    <3>2. Admitted(r)' \subseteq Admitted(r)
      BY <2>5 DEF Admitted, RunOf
    <3> QED
      BY <1>1, <1>2, <2>4, <3>1, <3>2, LateQuiet
  <2> QED
    BY <2>6, <2>7
<1>11. ASSUME NEW s \in Runs, Drain(s)
       PROVE  LateKept(r)'
  <2>1. run'[r].history = run[r].history /\ run'[r].execution = run[r].execution
    BY <1>4, <1>11 DEF Drain, TakeEvents, RunStates
  <2>2. Admitted(r)' = Admitted(r) /\ mark' = mark
    BY <1>11 DEF Drain, Admitted, RunOf
  <2> QED
    BY <1>1, <1>2, <2>1, <2>2, LateQuiet DEF Stopped
<1>12. CASE UNCHANGED vars
  BY <1>2, <1>12 DEF vars, LateKept, Admitted, RunOf
<1> QED
  BY <1>5, <1>6, <1>7, <1>8, <1>9, <1>10, <1>11, <1>12 DEF Next, Handle

\* A run does not go on long after its stop: at most the calls that the other
\* clients had past the router's check are still recorded, for any number of
\* clients.
THEOREM Stragglers == Spec => []StragglersBounded
<1>1. Typed /\ LateInv => StragglersBounded
  <2> SUFFICES ASSUME Typed, LateInv, NEW r \in Runs, Stopped(run[r])
               PROVE  Len(run[r].history) - mark[r].calls <= Cardinality(Clients) - 1
    BY DEF StragglersBounded
  <2>1. /\ Len(run[r].history) \in Nat /\ mark[r].calls \in Nat
        /\ Cardinality(Admitted(r)) \in Nat /\ Cardinality(Clients) \in Nat
    BY LateTypes
  <2>2. LateKept(r)
    BY DEF LateInv
  <2> QED
    BY <2>1, <2>2 DEF LateKept
<1>2. Init => LateInv
  BY InitialRuns DEF LateInv, LateKept, Stopped
<1>3. Typed /\ LateInv /\ [Next]_vars => LateInv'
  BY LateStep
<1> QED
  BY <1>1, <1>2, <1>3, TypeCorrect, PTL DEF Spec

-----------------------------------------------------------------------------
(* The numbering of one buffer *)

\* A sequence of events numbered from n.
Numbered(s, n) == \A i \in 1 .. Len(s) : s[i].seq = n + i - 1

LEMMA ConcatNumbered ==
  ASSUME NEW s \in Seq(Events), NEW t \in Seq(Events), NEW n \in Nat,
         NEW m \in Nat, m = n + Len(s), Numbered(s, n), Numbered(t, m)
  PROVE  Len(s \o t) = Len(s) + Len(t) /\ Numbered(s \o t, n)
<1>1. Len(s) \in Nat /\ Len(t) \in Nat
  OBVIOUS
<1>2. /\ Len(s \o t) = Len(s) + Len(t)
      /\ \A i \in 1 .. Len(s) + Len(t) :
           (s \o t)[i] = IF i <= Len(s) THEN s[i] ELSE t[i - Len(s)]
  BY ConcatProperties
<1>3. ASSUME NEW i \in 1 .. Len(s) + Len(t)
      PROVE  (s \o t)[i].seq = n + i - 1
  <2>1. CASE i <= Len(s)
    <3>1. i \in 1 .. Len(s)
      BY <1>1, <2>1
    <3> QED
      BY <1>2, <2>1, <3>1 DEF Numbered
  <2>2. CASE i > Len(s)
    <3>1. i - Len(s) \in 1 .. Len(t)
      BY <1>1, <2>2
    <3>2. (s \o t)[i] = t[i - Len(s)]
      BY <1>1, <1>2, <2>2
    <3>3. t[i - Len(s)].seq = n + Len(s) + (i - Len(s)) - 1
      BY <3>1 DEF Numbered
    <3> QED
      BY <1>1, <3>2, <3>3
  <2> QED
    BY <1>1, <2>1, <2>2
<1> QED
  BY <1>2, <1>3 DEF Numbered

LEMMA EmptyNumbered == \A n : Numbered(<<>>, n)
  BY DEF Numbered

\* The buffer of st is numbered from n, and the counter follows its last event.
NumberedFrom(st, n) ==
  /\ st.next_seq = n + Len(st.events)
  /\ Numbered(st.events, n)

\* st2 has the buffer and the counter of st.
SameLog(st, st2) == st2.events = st.events /\ st2.next_seq = st.next_seq

LEMMA AppendNumbered ==
  ASSUME NEW st \in RunStates, NEW n \in Nat, NumberedFrom(st, n),
         NEW st1 \in RunStates, SameLog(st, st1),
         NEW kind \in EventKinds, NEW on \in Subjects, NEW tokens \in Nat
  PROVE  NumberedFrom(AppendEvent(st1, kind, on, tokens), n)
<1> DEFINE e == [seq |-> st1.next_seq, kind |-> kind, on |-> on, tokens |-> tokens]
<1> DEFINE s == st1.events
<1>1. s \in Seq(Events) /\ Len(s) \in Nat /\ st1.next_seq = n + Len(s) /\ Numbered(s, n)
  BY DEF RunStates, NumberedFrom, SameLog
<1>2. /\ AppendEvent(st1, kind, on, tokens).events = Append(s, e)
      /\ AppendEvent(st1, kind, on, tokens).next_seq = n + Len(s) + 1
  BY <1>1 DEF AppendEvent, RunStates
<1>3. e \in Events /\ e.seq = n + Len(s)
  BY <1>1 DEF RunStates, Events, Subjects
<1> HIDE DEF e, s
<1>4. /\ Len(Append(s, e)) = Len(s) + 1
      /\ \A i \in 1 .. Len(s) : Append(s, e)[i] = s[i]
      /\ Append(s, e)[Len(s) + 1] = e
  BY <1>1, <1>3, AppendProperties
<1>5. ASSUME NEW i \in 1 .. Len(s) + 1
      PROVE  Append(s, e)[i].seq = n + i - 1
  <2>1. CASE i \in 1 .. Len(s)
    BY <1>1, <1>4, <2>1 DEF Numbered
  <2>2. CASE i = Len(s) + 1
    BY <1>1, <1>3, <1>4, <2>2
  <2> QED
    BY <1>1, <2>1, <2>2
<1>6. n + Len(s) + 1 = n + (Len(s) + 1)
  BY <1>1
<1> QED
  BY <1>2, <1>4, <1>5, <1>6 DEF NumberedFrom, Numbered

LEMMA SameNumbered ==
  ASSUME NEW st, NEW n, NumberedFrom(st, n), NEW st2, SameLog(st, st2)
  PROVE  NumberedFrom(st2, n)
  BY DEF NumberedFrom, SameLog

LEMMA MarkNumbered ==
  ASSUME NEW st \in RunStates, NEW n, NumberedFrom(st, n), NEW reason
  PROVE  NumberedFrom(MarkStopped(st, reason), n)
<1>1. SameLog(st, MarkStopped(st, reason))
  BY DEF SameLog, MarkStopped, RunStates
<1> QED
  BY <1>1, SameNumbered

LEMMA IdentityNumbered ==
  ASSUME NEW st \in RunStates, NEW n \in Nat, NumberedFrom(st, n),
         NEW which \in Identities, NEW name \in Names \cup {NoName}
  PROVE  NumberedFrom(RecordIdentity(st, which, name), n)
<1> DEFINE named == [st EXCEPT !.last[which] = name]
<1>1. named \in RunStates /\ SameLog(st, named)
  BY DEF RunStates, SameLog
<1> HIDE DEF named
<1>2. NumberedFrom(AppendEvent(named, which, name, 0), n)
  BY <1>1, AppendNumbered DEF EventKinds, Subjects
<1> QED
  BY <1>2 DEF RecordIdentity, named

-----------------------------------------------------------------------------
(* Every handler keeps it *)

LEMMA DeniedNumbered ==
  ASSUME NEW st \in RunStates, NEW n \in Nat, NumberedFrom(st, n),
         NEW tool \in Tools, NEW verdict \in {"ToolDenied", "RuleDenied"}
  PROVE  NumberedFrom(MarkStopped(AppendEvent(st, verdict, tool, 0), verdict), n)
<1>1. AppendEvent(st, verdict, tool, 0) \in RunStates
  BY AppendEventType DEF EventKinds, Subjects
<1>2. NumberedFrom(AppendEvent(st, verdict, tool, 0), n)
  BY AppendNumbered DEF SameLog, EventKinds, Subjects
<1> QED
  BY <1>1, <1>2, MarkNumbered

LEMMA AllowedNumbered ==
  ASSUME NEW st \in RunStates, NEW n \in Nat, NumberedFrom(st, n), NEW tool \in Tools
  PROVE  NumberedFrom(RecordAllowed(st, tool), n)
<1> DEFINE counted == [st EXCEPT !.counts[tool] = @ + 1, !.history = Append(@, tool)]
<1>1. st.counts[tool] + 1 \in Nat /\ Append(st.history, tool) \in Seq(Tools)
  BY DEF RunStates
<1>2. counted \in RunStates /\ SameLog(st, counted)
  BY <1>1 DEF RunStates, SameLog
<1> HIDE DEF counted
<1>3. NumberedFrom(AppendEvent(counted, "ToolAllowed", tool, 0), n)
  BY <1>2, AppendNumbered DEF EventKinds, Subjects
<1> QED
  BY <1>3 DEF RecordAllowed, counted

LEMMA EffectNumbered ==
  ASSUME NEW st \in RunStates, NEW n \in Nat, NumberedFrom(st, n),
         NEW q \in Requests, q.op # "tool"
  PROVE  NumberedFrom(Effect(st, q), n)
<1>1. /\ \/ q.op \in {"enter", "exit", "usage", "identify", "stop", "stopRule"}
         \/ q.op \in Reads \cup Consults
      /\ q.which \in Identities
      /\ q.tokens \in Nat
      /\ q.op = "stopRule" => q.on \in Tools
      /\ q.op = "enter" => q.on \in Names
      /\ q.op \in {"usage", "identify"} => q.on \in Names \cup {NoName}
  BY GovernorAssumption DEF RequestSpace, Ops, WellFormed
<1>2. CASE q.op = "enter"
  <2> DEFINE inside == [st EXCEPT !.stack = Append(@, q.on)]
  <2>1. Append(st.stack, q.on) \in Seq(Names)
    BY <1>1, <1>2 DEF RunStates
  <2>2. inside \in RunStates /\ SameLog(st, inside)
    BY <2>1 DEF RunStates, SameLog
  <2> HIDE DEF inside
  <2>3. NumberedFrom(AppendEvent(inside, "AgentScopeEntered", q.on, 0), n)
    BY <1>1, <1>2, <2>2, AppendNumbered DEF EventKinds, Subjects
  <2> QED
    BY <1>2, <2>3 DEF Effect, EnterScope, inside
<1>3. CASE q.op = "exit" /\ st.stack = <<>>
  <2>1. NumberedFrom(AppendEvent(st, "AgentScopeExited", NoName, 0), n)
    BY AppendNumbered DEF SameLog, EventKinds, Subjects
  <2> QED
    BY <1>3, <2>1 DEF Effect, ExitScope
<1>4. CASE q.op = "exit" /\ st.stack # <<>>
  <2> DEFINE outside == [st EXCEPT !.stack = SubSeq(@, 1, Len(@) - 1)]
  <2>1. st.stack \in Seq(Names)
    BY DEF RunStates
  <2>2. SubSeq(st.stack, 1, Len(st.stack) - 1) \in Seq(Names)
    BY <1>4, <2>1
  <2>3. outside \in RunStates /\ SameLog(st, outside)
    BY <2>2 DEF RunStates, SameLog
  <2> HIDE DEF outside
  <2>4. st.stack[Len(st.stack)] \in Names
    BY <1>4, <2>1
  <2>5. NumberedFrom(AppendEvent(outside, "AgentScopeExited", st.stack[Len(st.stack)], 0), n)
    BY <2>3, <2>4, AppendNumbered DEF EventKinds, Subjects
  <2> QED
    BY <1>4, <2>5 DEF Effect, ExitScope, outside
<1>5. CASE q.op = "usage"
  <2> DEFINE named == RecordIdentity(st, "harness", q.on)
  <2> DEFINE spent == [named EXCEPT !.tokens = (@ + q.tokens) % TokenWrap]
  <2>1. named \in RunStates /\ NumberedFrom(named, n)
    BY <1>1, <1>5, RecordIdentityType, IdentityNumbered DEF Identities
  <2> HIDE DEF named
  <2>2. (named.tokens + q.tokens) % TokenWrap \in 0 .. (TokenWrap - 1)
    BY <1>1, <2>1, SpentType
  <2>3. spent \in RunStates /\ SameLog(named, spent)
    BY <2>1, <2>2 DEF RunStates, SameLog
  <2> HIDE DEF spent
  <2>4. NumberedFrom(AppendEvent(spent, "LlmUsageRecorded", NoName, q.tokens), n)
    BY <1>1, <2>1, <2>3, AppendNumbered DEF EventKinds, Subjects
  <2> QED
    BY <1>5, <2>1, <2>4 DEF Effect, RecordUsage, named, spent
<1>6. CASE q.op = "identify"
  BY <1>1, <1>6, IdentityNumbered DEF Effect
<1>7. CASE q.op = "stop"
  BY <1>7, MarkNumbered DEF Effect, ReportStop
<1>8. CASE q.op = "stopRule"
  BY <1>1, <1>8, DeniedNumbered DEF Effect, ReportRuleDenied
<1>9. CASE q.op \in Reads \cup Consults
  BY <1>9 DEF Effect, Reads, Consults
<1> QED
  BY <1>1, <1>2, <1>3, <1>4, <1>5, <1>6, <1>7, <1>8, <1>9

-----------------------------------------------------------------------------
(* The log and the buffer together *)

\* What is drained is numbered from 0, what is buffered from where that ends.
\* A run not yet opened has drained nothing.
NumberedRun(r) ==
  /\ r \notin open => log[r] = <<>>
  /\ r \in open =>
       /\ Numbered(log[r], 0)
       /\ NumberedFrom(run[r], Len(log[r]))

NumberedInv == \A r \in Runs : NumberedRun(r)

LEMMA FreshNumbered ==
  NumberedFrom(FreshRun, 0) /\ NumberedFrom(PlaceholderRun, 0)
<1>1. Len(FreshRun.events) = 1 /\ FreshRun.events[1].seq = 0 /\ FreshRun.next_seq = 1
  BY DEF FreshRun
<1>2. PlaceholderRun.events = <<>> /\ PlaceholderRun.next_seq = 0
  BY FreshRunType DEF PlaceholderRun, RunStates
<1>3. Numbered(FreshRun.events, 0)
  BY <1>1 DEF Numbered
<1>4. NumberedFrom(PlaceholderRun, 0)
  BY <1>2, EmptyNumbered DEF NumberedFrom
<1> QED
  BY <1>1, <1>3, <1>4 DEF NumberedFrom

\* A critical section on one run.
LEMMA CommitNumbered ==
  ASSUME Typed, NumberedInv, NEW r \in Runs, NEW st, Commit(r, st),
         NumberedFrom(run[r], Len(log[r])) => NumberedFrom(st, Len(log[r]))
  PROVE  NumberedInv'
  BY DEF NumberedInv, NumberedRun, Commit, Typed, TypeOK

LEMMA NumberedStep == Typed /\ NumberedInv /\ [Next]_vars => NumberedInv'
<1> SUFFICES ASSUME Typed, NumberedInv, [Next]_vars
             PROVE  NumberedInv'
  OBVIOUS
<1>1. \A r \in Runs : run[r] \in RunStates /\ log[r] \in Seq(Events) /\ Len(log[r]) \in Nat
  BY DEF Typed, TypeOK
<1>2. ASSUME NEW c \in Clients, Arrive(c)
      PROVE  NumberedInv'
  <2>1. PICK r \in Runs : open' = open \cup {r} /\ run' = Resolve(r)
    BY <1>2 DEF Arrive
  <2>2. log' = log
    BY <1>2 DEF Arrive
  <2>3. ASSUME NEW s \in Runs
        PROVE  NumberedRun(s)'
    <3>1. CASE s = r /\ r \notin open
      <4>1. run'[s] = FreshRun /\ log'[s] = <<>>
        BY <2>1, <2>2, <3>1 DEF Resolve, Typed, TypeOK, NumberedInv, NumberedRun
      <4>2. Len(log'[s]) = 0 /\ Numbered(log'[s], 0)
        BY <4>1, EmptyNumbered
      <4> QED
        BY <2>1, <3>1, <4>1, <4>2, FreshNumbered DEF NumberedRun
    <3>2. CASE ~(s = r /\ r \notin open)
      <4>1. run'[s] = run[s] /\ (s \in open' <=> s \in open)
        BY <2>1, <3>2 DEF Resolve, Typed, TypeOK
      <4> QED
        BY <2>2, <4>1 DEF NumberedInv, NumberedRun
    <3> QED
      BY <3>1, <3>2
  <2> QED
    BY <2>3 DEF NumberedInv
<1>3. ASSUME NEW c \in Clients, Refuse(c) \/ Admit(c) \/ Policy(c)
      PROVE  NumberedInv'
  BY <1>3 DEF Refuse, Admit, Policy, NumberedInv, NumberedRun
<1>4. ASSUME NEW c \in Clients, Deny(c)
      PROVE  NumberedInv'
  <2>1. Asked(c).on \in Tools /\ RunOf(c) \in Runs
    BY <1>4, RequestType DEF Deny, Typed, InFlight, ToolSteps
  <2> QED
    BY <1>1, <1>4, <2>1, DeniedNumbered, CommitNumbered DEF Deny, RecordDenied
<1>5. ASSUME NEW c \in Clients, Allow(c)
      PROVE  NumberedInv'
  <2>1. Asked(c).on \in Tools /\ RunOf(c) \in Runs
    BY <1>5, RequestType DEF Allow, Typed, InFlight, ToolSteps
  <2> QED
    BY <1>1, <1>5, <2>1, AllowedNumbered, CommitNumbered DEF Allow
<1>6. ASSUME NEW c \in Clients, Fail(c)
      PROVE  NumberedInv'
  <2>1. Asked(c).on \in Tools /\ RunOf(c) \in Runs
    BY <1>6, RequestType DEF Fail, Typed, InFlight, ToolSteps
  <2>2. NumberedFrom(run[RunOf(c)], Len(log[RunOf(c)])) =>
          NumberedFrom(RecordFailed(run[RunOf(c)], Asked(c).on), Len(log[RunOf(c)]))
    BY <1>1, <2>1, AppendNumbered DEF RecordFailed, SameLog, EventKinds, Subjects
  <2> QED
    BY <1>6, <2>1, <2>2, CommitNumbered DEF Fail
<1>7. ASSUME NEW c \in Clients, Apply(c)
      PROVE  NumberedInv'
  <2>1. Asked(c) \in Requests /\ Asked(c).op # "tool" /\ RunOf(c) \in Runs
    BY <1>7, RequestType DEF Apply, Typed, InFlight
  <2> QED
    BY <1>1, <1>7, <2>1, EffectNumbered, CommitNumbered DEF Apply
<1>8. ASSUME NEW r \in Runs, Drain(r)
      PROVE  NumberedInv'
  <2>1. /\ r \in open
        /\ log' = [log EXCEPT ![r] = @ \o run[r].events]
        /\ run' = [run EXCEPT ![r] = TakeEvents(@)]
        /\ open' = open
    BY <1>8 DEF Drain
  <2>2. ASSUME NEW s \in Runs, s # r
        PROVE  NumberedRun(s)'
    BY <2>1, <2>2 DEF NumberedInv, NumberedRun, Typed, TypeOK
  <2>3. NumberedRun(r)'
    <3>1. log'[r] = log[r] \o run[r].events /\ run'[r] = TakeEvents(run[r])
      BY <2>1 DEF Typed, TypeOK
    <3>2. run[r].events \in Seq(Events) /\ run[r].next_seq \in Nat
      BY <1>1 DEF RunStates
    <3>3. TakeEvents(run[r]).events = <<>> /\ TakeEvents(run[r]).next_seq = run[r].next_seq
      BY <1>1 DEF TakeEvents, RunStates
    <3>4. /\ Numbered(log[r], 0) /\ Numbered(run[r].events, Len(log[r]))
          /\ run[r].next_seq = Len(log[r]) + Len(run[r].events)
      BY <1>1, <2>1 DEF NumberedInv, NumberedRun, NumberedFrom
    <3>5. Len(log'[r]) = Len(log[r]) + Len(run[r].events) /\ Numbered(log'[r], 0)
      BY <1>1, <3>1, <3>2, <3>4, 0 + Len(log[r]) = Len(log[r]), ConcatNumbered
    <3>6. NumberedFrom(run'[r], Len(log'[r]))
      BY <1>1, <3>1, <3>2, <3>3, <3>4, <3>5 DEF NumberedFrom, Numbered
    <3> QED
      BY <2>1, <3>5, <3>6 DEF NumberedRun
  <2> QED
    BY <2>2, <2>3 DEF NumberedInv
<1>9. CASE UNCHANGED vars
  BY <1>9 DEF vars, NumberedInv, NumberedRun
<1> QED
  BY <1>2, <1>3, <1>4, <1>5, <1>6, <1>7, <1>8, <1>9 DEF Next, Handle

LEMMA NumberedInit == Init => NumberedInv
<1> SUFFICES ASSUME Init, NEW r \in Runs
             PROVE  NumberedRun(r)
  BY DEF NumberedInv
<1>1. PICK first \in {FreshRun, PlaceholderRun}, name \in Names :
        run = [s \in Runs |->
                 IF s = Primary THEN RecordIdentity(first, "governor", name) ELSE FreshRun]
  BY DEF Init
<1>2. NumberedFrom(RecordIdentity(first, "governor", name), 0)
  BY FreshNumbered, FreshRunType, IdentityNumbered DEF Identities
<1>3. log[r] = <<>> /\ open = {Primary}
  BY DEF Init
<1>4. Len(log[r]) = 0 /\ Numbered(log[r], 0)
  BY <1>3, EmptyNumbered
<1> QED
  BY <1>1, <1>2, <1>3, <1>4 DEF NumberedRun

LEMMA StreamNumbered == Typed /\ NumberedInv => StreamContiguous
<1> SUFFICES ASSUME Typed, NumberedInv, NEW r \in open
             PROVE  /\ run[r].next_seq = Len(Stream(r))
                    /\ \A i \in DOMAIN Stream(r) : Stream(r)[i].seq = i - 1
  BY DEF StreamContiguous
<1>1. /\ r \in Runs /\ log[r] \in Seq(Events) /\ run[r].events \in Seq(Events)
      /\ run[r].next_seq \in Nat
  BY DEF Typed, TypeOK, RunStates
<1>2. /\ Numbered(log[r], 0) /\ Numbered(run[r].events, Len(log[r]))
      /\ run[r].next_seq = Len(log[r]) + Len(run[r].events)
  BY <1>1 DEF NumberedInv, NumberedRun, NumberedFrom
<1>3. Len(Stream(r)) = Len(log[r]) + Len(run[r].events) /\ Numbered(Stream(r), 0)
  BY <1>1, <1>2, Len(log[r]) \in Nat, 0 + Len(log[r]) = Len(log[r]), ConcatNumbered DEF Stream
<1>4. DOMAIN Stream(r) = 1 .. Len(Stream(r))
  BY <1>1 DEF Stream
<1>5. ASSUME NEW i \in 1 .. Len(Stream(r))
      PROVE  Stream(r)[i].seq = i - 1
  <2>1. Len(log[r]) \in Nat /\ Len(run[r].events) \in Nat
    BY <1>1, LenProperties
  <2>2. Stream(r)[i].seq = 0 + i - 1
    BY <1>3 DEF Numbered
  <2> QED
    BY <1>3, <2>1, <2>2
<1> QED
  BY <1>2, <1>3, <1>4, <1>5

\* The seq of a run counts its events from 0 with no gap and no repeat, over
\* what was drained and what is buffered: append_event numbers under the run's
\* mutex, and take_run_events hands the buffer over whole.
THEOREM StreamHasNoGap == Spec => []StreamContiguous
  BY StreamNumbered, TypeCorrect, NumberedInit, NumberedStep, PTL DEF Spec


-----------------------------------------------------------------------------
(* What a critical section adds to the buffer of a run *)

\* st2 has what st has buffered, and perhaps more at the end.
Prefixes(st, st2) ==
  /\ Len(st.events) <= Len(st2.events)
  /\ \A i \in 1 .. Len(st.events) : st2.events[i] = st.events[i]

\* What says how a run ends.
Verdicts == Denials \cup {"ExecutionStopped"}

\* st2 is st after a section that denies nothing.
Proceeds(st, st2) ==
  /\ Prefixes(st, st2)
  /\ st.next_seq <= st2.next_seq
  /\ Stopped(st) => st2.execution = st.execution
  /\ \A i \in 1 .. Len(st2.events) :
       i > Len(st.events) => st2.events[i].kind \notin Verdicts

\* st2 is st after a section that may log a denial: the denial comes after all
\* that was logged, and if it finds the run alive it is the last thing logged
\* and the reason the run stops.
Advances(st, st2) ==
  /\ Prefixes(st, st2)
  /\ st.next_seq <= st2.next_seq
  /\ Stopped(st) => st2.execution = st.execution
  /\ \A i \in 1 .. Len(st2.events) :
       (i > Len(st.events) /\ st2.events[i].kind \in Denials) =>
         /\ Stopped(st2)
         /\ st2.events[i].seq >= st.next_seq
         /\ ~Stopped(st) => /\ st2.execution = st2.events[i].kind
                            /\ st2.events[i].seq + 1 = st2.next_seq
  /\ \A i \in 1 .. Len(st2.events) :
       i > Len(st.events) => st2.events[i].kind # "ExecutionStopped"

LEMMA ProceedsAdvances ==
  ASSUME NEW st, NEW st2, Proceeds(st, st2)
  PROVE  Advances(st, st2)
  BY DEF Proceeds, Advances, Verdicts

LEMMA ProceedsTrans ==
  ASSUME NEW st \in RunStates, NEW st1 \in RunStates, NEW st2 \in RunStates,
         Proceeds(st, st1), Proceeds(st1, st2)
  PROVE  Proceeds(st, st2)
<1>1. /\ Len(st.events) \in Nat /\ Len(st1.events) \in Nat /\ Len(st2.events) \in Nat
      /\ st.next_seq \in Nat /\ st1.next_seq \in Nat /\ st2.next_seq \in Nat
  BY DEF RunStates
<1>2. Prefixes(st, st2)
  BY <1>1 DEF Proceeds, Prefixes
<1>3. ASSUME NEW i \in 1 .. Len(st2.events), i > Len(st.events)
      PROVE  st2.events[i].kind \notin Verdicts
  <2>1. CASE i > Len(st1.events)
    BY <2>1 DEF Proceeds
  <2>2. CASE i <= Len(st1.events)
    <3>1. i \in 1 .. Len(st1.events)
      BY <1>1, <2>2
    <3> QED
      BY <1>3, <3>1 DEF Proceeds, Prefixes
  <2> QED
    BY <1>1, <2>1, <2>2
<1> QED
  BY <1>1, <1>2, <1>3 DEF Proceeds, Stopped

\* The one event a section appends.
LEMMA AppendedEvent ==
  ASSUME NEW st \in RunStates, NEW kind \in EventKinds, NEW on \in Subjects, NEW tokens \in Nat
  PROVE  LET st2 == AppendEvent(st, kind, on, tokens)
         IN  /\ Prefixes(st, st2)
             /\ Len(st2.events) = Len(st.events) + 1
             /\ st2.events[Len(st.events) + 1].kind = kind
             /\ st2.events[Len(st.events) + 1].seq = st.next_seq
             /\ st2.next_seq = st.next_seq + 1
             /\ st2.execution = st.execution
<1> DEFINE e == [seq |-> st.next_seq, kind |-> kind, on |-> on, tokens |-> tokens]
<1>1. e \in Events /\ st.events \in Seq(Events)
  BY DEF RunStates, Events, Subjects
<1>2. /\ AppendEvent(st, kind, on, tokens).events = Append(st.events, e)
      /\ AppendEvent(st, kind, on, tokens).next_seq = st.next_seq + 1
      /\ AppendEvent(st, kind, on, tokens).execution = st.execution
  BY DEF AppendEvent, RunStates
<1>3. e.kind = kind /\ e.seq = st.next_seq
  OBVIOUS
<1> HIDE DEF e
<1>4. /\ Len(Append(st.events, e)) = Len(st.events) + 1
      /\ \A i \in 1 .. Len(st.events) : Append(st.events, e)[i] = st.events[i]
      /\ Append(st.events, e)[Len(st.events) + 1] = e
  BY <1>1, AppendProperties
<1>5. Len(st.events) \in Nat
  BY <1>1, LenProperties
<1> QED
  BY <1>2, <1>3, <1>4, <1>5 DEF Prefixes

\* An event that is no denial, after a change to some other part of the state.
LEMMA AppendProceeds ==
  ASSUME NEW st \in RunStates, NEW st1 \in RunStates, SameLog(st, st1),
         st1.execution = st.execution,
         NEW kind \in EventKinds \ Verdicts, NEW on \in Subjects, NEW tokens \in Nat
  PROVE  Proceeds(st, AppendEvent(st1, kind, on, tokens))
<1> DEFINE st2 == AppendEvent(st1, kind, on, tokens)
<1>1. /\ Prefixes(st1, st2)
      /\ Len(st2.events) = Len(st1.events) + 1
      /\ st2.events[Len(st1.events) + 1].kind = kind
      /\ st2.next_seq = st1.next_seq + 1
      /\ st2.execution = st1.execution
  BY AppendedEvent
<1>2. Len(st1.events) \in Nat /\ st.next_seq \in Nat
  BY DEF RunStates
<1> HIDE DEF st2
<1>3. \A i \in 1 .. Len(st2.events) : i > Len(st1.events) => i = Len(st1.events) + 1
  BY <1>1, <1>2
<1>4. Proceeds(st, st2)
  BY <1>1, <1>2, <1>3 DEF Proceeds, Prefixes, SameLog
<1> QED
  BY <1>4 DEF st2

LEMMA SameProceeds ==
  ASSUME NEW st \in RunStates, NEW st2, SameLog(st, st2),
         Stopped(st) => st2.execution = st.execution
  PROVE  Proceeds(st, st2)
<1>1. Len(st.events) \in Nat /\ st.next_seq \in Nat
  BY DEF RunStates
<1> QED
  BY <1>1 DEF Proceeds, Prefixes, SameLog

LEMMA IdentityProceeds ==
  ASSUME NEW st \in RunStates, NEW which \in Identities, NEW name \in Names \cup {NoName}
  PROVE  Proceeds(st, RecordIdentity(st, which, name))
<1> DEFINE named == [st EXCEPT !.last[which] = name]
<1>1. named \in RunStates /\ SameLog(st, named) /\ named.execution = st.execution
  BY DEF RunStates, SameLog
<1>2. which \in EventKinds \ Verdicts /\ name \in Subjects
  BY DEF EventKinds, Subjects, Identities, Verdicts, Denials
<1> HIDE DEF named
<1>3. Proceeds(st, AppendEvent(named, which, name, 0))
  BY <1>1, <1>2, AppendProceeds
<1>4. Proceeds(st, st)
  BY SameProceeds DEF SameLog
<1> QED
  BY <1>3, <1>4 DEF RecordIdentity, named

-----------------------------------------------------------------------------
(* Every handler advances its run *)

LEMMA DeniedAdvances ==
  ASSUME NEW st \in RunStates, NEW tool \in Tools, NEW verdict \in Denials
  PROVE  Advances(st, MarkStopped(AppendEvent(st, verdict, tool, 0), verdict))
<1> DEFINE st1 == AppendEvent(st, verdict, tool, 0)
<1> DEFINE st2 == MarkStopped(st1, verdict)
<1>1. verdict \in EventKinds /\ tool \in Subjects /\ verdict # Running
  BY DEF Denials, EventKinds, Subjects, Running
<1>2. /\ Prefixes(st, st1)
      /\ Len(st1.events) = Len(st.events) + 1
      /\ st1.events[Len(st.events) + 1].kind = verdict
      /\ st1.events[Len(st.events) + 1].seq = st.next_seq
      /\ st1.next_seq = st.next_seq + 1
      /\ st1.execution = st.execution
  BY <1>1, AppendedEvent
<1>3. st1 \in RunStates
  BY <1>1, AppendEventType
<1>4. Len(st.events) \in Nat /\ st.next_seq \in Nat
  BY DEF RunStates
<1> HIDE DEF st1
<1>5. /\ st2.events = st1.events
      /\ st2.next_seq = st1.next_seq
      /\ st2.execution = IF Stopped(st1) THEN st1.execution ELSE verdict
  BY <1>3 DEF MarkStopped, Stopped, RunStates
<1> HIDE DEF st2
<1>6. \A i \in 1 .. Len(st2.events) : i > Len(st.events) => i = Len(st.events) + 1
  BY <1>2, <1>4, <1>5
<1>7. Advances(st, st2)
  BY <1>1, <1>2, <1>4, <1>5, <1>6 DEF Advances, Prefixes, Stopped, Denials
<1> QED
  BY <1>7 DEF st1, st2

LEMMA RecordedProceeds ==
  ASSUME NEW st \in RunStates, NEW tool \in Tools
  PROVE  /\ Proceeds(st, RecordAllowed(st, tool))
         /\ Proceeds(st, RecordFailed(st, tool))
<1> DEFINE counted == [st EXCEPT !.counts[tool] = @ + 1, !.history = Append(@, tool)]
<1>1. st.counts[tool] + 1 \in Nat /\ Append(st.history, tool) \in Seq(Tools)
  BY DEF RunStates
<1>2. counted \in RunStates /\ SameLog(st, counted) /\ counted.execution = st.execution
  BY <1>1 DEF RunStates, SameLog
<1> HIDE DEF counted
<1>3. {"ToolAllowed", "ToolFailed"} \subseteq EventKinds \ Verdicts /\ tool \in Subjects
  BY DEF EventKinds, Verdicts, Denials, Subjects
<1>4. Proceeds(st, AppendEvent(counted, "ToolAllowed", tool, 0))
  BY <1>2, <1>3, AppendProceeds
<1>5. Proceeds(st, AppendEvent(st, "ToolFailed", tool, 0))
  BY <1>3, AppendProceeds DEF SameLog
<1> QED
  BY <1>4, <1>5 DEF RecordAllowed, RecordFailed, counted

LEMMA ScopeProceeds ==
  ASSUME NEW st \in RunStates
  PROVE  /\ \A name \in Names : Proceeds(st, EnterScope(st, name))
         /\ Proceeds(st, ExitScope(st))
<1>1. {"AgentScopeEntered", "AgentScopeExited"} \subseteq EventKinds \ Verdicts
  BY DEF EventKinds, Verdicts, Denials
<1>2. ASSUME NEW name \in Names
      PROVE  Proceeds(st, EnterScope(st, name))
  <2> DEFINE inside == [st EXCEPT !.stack = Append(@, name)]
  <2>1. Append(st.stack, name) \in Seq(Names)
    BY DEF RunStates
  <2>2. inside \in RunStates /\ SameLog(st, inside) /\ inside.execution = st.execution
    BY <2>1 DEF RunStates, SameLog
  <2> HIDE DEF inside
  <2>3. Proceeds(st, AppendEvent(inside, "AgentScopeEntered", name, 0))
    BY <1>1, <2>2, AppendProceeds DEF Subjects
  <2> QED
    BY <2>3 DEF EnterScope, inside
<1>3. CASE st.stack = <<>>
  <2>1. Proceeds(st, AppendEvent(st, "AgentScopeExited", NoName, 0))
    BY <1>1, AppendProceeds DEF SameLog, Subjects
  <2> QED
    BY <1>2, <1>3, <2>1 DEF ExitScope
<1>4. CASE st.stack # <<>>
  <2> DEFINE outside == [st EXCEPT !.stack = SubSeq(@, 1, Len(@) - 1)]
  <2>1. st.stack \in Seq(Names)
    BY DEF RunStates
  <2>2. SubSeq(st.stack, 1, Len(st.stack) - 1) \in Seq(Names)
    BY <1>4, <2>1
  <2>3. st.stack[Len(st.stack)] \in Names
    BY <1>4, <2>1
  <2>4. outside \in RunStates /\ SameLog(st, outside) /\ outside.execution = st.execution
    BY <2>2 DEF RunStates, SameLog
  <2> HIDE DEF outside
  <2>5. Proceeds(st, AppendEvent(outside, "AgentScopeExited", st.stack[Len(st.stack)], 0))
    BY <1>1, <2>3, <2>4, AppendProceeds DEF Subjects
  <2> QED
    BY <1>2, <1>4, <2>5 DEF ExitScope, outside
<1> QED
  BY <1>2, <1>3, <1>4

LEMMA UsageProceeds ==
  ASSUME NEW st \in RunStates, NEW harness \in Names \cup {NoName}, NEW total \in Nat
  PROVE  Proceeds(st, RecordUsage(st, harness, total))
<1> DEFINE named == RecordIdentity(st, "harness", harness)
<1> DEFINE spent == [named EXCEPT !.tokens = (@ + total) % TokenWrap]
<1>1. named \in RunStates /\ Proceeds(st, named)
  BY RecordIdentityType, IdentityProceeds DEF Identities
<1> HIDE DEF named
<1>2. (named.tokens + total) % TokenWrap \in 0 .. (TokenWrap - 1)
  BY <1>1, SpentType
<1>3. spent \in RunStates /\ SameLog(named, spent) /\ spent.execution = named.execution
  BY <1>1, <1>2 DEF RunStates, SameLog
<1> HIDE DEF spent
<1>4. "LlmUsageRecorded" \in EventKinds \ Verdicts /\ NoName \in Subjects
  BY DEF EventKinds, Verdicts, Denials, Subjects
<1>5. /\ AppendEvent(spent, "LlmUsageRecorded", NoName, total) \in RunStates
      /\ Proceeds(named, AppendEvent(spent, "LlmUsageRecorded", NoName, total))
  BY <1>1, <1>3, <1>4, AppendProceeds, AppendEventType
<1>6. Proceeds(st, AppendEvent(spent, "LlmUsageRecorded", NoName, total))
  BY <1>1, <1>5, ProceedsTrans
<1> QED
  BY <1>1, <1>6 DEF RecordUsage, named, spent

LEMMA EffectAdvances ==
  ASSUME NEW st \in RunStates, NEW q \in Requests, q.op # "tool"
  PROVE  Advances(st, Effect(st, q))
<1>1. /\ \/ q.op \in {"enter", "exit", "usage", "identify", "stop", "stopRule"}
         \/ q.op \in Reads \cup Consults
      /\ q.which \in Identities
      /\ q.tokens \in Nat
      /\ q.op = "stopRule" => q.on \in Tools
      /\ q.op = "enter" => q.on \in Names
      /\ q.op \in {"usage", "identify"} => q.on \in Names \cup {NoName}
  BY GovernorAssumption DEF RequestSpace, Ops, WellFormed
<1>2. CASE q.op \in {"enter", "exit"}
  <2>1. Proceeds(st, Effect(st, q))
    BY <1>1, <1>2, ScopeProceeds DEF Effect, Reads, Consults
  <2> QED
    BY <2>1, ProceedsAdvances
<1>3. CASE q.op = "usage"
  <2>1. Proceeds(st, Effect(st, q))
    BY <1>1, <1>3, UsageProceeds DEF Effect, Reads, Consults
  <2> QED
    BY <2>1, ProceedsAdvances
<1>4. CASE q.op = "identify"
  <2>1. Proceeds(st, Effect(st, q))
    BY <1>1, <1>4, IdentityProceeds DEF Effect, Reads, Consults
  <2> QED
    BY <2>1, ProceedsAdvances
<1>5. CASE q.op = "stop"
  <2>1. Effect(st, q) = MarkStopped(st, ValidReason(q.on))
    BY <1>5 DEF Effect, Reads, Consults, ReportStop
  <2>2. SameLog(st, MarkStopped(st, ValidReason(q.on)))
    BY DEF SameLog, MarkStopped, RunStates
  <2>3. Stopped(st) => MarkStopped(st, ValidReason(q.on)).execution = st.execution
    BY DEF MarkStopped
  <2>4. Proceeds(st, Effect(st, q))
    BY <2>1, <2>2, <2>3, SameProceeds
  <2> QED
    BY <2>4, ProceedsAdvances
<1>6. CASE q.op = "stopRule"
  BY <1>1, <1>6, DeniedAdvances DEF Effect, Reads, Consults, ReportRuleDenied, Denials
<1>7. CASE q.op \in Reads \cup Consults
  <2>1. Effect(st, q) = st
    BY <1>7 DEF Effect, Reads, Consults
  <2>2. Proceeds(st, st)
    BY SameProceeds DEF SameLog
  <2> QED
    BY <2>1, <2>2, ProceedsAdvances
<1> QED
  BY <1>1, <1>2, <1>3, <1>4, <1>5, <1>6, <1>7

\* What every section that writes does: it commits a state its run advances to,
\* and answers.
LEMMA SectionCommits ==
  ASSUME Typed, NEW c \in Clients, Deny(c) \/ Allow(c) \/ Fail(c) \/ Apply(c)
  PROVE  /\ RunOf(c) \in Runs /\ pc[c] # "idle"
         /\ \E st \in RunStates :
              /\ Advances(run[RunOf(c)], st)
              /\ Commit(RunOf(c), st)
              /\ Answered(c)
<1>1. /\ pc[c] # "idle" /\ RunOf(c) \in Runs /\ run[RunOf(c)] \in RunStates
      /\ pc[c] \in ToolSteps => Asked(c).on \in Tools
      /\ pc[c] = "apply" => Asked(c) \in Requests /\ Asked(c).op # "tool"
  BY RequestType DEF Typed, InFlight, ToolSteps, Deny, Allow, Fail, Apply
<1>2. CASE Deny(c)
  <2>1. pc[c] \in Denials /\ Asked(c).on \in Tools
    BY <1>1, <1>2 DEF Deny, Denials, ToolSteps
  <2>2. /\ RecordDenied(run[RunOf(c)], Asked(c).on, pc[c]) \in RunStates
        /\ Advances(run[RunOf(c)], RecordDenied(run[RunOf(c)], Asked(c).on, pc[c]))
    BY <1>1, <2>1, RecordDeniedType, DeniedAdvances DEF RecordDenied, Denials
  <2> QED
    BY <1>1, <1>2, <2>2 DEF Deny
<1>3. CASE Allow(c)
  <2>1. Asked(c).on \in Tools
    BY <1>1, <1>3 DEF Allow, ToolSteps
  <2>2. /\ RecordAllowed(run[RunOf(c)], Asked(c).on) \in RunStates
        /\ Advances(run[RunOf(c)], RecordAllowed(run[RunOf(c)], Asked(c).on))
    BY <1>1, <2>1, RecordAllowedType, RecordedProceeds, ProceedsAdvances
  <2> QED
    BY <1>1, <1>3, <2>2 DEF Allow
<1>4. CASE Fail(c)
  <2>1. Asked(c).on \in Tools
    BY <1>1, <1>4 DEF Fail, ToolSteps
  <2>2. /\ RecordFailed(run[RunOf(c)], Asked(c).on) \in RunStates
        /\ Advances(run[RunOf(c)], RecordFailed(run[RunOf(c)], Asked(c).on))
    BY <1>1, <2>1, RecordFailedType, RecordedProceeds, ProceedsAdvances
  <2> QED
    BY <1>1, <1>4, <2>2 DEF Fail
<1>5. CASE Apply(c)
  <2>1. Asked(c) \in Requests /\ Asked(c).op # "tool"
    BY <1>1, <1>5 DEF Apply
  <2>2. /\ Effect(run[RunOf(c)], Asked(c)) \in RunStates
        /\ Advances(run[RunOf(c)], Effect(run[RunOf(c)], Asked(c)))
    BY <1>1, <2>1, EffectType, EffectAdvances
  <2> QED
    BY <1>1, <1>5, <2>2 DEF Apply
<1> QED
  BY <1>2, <1>3, <1>4, <1>5

-----------------------------------------------------------------------------
(* A denial is the stop *)

\* A denial e in the log of run r found the run stopped, or stopped it.
Stands(r, e) ==
  e.kind \in Denials =>
    /\ Stopped(run[r])
    /\ e.seq + 1 >= mark[r].seq
    /\ e.seq + 1 = mark[r].seq => run[r].execution = e.kind

\* The mark of a stopped run is behind what comes next, so that what is denied
\* later is not taken for the stop.
DenialKept(r) ==
  /\ \A i \in 1 .. Len(log[r]) : Stands(r, log[r][i])
  /\ \A i \in 1 .. Len(run[r].events) : Stands(r, run[r].events[i])
  /\ Stopped(run[r]) => mark[r].seq <= run[r].next_seq

DenialInv == \A r \in Runs : DenialKept(r)

LEMMA CommitDenial ==
  ASSUME Typed, DenialInv, NEW r \in Runs, NEW st \in RunStates,
         Advances(run[r], st), Commit(r, st)
  PROVE  DenialInv'
<1>1. /\ run[r] \in RunStates /\ mark[r] \in Marks
      /\ run' = [run EXCEPT ![r] = st] /\ log' = log
      /\ run \in [Runs -> RunStates] /\ mark \in [Runs -> Marks]
  BY DEF Typed, TypeOK, Commit
<1>2. DenialKept(r)
  BY DEF DenialInv
<1>3. ASSUME NEW s \in Runs, s # r
      PROVE  DenialKept(s)'
  <2>1. run'[s] = run[s] /\ mark'[s] = mark[s] /\ log'[s] = log[s]
    BY <1>1, <1>3 DEF Commit
  <2> QED
    BY <2>1 DEF DenialInv, DenialKept, Stands
<1>4. run'[r] = st /\ log'[r] = log[r]
  BY <1>1
<1>5. /\ run[r].next_seq \in Nat /\ st.next_seq \in Nat /\ mark[r].seq \in Nat
      /\ \A i \in 1 .. Len(st.events) : st.events[i].seq \in Nat
      /\ Len(run[r].events) \in Nat /\ Len(st.events) \in Nat
  <2>1. st.events \in Seq(Events)
    BY DEF RunStates
  <2>2. \A i \in 1 .. Len(st.events) : st.events[i] \in Events
    BY <2>1, ElementOfSeq
  <2>3. \A i \in 1 .. Len(st.events) : st.events[i].seq \in Nat
    BY <2>2 DEF Events
  <2>4. Len(run[r].events) \in Nat /\ Len(st.events) \in Nat
    BY <1>1, <2>1, LenProperties DEF RunStates
  <2>5. run[r].next_seq \in Nat /\ st.next_seq \in Nat /\ mark[r].seq \in Nat
    BY <1>1 DEF RunStates, Marks
  <2> QED
    BY <2>3, <2>4, <2>5
<1>6. CASE Stopped(run[r])
  <2>1. mark'[r] = mark[r] /\ Stopped(st) /\ st.execution = run[r].execution
    BY <1>6 DEF Commit, Advances, Stopped
  <2>2. \A i \in 1 .. Len(log[r]) : Stands(r, log[r][i])'
    BY <1>2, <1>4, <1>6, <2>1 DEF DenialKept, Stands
  <2>3. ASSUME NEW i \in 1 .. Len(st.events)
        PROVE  Stands(r, st.events[i])'
    <3>1. CASE i > Len(run[r].events)
      BY <1>2, <1>4, <1>5, <1>6, <2>1, <3>1 DEF Advances, DenialKept, Stands
    <3>2. CASE i <= Len(run[r].events)
      <4>1. i \in 1 .. Len(run[r].events)
        BY <1>5, <3>2
      <4>2. st.events[i] = run[r].events[i]
        BY <4>1 DEF Advances, Prefixes
      <4> QED
        BY <1>2, <1>4, <1>6, <2>1, <4>1, <4>2 DEF DenialKept, Stands
    <3> QED
      BY <1>5, <3>1, <3>2
  <2>4. mark'[r].seq <= st.next_seq
    BY <1>2, <1>5, <1>6, <2>1 DEF DenialKept, Advances
  <2>5. DenialKept(r)'
    BY <1>4, <2>2, <2>3, <2>4 DEF DenialKept
  <2> QED
    BY <1>3, <2>5 DEF DenialInv
<1>7. CASE ~Stopped(run[r])
  <2>1. \A i \in 1 .. Len(log[r]) : log[r][i].kind \notin Denials
    BY <1>2, <1>7 DEF DenialKept, Stands
  <2>2. \A i \in 1 .. Len(run[r].events) : run[r].events[i].kind \notin Denials
    BY <1>2, <1>7 DEF DenialKept, Stands
  <2>3. Stopped(st) => mark'[r].seq = st.next_seq
    BY <1>1, <1>7 DEF Commit
  <2>4. ASSUME NEW i \in 1 .. Len(st.events)
        PROVE  Stands(r, st.events[i])'
    <3>1. CASE i > Len(run[r].events)
      BY <1>4, <1>5, <1>7, <2>3, <3>1 DEF Advances, Stands
    <3>2. CASE i <= Len(run[r].events)
      <4>1. i \in 1 .. Len(run[r].events)
        BY <1>5, <3>2
      <4>2. st.events[i] = run[r].events[i]
        BY <4>1 DEF Advances, Prefixes
      <4> QED
        BY <2>2, <4>1, <4>2 DEF Stands
    <3> QED
      BY <1>5, <3>1, <3>2
  <2>5. DenialKept(r)'
    BY <1>4, <1>5, <2>1, <2>3, <2>4 DEF DenialKept, Stands
  <2> QED
    BY <1>3, <2>5 DEF DenialInv
<1> QED
  BY <1>6, <1>7

\* An event of two sequences put together is in one of them.
LEMMA ConcatItem ==
  ASSUME NEW s \in Seq(Events), NEW t \in Seq(Events), NEW i \in 1 .. Len(s \o t)
  PROVE  \/ \E j \in 1 .. Len(s) : (s \o t)[i] = s[j]
         \/ \E j \in 1 .. Len(t) : (s \o t)[i] = t[j]
<1>1. /\ Len(s \o t) = Len(s) + Len(t)
      /\ \A k \in 1 .. Len(s) + Len(t) :
           (s \o t)[k] = IF k <= Len(s) THEN s[k] ELSE t[k - Len(s)]
  BY ConcatProperties
<1>2. Len(s) \in Nat /\ Len(t) \in Nat /\ i \in 1 .. Len(s) + Len(t)
  BY <1>1, LenProperties
<1>3. CASE i <= Len(s)
  <2>1. i \in 1 .. Len(s)
    BY <1>2, <1>3
  <2> QED
    BY <1>1, <1>2, <1>3, <2>1
<1>4. CASE i > Len(s)
  <2>1. i - Len(s) \in 1 .. Len(t)
    BY <1>2, <1>4
  <2>2. (s \o t)[i] = t[i - Len(s)]
    BY <1>1, <1>2, <1>4
  <2> QED
    BY <2>1, <2>2
<1> QED
  BY <1>2, <1>3, <1>4

LEMMA DenialStep == Typed /\ NumberedInv /\ DenialInv /\ [Next]_vars => DenialInv'
<1> SUFFICES ASSUME Typed, NumberedInv, DenialInv, [Next]_vars
             PROVE  DenialInv'
  OBVIOUS
<1>1. run \in [Runs -> RunStates] /\ log \in [Runs -> Seq(Events)]
  BY DEF Typed, TypeOK
<1>2. ASSUME NEW c \in Clients, Arrive(c)
      PROVE  DenialInv'
  <2>1. log' = log /\ mark' = mark
    BY <1>2 DEF Arrive
  <2>2. ASSUME NEW s \in Runs
        PROVE  DenialKept(s)'
    <3>1. CASE run'[s] = run[s]
      BY <2>1, <3>1 DEF DenialInv, DenialKept, Stands
    <3>2. CASE run'[s] # run[s]
      <4>1. s \notin open /\ run'[s] = FreshRun
        BY <1>1, <1>2, <3>2 DEF Arrive, Resolve
      <4>2. log'[s] = <<>>
        BY <2>1, <4>1 DEF NumberedInv, NumberedRun
      <4>3. /\ ~Stopped(FreshRun)
            /\ Len(FreshRun.events) = 1
            /\ FreshRun.events[1].kind \notin Denials
        BY DEF FreshRun, Stopped, Denials
      <4>4. \A i \in 1 .. Len(FreshRun.events) : FreshRun.events[i].kind \notin Denials
        BY <4>3
      <4> QED
        BY <4>1, <4>2, <4>3, <4>4 DEF DenialKept, Stands
    <3> QED
      BY <3>1, <3>2
  <2> QED
    BY <2>2 DEF DenialInv
<1>3. ASSUME NEW c \in Clients, Refuse(c) \/ Admit(c) \/ Policy(c)
      PROVE  DenialInv'
  BY <1>3 DEF Refuse, Admit, Policy, DenialInv, DenialKept, Stands
<1>4. ASSUME NEW c \in Clients, Deny(c) \/ Allow(c) \/ Fail(c) \/ Apply(c)
      PROVE  DenialInv'
  BY <1>4, SectionCommits, CommitDenial
<1>5. ASSUME NEW r \in Runs, Drain(r)
      PROVE  DenialInv'
  <2>1. /\ log' = [log EXCEPT ![r] = @ \o run[r].events]
        /\ run' = [run EXCEPT ![r] = TakeEvents(@)]
        /\ mark' = mark
    BY <1>5 DEF Drain
  <2>2. ASSUME NEW s \in Runs, s # r
        PROVE  DenialKept(s)'
    BY <1>1, <2>1, <2>2 DEF DenialInv, DenialKept, Stands
  <2>3. /\ run[r].events \in Seq(Events) /\ log[r] \in Seq(Events)
        /\ TakeEvents(run[r]).events = <<>>
        /\ TakeEvents(run[r]).next_seq = run[r].next_seq
        /\ TakeEvents(run[r]).execution = run[r].execution
    BY <1>1 DEF TakeEvents, RunStates
  <2>4. log'[r] = log[r] \o run[r].events /\ run'[r] = TakeEvents(run[r])
    BY <1>1, <2>1
  <2>5. ASSUME NEW i \in 1 .. Len(log'[r])
        PROVE  Stands(r, log'[r][i])
    <3>1. i \in 1 .. Len(log[r] \o run[r].events)
      BY <2>4
    <3>2. \/ \E j \in 1 .. Len(log[r]) : (log[r] \o run[r].events)[i] = log[r][j]
          \/ \E j \in 1 .. Len(run[r].events) :
               (log[r] \o run[r].events)[i] = run[r].events[j]
      BY <2>3, <3>1, ConcatItem
    <3> QED
      BY <2>4, <3>2 DEF DenialInv, DenialKept
  <2>6. DenialKept(r)'
    BY <2>1, <2>3, <2>4, <2>5 DEF DenialInv, DenialKept, Stands, Stopped
  <2> QED
    BY <2>2, <2>6 DEF DenialInv
<1>6. CASE UNCHANGED vars
  BY <1>6 DEF vars, DenialInv, DenialKept, Stands
<1> QED
  BY <1>2, <1>3, <1>4, <1>5, <1>6 DEF Next, Handle

\* The events of a run that nobody has asked anything of say nothing of an end.
LEMMA FirstEvents ==
  ASSUME Init, NEW r \in Runs
  PROVE  \A i \in 1 .. Len(run[r].events) : run[r].events[i].kind \notin Verdicts
<1>1. PICK first \in {FreshRun, PlaceholderRun}, name \in Names :
        run = [s \in Runs |->
                 IF s = Primary THEN RecordIdentity(first, "governor", name) ELSE FreshRun]
  BY DEF Init
<1>2. \A i \in 1 .. Len(FreshRun.events) : FreshRun.events[i].kind \notin Verdicts
  <2>1. Len(FreshRun.events) = 1 /\ FreshRun.events[1].kind \notin Verdicts
    BY DEF FreshRun, Verdicts, Denials
  <2> QED
    BY <2>1
<1>3. \A i \in 1 .. Len(PlaceholderRun.events) : PlaceholderRun.events[i].kind \notin Verdicts
  <2>1. PlaceholderRun.events = <<>>
    BY FreshRunType DEF PlaceholderRun, RunStates
  <2> QED
    BY <2>1
<1> DEFINE st == RecordIdentity(first, "governor", name)
<1>4. first \in RunStates /\ st \in RunStates /\ Proceeds(first, st)
  BY FreshRunType, IdentityProceeds, RecordIdentityType DEF Identities
<1> HIDE DEF st
<1>5. Len(first.events) \in Nat /\ Len(st.events) \in Nat
  BY <1>4 DEF RunStates
<1>6. ASSUME NEW i \in 1 .. Len(st.events)
      PROVE  st.events[i].kind \notin Verdicts
  <2>1. CASE i > Len(first.events)
    BY <1>4, <2>1 DEF Proceeds
  <2>2. CASE i <= Len(first.events)
    <3>1. i \in 1 .. Len(first.events)
      BY <1>5, <2>2
    <3> QED
      BY <1>2, <1>3, <1>4, <3>1 DEF Proceeds, Prefixes
  <2> QED
    BY <1>5, <2>1, <2>2
<1> QED
  BY <1>1, <1>2, <1>6 DEF st

LEMMA DenialInit == Init => DenialInv
<1> SUFFICES ASSUME Init, NEW r \in Runs
             PROVE  DenialKept(r)
  BY DEF DenialInv
<1>1. log[r] = <<>> /\ ~Stopped(run[r])
  BY InitialRuns DEF Init, Stopped
<1>2. \A i \in 1 .. Len(run[r].events) : run[r].events[i].kind \notin Denials
  BY FirstEvents DEF Verdicts
<1> QED
  BY <1>1, <1>2 DEF DenialKept, Stands

\* No run goes on past a denial, whatever requests are in flight: what the log
\* shows as denied either stopped the run, under its own name, or found it
\* stopped.  RecordDenied logs and stops in one critical section.
THEOREM DenialStops == Spec => []DenialIsTheStop
<1>1. Typed /\ DenialInv => DenialIsTheStop
  <2> SUFFICES ASSUME Typed, DenialInv, NEW r \in open, NEW i \in DOMAIN Stream(r)
               PROVE  Stands(r, Stream(r)[i])
    BY DEF DenialIsTheStop, Stands
  <2>1. /\ r \in Runs /\ DenialKept(r)
        /\ log[r] \in Seq(Events) /\ run[r].events \in Seq(Events)
    BY DEF Typed, TypeOK, RunStates, DenialInv
  <2>2. i \in 1 .. Len(log[r] \o run[r].events)
    <3>1. Stream(r) \in Seq(Events)
      BY <2>1, ConcatProperties DEF Stream
    <3> QED
      BY <3>1, LenProperties DEF Stream
  <2>3. \/ \E j \in 1 .. Len(log[r]) : Stream(r)[i] = log[r][j]
        \/ \E j \in 1 .. Len(run[r].events) : Stream(r)[i] = run[r].events[j]
    BY <2>1, <2>2, ConcatItem DEF Stream
  <2> QED
    BY <2>1, <2>3 DEF DenialKept
<1>2. Init => NumberedInv /\ DenialInv
  BY NumberedInit, DenialInit
<1>3. Typed /\ NumberedInv /\ DenialInv /\ [Next]_vars => (NumberedInv /\ DenialInv)'
  BY NumberedStep, DenialStep
<1> QED
  BY <1>1, <1>2, <1>3, TypeCorrect, PTL DEF Spec

-----------------------------------------------------------------------------
(* The log is append-only *)

\* A buffer that grew behind the same log.
LEMMA GrownStream ==
  ASSUME NEW old \in Seq(Events), NEW st \in RunStates, NEW st2 \in RunStates,
         Prefixes(st, st2)
  PROVE  /\ Len(old \o st.events) <= Len(old \o st2.events)
         /\ SubSeq(old \o st2.events, 1, Len(old \o st.events)) = old \o st.events
<1> DEFINE s == old \o st.events
<1> DEFINE t == old \o st2.events
<1>1. st.events \in Seq(Events) /\ st2.events \in Seq(Events)
  BY DEF RunStates
<1>2. Len(old) \in Nat /\ Len(st.events) \in Nat /\ Len(st2.events) \in Nat
  BY <1>1, LenProperties
<1>3. /\ s \in Seq(Events) /\ Len(s) = Len(old) + Len(st.events)
      /\ \A i \in 1 .. Len(old) + Len(st.events) :
           s[i] = IF i <= Len(old) THEN old[i] ELSE st.events[i - Len(old)]
  BY <1>1, ConcatProperties
<1>4. /\ t \in Seq(Events) /\ Len(t) = Len(old) + Len(st2.events)
      /\ \A i \in 1 .. Len(old) + Len(st2.events) :
           t[i] = IF i <= Len(old) THEN old[i] ELSE st2.events[i - Len(old)]
  BY <1>1, ConcatProperties
<1> HIDE DEF s, t
<1>5. Len(s) <= Len(t) /\ Len(s) \in Nat /\ Len(t) \in Nat
  BY <1>2, <1>3, <1>4 DEF Prefixes
<1>6. ASSUME NEW i \in 1 .. Len(s)
      PROVE  t[i] = s[i]
  <2>1. i \in 1 .. Len(old) + Len(st.events) /\ i \in 1 .. Len(old) + Len(st2.events)
    BY <1>2, <1>3, <1>4, <1>5
  <2>2. CASE i <= Len(old)
    BY <1>3, <1>4, <2>1, <2>2
  <2>3. CASE i > Len(old)
    <3>1. i - Len(old) \in 1 .. Len(st.events)
      BY <1>2, <2>1, <2>3
    <3> QED
      BY <1>2, <1>3, <1>4, <2>1, <2>3, <3>1 DEF Prefixes
  <2> QED
    BY <1>2, <2>1, <2>2, <2>3
<1>7. \A i \in 1 .. Len(s) : t[i] \in Events
  BY <1>3, <1>6, ElementOfSeq
<1>8. /\ SubSeq(t, 1, Len(s)) \in Seq(Events)
      /\ Len(SubSeq(t, 1, Len(s))) = Len(s)
      /\ \A i \in 1 .. Len(s) : SubSeq(t, 1, Len(s))[i] = t[i]
  <2>1. /\ SubSeq(t, 1, Len(s)) \in Seq(Events)
        /\ Len(SubSeq(t, 1, Len(s))) = IF 1 <= Len(s) THEN Len(s) - 1 + 1 ELSE 0
        /\ \A i \in 1 .. Len(s) - 1 + 1 : SubSeq(t, 1, Len(s))[i] = t[1 + i - 1]
    BY <1>5, <1>7, SubSeqProperties
  <2> QED
    BY <1>5, <2>1
<1>9. SubSeq(t, 1, Len(s)) = s
  BY <1>3, <1>6, <1>8, SeqEqual
<1> QED
  BY <1>5, <1>9 DEF s, t

LEMMA AppendOnlyStep ==
  ASSUME Typed, [Next]_vars, NEW r \in open
  PROVE  /\ Len(Stream(r)) <= Len(Stream(r)')
         /\ SubSeq(Stream(r)', 1, Len(Stream(r))) = Stream(r)
<1>1. /\ r \in Runs /\ run \in [Runs -> RunStates] /\ log \in [Runs -> Seq(Events)]
      /\ log[r] \in Seq(Events) /\ run[r] \in RunStates /\ run[r].events \in Seq(Events)
  BY DEF Typed, TypeOK, RunStates
<1>2. CASE Stream(r)' = Stream(r)
  <2>1. Stream(r) \in Seq(Events)
    BY <1>1, ConcatProperties DEF Stream
  <2>2. Len(Stream(r)) \in Nat /\ SubSeq(Stream(r), 1, Len(Stream(r))) = Stream(r)
    BY <2>1, LenProperties, SubSeqFull
  <2> QED
    BY <1>2, <2>2
<1>3. ASSUME NEW c \in Clients, Arrive(c)
      PROVE  Stream(r)' = Stream(r)
  BY <1>1, <1>3 DEF Arrive, Resolve, Stream
<1>4. ASSUME NEW c \in Clients, Refuse(c) \/ Admit(c) \/ Policy(c)
      PROVE  Stream(r)' = Stream(r)
  BY <1>4 DEF Refuse, Admit, Policy, Stream
<1>5. ASSUME NEW c \in Clients, Deny(c) \/ Allow(c) \/ Fail(c) \/ Apply(c), r = RunOf(c)
      PROVE  /\ Len(Stream(r)) <= Len(Stream(r)')
             /\ SubSeq(Stream(r)', 1, Len(Stream(r))) = Stream(r)
  <2>1. PICK st \in RunStates : Advances(run[r], st) /\ Commit(r, st)
    BY <1>5, SectionCommits
  <2>2. Stream(r)' = log[r] \o st.events
    BY <1>1, <2>1 DEF Commit, Stream
  <2> QED
    BY <1>1, <2>1, <2>2, GrownStream DEF Advances, Stream
<1>6. ASSUME NEW c \in Clients, Deny(c) \/ Allow(c) \/ Fail(c) \/ Apply(c), r # RunOf(c)
      PROVE  Stream(r)' = Stream(r)
  BY <1>1, <1>6, SectionCommits DEF Commit, Stream
<1>7. ASSUME NEW s \in Runs, Drain(s)
      PROVE  Stream(r)' = Stream(r)
  <2>1. /\ log' = [log EXCEPT ![s] = @ \o run[s].events]
        /\ run' = [run EXCEPT ![s] = TakeEvents(@)]
    BY <1>7 DEF Drain
  <2>2. CASE s # r
    BY <1>1, <2>1, <2>2 DEF Stream
  <2>3. CASE s = r
    <3>1. log'[r] = log[r] \o run[r].events /\ run'[r] = TakeEvents(run[r])
      BY <1>1, <2>1, <2>3
    <3>2. TakeEvents(run[r]).events = <<>>
      BY <1>1 DEF TakeEvents, RunStates
    <3>3. log[r] \o run[r].events \in Seq(Events)
      BY <1>1, ConcatProperties
    <3> QED
      BY <3>1, <3>2, <3>3, ConcatEmptySeq DEF Stream
  <2> QED
    BY <2>2, <2>3
<1>8. CASE UNCHANGED vars
  <2>1. Stream(r)' = Stream(r)
    BY <1>8 DEF vars, Stream
  <2> QED
    BY <1>2, <2>1
<1> QED
  BY <1>2, <1>3, <1>4, <1>5, <1>6, <1>7, <1>8 DEF Next, Handle

\* Whatever requests append while the drain thread takes the buffer, what a run
\* has logged stays as it is and in its order: take_run_events hands over what it
\* clears, and append_event only ever adds at the end.
THEOREM LogIsAppendOnly == Spec => StreamAppendOnly
<1> DEFINE Grown ==
      \A r \in open :
        /\ Len(Stream(r)) <= Len(Stream(r)')
        /\ SubSeq(Stream(r)', 1, Len(Stream(r))) = Stream(r)
<1>1. Typed /\ [Next]_vars => [Grown]_vars
  BY AppendOnlyStep
<1> QED
  BY <1>1, TypeCorrect, PTL DEF Spec, StreamAppendOnly

-----------------------------------------------------------------------------
(* Every run keeps its contract *)

\* The calls of tool t in a history.
CallsOf(history, t) == {i \in DOMAIN history : history[i] = t}

\* Each count is that tool's share of the history.
Counted(st) == \A t \in Tools : st.counts[t] = Cardinality(CallsOf(st.history, t))

\* A run outside the map is as new; a request in hand works on a run of the map;
\* a call the policy let through is of an allowed tool.
ContractInv ==
  /\ \A r \in Runs : Counted(run[r])
  /\ \A r \in Runs \ open : run[r] = FreshRun
  /\ \A c \in Clients :
       /\ pc[c] # "idle" => RunOf(c) \in open
       /\ pc[c] = "execute" => Asked(c).on \in Allowed

LEMMA CallsOfAppend ==
  ASSUME NEW h \in Seq(Tools), NEW tool \in Tools, NEW t \in Tools
  PROVE  /\ Cardinality(CallsOf(h, t)) \in Nat
         /\ Cardinality(CallsOf(Append(h, tool), t)) =
              IF t = tool THEN Cardinality(CallsOf(h, t)) + 1 ELSE Cardinality(CallsOf(h, t))
<1>1. /\ DOMAIN h = 1 .. Len(h) /\ Len(h) \in Nat
      /\ DOMAIN Append(h, tool) = 1 .. Len(h) + 1
      /\ \A i \in 1 .. Len(h) : Append(h, tool)[i] = h[i]
      /\ Append(h, tool)[Len(h) + 1] = tool
  BY AppendProperties, LenProperties
<1>2. IsFiniteSet(CallsOf(h, t)) /\ Cardinality(CallsOf(h, t)) \in Nat
  <2>1. IsFiniteSet(1 .. Len(h))
    BY <1>1, FS_Interval
  <2>2. CallsOf(h, t) \in SUBSET (1 .. Len(h))
    BY <1>1 DEF CallsOf
  <2> QED
    BY <2>1, <2>2, FS_Subset, FS_CardinalityType
<1>3. CASE t = tool
  <2>1. CallsOf(Append(h, tool), t) = CallsOf(h, t) \cup {Len(h) + 1}
    BY <1>1, <1>3 DEF CallsOf
  <2>2. Len(h) + 1 \notin CallsOf(h, t)
    BY <1>1 DEF CallsOf
  <2> QED
    BY <1>2, <1>3, <2>1, <2>2, FS_AddElement
<1>4. CASE t # tool
  <2>1. CallsOf(Append(h, tool), t) = CallsOf(h, t)
    BY <1>1, <1>4 DEF CallsOf
  <2> QED
    BY <1>2, <1>4, <2>1
<1> QED
  BY <1>3, <1>4

LEMMA AllowedCounted ==
  ASSUME NEW st \in RunStates, NEW tool \in Tools, Counted(st)
  PROVE  /\ Counted(RecordAllowed(st, tool))
         /\ RecordAllowed(st, tool).history = Append(st.history, tool)
<1>1. /\ RecordAllowed(st, tool).counts = [st.counts EXCEPT ![tool] = @ + 1]
      /\ RecordAllowed(st, tool).history = Append(st.history, tool)
  BY DEF RecordAllowed, AppendEvent, RunStates
<1>2. st.history \in Seq(Tools) /\ st.counts \in [Tools -> Nat]
  BY DEF RunStates
<1>3. ASSUME NEW t \in Tools
      PROVE  [st.counts EXCEPT ![tool] = @ + 1][t]
               = Cardinality(CallsOf(Append(st.history, tool), t))
  <2>1. Cardinality(CallsOf(Append(st.history, tool), t)) =
          IF t = tool THEN Cardinality(CallsOf(st.history, t)) + 1
          ELSE Cardinality(CallsOf(st.history, t))
    BY <1>2, CallsOfAppend
  <2>2. st.counts[t] = Cardinality(CallsOf(st.history, t))
    BY DEF Counted
  <2> QED
    BY <1>2, <2>1, <2>2
<1> QED
  BY <1>1, <1>3 DEF Counted

LEMMA FreshCounted ==
  ASSUME NEW st, st.counts = [t \in Tools |-> 0], st.history = <<>>
  PROVE  Counted(st)
<1>1. \A t \in Tools : CallsOf(<<>>, t) = {}
  <2>1. DOMAIN <<>> = {}
    OBVIOUS
  <2> QED
    BY <2>1 DEF CallsOf
<1> QED
  BY <1>1, FS_EmptySet DEF Counted

\* A run that has not been opened, and the one that opens the governor.
LEMMA ContractInit == Init => ContractInv
<1> SUFFICES ASSUME Init
             PROVE  ContractInv
  OBVIOUS
<1>1. PICK first \in {FreshRun, PlaceholderRun}, name \in Names :
        run = [r \in Runs |->
                 IF r = Primary THEN RecordIdentity(first, "governor", name) ELSE FreshRun]
  BY DEF Init
<1>2. Counted(FreshRun)
  BY FreshCounted DEF FreshRun
<1>3. Counted(PlaceholderRun)
  BY FreshRunType, FreshCounted DEF PlaceholderRun, FreshRun, RunStates
<1>4. Counted(RecordIdentity(first, "governor", name))
  <2>1. first \in RunStates /\ Counted(first)
    BY <1>2, <1>3, FreshRunType
  <2> QED
    BY <2>1, SameCallsIdentity DEF SameCalls, Counted, Identities
<1> QED
  BY <1>1, <1>2, <1>4 DEF Init, ContractInv

LEMMA ContractStep == Typed /\ ContractInv /\ [Next]_vars => ContractInv'
<1> SUFFICES ASSUME Typed, ContractInv, [Next]_vars
             PROVE  ContractInv'
  OBVIOUS
<1>1. /\ run \in [Runs -> RunStates] /\ pc \in [Clients -> Steps]
      /\ call \in [Clients -> Calls \cup {NoCall}]
  BY DEF Typed, TypeOK
<1>2. ASSUME NEW c \in Clients, Arrive(c)
      PROVE  ContractInv'
  <2>1. PICK r \in Runs, q \in Requests :
          /\ open' = open \cup {r}
          /\ run' = Resolve(r)
          /\ call' = [call EXCEPT ![c] = [run |-> r, q |-> q]]
          /\ pc' = [pc EXCEPT ![c] = IF q.op \in Ungated THEN "apply" ELSE "gate"]
    BY <1>2 DEF Arrive
  <2>2. \A s \in Runs : Counted(run'[s])
    <3>1. Counted(FreshRun)
      BY FreshCounted DEF FreshRun
    <3> QED
      BY <1>1, <2>1, <3>1 DEF Resolve, ContractInv
  <2>3. \A s \in Runs \ open' : run'[s] = FreshRun
    BY <1>1, <2>1 DEF Resolve, ContractInv
  <2>4. \A d \in Clients :
          /\ pc'[d] # "idle" => call'[d].run \in open'
          /\ pc'[d] = "execute" => call'[d].q.on \in Allowed
    BY <1>1, <2>1 DEF ContractInv, RunOf, Asked
  <2> QED
    BY <2>2, <2>3, <2>4 DEF ContractInv, RunOf, Asked
<1>3. ASSUME NEW c \in Clients, Refuse(c) \/ Admit(c)
      PROVE  ContractInv'
  BY <1>1, <1>3 DEF Refuse, Admit, Answered, ContractInv, RunOf, Asked, NoCall
<1>4. ASSUME NEW c \in Clients, Policy(c)
      PROVE  ContractInv'
  <2>1. pc'[c] = "execute" => Asked(c).on \in Allowed
    BY <1>1, <1>4 DEF Policy, Evaluate
  <2>2. open' = open /\ run' = run /\ call' = call /\ pc[c] # "idle"
        /\ \A d \in Clients : d # c => pc'[d] = pc[d]
    BY <1>1, <1>4 DEF Policy
  <2> QED
    BY <2>1, <2>2 DEF ContractInv, RunOf, Asked
<1>5. ASSUME NEW c \in Clients, NEW st, Commit(RunOf(c), st), Answered(c), Counted(st),
             pc[c] # "idle"
      PROVE  ContractInv'
  <2>1. RunOf(c) \in open /\ open' = open /\ run' = [run EXCEPT ![RunOf(c)] = st]
    BY <1>5 DEF ContractInv, Commit
  <2>2. \A d \in Clients : pc'[d] # "idle" => pc'[d] = pc[d] /\ call'[d] = call[d]
    BY <1>1, <1>5 DEF Answered
  <2>3. \A s \in Runs : run'[s] = run[s] \/ (s = RunOf(c) /\ run'[s] = st)
    BY <1>1, <2>1
  <2>4. /\ \A s \in Runs : Counted(run'[s])
        /\ \A s \in Runs \ open' : run'[s] = FreshRun
    BY <1>5, <2>1, <2>3 DEF ContractInv
  <2> QED
    BY <2>1, <2>2, <2>4 DEF ContractInv, RunOf, Asked
<1>6. ASSUME NEW c \in Clients, Deny(c) \/ Fail(c)
      PROVE  ContractInv'
  <2>1. /\ Asked(c).on \in Tools /\ run[RunOf(c)] \in RunStates /\ pc[c] # "idle"
        /\ RunOf(c) \in Runs
    BY <1>6, RequestType DEF Deny, Fail, Typed, InFlight, ToolSteps
  <2>2. /\ pc[c] \in Denials => Counted(RecordDenied(run[RunOf(c)], Asked(c).on, pc[c]))
        /\ Counted(RecordFailed(run[RunOf(c)], Asked(c).on))
    BY <2>1, SameCallsDenied DEF SameCalls, Counted, ContractInv, Denials
  <2> QED
    BY <1>5, <1>6, <2>1, <2>2 DEF Deny, Fail, Denials
<1>7. ASSUME NEW c \in Clients, Allow(c)
      PROVE  ContractInv'
  <2>1. /\ Asked(c).on \in Tools /\ run[RunOf(c)] \in RunStates /\ pc[c] # "idle"
        /\ RunOf(c) \in Runs
    BY <1>7, RequestType DEF Allow, Typed, InFlight, ToolSteps
  <2>2. Counted(RecordAllowed(run[RunOf(c)], Asked(c).on))
    BY <2>1, AllowedCounted DEF ContractInv
  <2> QED
    BY <1>5, <1>7, <2>1, <2>2 DEF Allow
<1>8. ASSUME NEW c \in Clients, Apply(c)
      PROVE  ContractInv'
  <2>1. /\ Asked(c) \in Requests /\ Asked(c).op # "tool" /\ RunOf(c) \in Runs
        /\ run[RunOf(c)] \in RunStates /\ pc[c] # "idle"
    BY <1>8, RequestType DEF Apply, Typed, InFlight
  <2>2. Counted(Effect(run[RunOf(c)], Asked(c)))
    BY <2>1, SameCallsEffect DEF SameCalls, Counted, ContractInv
  <2> QED
    BY <1>5, <1>8, <2>1, <2>2 DEF Apply
<1>9. ASSUME NEW r \in Runs, Drain(r)
      PROVE  ContractInv'
  <2>1. /\ run' = [run EXCEPT ![r] = TakeEvents(@)] /\ r \in open /\ open' = open
        /\ pc' = pc /\ call' = call
    BY <1>9 DEF Drain
  <2>2. /\ TakeEvents(run[r]).counts = run[r].counts
        /\ TakeEvents(run[r]).history = run[r].history
    BY <1>1 DEF TakeEvents, RunStates
  <2>3. \A s \in Runs : run'[s].counts = run[s].counts /\ run'[s].history = run[s].history
    BY <1>1, <2>1, <2>2
  <2>4. \A s \in Runs \ open' : run'[s] = run[s]
    BY <1>1, <2>1
  <2>5. \A s \in Runs : Counted(run'[s])
    BY <2>3 DEF Counted, ContractInv
  <2> QED
    BY <2>1, <2>4, <2>5 DEF ContractInv, RunOf, Asked
<1>10. CASE UNCHANGED vars
  BY <1>10 DEF vars, ContractInv, Counted, RunOf, Asked
<1> QED
  BY <1>2, <1>3, <1>4, <1>6, <1>7, <1>8, <1>9, <1>10 DEF Next, Handle

\* The mapped state of a run.
Execution == [r \in Runs |-> run[r].execution]
History   == [r \in Runs |-> run[r].history]
StoppedAt == [r \in Runs |-> mark[r].calls]

LEMMA ContractStarts ==
  ASSUME Init
  PROVE  Contract!Init
<1>1. PICK first \in {FreshRun, PlaceholderRun}, name \in Names :
        run = [r \in Runs |->
                 IF r = Primary THEN RecordIdentity(first, "governor", name) ELSE FreshRun]
  BY DEF Init
<1>2. first \in RunStates /\ first.history = <<>> /\ FreshRun.history = <<>>
  <2>1. FreshRun.history = <<>>
    BY DEF FreshRun
  <2>2. PlaceholderRun.history = FreshRun.history
    BY FreshRunType DEF PlaceholderRun, RunStates
  <2> QED
    BY <2>1, <2>2, FreshRunType
<1>3. RecordIdentity(first, "governor", name).history = first.history
  BY <1>2, SameCallsIdentity DEF SameCalls, Identities
<1>4. \A r \in Runs : run[r].history = <<>>
  BY <1>1, <1>2, <1>3
<1>5. \A r \in Runs : run[r].execution = Running /\ mark[r].calls = 0
  BY InitialRuns DEF Init
<1>6. /\ [r \in Runs |-> run[r].execution] = [r \in Runs |-> Running]
      /\ [r \in Runs |-> run[r].history] = [r \in Runs |-> <<>>]
      /\ [r \in Runs |-> mark[r].calls] = [r \in Runs |-> 0]
  BY <1>4, <1>5
<1> QED
  BY <1>6 DEF Contract!Init

LEMMA SameCardinality ==
  ASSUME NEW S
  PROVE  Contract!Cardinality(S) = Cardinality(S)
BY DEF Contract!Cardinality, Cardinality

\* A recorded call is one the contract allows.
LEMMA AllowIsCall ==
  ASSUME Typed, CapInv, LateInv, ContractInv, NEW c \in Clients, Allow(c),
         NEW r \in Runs, NEW t \in Tools, r = RunOf(c), t = Asked(c).on
  PROVE  Contract!Next
<1> DEFINE st == RecordAllowed(run[r], t)
<1>1. /\ r \in Runs /\ t \in Tools /\ t \in Allowed /\ run[r] \in RunStates
      /\ pc[c] = "execute" /\ Commit(r, st)
  BY RequestType DEF Allow, Typed, InFlight, ToolSteps, ContractInv
<1>2. /\ run \in [Runs -> RunStates] /\ mark \in [Runs -> Marks]
  BY DEF Typed, TypeOK
<1>3. /\ st.history = Append(run[r].history, t)
      /\ st.execution = run[r].execution
  BY <1>1, AllowedCounts, AllowedCounted DEF ContractInv
<1>4. c \in Executing(r, t) /\ c \in Admitted(r)
  BY <1>1 DEF Executing, Admitted
<1> HIDE DEF st
<1>5. mark' = mark /\ run' = [run EXCEPT ![r] = st]
  BY <1>1, <1>3 DEF Commit, Stopped
<1>6. Contract!WithinCap(r, t)
  <2> SUFFICES ASSUME t \in Capped
               PROVE  MaxCalls[t] > 0 /\ Contract!CountOf(r, t) < MaxCalls[t] + (Cardinality(Clients) - 1)
    BY DEF Contract!WithinCap
  <2>1. /\ run[r].counts[t] \in Nat /\ MaxCalls[t] \in Nat
        /\ Executing(r, t) \in SUBSET Clients /\ CapKept(r, t)
    BY <1>1, CapTypes DEF CapInv
  <2>2. /\ Cardinality(Executing(r, t)) \in Nat /\ Cardinality(Clients) \in Nat
        /\ Cardinality(Executing(r, t)) >= 1
    <3>1. {c} \in SUBSET Clients /\ {c} \subseteq Executing(r, t)
      BY <1>4
    <3>2. Cardinality({c}) = 1
      BY FS_Singleton
    <3> QED
      BY <2>1, <3>1, <3>2, ClientCount
  <2>3. MaxCalls[t] # 0 /\ run[r].counts[t] < MaxCalls[t] + (Cardinality(Clients) - 1)
    BY <1>4, <2>1, <2>2 DEF CapKept
  <2>4. Contract!CountOf(r, t) = run[r].counts[t]
    <3>1. Contract!CountOf(r, t) = Contract!Cardinality(CallsOf(run[r].history, t))
      BY DEF Contract!CountOf, CallsOf
    <3> QED
      BY <3>1, SameCardinality DEF ContractInv, Counted
  <2> QED
    BY <2>1, <2>3, <2>4
<1>7. Contract!WithinStop(r)
  <2> SUFFICES ASSUME Stopped(run[r])
               PROVE  Len(run[r].history) < mark[r].calls + (Cardinality(Clients) - 1)
    BY <1>1 DEF Contract!WithinStop, Stopped
  <2>1. /\ Len(run[r].history) \in Nat /\ mark[r].calls \in Nat
        /\ Admitted(r) \in SUBSET Clients /\ LateKept(r)
    BY <1>1, LateTypes DEF LateInv
  <2>2. /\ Cardinality(Admitted(r)) \in Nat /\ Cardinality(Clients) \in Nat
        /\ Cardinality(Admitted(r)) >= 1
    <3>1. {c} \in SUBSET Clients /\ {c} \subseteq Admitted(r)
      BY <1>4
    <3>2. Cardinality({c}) = 1
      BY FS_Singleton
    <3> QED
      BY <2>1, <3>1, <3>2, ClientCount
  <2> QED
    BY <2>1, <2>2 DEF LateKept
<1>8. /\ History' = [History EXCEPT ![r] = Append(@, t)]
      /\ Execution' = Execution /\ StoppedAt' = StoppedAt
  BY <1>1, <1>2, <1>3, <1>5 DEF History, Execution, StoppedAt
<1>9. Contract!Call(r, t)
  BY <1>1, <1>6, <1>7, <1>8 DEF Contract!Call, History, Execution, StoppedAt
<1> QED
  BY <1>1, <1>9 DEF Contract!Next

\* Any other section stops the run, or shows nothing.
LEMMA CommitIsStop ==
  ASSUME Typed, NEW r \in Runs, NEW st \in RunStates, Commit(r, st), SameCalls(run[r], st)
  PROVE  Contract!Next \/ UNCHANGED <<Execution, History, StoppedAt>>
<1>1. /\ run \in [Runs -> RunStates] /\ mark \in [Runs -> Marks]
      /\ run' = [run EXCEPT ![r] = st] /\ st.history = run[r].history
  BY DEF Typed, TypeOK, Commit, SameCalls
<1>2. History' = History
  BY <1>1 DEF History
<1>3. CASE Stopped(st) /\ ~Stopped(run[r])
  <2>1. Execution' = [Execution EXCEPT ![r] = st.execution]
    BY <1>1 DEF Execution
  <2>2. StoppedAt' = [StoppedAt EXCEPT ![r] = Len(History[r])]
    BY <1>1, <1>3 DEF Commit, StoppedAt, History
  <2>3. st.execution \in StopReasons /\ run[r].execution = Running
    BY <1>3 DEF Stopped, RunStates
  <2>4. Contract!Stop(r)
    BY <1>2, <2>1, <2>2, <2>3 DEF Contract!Stop, Execution, History, StoppedAt
  <2> QED
    BY <2>4 DEF Contract!Next
<1>4. CASE ~(Stopped(st) /\ ~Stopped(run[r]))
  <2>1. st.execution = run[r].execution
    BY <1>1, <1>4 DEF Stopped, SameCalls
  <2>2. Execution' = Execution
    BY <1>1, <2>1 DEF Execution
  <2>3. mark' = mark
    BY <1>4 DEF Commit
  <2> QED
    BY <1>2, <2>2, <2>3 DEF StoppedAt
<1> QED
  BY <1>3, <1>4

\* A step that leaves every run's calls and verdicts alone shows nothing.
LEMMA ShowsNothing ==
  ASSUME mark' = mark,
         \A r \in Runs : /\ run'[r].execution = run[r].execution
                        /\ run'[r].history = run[r].history
  PROVE  UNCHANGED <<Execution, History, StoppedAt>>
BY DEF Execution, History, StoppedAt

LEMMA ContractSteps ==
  Typed /\ CapInv /\ LateInv /\ ContractInv /\ [Next]_vars
    => [Contract!Next]_<<Execution, History, StoppedAt>>
<1> SUFFICES ASSUME Typed, CapInv, LateInv, ContractInv, [Next]_vars
             PROVE  Contract!Next \/ UNCHANGED <<Execution, History, StoppedAt>>
  OBVIOUS
<1>1. run \in [Runs -> RunStates]
  BY DEF Typed, TypeOK
<1>2. ASSUME NEW c \in Clients, Arrive(c)
      PROVE  UNCHANGED <<Execution, History, StoppedAt>>
  <2>1. mark' = mark /\ \A r \in Runs : run'[r] = run[r]
    BY <1>1, <1>2 DEF Arrive, Resolve, ContractInv
  <2> QED
    BY <2>1, ShowsNothing
<1>3. ASSUME NEW c \in Clients, Refuse(c) \/ Admit(c) \/ Policy(c)
      PROVE  UNCHANGED <<Execution, History, StoppedAt>>
  BY <1>3 DEF Refuse, Admit, Policy, Execution, History, StoppedAt
<1>4. ASSUME NEW c \in Clients, pc[c] # "idle", NEW st \in RunStates,
             SameCalls(run[RunOf(c)], st), Commit(RunOf(c), st)
      PROVE  Contract!Next \/ UNCHANGED <<Execution, History, StoppedAt>>
  <2>1. PICK r \in Runs : r = RunOf(c)
    BY <1>4, RequestType DEF Typed
  <2>2. Commit(r, st) /\ SameCalls(run[r], st)
    BY <1>4, <2>1
  <2> QED
    BY <2>2, CommitIsStop
<1>5. ASSUME NEW c \in Clients, Deny(c) \/ Fail(c)
      PROVE  Contract!Next \/ UNCHANGED <<Execution, History, StoppedAt>>
  <2>1. /\ Asked(c).on \in Tools /\ run[RunOf(c)] \in RunStates /\ pc[c] # "idle"
    BY <1>5, RequestType DEF Deny, Fail, Typed, InFlight, ToolSteps
  <2>2. CASE Deny(c)
    <3>1. pc[c] \in {"ToolDenied", "RuleDenied"}
      BY <2>2 DEF Deny
    <3>2. /\ RecordDenied(run[RunOf(c)], Asked(c).on, pc[c]) \in RunStates
          /\ SameCalls(run[RunOf(c)], RecordDenied(run[RunOf(c)], Asked(c).on, pc[c]))
      BY <2>1, <3>1, RecordDeniedType, SameCallsDenied
    <3> QED
      BY <1>4, <2>1, <2>2, <3>2 DEF Deny
  <2>3. CASE Fail(c)
    <3>1. /\ RecordFailed(run[RunOf(c)], Asked(c).on) \in RunStates
          /\ SameCalls(run[RunOf(c)], RecordFailed(run[RunOf(c)], Asked(c).on))
      BY <2>1, RecordFailedType, SameCallsDenied
    <3> QED
      BY <1>4, <2>1, <2>3, <3>1 DEF Fail
  <2> QED
    BY <1>5, <2>2, <2>3
<1>6. ASSUME NEW c \in Clients, Allow(c)
      PROVE  Contract!Next
  <2>1. RunOf(c) \in Runs /\ Asked(c).on \in Tools
    BY <1>6, RequestType DEF Allow, Typed, InFlight, ToolSteps
  <2>2. PICK r \in Runs : r = RunOf(c)
    BY <2>1
  <2>3. PICK t \in Tools : t = Asked(c).on
    BY <2>1
  <2> QED
    BY <1>6, <2>2, <2>3, AllowIsCall
<1>7. ASSUME NEW c \in Clients, Apply(c)
      PROVE  Contract!Next \/ UNCHANGED <<Execution, History, StoppedAt>>
  <2>1. /\ Asked(c) \in Requests /\ Asked(c).op # "tool"
        /\ run[RunOf(c)] \in RunStates /\ pc[c] # "idle"
    BY <1>7, RequestType DEF Apply, Typed, InFlight
  <2>2. /\ Effect(run[RunOf(c)], Asked(c)) \in RunStates
        /\ SameCalls(run[RunOf(c)], Effect(run[RunOf(c)], Asked(c)))
    BY <2>1, EffectType, SameCallsEffect
  <2> QED
    BY <1>4, <1>7, <2>1, <2>2 DEF Apply
<1>8. ASSUME NEW r \in Runs, Drain(r)
      PROVE  UNCHANGED <<Execution, History, StoppedAt>>
  <2>1. mark' = mark /\ run' = [run EXCEPT ![r] = TakeEvents(@)]
    BY <1>8 DEF Drain
  <2>2. /\ TakeEvents(run[r]).execution = run[r].execution
        /\ TakeEvents(run[r]).history = run[r].history
    BY <1>1 DEF TakeEvents, RunStates
  <2> QED
    BY <1>1, <2>1, <2>2, ShowsNothing
<1>9. CASE UNCHANGED vars
  BY <1>9 DEF vars, Execution, History, StoppedAt
<1> QED
  BY <1>2, <1>3, <1>5, <1>6, <1>7, <1>8, <1>9 DEF Next, Handle

\* Whatever requests are in flight, every run keeps the contract of module
\* RunContract, with a slack of one call per other client: the handlers in
\* two critical sections implement it, step by step.
THEOREM ContractKept == Spec => RunsKeepContract
<1>1. Init => Contract!Init
  BY ContractStarts
<1>2. Typed /\ CapInv /\ LateInv /\ ContractInv /\ [Next]_vars
        => [Contract!Next]_<<Execution, History, StoppedAt>>
  BY ContractSteps
<1>3. Init => LateInv
  BY InitialRuns DEF LateInv, LateKept, Stopped
<1> QED
  BY <1>1, <1>2, <1>3, TypedInit, TypedStep, CapInit, CapStep, LateStep, ContractInit,
     ContractStep, PTL DEF Spec, RunsKeepContract, Contract!Spec, Execution, History, StoppedAt

-----------------------------------------------------------------------------
(* The log is the account of the run: sums and selections over sequences *)

\* A value carried from one place to the next by a step function is determined,
Alike(f, g, n) ==
  f[0] = g[0] /\ \A i \in 1 .. n : f[i - 1] = g[i - 1] => f[i] = g[i]

LEMMA CarriedOnce ==
  ASSUME NEW n \in Nat, NEW f, NEW g, Alike(f, g, n)
  PROVE  f[n] = g[n]
<1> DEFINE Bad == {i \in 0 .. n : f[i] # g[i]}
<1> SUFFICES ASSUME f[n] # g[n] PROVE FALSE
  OBVIOUS
<1>1. Bad \subseteq Nat /\ n \in Bad
  OBVIOUS
<1>2. PICK m \in Bad : \A y \in Bad : ~ (<<y, m>> \in OpToRel(<, Nat))
  <2> HIDE DEF Bad
  <2> QED
    BY <1>1, NatLessThanWellFounded, WFMin
<1>3. m \in 1 .. n /\ m - 1 \in 0 .. n /\ m \in Nat /\ m - 1 \in Nat /\ m - 1 < m
  BY DEF Alike
<1>4. <<m - 1, m>> \in OpToRel(<, Nat)
  BY <1>3, Zenon DEF OpToRel
<1>5. m - 1 \notin Bad
  BY <1>2, <1>4
<1>6. f[m - 1] = g[m - 1]
  BY <1>3, <1>5
<1> QED
  BY <1>3, <1>6 DEF Alike

\* and exists.
Carries(f, start, step, n) ==
  f[0] = start /\ \A i \in 1 .. n : f[i] = step[i][f[i - 1]]

LEMMA CarriedExists ==
  ASSUME NEW n \in Nat, NEW A, NEW start \in A, NEW step \in [1 .. n -> [A -> A]]
  PROVE  \E f \in [0 .. n -> A] : Carries(f, start, step, n)
<1> USE DEF Carries
<1> DEFINE Bad == {m \in 0 .. n : \A f \in [0 .. m -> A] : ~Carries(f, start, step, m)}
<1> SUFFICES ASSUME \A f \in [0 .. n -> A] : ~Carries(f, start, step, n)
             PROVE  FALSE
  OBVIOUS
<1>1. Bad \subseteq Nat /\ n \in Bad
  OBVIOUS
<1>2. PICK m \in Bad : \A y \in Bad : ~ (<<y, m>> \in OpToRel(<, Nat))
  <2> HIDE DEF Bad
  <2> QED
    BY <1>1, NatLessThanWellFounded, WFMin
<1>3. m # 0
  <2> SUFFICES ASSUME m = 0 PROVE FALSE
    OBVIOUS
  <2>1. [i \in 0 .. 0 |-> start] \in [0 .. 0 -> A]
    OBVIOUS
  <2>2. Carries([i \in 0 .. 0 |-> start], start, step, 0)
    OBVIOUS
  <2> QED
    BY <2>1, <2>2
<1>4. m \in 1 .. n /\ m - 1 \in 0 .. n /\ m \in Nat /\ m - 1 \in Nat /\ m - 1 < m
  BY <1>3
<1>5. <<m - 1, m>> \in OpToRel(<, Nat)
  BY <1>4, Zenon DEF OpToRel
<1>6. m - 1 \notin Bad
  BY <1>2, <1>5
<1>7. PICK f \in [0 .. (m - 1) -> A] : Carries(f, start, step, m - 1)
  BY <1>4, <1>6
<1> DEFINE g == [i \in 0 .. m |-> IF i = m THEN step[m][f[m - 1]] ELSE f[i]]
<1>8. f[m - 1] \in A /\ step[m][f[m - 1]] \in A
  BY <1>4
<1>9. g \in [0 .. m -> A]
  BY <1>4, <1>8
<1>10. Carries(g, start, step, m)
  <2>1. g[0] = start
    BY <1>4, <1>7
  <2>2. ASSUME NEW i \in 1 .. m PROVE g[i] = step[i][g[i - 1]]
    <3>1. CASE i = m
      BY <1>4, <3>1
    <3>2. CASE i # m
      <4>1. i \in 1 .. (m - 1) /\ g[i] = f[i] /\ g[i - 1] = f[i - 1]
        BY <1>4, <3>2
      <4> QED
        BY <1>7, <4>1
    <3> QED
      BY <3>1, <3>2
  <2> QED
    BY <2>1, <2>2
<1> QED
  BY <1>9, <1>10

\* The running sum of the tokens of a log.
Summed(s, f) ==
  /\ f \in [0 .. Len(s) -> Nat]
  /\ f[0] = 0
  /\ \A i \in 1 .. Len(s) : f[i] = f[i - 1] + s[i].tokens

LEMMA TokensOfSum ==
  ASSUME NEW s \in Seq(Events)
  PROVE  \E f : Summed(s, f) /\ TokensOf(s) = f[Len(s)]
<1> DEFINE Body(f) == [i \in 0 .. Len(s) |-> IF i = 0 THEN 0 ELSE f[i - 1] + s[i].tokens]
<1>1. PICK n \in Nat : n = Len(s)
  BY LenProperties
<1>2. \A i \in 1 .. n : s[i].tokens \in Nat
  <2>1. \A i \in 1 .. n : s[i] \in Events
    BY <1>1, ElementOfSeq
  <2> QED
    BY <2>1 DEF Events
<1> DEFINE step == [i \in 1 .. n |-> [a \in Nat |-> a + s[i].tokens]]
<1>3. step \in [1 .. n -> [Nat -> Nat]]
  BY <1>2
<1>4. PICK f \in [0 .. n -> Nat] : Carries(f, 0, step, n)
  <2> HIDE DEF step
  <2>1. 0 \in Nat
    OBVIOUS
  <2> QED
    BY <1>3, <2>1, CarriedExists
<1>5. ASSUME NEW i \in 1 .. n
      PROVE  f[i - 1] \in Nat /\ f[i] = f[i - 1] + s[i].tokens
  <2>1. i - 1 \in 0 .. n
    OBVIOUS
  <2>2. f[i - 1] \in Nat
    BY <2>1
  <2>3. f[i] = step[i][f[i - 1]]
    BY <1>4 DEF Carries
  <2> QED
    BY <2>2, <2>3
<1>6. f = Body(f)
  <2>1. \A i \in 0 .. n : f[i] = IF i = 0 THEN 0 ELSE f[i - 1] + s[i].tokens
    BY <1>4, <1>5 DEF Carries
  <2> QED
    BY <1>1, <2>1
<1> DEFINE total == CHOOSE g : g = Body(g)
<1>7. total = Body(total)
  BY <1>6
<1>8. TokensOf(s) = total[n]
  BY <1>1 DEF TokensOf
<1>9. Alike(total, f, n)
  <2> HIDE DEF total
  <2>1. \A i \in 0 .. n : total[i] = IF i = 0 THEN 0 ELSE total[i - 1] + s[i].tokens
    BY <1>1, <1>7
  <2> QED
    BY <1>4, <1>5, <2>1 DEF Carries, Alike
<1>10. total[n] = f[n]
  <2> HIDE DEF total
  <2> QED
    BY <1>9, CarriedOnce
<1>11. Summed(s, f)
  BY <1>1, <1>4, <1>5 DEF Carries, Summed
<1> QED
  BY <1>1, <1>8, <1>10, <1>11

LEMMA TokensOfEmpty == TokensOf(<<>>) = 0
<1>1. <<>> \in Seq(Events) /\ Len(<<>>) = 0
  OBVIOUS
<1>2. PICK f : Summed(<<>>, f) /\ TokensOf(<<>>) = f[Len(<<>>)]
  BY <1>1, TokensOfSum
<1> QED
  BY <1>1, <1>2 DEF Summed

LEMMA TokensOfAppend ==
  ASSUME NEW s \in Seq(Events), NEW e \in Events
  PROVE  TokensOf(s) \in Nat /\ TokensOf(Append(s, e)) = TokensOf(s) + e.tokens
<1>1. PICK n \in Nat : n = Len(s)
  BY LenProperties
<1>2. PICK t \in Seq(Events) : t = Append(s, e)
  BY AppendProperties
<1>3. Len(t) = n + 1 /\ t[n + 1] = e /\ \A i \in 1 .. n : t[i] = s[i]
  BY <1>1, <1>2, AppendProperties
<1>4. PICK f : Summed(s, f) /\ TokensOf(s) = f[n]
  BY <1>1, TokensOfSum
<1>5. PICK g : Summed(t, g) /\ TokensOf(t) = g[n + 1]
  BY <1>3, TokensOfSum
<1>6. n + 1 \in 1 .. (n + 1) /\ (n + 1) - 1 = n
  OBVIOUS
<1>7. Alike(f, g, n)
  <2>1. f[0] = g[0]
    BY <1>4, <1>5 DEF Summed
  <2>2. ASSUME NEW i \in 1 .. n, f[i - 1] = g[i - 1]
        PROVE  f[i] = g[i]
    <3>1. i \in 1 .. n + 1
      OBVIOUS
    <3>2. f[i] = f[i - 1] + s[i].tokens
      BY <1>1, <1>4 DEF Summed
    <3>3. g[i] = g[i - 1] + t[i].tokens
      BY <1>3, <1>5, <3>1 DEF Summed
    <3> QED
      BY <1>3, <2>2, <3>2, <3>3
  <2> QED
    BY <2>1, <2>2 DEF Alike
<1>8. f[n] = g[n]
  BY <1>7, CarriedOnce
<1>9. g[n + 1] = g[n] + e.tokens
  BY <1>3, <1>5, <1>6 DEF Summed
<1>10. f[n] \in Nat
  BY <1>1, <1>4 DEF Summed
<1> QED
  BY <1>2, <1>4, <1>5, <1>8, <1>9, <1>10

\* The events of one kind, place by place.
Chosen(s, kind, f) ==
  /\ f \in [0 .. Len(s) -> Seq(Events)]
  /\ f[0] = <<>>
  /\ \A i \in 1 .. Len(s) : f[i] = Keep(f[i - 1], s[i], kind)

LEMMA OfKindChosen ==
  ASSUME NEW s \in Seq(Events), NEW kind
  PROVE  \E f : Chosen(s, kind, f) /\ OfKind(s, kind) = f[Len(s)]
<1> DEFINE Body(f) == [i \in 0 .. Len(s) |-> IF i = 0 THEN <<>> ELSE Keep(f[i - 1], s[i], kind)]
<1>1. PICK n \in Nat : n = Len(s)
  BY LenProperties
<1>2. \A i \in 1 .. n : s[i] \in Events
  BY <1>1, ElementOfSeq
<1> DEFINE step == [i \in 1 .. n |-> [a \in Seq(Events) |-> Keep(a, s[i], kind)]]
<1>3. step \in [1 .. n -> [Seq(Events) -> Seq(Events)]]
  <2>1. \A i \in 1 .. n, a \in Seq(Events) : Keep(a, s[i], kind) \in Seq(Events)
    BY <1>2, AppendProperties DEF Keep
  <2> QED
    BY <2>1
<1>4. PICK f \in [0 .. n -> Seq(Events)] : Carries(f, <<>>, step, n)
  <2> HIDE DEF step
  <2>1. <<>> \in Seq(Events)
    OBVIOUS
  <2> QED
    BY <1>3, <2>1, CarriedExists
<1>5. ASSUME NEW i \in 1 .. n
      PROVE  f[i - 1] \in Seq(Events) /\ f[i] = Keep(f[i - 1], s[i], kind)
  <2>1. i - 1 \in 0 .. n
    OBVIOUS
  <2>2. f[i - 1] \in Seq(Events)
    BY <2>1
  <2>3. f[i] = step[i][f[i - 1]]
    BY <1>4 DEF Carries
  <2> QED
    BY <2>2, <2>3
<1>6. f = Body(f)
  <2>1. \A i \in 0 .. n : f[i] = IF i = 0 THEN <<>> ELSE Keep(f[i - 1], s[i], kind)
    BY <1>4, <1>5 DEF Carries
  <2> QED
    BY <1>1, <2>1
<1> DEFINE chosen == CHOOSE g : g = Body(g)
<1>7. chosen = Body(chosen)
  BY <1>6
<1>8. OfKind(s, kind) = chosen[n]
  BY <1>1 DEF OfKind
<1>9. Alike(chosen, f, n)
  <2> HIDE DEF chosen
  <2>1. \A i \in 0 .. n : chosen[i] = IF i = 0 THEN <<>> ELSE Keep(chosen[i - 1], s[i], kind)
    BY <1>1, <1>7
  <2> QED
    BY <1>4, <1>5, <2>1 DEF Carries, Alike
<1>10. chosen[n] = f[n]
  <2> HIDE DEF chosen
  <2> QED
    BY <1>9, CarriedOnce
<1>11. Chosen(s, kind, f)
  BY <1>1, <1>4, <1>5 DEF Carries, Chosen
<1> QED
  BY <1>1, <1>8, <1>10, <1>11

LEMMA OfKindType ==
  ASSUME NEW s \in Seq(Events), NEW kind
  PROVE  OfKind(s, kind) \in Seq(Events)
<1>1. PICK f : Chosen(s, kind, f) /\ OfKind(s, kind) = f[Len(s)]
  BY OfKindChosen
<1>2. Len(s) \in 0 .. Len(s)
  BY LenProperties
<1> QED
  BY <1>1, <1>2 DEF Chosen

LEMMA OfKindEmpty == \A kind : OfKind(<<>>, kind) = <<>>
<1> TAKE kind
<1>1. <<>> \in Seq(Events) /\ Len(<<>>) = 0
  OBVIOUS
<1>2. PICK f : Chosen(<<>>, kind, f) /\ OfKind(<<>>, kind) = f[Len(<<>>)]
  BY <1>1, OfKindChosen
<1> QED
  BY <1>1, <1>2 DEF Chosen

LEMMA OfKindAppend ==
  ASSUME NEW s \in Seq(Events), NEW e \in Events, NEW kind
  PROVE  /\ OfKind(s, kind) \in Seq(Events)
         /\ OfKind(Append(s, e), kind) = Keep(OfKind(s, kind), e, kind)
<1>1. PICK n \in Nat : n = Len(s)
  BY LenProperties
<1>2. PICK t \in Seq(Events) : t = Append(s, e)
  BY AppendProperties
<1>3. Len(t) = n + 1 /\ t[n + 1] = e /\ \A i \in 1 .. n : t[i] = s[i]
  BY <1>1, <1>2, AppendProperties
<1>4. PICK f : Chosen(s, kind, f) /\ OfKind(s, kind) = f[n]
  BY <1>1, OfKindChosen
<1>5. PICK g : Chosen(t, kind, g) /\ OfKind(t, kind) = g[n + 1]
  BY <1>3, OfKindChosen
<1>6. n + 1 \in 1 .. (n + 1) /\ (n + 1) - 1 = n
  OBVIOUS
<1>7. Alike(f, g, n)
  <2>1. f[0] = g[0]
    BY <1>4, <1>5 DEF Chosen
  <2>2. ASSUME NEW i \in 1 .. n, f[i - 1] = g[i - 1]
        PROVE  f[i] = g[i]
    <3>1. i \in 1 .. n + 1
      OBVIOUS
    <3>2. f[i] = Keep(f[i - 1], s[i], kind)
      BY <1>1, <1>4 DEF Chosen
    <3>3. g[i] = Keep(g[i - 1], t[i], kind)
      BY <1>3, <1>5, <3>1 DEF Chosen
    <3> QED
      BY <1>3, <2>2, <3>2, <3>3
  <2> QED
    BY <2>1, <2>2 DEF Alike
<1>8. f[n] = g[n]
  BY <1>7, CarriedOnce
<1>9. g[n + 1] = Keep(g[n], e, kind)
  BY <1>3, <1>5, <1>6 DEF Chosen
<1>10. f[n] \in Seq(Events)
  BY <1>1, <1>4 DEF Chosen
<1> QED
  BY <1>2, <1>4, <1>5, <1>8, <1>9, <1>10

\* The state and the log agree on the calls and on the tokens.
Booked(s, st) ==
  LET calls == OfKind(s, "ToolAllowed")
  IN  /\ st.history = [i \in 1 .. Len(calls) |-> calls[i].on]
      /\ st.tokens = TokensOf(OfKind(s, "LlmUsageRecorded")) % TokenWrap

\* A section that leaves the books in order, whatever was drained before it.
Books(st, st2) ==
  \A old \in Seq(Events) : Booked(old \o st.events, st) => Booked(old \o st2.events, st2)

LEMMA Remainder ==
  ASSUME NEW n \in Nat, NEW w \in Nat \ {0}, NEW q \in Nat, NEW r \in 0 .. (w - 1),
         n = w * q + r
  PROVE  n % w = r
  OBVIOUS

LEMMA Divided ==
  ASSUME NEW n \in Nat, NEW w \in Nat \ {0}
  PROVE  \E q \in Nat, r \in 0 .. (w - 1) : n = w * q + r /\ n % w = r
<1>1. n \div w \in Nat /\ n % w \in 0 .. (w - 1) /\ n = w * (n \div w) + (n % w)
  OBVIOUS
<1> QED
  BY <1>1

LEMMA WrappedSum ==
  ASSUME NEW x \in Nat, NEW t \in Nat, NEW w \in Nat \ {0}
  PROVE  ((x % w) + t) % w = (x + t) % w
<1>1. PICK q \in Nat, r \in 0 .. (w - 1) : x = w * q + r /\ x % w = r
  BY Divided
<1>2. PICK y \in Nat : y = r + t
  OBVIOUS
<1>3. PICK p \in Nat, z \in 0 .. (w - 1) : y = w * p + z /\ y % w = z
  BY Divided
<1>4. w * (q + p) = w * q + w * p
  BY <1>1, <1>3
<1>5. PICK k \in Nat, n \in Nat, a \in Nat, b \in Nat :
        k = q + p /\ n = x + t /\ a = w * q /\ b = w * p
  OBVIOUS
<1>6. n = w * k + z
  <2>1. x = a + r /\ y = b + z /\ w * k = a + b
    BY <1>1, <1>3, <1>4, <1>5
  <2> QED
    BY <1>2, <1>5, <2>1
<1>7. n % w = z
  BY <1>3, <1>5, <1>6, Remainder
<1> QED
  BY <1>1, <1>2, <1>3, <1>5, <1>7

\* The events of one kind after one more event.
LEMMA KeepItem ==
  ASSUME NEW s \in Seq(Events), NEW e \in Events, NEW kind
  PROVE  /\ OfKind(Append(s, e), kind) \in Seq(Events)
         /\ e.kind # kind => OfKind(Append(s, e), kind) = OfKind(s, kind)
         /\ e.kind = kind => OfKind(Append(s, e), kind) = Append(OfKind(s, kind), e)
<1>1. OfKind(s, kind) \in Seq(Events) /\ OfKind(Append(s, e), kind) = Keep(OfKind(s, kind), e, kind)
  BY OfKindAppend
<1>2. Append(OfKind(s, kind), e) \in Seq(Events)
  BY <1>1, AppendProperties
<1> QED
  BY <1>1, <1>2 DEF Keep

\* An event, after the change to the accounts that goes with its kind.
LEMMA BookEvent ==
  ASSUME NEW s \in Seq(Events), NEW e \in Events, NEW st \in RunStates, NEW st2 \in RunStates,
         Booked(s, st),
         st2.history = IF e.kind = "ToolAllowed" THEN Append(st.history, e.on) ELSE st.history,
         st2.tokens = IF e.kind = "LlmUsageRecorded" THEN (st.tokens + e.tokens) % TokenWrap
                      ELSE st.tokens
  PROVE  Booked(Append(s, e), st2)
<1> DEFINE called(c) == [i \in 1 .. Len(c) |-> c[i].on]
<1>1. PICK calls \in Seq(Events) : calls = OfKind(s, "ToolAllowed")
  BY OfKindAppend
<1>2. PICK calls2 \in Seq(Events) : calls2 = OfKind(Append(s, e), "ToolAllowed")
  BY KeepItem
<1>3. st2.history = called(calls2)
  <2>1. CASE e.kind # "ToolAllowed"
    <3>1. calls2 = calls
      BY <1>1, <1>2, <2>1, KeepItem
    <3> QED
      BY <1>1, <2>1, <3>1 DEF Booked
  <2>2. CASE e.kind = "ToolAllowed"
    <3>1. calls2 = Append(calls, e)
      BY <1>1, <1>2, <2>2, KeepItem
    <3>2. PICK n \in Nat : n = Len(calls)
      BY LenProperties
    <3>3. Len(calls2) = n + 1 /\ calls2[n + 1] = e /\ \A i \in 1 .. n : calls2[i] = calls[i]
      BY <3>1, <3>2, AppendProperties
    <3>4. st.history \in Seq(Tools) /\ st2.history \in Seq(Tools)
      BY DEF RunStates
    <3>5. st.history = called(calls) /\ Len(st.history) = n
      BY <1>1, <3>2, <3>4 DEF Booked
    <3>6. st2.history = Append(st.history, e.on)
      BY <2>2
    <3>7. /\ Len(st2.history) = n + 1 /\ st2.history[n + 1] = e.on
          /\ \A i \in 1 .. n : st2.history[i] = calls[i].on
      BY <3>4, <3>5, <3>6
    <3>8. \A i \in 1 .. n + 1 : st2.history[i] = calls2[i].on
      BY <3>3, <3>7
    <3>9. DOMAIN st2.history = 1 .. n + 1 /\ st2.history = [i \in DOMAIN st2.history |-> st2.history[i]]
      BY <3>4, <3>7
    <3> QED
      BY <3>3, <3>8, <3>9
  <2> QED
    BY <2>1, <2>2
<1>4. st2.tokens = TokensOf(OfKind(Append(s, e), "LlmUsageRecorded")) % TokenWrap
  <2>1. PICK used \in Seq(Events) : used = OfKind(s, "LlmUsageRecorded")
    BY OfKindAppend
  <2>2. st.tokens = TokensOf(used) % TokenWrap
    BY <2>1 DEF Booked
  <2>3. CASE e.kind # "LlmUsageRecorded"
    BY <2>1, <2>2, <2>3, KeepItem
  <2>4. CASE e.kind = "LlmUsageRecorded"
    <3>1. OfKind(Append(s, e), "LlmUsageRecorded") = Append(used, e)
      BY <2>1, <2>4, KeepItem
    <3>2. TokensOf(used) \in Nat /\ TokensOf(Append(used, e)) = TokensOf(used) + e.tokens
      BY TokensOfAppend
    <3>3. PICK x \in Nat, t \in Nat : x = TokensOf(used) /\ t = e.tokens
      BY <3>2 DEF Events
    <3>4. ((x % TokenWrap) + t) % TokenWrap = (x + t) % TokenWrap
      BY TokenAssumption, WrappedSum
    <3> QED
      BY <2>2, <2>4, <3>1, <3>2, <3>3, <3>4
  <2> QED
    BY <2>3, <2>4
<1> QED
  BY <1>2, <1>3, <1>4 DEF Booked

LEMMA AppendBooks ==
  ASSUME NEW st \in RunStates, NEW st1 \in RunStates, SameLog(st, st1),
         NEW kind \in EventKinds, NEW on \in Subjects, NEW tokens \in Nat,
         st1.history = IF kind = "ToolAllowed" THEN Append(st.history, on) ELSE st.history,
         st1.tokens = IF kind = "LlmUsageRecorded" THEN (st.tokens + tokens) % TokenWrap
                      ELSE st.tokens
  PROVE  Books(st, AppendEvent(st1, kind, on, tokens))
<1>1. PICK st2 \in RunStates : st2 = AppendEvent(st1, kind, on, tokens)
  BY AppendEventType
<1>2. [seq |-> st1.next_seq, kind |-> kind, on |-> on, tokens |-> tokens] \in Events
  BY DEF RunStates, Events, Subjects
<1>3. PICK e \in Events : e = [seq |-> st1.next_seq, kind |-> kind, on |-> on, tokens |-> tokens]
  BY <1>2
<1>4. /\ st2.events = Append(st.events, e)
      /\ st2.history = st1.history
      /\ st2.tokens = st1.tokens
  BY <1>1, <1>3 DEF AppendEvent, RunStates, SameLog
<1>5. e.kind = kind /\ e.on = on /\ e.tokens = tokens
  BY <1>3
<1>6. st.events \in Seq(Events)
  BY DEF RunStates
<1>7. ASSUME NEW old \in Seq(Events), Booked(old \o st.events, st)
      PROVE  Booked(old \o st2.events, st2)
  <2>1. old \o st.events \in Seq(Events)
    BY <1>6, ConcatProperties
  <2>2. old \o st2.events = Append(old \o st.events, e)
    BY <1>4, <1>6
  <2>3. Booked(Append(old \o st.events, e), st2)
    BY <1>4, <1>5, <1>7, <2>1, BookEvent
  <2> QED
    BY <2>2, <2>3
<1> QED
  BY <1>1, <1>7 DEF Books

LEMMA SameBooks ==
  ASSUME NEW st, NEW st2, st2.events = st.events, st2.history = st.history,
         st2.tokens = st.tokens
  PROVE  Books(st, st2)
  BY DEF Books, Booked

LEMMA BooksTrans ==
  ASSUME NEW st, NEW st1, NEW st2, Books(st, st1), Books(st1, st2)
  PROVE  Books(st, st2)
  BY DEF Books

\* The kinds that are on no account.
Uncounted == EventKinds \ {"ToolAllowed", "LlmUsageRecorded"}

LEMMA UncountedBooks ==
  ASSUME NEW st \in RunStates, NEW st1 \in RunStates, SameLog(st, st1),
         st1.history = st.history, st1.tokens = st.tokens,
         NEW kind \in Uncounted, NEW on \in Subjects, NEW tokens \in Nat
  PROVE  Books(st, AppendEvent(st1, kind, on, tokens))
<1>1. kind \in EventKinds /\ kind # "ToolAllowed" /\ kind # "LlmUsageRecorded"
  BY DEF Uncounted
<1> QED
  BY <1>1, AppendBooks

LEMMA IdentityBooks ==
  ASSUME NEW st \in RunStates, NEW which \in Identities, NEW name \in Names \cup {NoName}
  PROVE  Books(st, RecordIdentity(st, which, name))
<1> DEFINE named == [st EXCEPT !.last[which] = name]
<1>1. /\ named \in RunStates /\ SameLog(st, named)
      /\ named.history = st.history /\ named.tokens = st.tokens
  BY DEF RunStates, SameLog
<1>2. which \in Uncounted /\ name \in Subjects
  BY DEF EventKinds, Subjects, Identities, Uncounted
<1> HIDE DEF named
<1>3. Books(st, AppendEvent(named, which, name, 0))
  BY <1>1, <1>2, UncountedBooks
<1>4. Books(st, st)
  BY SameBooks
<1> QED
  BY <1>3, <1>4 DEF RecordIdentity, named

LEMMA StoppedBooks ==
  ASSUME NEW st \in RunStates, NEW reason
  PROVE  Books(st, MarkStopped(st, reason))
<1>1. /\ MarkStopped(st, reason).events = st.events
      /\ MarkStopped(st, reason).history = st.history
      /\ MarkStopped(st, reason).tokens = st.tokens
  BY DEF MarkStopped, RunStates
<1> QED
  BY <1>1, SameBooks

LEMMA DeniedBooks ==
  ASSUME NEW st \in RunStates, NEW tool \in Tools, NEW verdict \in Denials
  PROVE  Books(st, MarkStopped(AppendEvent(st, verdict, tool, 0), verdict))
<1>1. verdict \in Uncounted /\ verdict \in EventKinds /\ tool \in Subjects
  BY DEF Denials, EventKinds, Uncounted, Subjects
<1>2. PICK st1 \in RunStates : st1 = AppendEvent(st, verdict, tool, 0)
  BY <1>1, AppendEventType
<1>3. Books(st, st1)
  BY <1>1, <1>2, UncountedBooks DEF SameLog
<1>4. Books(st1, MarkStopped(st1, verdict))
  BY StoppedBooks
<1> QED
  BY <1>2, <1>3, <1>4, BooksTrans

LEMMA RecordedBooks ==
  ASSUME NEW st \in RunStates, NEW tool \in Tools
  PROVE  /\ Books(st, RecordAllowed(st, tool))
         /\ Books(st, RecordFailed(st, tool))
<1> DEFINE counted == [st EXCEPT !.counts[tool] = @ + 1, !.history = Append(@, tool)]
<1>1. st.counts[tool] + 1 \in Nat /\ Append(st.history, tool) \in Seq(Tools)
  BY DEF RunStates
<1>2. /\ counted \in RunStates /\ SameLog(st, counted)
      /\ counted.history = Append(st.history, tool) /\ counted.tokens = st.tokens
  BY <1>1 DEF RunStates, SameLog
<1> HIDE DEF counted
<1>3. "ToolAllowed" \in EventKinds /\ "ToolFailed" \in Uncounted /\ tool \in Subjects
  BY DEF EventKinds, Uncounted, Subjects
<1>4. Books(st, AppendEvent(counted, "ToolAllowed", tool, 0))
  BY <1>2, <1>3, AppendBooks
<1>5. Books(st, AppendEvent(st, "ToolFailed", tool, 0))
  BY <1>3, UncountedBooks DEF SameLog
<1> QED
  BY <1>4, <1>5 DEF RecordAllowed, RecordFailed, counted

LEMMA ScopeBooks ==
  ASSUME NEW st \in RunStates
  PROVE  /\ \A name \in Names : Books(st, EnterScope(st, name))
         /\ Books(st, ExitScope(st))
<1>1. {"AgentScopeEntered", "AgentScopeExited"} \subseteq Uncounted
  BY DEF EventKinds, Uncounted
<1>2. ASSUME NEW name \in Names
      PROVE  Books(st, EnterScope(st, name))
  <2> DEFINE inside == [st EXCEPT !.stack = Append(@, name)]
  <2>1. Append(st.stack, name) \in Seq(Names)
    BY DEF RunStates
  <2>2. /\ inside \in RunStates /\ SameLog(st, inside)
        /\ inside.history = st.history /\ inside.tokens = st.tokens
    BY <2>1 DEF RunStates, SameLog
  <2> HIDE DEF inside
  <2>3. Books(st, AppendEvent(inside, "AgentScopeEntered", name, 0))
    BY <1>1, <2>2, UncountedBooks DEF Subjects
  <2> QED
    BY <2>3 DEF EnterScope, inside
<1>3. CASE st.stack = <<>>
  <2>1. Books(st, AppendEvent(st, "AgentScopeExited", NoName, 0))
    BY <1>1, UncountedBooks DEF SameLog, Subjects
  <2> QED
    BY <1>2, <1>3, <2>1 DEF ExitScope
<1>4. CASE st.stack # <<>>
  <2> DEFINE outside == [st EXCEPT !.stack = SubSeq(@, 1, Len(@) - 1)]
  <2>1. st.stack \in Seq(Names)
    BY DEF RunStates
  <2>2. SubSeq(st.stack, 1, Len(st.stack) - 1) \in Seq(Names)
    BY <1>4, <2>1
  <2>3. st.stack[Len(st.stack)] \in Names
    BY <1>4, <2>1
  <2>4. /\ outside \in RunStates /\ SameLog(st, outside)
        /\ outside.history = st.history /\ outside.tokens = st.tokens
    BY <2>2 DEF RunStates, SameLog
  <2> HIDE DEF outside
  <2>5. Books(st, AppendEvent(outside, "AgentScopeExited", st.stack[Len(st.stack)], 0))
    BY <1>1, <2>3, <2>4, UncountedBooks DEF Subjects
  <2> QED
    BY <1>2, <1>4, <2>5 DEF ExitScope, outside
<1> QED
  BY <1>2, <1>3, <1>4

LEMMA UsageBooks ==
  ASSUME NEW st \in RunStates, NEW harness \in Names \cup {NoName}, NEW total \in Nat
  PROVE  Books(st, RecordUsage(st, harness, total))
<1> DEFINE named == RecordIdentity(st, "harness", harness)
<1> DEFINE spent == [named EXCEPT !.tokens = (@ + total) % TokenWrap]
<1>1. named \in RunStates /\ Books(st, named)
  BY RecordIdentityType, IdentityBooks DEF Identities
<1> HIDE DEF named
<1>2. (named.tokens + total) % TokenWrap \in 0 .. (TokenWrap - 1)
  BY <1>1, SpentType
<1>3. /\ spent \in RunStates /\ SameLog(named, spent)
      /\ spent.history = named.history
      /\ spent.tokens = (named.tokens + total) % TokenWrap
  BY <1>1, <1>2 DEF RunStates, SameLog
<1> HIDE DEF spent
<1>4. "LlmUsageRecorded" \in EventKinds /\ NoName \in Subjects
  BY DEF EventKinds, Subjects
<1>5. Books(named, AppendEvent(spent, "LlmUsageRecorded", NoName, total))
  BY <1>1, <1>3, <1>4, AppendBooks
<1>6. Books(st, AppendEvent(spent, "LlmUsageRecorded", NoName, total))
  BY <1>1, <1>5, BooksTrans
<1> QED
  BY <1>1, <1>6 DEF RecordUsage, named, spent

LEMMA EffectBooks ==
  ASSUME NEW st \in RunStates, NEW q \in Requests, q.op # "tool"
  PROVE  Books(st, Effect(st, q))
<1>1. /\ \/ q.op \in {"enter", "exit", "usage", "identify", "stop", "stopRule"}
         \/ q.op \in Reads \cup Consults
      /\ q.which \in Identities
      /\ q.tokens \in Nat
      /\ q.op = "stopRule" => q.on \in Tools
      /\ q.op = "enter" => q.on \in Names
      /\ q.op \in {"usage", "identify"} => q.on \in Names \cup {NoName}
  BY GovernorAssumption DEF RequestSpace, Ops, WellFormed
<1>2. CASE q.op \in {"enter", "exit"}
  BY <1>1, <1>2, ScopeBooks DEF Effect, Reads, Consults
<1>3. CASE q.op = "usage"
  BY <1>1, <1>3, UsageBooks DEF Effect, Reads, Consults
<1>4. CASE q.op = "identify"
  BY <1>1, <1>4, IdentityBooks DEF Effect, Reads, Consults
<1>5. CASE q.op = "stop"
  BY <1>5, StoppedBooks DEF Effect, Reads, Consults, ReportStop
<1>6. CASE q.op = "stopRule"
  BY <1>1, <1>6, DeniedBooks DEF Effect, Reads, Consults, ReportRuleDenied, Denials
<1>7. CASE q.op \in Reads \cup Consults
  <2>1. Effect(st, q) = st
    BY <1>7 DEF Effect, Reads, Consults
  <2> QED
    BY <2>1, SameBooks
<1> QED
  BY <1>1, <1>2, <1>3, <1>4, <1>5, <1>6, <1>7

LEMMA SectionBooks ==
  ASSUME Typed, NEW c \in Clients, Deny(c) \/ Allow(c) \/ Fail(c) \/ Apply(c)
  PROVE  \E st \in RunStates : Books(run[RunOf(c)], st) /\ Commit(RunOf(c), st)
<1>1. /\ RunOf(c) \in Runs /\ run[RunOf(c)] \in RunStates
      /\ pc[c] \in ToolSteps => Asked(c).on \in Tools
      /\ pc[c] = "apply" => Asked(c) \in Requests /\ Asked(c).op # "tool"
  BY RequestType DEF Typed, InFlight, ToolSteps, Deny, Allow, Fail, Apply
<1>2. CASE Deny(c)
  <2>1. pc[c] \in Denials /\ Asked(c).on \in Tools
    BY <1>1, <1>2 DEF Deny, Denials, ToolSteps
  <2>2. /\ RecordDenied(run[RunOf(c)], Asked(c).on, pc[c]) \in RunStates
        /\ Books(run[RunOf(c)], RecordDenied(run[RunOf(c)], Asked(c).on, pc[c]))
    BY <1>1, <2>1, RecordDeniedType, DeniedBooks DEF RecordDenied, Denials
  <2> QED
    BY <1>2, <2>2 DEF Deny
<1>3. CASE Allow(c)
  <2>1. Asked(c).on \in Tools
    BY <1>1, <1>3 DEF Allow, ToolSteps
  <2>2. /\ RecordAllowed(run[RunOf(c)], Asked(c).on) \in RunStates
        /\ Books(run[RunOf(c)], RecordAllowed(run[RunOf(c)], Asked(c).on))
    BY <1>1, <2>1, RecordAllowedType, RecordedBooks
  <2> QED
    BY <1>3, <2>2 DEF Allow
<1>4. CASE Fail(c)
  <2>1. Asked(c).on \in Tools
    BY <1>1, <1>4 DEF Fail, ToolSteps
  <2>2. /\ RecordFailed(run[RunOf(c)], Asked(c).on) \in RunStates
        /\ Books(run[RunOf(c)], RecordFailed(run[RunOf(c)], Asked(c).on))
    BY <1>1, <2>1, RecordFailedType, RecordedBooks
  <2> QED
    BY <1>4, <2>2 DEF Fail
<1>5. CASE Apply(c)
  <2>1. Asked(c) \in Requests /\ Asked(c).op # "tool"
    BY <1>1, <1>5 DEF Apply
  <2>2. /\ Effect(run[RunOf(c)], Asked(c)) \in RunStates
        /\ Books(run[RunOf(c)], Effect(run[RunOf(c)], Asked(c)))
    BY <1>1, <2>1, EffectType, EffectBooks
  <2> QED
    BY <1>5, <2>2 DEF Apply
<1> QED
  BY <1>2, <1>3, <1>4, <1>5

-----------------------------------------------------------------------------
(* The state and the log agree *)

BookedInv == \A r \in Runs : Booked(Stream(r), run[r])

LEMMA FreshBooked ==
  Booked(FreshRun.events, FreshRun) /\ Booked(PlaceholderRun.events, PlaceholderRun)
<1>1. /\ PlaceholderRun \in RunStates /\ FreshRun \in RunStates
      /\ PlaceholderRun.events = <<>> /\ PlaceholderRun.history = <<>>
      /\ PlaceholderRun.tokens = 0 /\ PlaceholderRun.next_seq = 0
      /\ FreshRun.history = <<>> /\ FreshRun.tokens = 0
  BY FreshRunType DEF PlaceholderRun, FreshRun
<1>2. Booked(<<>>, PlaceholderRun)
  <2>1. 0 % TokenWrap = 0
    BY TokenAssumption
  <2>2. Len(<<>>) = 0 /\ <<>> = [i \in 1 .. 0 |-> <<>>[i].on]
    OBVIOUS
  <2> QED
    BY <1>1, <2>1, <2>2, OfKindEmpty, TokensOfEmpty DEF Booked
<1>3. PICK e \in Events :
        e = [seq |-> 0, kind |-> "ExecutionStarted", on |-> NoName, tokens |-> 0]
  BY DEF Events, EventKinds
<1>4. FreshRun.events = <<e>> /\ <<e>> = Append(<<>>, e) /\ <<>> \in Seq(Events)
  BY <1>3 DEF FreshRun
<1>5. Booked(Append(<<>>, e), FreshRun)
  BY <1>1, <1>2, <1>3, <1>4, BookEvent
<1> QED
  BY <1>1, <1>2, <1>4, <1>5

LEMMA BookedInit == Init => BookedInv
<1> SUFFICES ASSUME Init, NEW r \in Runs
             PROVE  Booked(Stream(r), run[r])
  BY DEF BookedInv
<1>1. PICK first \in {FreshRun, PlaceholderRun}, name \in Names :
        run = [s \in Runs |->
                 IF s = Primary THEN RecordIdentity(first, "governor", name) ELSE FreshRun]
  BY DEF Init
<1>2. log[r] = <<>>
  BY DEF Init
<1>3. PICK st \in RunStates : st = RecordIdentity(first, "governor", name)
  BY FreshRunType, RecordIdentityType DEF Identities
<1>4. Booked(st.events, st)
  <2>1. first \in RunStates /\ Books(first, st) /\ first.events \in Seq(Events)
    BY <1>3, FreshRunType, IdentityBooks DEF Identities, RunStates
  <2>2. <<>> \in Seq(Events) /\ <<>> \o first.events = first.events
    BY <2>1
  <2>3. <<>> \o st.events = st.events
    BY DEF RunStates
  <2>4. Booked(first.events, first)
    BY FreshBooked
  <2> QED
    BY <2>1, <2>2, <2>3, <2>4 DEF Books
<1>5. run[r] \in RunStates /\ Booked(run[r].events, run[r])
  BY <1>1, <1>3, <1>4, FreshBooked, FreshRunType
<1>6. <<>> \o run[r].events = run[r].events
  BY <1>5 DEF RunStates
<1> QED
  BY <1>2, <1>5, <1>6 DEF Stream

\* What a request does to the books of every run.
LEMMA BookedRequest ==
  ASSUME Typed, NumberedInv, BookedInv, NEW c \in Clients, Arrive(c) \/ Handle(c)
  PROVE  BookedInv'
<1>1. run \in [Runs -> RunStates] /\ log \in [Runs -> Seq(Events)]
  BY DEF Typed, TypeOK
<1>2. ASSUME Arrive(c)
      PROVE  BookedInv'
  <2>1. log' = log
    BY <1>2 DEF Arrive
  <2>2. ASSUME NEW s \in Runs
        PROVE  Booked(Stream(s), run[s])'
    <3>1. CASE run'[s] = run[s]
      <4>1. Stream(s)' = Stream(s)
        BY <2>1, <3>1 DEF Stream
      <4> QED
        BY <3>1, <4>1 DEF BookedInv, Booked
    <3>2. CASE run'[s] # run[s]
      <4>1. s \notin open /\ run'[s] = FreshRun
        BY <1>1, <1>2, <3>2 DEF Arrive, Resolve
      <4>2. log'[s] = <<>>
        BY <2>1, <4>1 DEF NumberedInv, NumberedRun
      <4>3. FreshRun.events \in Seq(Events)
        BY FreshRunType DEF RunStates
      <4>4. Stream(s)' = FreshRun.events
        BY <4>1, <4>2, <4>3 DEF Stream
      <4> QED
        BY <4>1, <4>4, FreshBooked DEF Booked
    <3> QED
      BY <3>1, <3>2
  <2> QED
    BY <2>2 DEF BookedInv
<1>3. ASSUME Refuse(c) \/ Admit(c) \/ Policy(c)
      PROVE  BookedInv'
  <2>1. log' = log /\ run' = run
    BY <1>3 DEF Refuse, Admit, Policy
  <2> QED
    BY <2>1 DEF BookedInv, Booked, Stream
<1>4. ASSUME Deny(c) \/ Allow(c) \/ Fail(c) \/ Apply(c)
      PROVE  BookedInv'
  <2>1. PICK r \in Runs, st \in RunStates :
          r = RunOf(c) /\ Books(run[r], st) /\ Commit(r, st)
    BY <1>4, SectionBooks, SectionCommits
  <2>2. run' = [run EXCEPT ![r] = st] /\ log' = log
    BY <2>1 DEF Commit
  <2>3. ASSUME NEW s \in Runs, s # r
        PROVE  Booked(Stream(s), run[s])'
    <3>1. run'[s] = run[s] /\ Stream(s)' = Stream(s)
      BY <1>1, <2>2, <2>3 DEF Stream
    <3> QED
      BY <3>1 DEF BookedInv, Booked
  <2>4. Booked(Stream(r), run[r])'
    <3>1. run'[r] = st /\ Stream(r)' = log[r] \o st.events
      BY <1>1, <2>2 DEF Stream
    <3>2. Booked(log[r] \o run[r].events, run[r])
      BY DEF BookedInv, Stream
    <3>3. Booked(log[r] \o st.events, st)
      BY <1>1, <2>1, <3>2 DEF Books
    <3> QED
      BY <3>1, <3>3 DEF Booked
  <2> QED
    BY <2>3, <2>4 DEF BookedInv
<1> QED
  BY <1>2, <1>3, <1>4 DEF Handle

\* Taking the buffer of a run leaves its stream and its accounts.
LEMMA BookedTaken ==
  ASSUME Typed, BookedInv, NEW r \in Runs,
         log' = [log EXCEPT ![r] = @ \o run[r].events],
         run' = [run EXCEPT ![r] = TakeEvents(@)]
  PROVE  /\ BookedInv'
         /\ \A s \in Runs : Stream(s)' = Stream(s)
<1>1. run \in [Runs -> RunStates] /\ log \in [Runs -> Seq(Events)]
  BY DEF Typed, TypeOK
<1>2. ASSUME NEW s \in Runs
      PROVE  /\ Stream(s)' = Stream(s)
             /\ run'[s].history = run[s].history
             /\ run'[s].tokens = run[s].tokens
  <2>1. CASE s # r
    BY <1>1, <2>1 DEF Stream
  <2>2. CASE s = r
    <3>1. log'[r] = log[r] \o run[r].events /\ run'[r] = TakeEvents(run[r])
      BY <1>1
    <3>2. /\ TakeEvents(run[r]).events = <<>>
          /\ TakeEvents(run[r]).history = run[r].history
          /\ TakeEvents(run[r]).tokens = run[r].tokens
      BY <1>1 DEF TakeEvents, RunStates
    <3>3. run[r].events \in Seq(Events) /\ log[r] \in Seq(Events)
      BY <1>1 DEF RunStates
    <3>4. log[r] \o run[r].events \in Seq(Events)
      BY <3>3, ConcatProperties
    <3>5. (log[r] \o run[r].events) \o <<>> = log[r] \o run[r].events
      BY <3>4, ConcatEmptySeq
    <3> QED
      BY <2>2, <3>1, <3>2, <3>5 DEF Stream
  <2> QED
    BY <2>1, <2>2
<1> QED
  BY <1>2 DEF BookedInv, Booked

LEMMA BookedStep == Typed /\ NumberedInv /\ BookedInv /\ [Next]_vars => BookedInv'
<1> SUFFICES ASSUME Typed, NumberedInv, BookedInv, [Next]_vars
             PROVE  BookedInv'
  OBVIOUS
<1>1. CASE \E c \in Clients : Arrive(c) \/ Handle(c)
  BY <1>1, BookedRequest
<1>2. CASE \E r \in Runs : Drain(r)
  BY <1>2, BookedTaken DEF Drain
<1>3. CASE UNCHANGED vars
  BY <1>3 DEF vars, BookedInv, Booked, Stream
<1> QED
  BY <1>1, <1>2, <1>3 DEF Next

\* The state the policy reads and the log an auditor reads agree, whatever
\* handle_tool_call, handle_llm_usage and the drain thread do in between: every
\* critical section that touches an account appends the event that says so.
THEOREM LogIsTheAccount == Spec => []AccountsMatchLog
<1>1. ASSUME Typed, ContractInv, BookedInv
      PROVE  AccountsMatchLog
  <2> SUFFICES ASSUME NEW r \in open
               PROVE  LET calls == OfKind(Stream(r), "ToolAllowed")
                          used  == OfKind(Stream(r), "LlmUsageRecorded")
                      IN  /\ run[r].history = [i \in 1 .. Len(calls) |-> calls[i].on]
                          /\ \A t \in Tools :
                               run[r].counts[t] =
                                 Cardinality({i \in DOMAIN calls : calls[i].on = t})
                          /\ run[r].tokens = TokensOf(used) % TokenWrap
    BY DEF AccountsMatchLog
  <2>1. r \in Runs /\ run[r] \in RunStates /\ log[r] \in Seq(Events)
    BY <1>1 DEF Typed, TypeOK
  <2>2. Stream(r) \in Seq(Events)
    BY <2>1, ConcatProperties DEF Stream, RunStates
  <2>3. PICK calls \in Seq(Events) : calls = OfKind(Stream(r), "ToolAllowed")
    BY <2>2, OfKindType
  <2>4. /\ run[r].history = [i \in 1 .. Len(calls) |-> calls[i].on]
        /\ run[r].tokens = TokensOf(OfKind(Stream(r), "LlmUsageRecorded")) % TokenWrap
    BY <1>1, <2>1, <2>3 DEF BookedInv, Booked
  <2>5. ASSUME NEW t \in Tools
        PROVE  run[r].counts[t] = Cardinality({i \in DOMAIN calls : calls[i].on = t})
    <3>1. run[r].counts[t] = Cardinality(CallsOf(run[r].history, t))
      BY <1>1, <2>1 DEF ContractInv, Counted
    <3>2. DOMAIN calls = 1 .. Len(calls)
      OBVIOUS
    <3>3. CallsOf(run[r].history, t) = {i \in DOMAIN calls : calls[i].on = t}
      BY <2>4, <3>2 DEF CallsOf
    <3> QED
      BY <3>1, <3>3
  <2> QED
    BY <2>3, <2>4, <2>5
<1> QED
  BY <1>1, TypedInit, TypedStep, NumberedInit, NumberedStep, ContractInit, ContractStep,
     BookedInit, BookedStep, PTL DEF Spec
=============================================================================
