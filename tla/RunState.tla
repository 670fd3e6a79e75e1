------------------------------ MODULE RunState ------------------------------
(***************************************************************************)
(* The enforcement state of one governed run (BridgeState in               *)
(* crates/bridge/src/lib.rs) and what each handler does to it while it     *)
(* holds the run's mutex.  Every operator here is one critical section: a  *)
(* function from the state under the lock to the state at the unlock.      *)
(* Which sections a request goes through, and what other requests do       *)
(* between them, is module Governor.                                       *)
(*                                                                         *)
(* Event payloads keep what the properties tell apart: the kind, the one   *)
(* name it is about, and the tokens it measures.  Timestamps, arguments,   *)
(* cleared_by and the model and provider labels are left out.              *)
(***************************************************************************)
EXTENDS Naturals, Sequences

CONSTANTS
  Tools,        \* tool names a client may ask for
  Allowed,      \* [tools] allowed, a subset of Tools
  Capped,       \* the tools with a [tools.<name>] max_calls
  MaxCalls,     \* per_tool_max_calls: the cap of each capped tool
  Names,        \* scope names, harness, app, rule-set and governor identities
  TokenWrap     \* tokens_spent is a u64 that wraps: 2^64 in the build, small for TLC

ASSUME ToolsAssumption ==
  /\ Allowed \subseteq Tools
  /\ Capped \subseteq Tools
  /\ MaxCalls \in [Capped -> Nat]

ASSUME TokenAssumption == TokenWrap \in Nat \ {0}

-----------------------------------------------------------------------------
(* Closed sets *)

Running == "Running"

\* The reasons POST /stop accepts under their own name.
Reportable == {"RuleDenied", "ToolDenied", "AgentCompleted", "ManualStop", "ToolFailed"}

StopReasons == Reportable \cup {"ProcessCrashed"}

\* What is declared and recorded only on change; each has its own event kind.
Identities == {"harness", "rules", "app", "governor"}

\* The name of a scope exit when no scope is open: the empty string.
NoName == "none"

EventKinds ==
  {"ExecutionStarted", "ExecutionStopped", "ToolAllowed", "ToolDenied",
   "RuleDenied", "ToolFailed", "LlmUsageRecorded", "AgentScopeEntered",
   "AgentScopeExited"} \cup Identities

Events ==
  [seq : Nat, kind : EventKinds,
   on : Tools \cup Names \cup StopReasons \cup {NoName}, tokens : Nat]

RunStates ==
  [execution : StopReasons \cup {Running},
   next_seq  : Nat,
   events    : Seq(Events),
   counts    : [Tools -> Nat],
   history   : Seq(Tools),
   stack     : Seq(Names),
   tokens    : 0 .. (TokenWrap - 1),
   last      : [Identities -> Names \cup {NoName}]]

Stopped(st) == st.execution # Running

-----------------------------------------------------------------------------
(* State helpers *)

\* The fault of numbering events where they are drained: the counter of a
\* run starts again once its buffer has been taken.
AppendEvent_NumberedByBuffer(st, kind, on, tokens) ==
  LET e == [seq |-> Len(st.events), kind |-> kind, on |-> on, tokens |-> tokens]
  IN  [st EXCEPT !.events = Append(@, e), !.next_seq = @ + 1]

AppendEvent(st, kind, on, tokens) ==
  LET e == [seq |-> st.next_seq, kind |-> kind, on |-> on, tokens |-> tokens]
  IN  [st EXCEPT !.events = Append(@, e), !.next_seq = @ + 1]

\* The fault of a stop that overwrites: the last reason wins.
MarkStopped_LastWins(st, reason) == [st EXCEPT !.execution = reason]

\* The first stop wins; a later one changes nothing.
MarkStopped(st, reason) ==
  IF Stopped(st) THEN st ELSE [st EXCEPT !.execution = reason]

\* record_harness, record_rules, record_app, record_governor: an event only
\* when the identity changes.  A blank one is ignored.  A rule set is sorted
\* and deduplicated before it is compared, so it is one name here.
RecordIdentity(st, which, name) ==
  IF name = NoName \/ st.last[which] = name
  THEN st
  ELSE AppendEvent([st EXCEPT !.last[which] = name], which, name, 0)

\* build_state: a fresh run opens with ExecutionStarted as seq 0.
FreshRun ==
  [execution |-> Running,
   next_seq  |-> 1,
   events    |-> <<[seq |-> 0, kind |-> "ExecutionStarted", on |-> NoName, tokens |-> 0]>>,
   counts    |-> [t \in Tools |-> 0],
   history   |-> <<>>,
   stack     |-> <<>>,
   tokens    |-> 0,
   last      |-> [i \in Identities |-> NoName]]

\* build_placeholder_state: the same without the opening event, for the run
\* of a governor that launches no app.
PlaceholderRun == [FreshRun EXCEPT !.events = <<>>, !.next_seq = 0]

-----------------------------------------------------------------------------
(* Policy: the allowlist first, then the tool's max_calls *)

\* The fault of a cap tested with > : one call too many.
Evaluate_OffByOne(st, tool) ==
  CASE tool \notin Allowed -> "ToolDenied"
    [] tool \in Allowed /\ tool \in Capped /\ st.counts[tool] > MaxCalls[tool]
         -> "RuleDenied"
    [] OTHER -> "Allow"

OverCap(st, tool) == tool \in Capped /\ st.counts[tool] >= MaxCalls[tool]

Evaluate(st, tool) ==
  CASE tool \notin Allowed -> "ToolDenied"
    [] tool \in Allowed /\ OverCap(st, tool) -> "RuleDenied"
    [] OTHER -> "Allow"

-----------------------------------------------------------------------------
(* The critical sections of the handlers *)

\* handle_tool_call, denied: the verdict is logged and the run stopped.  The
\* event and the stop reason carry the same name.
RecordDenied(st, tool, verdict) ==
  MarkStopped(AppendEvent(st, verdict, tool, 0), verdict)

\* The fault of a builtin whose success is logged and not counted.
RecordAllowed_Uncounted(st, tool) == AppendEvent(st, "ToolAllowed", tool, 0)

\* handle_tool_call, the registry has no such tool (the client runs it) or
\* ran it: counted, put in the history, logged.
RecordAllowed(st, tool) ==
  AppendEvent([st EXCEPT !.counts[tool] = @ + 1, !.history = Append(@, tool)],
              "ToolAllowed", tool, 0)

\* handle_tool_call, the registry's tool failed: logged, never counted.
RecordFailed(st, tool) == AppendEvent(st, "ToolFailed", tool, 0)

EnterScope(st, name) ==
  AppendEvent([st EXCEPT !.stack = Append(@, name)], "AgentScopeEntered", name, 0)

\* Pops whatever scope is on top, or logs the empty name.
ExitScope(st) ==
  IF st.stack = <<>>
  THEN AppendEvent(st, "AgentScopeExited", NoName, 0)
  ELSE AppendEvent([st EXCEPT !.stack = SubSeq(@, 1, Len(@) - 1)],
                   "AgentScopeExited", st.stack[Len(st.stack)], 0)

\* handle_llm_usage: the harness first, and nothing more for a call of no tokens.
RecordUsage(st, harness, total) ==
  LET named == RecordIdentity(st, "harness", harness)
  IN  IF total = 0
      THEN named
      ELSE AppendEvent([named EXCEPT !.tokens = (@ + total) % TokenWrap],
                       "LlmUsageRecorded", NoName, total)

\* The fault of recording whatever name a client sends.
ValidReason_Unchecked(raw) == raw

\* A reason outside the closed set is recorded as a crash.
ValidReason(raw) == IF raw \in Reportable THEN raw ELSE "ProcessCrashed"

\* handle_stop.  A client that stopped itself on a rule names the tool, and
\* the denial is logged here because no /tool/call was ever made.
ReportStop(st, raw) == MarkStopped(st, ValidReason(raw))

ReportRuleDenied(st, tool) ==
  MarkStopped(AppendEvent(st, "RuleDenied", tool, 0), "RuleDenied")

\* take_run_events: the buffer is handed over and cleared.
TakeEvents(st) == [st EXCEPT !.events = <<>>]

\* The fault of closing every run with the exit status of the app.
CloseRun_Overriding(st, fallback) ==
  AppendEvent(st, "ExecutionStopped", fallback, st.tokens)

\* The closing sweep of the drain thread: a run that stopped for a reason of
\* its own keeps it, and the caller's reason is the fallback.
CloseRun(st, fallback) ==
  AppendEvent(st, "ExecutionStopped",
              IF Stopped(st) THEN st.execution ELSE fallback, st.tokens)
=============================================================================
