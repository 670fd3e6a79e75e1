------------------------- MODULE GovernorProperties -------------------------
(***************************************************************************)
(* What must hold of the governor's request path.                          *)
(***************************************************************************)
EXTENDS Governor

Denials == {"ToolDenied", "RuleDenied"}

\* The sum of the tokens of a sequence of events.
TokensOf(s) ==
  LET total[i \in 0 .. Len(s)] == IF i = 0 THEN 0 ELSE total[i - 1] + s[i].tokens
  IN  total[Len(s)]

\* The events of one kind in a sequence of events, in their order.
Keep(chosen, e, kind) == IF e.kind = kind THEN Append(chosen, e) ELSE chosen

OfKind(s, kind) ==
  LET chosen[i \in 0 .. Len(s)] ==
        IF i = 0 THEN <<>> ELSE Keep(chosen[i - 1], s[i], kind)
  IN  chosen[Len(s)]

-----------------------------------------------------------------------------
(* Safety *)

\* The per-run seq has no gap and no repeat over what was drained and what is
\* still buffered, whatever requests append while the drain thread takes the
\* buffer: append_event numbers under the run's mutex, never at drain time.
StreamContiguous ==
  \A r \in open :
    /\ run[r].next_seq = Len(Stream(r))
    /\ \A i \in DOMAIN Stream(r) : Stream(r)[i].seq = i - 1

\* The state the policy reads and the log an auditor reads agree: the history
\* is the ToolAllowed events in order, each count is that tool's share of it,
\* and tokens_spent is what the LlmUsageRecorded events add up to.  No order
\* of handle_tool_call, handle_llm_usage and the drain can part them.
AccountsMatchLog ==
  \A r \in open :
    LET s     == Stream(r)
        calls == OfKind(s, "ToolAllowed")
        used  == OfKind(s, "LlmUsageRecorded")
    IN  /\ run[r].history = [i \in 1 .. Len(calls) |-> calls[i].on]
        /\ \A t \in Tools :
             run[r].counts[t] = Cardinality({i \in DOMAIN calls : calls[i].on = t})
        /\ run[r].tokens = TokensOf(used) % TokenWrap

\* A cap is overshot by at most one call for each other client: handle_tool_call
\* reads the count in one critical section and adds to it in a later one, so
\* each request in flight may have been evaluated against the same count.  A
\* cap of 0 is never overshot, and with one client no cap is.
CapOvershootBounded ==
  \A r \in Runs, t \in Capped :
    run[r].counts[t] <=
      IF MaxCalls[t] = 0 THEN 0 ELSE MaxCalls[t] + Cardinality(Clients) - 1

\* After a run stops, at most the calls of the other clients already past the
\* router's check are still recorded; every later request gets a 410.
StragglersBounded ==
  \A r \in Runs :
    Stopped(run[r]) => Len(run[r].history) - mark[r].calls <= Cardinality(Clients) - 1

\* No run goes on past a denial: a denial in the log is the event that stopped
\* the run, under its own name, or came from a request overtaken by the stop.
DenialIsTheStop ==
  \A r \in open : \A i \in DOMAIN Stream(r) :
    LET e == Stream(r)[i]
    IN  e.kind \in Denials =>
          /\ Stopped(run[r])
          /\ e.seq + 1 >= mark[r].seq
          /\ e.seq + 1 = mark[r].seq => run[r].execution = e.kind

-----------------------------------------------------------------------------
(* Action properties *)

\* The log is append-only through every handler and every drain: what a run
\* has logged stays, in its order, and only grows at the end.
StreamAppendOnly ==
  [][\A r \in open :
       /\ Len(Stream(r)) <= Len(Stream(r)')
       /\ SubSeq(Stream(r)', 1, Len(Stream(r))) = Stream(r)]_vars

\* Each run keeps the contract of module RunContract with a slack of one call
\* per other client, and no step of one run touches another run's verdicts.
Contract ==
  INSTANCE RunContract WITH
    execution <- [r \in Runs |-> run[r].execution],
    history   <- [r \in Runs |-> run[r].history],
    stoppedAt <- [r \in Runs |-> mark[r].calls],
    Slack     <- Cardinality(Clients) - 1

RunsKeepContract == Contract!Spec

-----------------------------------------------------------------------------
(* Liveness, under Fairness *)

\* Every event a handler appended is eventually written out, the ones of
\* requests that outlived the stop included.
EveryEventWritten ==
  \A r \in Runs : \A n \in 1 .. 2 * MaxRequests :
    (r \in open /\ run[r].next_seq >= n) ~> Len(log[r]) >= n
=============================================================================
