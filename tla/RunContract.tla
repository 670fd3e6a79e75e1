----------------------------- MODULE RunContract -----------------------------
(***************************************************************************)
(* What a governor promises of its runs, whatever requests are in flight.  *)
(* A call is recorded only for an allowed tool, within its cap and before  *)
(* the stop, give or take Slack calls; the first stop is final; and a step *)
(* of one run leaves every other run alone.  With Slack = 0 this is the    *)
(* contract the documents state; Slack is what evaluating and recording a  *)
(* call in two critical sections costs.                                    *)
(***************************************************************************)
EXTENDS Integers, Sequences, FiniteSets

CONSTANTS Runs, Tools, Allowed, Capped, MaxCalls, StopReasons, Running, Slack

VARIABLES
  execution,  \* of each run: Running, or why it stopped
  history,    \* the calls recorded, in order
  stoppedAt   \* how many calls had been recorded when the run stopped

CountOf(r, t) == Cardinality({i \in DOMAIN history[r] : history[r][i] = t})

Init ==
  /\ execution = [r \in Runs |-> Running]
  /\ history = [r \in Runs |-> <<>>]
  /\ stoppedAt = [r \in Runs |-> 0]

WithinCap(r, t) ==
  t \in Capped => MaxCalls[t] > 0 /\ CountOf(r, t) < MaxCalls[t] + Slack

WithinStop(r) ==
  execution[r] # Running => Len(history[r]) < stoppedAt[r] + Slack

Call(r, t) ==
  /\ t \in Allowed
  /\ WithinCap(r, t)
  /\ WithinStop(r)
  /\ history' = [history EXCEPT ![r] = Append(@, t)]
  /\ UNCHANGED <<execution, stoppedAt>>

Stop(r) ==
  /\ execution[r] = Running
  /\ \E reason \in StopReasons : execution' = [execution EXCEPT ![r] = reason]
  /\ stoppedAt' = [stoppedAt EXCEPT ![r] = Len(history[r])]
  /\ UNCHANGED history

Next == \E r \in Runs : Stop(r) \/ \E t \in Tools : Call(r, t)

Spec == Init /\ [][Next]_<<execution, history, stoppedAt>>
=============================================================================
