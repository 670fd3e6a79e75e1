------------------------- MODULE ShutdownProperties -------------------------
(***************************************************************************)
(* What must hold of a governor that ends.                                 *)
(***************************************************************************)
EXTENDS GovernorShutdown

Closing(s) == {i \in DOMAIN s : s[i].kind = "ExecutionStopped"}

-----------------------------------------------------------------------------
(* Safety *)

\* ExecutionStopped comes once, from the closing pass, however many /stop
\* requests a run got, and says what the run says: the run's own reason when it
\* had stopped by then, otherwise the exit status of the app, and the tokens
\* the log adds up to at that point.
ClosingEventIsAccurate ==
  \A r \in open :
    LET s == Stream(r)
    IN  /\ Cardinality(Closing(s)) <= 1
        /\ \A i \in Closing(s) :
             /\ Stopped(run[r]) /\ mark[r].seq <= s[i].seq => s[i].on = run[r].execution
             /\ ~(Stopped(run[r]) /\ mark[r].seq <= s[i].seq) =>
                  s[i].on = IF child = "success" THEN "AgentCompleted" ELSE "ProcessCrashed"
             /\ s[i].tokens =
                  TokensOf(OfKind(SubSeq(s, 1, i - 1), "LlmUsageRecorded")) % TokenWrap

\* drain_done means what the main thread takes it to mean: the app's run is
\* closed on stdout, and every run that was closed is written up to its closing.
DoneMeansWritten ==
  done => /\ Closing(log[Primary]) # {}
          /\ \A r \in open : Closing(run[r].events) = {}

\* The threads agree on how far the shutdown is.
ShutdownInvariant == ShutdownTypeOK /\ DoneMeansWritten

\* With a live forwarder the two-second limit on waiting for the last sweep
\* costs nothing: flush_and_join ends only when the drain thread has dropped its
\* end of the channel, so the process exits with every closed run written to
\* stdout up to its closing, and all that was written dealt with by the forwarder.
SyncedExitIsComplete ==
  (exit \in Exited /\ child # "none" /\ sink = "up") =>
    /\ channel = {}
    /\ Closing(log[Primary]) # {}
    /\ \A r \in open : Closing(run[r].events) = {}

-----------------------------------------------------------------------------
(* Liveness *)

\* The process follows its app: once the app has exited or the governor under
\* it has finished, nanny exits, also when the drain thread has returned early
\* and will never announce its last sweep.
AppExitEndsProcess ==
  (child \in Exited \/ served) ~> exit # "none"
=============================================================================
