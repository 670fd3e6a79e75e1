--------------------------- MODULE SdkProperties ---------------------------
(***************************************************************************)
(* What must hold between an agent process and its governor.               *)
(***************************************************************************)
EXTENDS SdkClient

SdkTypeOK ==
  /\ TypeOK
  /\ sdk \in Sdks
  /\ governor \in {"absent", "up", "gone"}
  /\ reached \in BOOLEAN /\ declared \in BOOLEAN
  /\ loaded \in SUBSET (OwnRules \cup PackRules)
  /\ at \in [Threads -> Places]
  /\ hand \in [Threads -> Locals]
  /\ inside \in [Threads -> Seq(Names)]
  /\ scope \in [Threads -> Runs]
  /\ entries \in 0 .. MaxBegun[sdk]
  /\ {begun, bodies, unheard, forgotten} \subseteq Tally
  /\ told \in [Runs -> 0 .. MaxTold] /\ silent \in BOOLEAN
  /\ restarts + faults \in 0 .. MaxFaults

-----------------------------------------------------------------------------
(* Safety *)

\* The body of a tool runs once for each call the governor counted, and for
\* nothing else: a counted call has run, is about to run, or was answered to a
\* thread that had given up.  Holds through timeouts, late answers, a governor
\* that is absent or goes away, and calls of several threads.
BodiesMatchCounts ==
  \A r \in Runs, x \in Tools :
    forgotten[r][x] + run[r].counts[x] =
      bodies[r][x] + unheard[r][x]
        + Cardinality({t \in Threads : at[t] = "body" /\ scope[t] = r /\ hand[t].on = x})

\* A call of the application is counted at most once, although an enforcing
\* request may be repeated on first contact: by the time /tool/call is posted
\* /status has been answered, which disarms the retry, and it stays disarmed
\* when the governor is started again.
CountedOnce ==
  \A r \in Runs, x \in Tools : forgotten[r][x] + run[r].counts[x] <= begun[r][x]

\* The calls of tools with one label recorded in a run after one with another.
RecordedAfter(r, before, after) ==
  LET h == run[r].history
  IN  {i \in DOMAIN h : Has(h[i], after) /\ \E j \in 1 .. (i - 1) : Has(h[j], before)}

\* How stale the history a rule decides on may be: a rule of the application
\* that denies what has one label after what has another is passed by at most
\* one call per other thread in the run, and one more for each allowed call
\* whose answer was lost.  In a run of one thread with no lost answer it is
\* never passed.
RuleStalenessBounded ==
  \A r \in open, rule \in OwnRules :
    LET passed == RecordedAfter(r, rule.before, rule.after)
        others == Cardinality({t \in Threads : scope[t] = r}) - 1
        missed == MapThenSumSet(LAMBDA y : unheard[r][y], Tools)
    IN  passed # {} => Cardinality(passed) <= others + missed

\* Until the governor goes, every @agent function a thread is in has its entry
\* on the run's stack, and the stack holds at most one entry more for each
\* lost answer and refusal: enter and exit pair up under retries, refused
\* entries, stopped runs and threads that share the run.  A Rust function
\* whose entry failed is a scope all the same, and its exit takes another's
\* entry: there the pairing needs a run that goes on and no unanswered call.  A
\* governor started again knows of no scope that was entered before.
ScopesBalanced ==
  governor # "gone" /\ (\A t \in Threads : at[t] # "dead") =>
    \A r \in open :
      LET nested == MapThenSumSet(LAMBDA t : Len(inside[t]),
                                  {t \in Threads : scope[t] = r})
      IN  /\ restarts = 0 /\ (sdk = "python" \/ ~(silent \/ Stopped(run[r])))
               => nested <= Len(run[r].stack)
          /\ Len(run[r].stack) <= nested + faults

\* report_stop: "report a stop reason before calling exit(1)", without which
\* the run closes as a crash.  A Rust process that ends itself leaves its run
\* stopped for a reason of its own, unless some call of its went unanswered or
\* the governor was started again, which forgets that a run was stopped.
QuitIsReported ==
  \A t \in Threads : at[t] = "quit" => silent \/ restarts > 0 \/ Stopped(run[scope[t]])

\* The tokens of a run are at most the ones reported: in Python whatever
\* happens, in Rust, where the report of an LLM call is repeated on first
\* contact too, but for one report more for each lost answer.
UsageNotInflated ==
  \A r \in Runs :
    run[r].tokens <= Spent * (told[r] + (IF sdk = "rust" THEN faults ELSE 0))

\* Nothing a process does is counted twice.
SdkInvariant == SdkTypeOK /\ CountedOnce /\ UsageNotInflated

-----------------------------------------------------------------------------
(* Liveness, under SdkFairness *)

Settled == {"app", "body", "dead"}

\* Every governed call gets a verdict: the tool's body starts, the wrapper
\* raises or the process ends, with a governor, without one, and with one that
\* goes away, for good or not, while the request is in flight.
EveryCallDecided ==
  \A t \in Threads : at[t] \notin Settled ~> at[t] \in Settled

-----------------------------------------------------------------------------
(* What the documents state, and the code does not keep *)

\* docs/v0.7/guides/python-sdk.mdx: rules are "evaluated client-side on every
\* tool call", and docs/v0.7/guides/rule-packs.mdx: a pack's rules "register
\* themselves when your agent starts", with the "same evaluation order, same
\* denial behaviour" as the application's.  They register in the first
\* governed call, after the flag that keeps every other call from waiting.
EveryRuleEvaluated ==
  \A t \in Threads : at[t] = "body" => hand[t].cleared = OwnRules \cup PackRules
=============================================================================
