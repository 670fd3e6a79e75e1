----------------------------- MODULE SdkClient -----------------------------
(***************************************************************************)
(* One agent process, several threads deep, and the governor it is         *)
(* governed by (module Governor).  The wrappers of @tool and @agent        *)
(* (_decorators.py), or what #[nanny::tool] and #[nanny::agent] expand to  *)
(* (macros/src/lib.rs), run in the threads; what they send goes through    *)
(* _client.py, or through the runtime of the nanny crate (cli/src/lib.rs). *)
(* A tool call is a GET /status, the rules on what it returned, a POST     *)
(* /tool/call and then the body of the tool: four points between which the *)
(* other threads and the governor move.                                    *)
(*                                                                         *)
(* The two SDKs differ in what a failure is: an exception the application  *)
(* may catch in Python, the end of the process in Rust.  The governor may  *)
(* come late, go away and be started again with every run forgotten.       *)
(*                                                                         *)
(* Requests that change the governor take a slot of Governor (its Clients) *)
(* until they are answered.  A thread that gives up on an answer leaves    *)
(* its request behind in the slot, where the governor still serves it.     *)
(* The rules are of one form, enough for the properties: a tool with one   *)
(* label is denied once a tool with another is in the history.  Draining   *)
(* the log is left out: nothing here reads it.                             *)
(***************************************************************************)
EXTENDS Governor, FiniteSetsExt

CONSTANTS
  Sdks,         \* the languages the process may be written in
  Threads,      \* the threads of the process that call tools
  Scopes,       \* the ways the threads may be spread over runs, for each language
  Labelled,     \* Labelled[x]: the labels [tools.x] declares
  OwnRules,     \* the rules registered when the application is imported
  PackRules,    \* the rules of the packs installed in .nanny/rules
  RuleSet,      \* the name the declared rules go by, a member of Names
  MaxTries,     \* how many retries fit in FIRST_CONTACT_TIMEOUT_SECONDS
  Spent,        \* the tokens of one LLM call
  MaxTold,      \* bound: how many LLM calls are reported
  MaxBegun,     \* bound: how many tool calls, scopes and reports the threads
                \* begin, for each language
  MaxDepth,     \* bound: how deep the scopes of one thread nest
  MaxFaults     \* bound: how many answers are lost or are refusals, and how
                \* often the governor is started again

\* TOOL_LABELS, a closed set: what the operator may say of a tool.
Labels ==
  {"reads_untrusted", "external_effect", "destructive", "moves_money", "reads_sensitive"}

Rules == [before : Labels, after : Labels]

\* The slot of a thread with no request outstanding.
NoSlot == "none"

ASSUME SdkAssumption ==
  /\ Sdks \subseteq {"python", "rust"}
  /\ IsFiniteSet(Threads) /\ Threads # {}
  /\ IsFiniteSet(Runs) /\ IsFiniteSet(Tools)
  /\ NoSlot \notin Clients
  /\ Scopes \in [Sdks -> SUBSET [Threads -> Runs]]
  /\ Labelled \in [Tools -> SUBSET Labels]
  /\ OwnRules \subseteq Rules
  /\ PackRules \subseteq Rules
  /\ RuleSet \in Names
  /\ MaxBegun \in [Sdks -> Nat]
  /\ {MaxTries, Spent, MaxTold, MaxDepth, MaxFaults} \subseteq Nat

VARIABLES
  sdk,       \* the language of the process
  governor,  \* whether there is a governor at NANNY_BRIDGE_ADDR
  reached,   \* _reached_bridge, REACHED_BRIDGE
  declared,  \* _declared, DECLARED: some thread has begun to declare the rules
  loaded,    \* _RULES, the inventory
  at,        \* at[t]: what thread t is doing
  hand,      \* hand[t]: the locals of the wrapper thread t is in
  inside,    \* inside[t]: the @agent functions thread t is in, outermost first
  scope,     \* scope[t]: the run thread t is in, by run_scope or NANNY_RUN_ID
  entries,   \* how many scopes have been begun
  begun,     \* begun[r][x]: history variable, calls of tool x begun in run r
  bodies,    \* bodies[r][x]: history variable, how often the body of x has run
  unheard,   \* unheard[r][x]: history variable, calls allowed with nobody listening
  told,      \* told[r]: history variable, LLM calls reported in run r
  silent,    \* history variable: some call ended without the router's answer
  forgotten, \* forgotten[r][x]: history variable, calls counted by governors now gone
  restarts,  \* how often the governor was started again
  faults     \* how many answers were lost or refusals

process == <<sdk, governor, reached, declared, loaded, scope>>
counted == <<entries, begun, bodies, unheard, told>>
tallies == <<counted, silent, forgotten, restarts, faults>>
sdkVars == <<process, at, hand, inside, tallies>>

\* The calls that enforcement depends on, and the ones whose failure is ignored.
Enforcing  == {"status", "call", "enter"}
BestEffort == {"declare", "refuse", "report", "exit", "tell"}

Places == Enforcing \cup BestEffort
            \cup {"app", "load", "once", "rules", "body", "quit", "dead"}

Locals ==
  [on : Tools \cup Names \cup {NoName}, seen : Seq(Tools), cleared : SUBSET Rules,
   armed : BOOLEAN, tries : 0 .. MaxTries, slot : Clients \cup {NoSlot}]

AtRest ==
  [on |-> NoName, seen |-> <<>>, cleared |-> {}, armed |-> FALSE, tries |-> 0,
   slot |-> NoSlot]

\* How many of something each run has of each tool.
Tally == [Runs -> [Tools -> Nat]]

Zero == [r \in Runs |-> [x \in Tools |-> 0]]

SdkInit ==
  /\ Init
  /\ sdk \in Sdks
  /\ governor \in {"absent", "up"}
  /\ scope \in Scopes[sdk]
  /\ loaded = OwnRules
  /\ reached = FALSE /\ declared = FALSE
  /\ at = [t \in Threads |-> "app"]
  /\ hand = [t \in Threads |-> AtRest]
  /\ inside = [t \in Threads |-> <<>>]
  /\ entries = 0 /\ begun = Zero /\ bodies = Zero /\ unheard = Zero
  /\ told = [r \in Runs |-> 0] /\ silent = FALSE
  /\ forgotten = Zero /\ restarts = 0 /\ faults = 0

-----------------------------------------------------------------------------
(* Where a call leads.  An answer is what the governor said, "refusal" for *)
(* a status like 401 or 429 from before its router, "none" for no answer.  *)

\* The fault of a tool that runs when nobody forbids it.
Leads_FailOpen(place, answer) ==
  CASE place = "declare"                          -> "status"
    [] place = "status" /\ answer = "refusal"     -> "report"
    [] place = "call" /\ answer \in {"allowed", "none"} -> "body"
    [] OTHER                                      -> "app"

\* The fault of entering a scope inside the try block whose end leaves it.
Leads_Unmatched(place, answer) ==
  CASE place = "declare"                          -> "status"
    [] place = "status" /\ answer = "refusal"     -> "report"
    [] place = "call" /\ answer = "allowed"       -> "body"
    [] place = "enter" /\ answer # "ok"           -> "exit"
    [] OTHER                                      -> "app"

\* Python.  Only an allow leads to the body.  Whatever else an enforcing call
\* ends in is raised, and "app" is wherever the application catches it.  No answer to
\* /status is raised past the handler that would report it: BridgeUnavailable
\* is no Exception.
Leads(place, answer) ==
  CASE place = "declare"                          -> "status"
    [] place = "status" /\ answer = "refusal"     -> "report"
    [] place = "call" /\ answer = "allowed"       -> "body"
    [] OTHER                                      -> "app"

\* The fault of exiting on whatever a call is answered but an allow.
RustLeads_AlwaysQuits(place, answer, on) ==
  CASE place = "declare"                    -> "status"
    [] place = "status"                     -> "report"
    [] place \in {"report", "refuse"}       -> "quit"
    [] place = "call" /\ answer = "allowed" -> "body"
    [] place = "call" /\ answer # "allowed" -> "quit"
    [] OTHER                                -> "app"

\* Rust.  No status, a rule's denial and a tool call that is not allowed end
\* the process, the first two after a report; only a tool the governor runs
\* itself (http_get) returns an error instead.  What /agent/enter answers is
\* not looked at.
RustLeads(place, answer, on) ==
  CASE place = "declare"                    -> "status"
    [] place = "status"                     -> "report"
    [] place \in {"report", "refuse"}       -> "quit"
    [] place = "call" /\ answer = "allowed" -> "body"
    [] place = "call" /\ answer # "allowed" /\ on \notin Builtin -> "quit"
    [] OTHER                                -> "app"

Onward(t, answer) ==
  IF sdk = "rust" THEN RustLeads(at[t], answer, hand[t].on) ELSE Leads(at[t], answer)

\* The fault of a retry that outlives first contact.
Armed_Always(place) == place \in Enforcing

\* First contact is made by the calls that matter, in Rust by all.
MakesContact(place) == sdk = "rust" \/ place \in Enforcing

\* _retry_first_contact, with_first_contact_retry: armed while the process has
\* never reached the bridge.
Armed(place) == MakesContact(place) /\ ~reached

\* Thread t goes on to a place with locals h.
Proceed(t, place, h) ==
  /\ at' = [at EXCEPT ![t] = place]
  /\ hand' = [hand EXCEPT ![t] =
       IF place \in {"app", "quit"} THEN AtRest
       ELSE [h EXCEPT !.armed = Armed(place), !.tries = 0, !.slot = NoSlot]]

\* The call thread t is in ends with an answer.  The scope is left when
\* /agent/exit is over, however it went, and entered by a success, in Rust by
\* whatever was answered.
Conclude(t, answer) ==
  /\ Proceed(t, Onward(t, answer), hand[t])
  /\ inside' = [inside EXCEPT ![t] =
       CASE at[t] = "enter" /\ (answer = "ok" \/ sdk = "rust") -> Append(@, hand[t].on)
         [] at[t] = "exit"                                     -> SubSeq(@, 1, Len(@) - 1)
         [] OTHER                                              -> @]

-----------------------------------------------------------------------------
(* The application *)

Began ==
  entries + MapThenSumSet(LAMBDA r : told[r] + MapThenSumSet(LAMBDA x : begun[r][x], Tools),
                          Runs)

\* A thread calls a tool.  In Python the first call of the process loads the
\* packs and declares the rules; the flag is raised before either is done.
CallTool(t) ==
  /\ at[t] = "app"
  /\ Began < MaxBegun[sdk]
  /\ \E x \in Tools :
       /\ begun' = [begun EXCEPT ![scope[t]][x] = @ + 1]
       /\ Proceed(t, CASE sdk = "rust" -> "once"
                        [] sdk = "python" /\ declared  -> "status"
                        [] sdk = "python" /\ ~declared -> "load", [AtRest EXCEPT !.on = x])
  /\ declared' = (declared \/ sdk = "python")
  /\ UNCHANGED <<vars, sdk, governor, reached, loaded, scope, inside, entries, bodies, unheard,
                 told, silent, forgotten, restarts, faults>>

\* A thread enters an @agent function.
EnterAgent(t) ==
  /\ at[t] = "app"
  /\ Began < MaxBegun[sdk]
  /\ entries' = entries + 1
  /\ Len(inside[t]) < MaxDepth
  /\ \E n \in Names : Proceed(t, "enter", [AtRest EXCEPT !.on = n])
  /\ UNCHANGED <<vars, process, inside, begun, bodies, unheard, told, silent, forgotten,
                 restarts, faults>>

\* An LLM call is over and its tokens are reported.
Tell(t) ==
  /\ at[t] = "app"
  /\ Began < MaxBegun[sdk]
  /\ MapThenSumSet(LAMBDA r : told[r], Runs) < MaxTold
  /\ told' = [told EXCEPT ![scope[t]] = @ + 1]
  /\ Proceed(t, "tell", AtRest)
  /\ UNCHANGED <<vars, process, inside, entries, begun, bodies, unheard, silent, forgotten,
                 restarts, faults>>

\* It returns or raises: the finally block.
LeaveAgent(t) ==
  /\ at[t] = "app"
  /\ inside[t] # <<>>
  /\ Proceed(t, "exit", [AtRest EXCEPT !.on = inside[t][Len(inside[t])]])
  /\ UNCHANGED <<vars, process, inside, tallies>>

\* The body of an allowed tool runs.
RunBody(t) ==
  /\ at[t] = "body"
  /\ bodies' = [bodies EXCEPT ![scope[t]][hand[t].on] = @ + 1]
  /\ Proceed(t, "app", AtRest)
  /\ UNCHANGED <<vars, process, inside, entries, begun, unheard, told, silent, forgotten,
                 restarts, faults>>

\* std::process::exit: every thread ends with the one that calls it, and what
\* was allowed and not run will not be.
Quit(t) ==
  /\ at[t] = "quit"
  /\ at' = [u \in Threads |-> "dead"]
  /\ hand' = [u \in Threads |-> AtRest] /\ inside' = [u \in Threads |-> <<>>]
  /\ unheard' = [r \in Runs |-> [x \in Tools |->
       unheard[r][x] + Cardinality({u \in Threads :
                         at[u] = "body" /\ scope[u] = r /\ hand[u].on = x})]]
  /\ UNCHANGED <<vars, process, entries, begun, bodies, told, silent, forgotten,
                 restarts, faults>>

-----------------------------------------------------------------------------
(* The rules of the process *)

\* DECLARED.call_once: one thread declares, and the others wait for it.
Once(t) ==
  /\ at[t] = "once"
  /\ declared => \A u \in Threads : at[u] # "declare"
  /\ declared' = TRUE
  /\ Proceed(t, IF declared \/ loaded = {} THEN "status" ELSE "declare", hand[t])
  /\ UNCHANGED <<vars, sdk, governor, reached, loaded, scope, inside, tallies>>

\* load_installed_packs imports the modules of the packs one after another.
LoadRule(t) ==
  /\ at[t] = "load"
  /\ \E rule \in PackRules \ loaded : loaded' = loaded \cup {rule}
  /\ UNCHANGED <<vars, sdk, governor, reached, declared, scope, at, hand, inside, tallies>>

\* All are imported, and declared if there are any.
LoadEnds(t) ==
  /\ at[t] = "load"
  /\ PackRules \subseteq loaded
  /\ Proceed(t, IF loaded = {} THEN "status" ELSE "declare", hand[t])
  /\ UNCHANGED <<vars, process, inside, tallies>>

\* A manifest or a module raises, and so does the tool call.
LoadFails(t) ==
  /\ at[t] = "load"
  /\ ~(PackRules \subseteq loaded)
  /\ Proceed(t, "app", AtRest)
  /\ UNCHANGED <<vars, process, inside, tallies>>

\* build_bridge_components: only a tool of the allowlist has labels, and /status
\* carries them to the process.
LabelsOf(x) == IF x \in Allowed THEN Labelled[x] ELSE {}

\* tool_has: an unknown tool has no label.
Has(x, label) == label \in LabelsOf(x)

\* What the rule says of a tool about to be called, given the history.
Denies(rule, seen, x) ==
  Has(x, rule.after) /\ \E i \in DOMAIN seen : Has(seen[i], rule.before)

Denied(t) == \E rule \in loaded : Denies(rule, hand[t].seen, hand[t].on)

\* The fault of rules that only warn.
Clear_Warning(t) ==
  /\ at[t] = "rules"
  /\ Proceed(t, "call", [hand[t] EXCEPT !.cleared = loaded])
  /\ UNCHANGED <<vars, process, inside, tallies>>

\* Every rule registered by now clears the call.
Clear(t) ==
  /\ at[t] = "rules"
  /\ ~Denied(t)
  /\ Proceed(t, "call", [hand[t] EXCEPT !.cleared = loaded])
  /\ UNCHANGED <<vars, process, inside, tallies>>

\* A rule denies: reported to the governor, then raised.
Break(t) ==
  /\ at[t] = "rules"
  /\ Denied(t)
  /\ Proceed(t, "refuse", hand[t])
  /\ UNCHANGED <<vars, process, inside, tallies>>

\* The registry changed under the loop over it, which raises.
Clash(t) ==
  /\ at[t] = "rules"
  /\ \E u \in Threads : at[u] = "load"
  /\ Proceed(t, "app", AtRest)
  /\ UNCHANGED <<vars, process, inside, tallies>>

-----------------------------------------------------------------------------
(* Requests *)

\* The http_get of the Rust SDK names the reason only, not the tool.
ByReason(t) == sdk = "rust" /\ hand[t].on \in Builtin

Request(t) ==
  LET ask(op, which, on) == [op |-> op, which |-> which, on |-> on, tokens |-> 0]
  IN  CASE at[t] = "declare" -> ask("identify", "rules", RuleSet)
        [] at[t] = "refuse" /\ ~ByReason(t) -> ask("stopRule", "app", hand[t].on)
        [] at[t] = "refuse" /\ ByReason(t)  -> ask("stop", "app", "RuleDenied")
        [] at[t] = "tell"    -> [ask("usage", "app", NoName) EXCEPT !.tokens = Spent]
        [] at[t] = "report"  -> ask("stop", "app", "BridgeUnavailable")
        [] at[t] = "call"    -> ask("tool", "app", hand[t].on)
        [] at[t] = "enter"   -> ask("enter", "app", hand[t].on)
        [] at[t] = "exit"    -> ask("exit", "app", NoName)

Sending(t) == at[t] \in Enforcing \cup BestEffort

Waiting(t) == hand[t].slot # NoSlot

\* The slots no request is in and no thread waits on.
FreeSlots == {c \in Clients : pc[c] = "idle" /\ \A t \in Threads : hand[t].slot # c}

\* The request of thread t reaches the governor's router.  It does not matter
\* in which free slot; Clients bounds how many there are.
Post(t) ==
  /\ governor = "up"
  /\ Sending(t) /\ at[t] # "status"
  /\ ~Waiting(t)
  /\ \E c \in FreeSlots :
       /\ c = CHOOSE d \in FreeSlots : TRUE
       /\ Arrive(c)
       /\ call'[c] = [run |-> scope[t], q |-> Request(t)]
       /\ hand' = [hand EXCEPT ![t].slot = c]
  /\ UNCHANGED <<process, at, inside, tallies>>

\* GET /status: the run as it is now, opened if this is the first that names it.
Status(t) ==
  /\ governor = "up"
  /\ at[t] = "status"
  /\ open' = open \cup {scope[t]}
  /\ run' = Resolve(scope[t])
  /\ Proceed(t, "rules", [hand[t] EXCEPT !.seen = run'[scope[t]].history])
  /\ reached' = TRUE
  /\ UNCHANGED <<log, pc, call, issued, mark, sdk, governor, declared, loaded, scope,
                 inside, tallies>>

\* The request in slot c has been answered.  Any answer to a call that makes
\* contact disarms the retry; one that nobody waits for is only counted.
Deliver(c, answer) ==
  \/ \E t \in Threads :
       /\ hand[t].slot = c
       /\ Conclude(t, answer)
       /\ reached' = (reached \/ MakesContact(at[t]))
       /\ UNCHANGED unheard
  \/ /\ \A t \in Threads : hand[t].slot # c
     /\ unheard' = IF answer = "allowed"
                   THEN [unheard EXCEPT ![RunOf(c)][Asked(c).on] = @ + 1]
                   ELSE unheard
     /\ UNCHANGED <<at, hand, inside, reached>>

\* The governor works on the request in slot c.
Serve(c) ==
  /\ governor = "up"
  /\ \/ Admit(c) /\ UNCHANGED <<at, hand, inside, reached, unheard>>
     \/ Policy(c) /\ UNCHANGED <<at, hand, inside, reached, unheard>>
     \/ Refuse(c) /\ Deliver(c, "gone")
     \/ Deny(c) /\ Deliver(c, "denied")
     \/ Allow(c) /\ Deliver(c, "allowed")
     \/ Fail(c) /\ Deliver(c, "error")
     \/ Apply(c) /\ Deliver(c, "ok")
  /\ UNCHANGED <<sdk, governor, declared, loaded, scope, entries, begun, bodies, told,
                 silent, forgotten,
                 restarts, faults>>

-----------------------------------------------------------------------------
(* Requests that fail *)

\* The fault of a deadline that starts over with every attempt.
Attempted_Renewed(h) == [h EXCEPT !.slot = NoSlot]

\* One attempt more is behind.
Attempted(h) == [h EXCEPT !.slot = NoSlot, !.tries = @ + 1]

\* The flag is not looked at again: a retry armed is armed to its deadline.
Retrying(t) == hand[t].armed /\ hand[t].tries < MaxTries

\* No answer, and the transport says so.
NoAnswer(t) ==
  IF Retrying(t)
  THEN hand' = [hand EXCEPT ![t] = Attempted(@)] /\ UNCHANGED <<at, inside, silent>>
  ELSE Conclude(t, "none") /\ silent' = TRUE

\* There is no governor to connect to, or the one connected to is gone.
Unreachable(t) ==
  /\ Sending(t)
  /\ IF Waiting(t) THEN pc[hand[t].slot] = "idle" ELSE governor # "up"
  /\ NoAnswer(t)
  /\ UNCHANGED <<vars, process, counted, forgotten, restarts, faults>>

\* The time limit of the request passes.  What was sent is still served.
TimeOut(t) ==
  /\ governor = "up"
  /\ at[t] = "status" \/ Waiting(t)
  /\ restarts + faults < MaxFaults
  /\ faults' = faults + 1
  /\ NoAnswer(t)
  /\ UNCHANGED <<vars, process, counted, forgotten, restarts>>

\* The rate limit or the token check answers instead of the router.
TurnedAway(t) ==
  /\ governor = "up"
  /\ Sending(t) /\ ~Waiting(t)
  /\ restarts + faults < MaxFaults
  /\ faults' = faults + 1
  /\ Conclude(t, "refusal")
  /\ silent' = TRUE
  /\ reached' = (reached \/ MakesContact(at[t]))
  /\ UNCHANGED <<vars, sdk, governor, declared, loaded, scope, counted, forgotten, restarts>>

\* The governor starts late, or ends.
Listen ==
  /\ governor = "absent"
  /\ governor' = "up"
  /\ UNCHANGED <<vars, sdk, reached, declared, loaded, scope, at, hand, inside, tallies>>

\* It ends with every request it was working on.
Vanish ==
  /\ governor = "up"
  /\ governor' = "gone"
  /\ pc' = [c \in Clients |-> "idle"] /\ call' = [c \in Clients |-> NoCall]
  /\ UNCHANGED <<open, run, log, issued, mark, sdk, reached, declared, loaded, scope, at, hand,
                 inside, tallies>>

\* It is started again, as rotating the session token asks for: the runs were
\* in its memory, and the process goes on naming its own.
Restart ==
  /\ governor = "gone"
  /\ restarts + faults < MaxFaults
  /\ restarts' = restarts + 1
  /\ governor' = "up"
  /\ forgotten' = [r \in Runs |-> [x \in Tools |-> forgotten[r][x] + run[r].counts[x]]]
  /\ open' = {Primary}
  /\ run' = [r \in Runs |-> IF r = Primary THEN PlaceholderRun ELSE FreshRun]
  /\ mark' = [r \in Runs |-> [seq |-> 0, calls |-> 0]]
  /\ UNCHANGED <<log, pc, call, issued, sdk, reached, declared, loaded, scope, at, hand,
                 inside, counted, silent, faults>>

-----------------------------------------------------------------------------
Begin(t) == CallTool(t) \/ EnterAgent(t) \/ LeaveAgent(t) \/ Tell(t)

\* What the SDK does in thread t once the application has called it.
Wrapper(t) ==
  \/ LoadRule(t) \/ LoadEnds(t) \/ LoadFails(t) \/ Once(t) \/ Quit(t)
  \/ Clear(t) \/ Break(t) \/ Clash(t)
  \/ Post(t) \/ Status(t)
  \/ Unreachable(t) \/ TimeOut(t) \/ TurnedAway(t)

SdkNext ==
  \/ \E t \in Threads : Begin(t) \/ Wrapper(t) \/ RunBody(t)
  \/ \E c \in Clients : Serve(c)
  \/ Listen
  \/ Vanish
  \/ Restart

\* The SDK's code runs and its requests have time limits; a governor that is
\* up serves.  The application owes nothing, not even that a body returns,
\* and nobody promises that a governor comes or stays.
SdkFairness ==
  /\ \A t \in Threads : WF_<<vars, sdkVars>>(Wrapper(t))
  /\ \A c \in Clients : WF_<<vars, sdkVars>>(Serve(c))

SdkSpec == SdkInit /\ [][SdkNext]_<<vars, sdkVars>> /\ SdkFairness
=============================================================================
