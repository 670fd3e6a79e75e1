# A TLA+ verification of nanny

nanny governs agent processes.  A *governor* (`nanny run`) launches an app, other
processes join it, and every tool call of any of them is put to the governor
before it runs.  The governor keeps one *run* per run id: a policy (allowlist,
`max_calls` per tool), counters, a stop state that is final, and a numbered event
log that is drained to stdout and to a cloud.  What the product promises is an
enforcement decision that cannot be raced and a log that an auditor can trust;
both depend on several threads, several processes and a disk.  Around that stand
the files a governor is found by, its certificates, its session token and the rule
packs of a project: protocols between processes whose shared memory is a directory.  This directory
models that part of the code, checks it with TLC and proves the central
invariants with TLAPS.

Sources are quoted relative to `src/`.  `PROJECT.json` maps every definition to
the lines it stands for.

## 1. Inventory

| part | code | state | operations | hard part |
|---|---|---|---|---|
| run state and handlers | `crates/bridge/src/lib.rs` | `BridgeState` behind a mutex: execution, next_seq, events, counts, history, scope stack, tokens, last identities | one handler per endpoint | a tool call is two critical sections with the tool between |
| tool policy | `crates/runtime/src/enforcement.rs`, `tools/mod.rs` | none | allowlist, then cap | boundary of the cap |
| request path | `crates/bridge/src/network.rs` | map of runs, template, tokens, rate limiter | resolve the run, check token, check stopped, dispatch | check and handler are separate critical sections |
| shutdown | `network.rs`, `crates/cli/src/commands/server.rs` | `drain_shutdown`, `stop_reason`, `drain_done`, the child, channel | drain tick, closing pass, poll of the child, 2 s wait, flush, signal | four threads, a listener that goes on serving |
| cloud forwarder and outbox | `crates/cli/src/sync.rs` | channel, outbox directory per environment | send with retries, store, evict, drain, join | crashes, lost answers, two governors on one directory |
| admission | `network.rs`, `crates/config/src/lib.rs` | tokens, rate windows per address | count, compare, publish the first token | a rotation over governors that restart one by one |
| discovery | `server.rs`, `network.rs`, `crates/cli/src/main.rs` | `server.addr/.token/.pid` per app | publish, wait, join, stop, clear | stale and half-written files, three threads that clear them |
| SDK clients | `sdks/python/nanny_sdk/_client.py`, `_decorators.py`, `packs.py`, `run.py`; `crates/cli/src/lib.rs`, `crates/macros/src/lib.rs` | reached flag, declared flag, rule registry, run scope | rules on a snapshot, tool call, scopes, usage, stop report, first-contact retry | check-then-act over HTTP, repeated POST, a governor that forgets |
| certificates | `crates/cli/src/commands/certs.rs`, reload in `network.rs` | seven files, the TLS configuration in use | generate, rotate, import, remove, reload | several files, one reload |
| project files | `crates/cli/src/commands/rules*.rs`, `crates/config/src/pack.rs`, `crates/cli/src/identity.rs`, `main.rs` | pack directories, `nanny.toml`, `app.json` | init, add, remove, verify, resolve, load | several files, no lock, commands that wait for answers |
| configuration, command line, http_get, instrumentation | `crates/config`, `crates/cli/src/main.rs`, ... | files | parse, print | sequential |

Interactions.  An app or joiner calls the SDK client, which posts to the request
path over HTTP; the request path locks one run and calls a handler; the drain
thread locks the same runs from the other side, writes stdout and sends batches
through an mpsc channel to the forwarder; the main thread watches the child and
talks to the drain thread through an atomic flag, a mutex-held reason and a
condition variable; the forwarder talks to the cloud and to the outbox; governors
of one app meet on the disk; `nanny certs`, `nanny rules` and `nanny init` write
files that governors and agents read meanwhile.

What makes each part correct:

- *run and request path*: numbering without gap or repeat; log and counters agree;
  caps and stops hold up to the calls in flight; a denial is the stop and the first
  stop is final; a request of one run leaves every other alone.
- *admission*: nobody is refused for the token the rotation gave it; the limiter
  admits and refuses what its rate says.
- *shutdown*: every run that existed at the closing pass is closed once, with the
  true reason and token total; nothing written is lost when the exit is orderly;
  the process ends with its app.
- *outbox*: deliver or persist; no batch crosses environments; whole batches only;
  order within a drain; bounded size; a shutdown never hangs on the cloud.
- *discovery*: a governor nobody has crossed can be found; an app talks to the
  governor that launched it; neither side outlives the other.
- *SDK*: a tool body runs only after the governor allowed that call, and once for
  each call counted; rules are evaluated on a history no staler than the calls in
  flight; scopes pair up; an unreachable governor ends the call and never hangs it.
- *certificates*: agents that got through stay connected through every rotation;
  what is settled loads; what changed is served before long.
- *project files*: what is installed is whole; what is declared survives and is
  enforced; an identity is permanent.

The hazards this leads to, each at its line, are in `PROJECT.json`.

## 2. Modules

| module | role |
|---|---|
| `RunState` | the state of one run; one operator per critical section of `lib.rs` |
| `Governor` | the request path: clients, runs, drain; `EXTENDS RunState` |
| `RunContract` | the abstract contract of a run: record a call, stop; parameter `Slack` |
| `GovernorProperties` | properties of the request path, and its refinement of `RunContract` |
| `GovernorShutdown` | the end of a governor, composed with Governor's request actions |
| `ShutdownProperties` | its properties |
| `Spool`, `SpoolProperties` | forwarder and outbox over several governors and restarts |
| `SdkClient` | one Python or Rust process of several threads, composed with Governor's request actions and restarts |
| `SdkProperties` | what holds between the process and its governor |
| `Admission`, `AdmissionProperties` | rate limit and session token in front of every governor of a fleet, through a rotation |
| `Discovery`, `DiscoveryProperties` | the discovery files, the processes that write and read them, the life of the app |
| `Certs`, `CertsProperties` | one bundle of certificates, the commands on it and the governor that serves it |
| `RulePacks`, `PacksProperties` | the files of a project: init, packs, identity; the run and the agent that read them |
| `GovernorProofs` | `TypeInvariant`, `CapOvershoot`, `Stragglers`, `StreamHasNoGap`, `DenialStops`, `LogIsAppendOnly`, `ContractKept`, `LogIsTheAccount` |
| `ShutdownProofs` | `DoneIsWritten`, `ExitLeavesNothing`, `ClosingIsTrue`; `EXTENDS GovernorProofs` |
| `SdkProofs` | `BodiesAreCounted`, `NothingIsCountedTwice`, `RulesAreBounded`, `ScopesAreBalanced`, `QuitsAreReported`; `EXTENDS GovernorProofs` |
| `SpoolProofs` | `SpoolKeepsForm`, `DrainKeepsOrder`, `NoBatchLost`, `StoredIsDurable`, `OutboxIsBounded` |
| `AdmissionProofs` | `FleetAdmitted`, `RateIsKept` |
| `DiscoveryProofs` | `RunIsForgotten`, `ServingIsFound`, `FreshStartFindsItself` |
| `CertsProofs` | `AgentsKeepTheirTrust`, `SettledBundlesLoad` |
| `PacksProofs` | `IdentityStays`, `PacksStayIntact`, `DeclarationsKept`, `DeclaredPacksGovern`, `LastPackWins` |
| `MCGovernor`, `MCOverlap`, `MCShutdown`, `MCSpool`, `MCSdk`, `MCAdmission`, `MCDiscovery`, `MCCerts`, `MCPacks` | instances for TLC |

`RunState` and `Governor` are split the way the code is: `lib.rs` knows what a
handler does under the lock, `network.rs` knows when.  A handler that takes the
lock once is one action (`Apply`); `handle_tool_call` takes it twice, so a tool
call is `Policy`, then `Deny`, `Allow` or `Fail`; the router's stopped check is a
section of its own (`Admit`, `Refuse`).  `call[c]` is what the request holds on
its stack.  `mark[r]` is a history variable: where run r stood at its first stop.
`/stop`, `/agent/exit` and the reads are served on a stopped run (`Ungated`);
`/status`, `/events` and `/health` read the run, and open it when nobody has yet,
as `/rule/evaluate` does, which is gated.  The identity
declarations (`/app`, `/harness`, `/rules`, the governor's own) share one
operator, as the code shares one pattern; a blank identity is ignored, which for
the governor's own never occurs.

`GovernorShutdown` replaces `Drain` by the drain thread's own steps (`Nap`,
`CloseRuns`, `Snapshot`, `Sweep`, `Rest`) and adds the main thread, the forwarder
as far as its channel goes, and the signal thread.  `CloseRuns` closes all runs in
one step: the map is locked throughout, and a request on a run already closed
commutes with the closing of the others.

`Spool` keeps what `GovernorShutdown` leaves out of the forwarder.  Files have a
rank for the time in their name, and exist first in a temporary form; a listing is
a set of files taken once; `Attempt` and `Retry` are the loop of `send_batch`, and
any failed attempt may still have been ingested.

`SdkClient` puts the SDKs' wrappers in front of `Governor`.  A thread of the
process is at one place of a wrapper (`at`): loading the packs, declaring the
rules, fetching `/status`, evaluating rules, posting `/tool/call`, in the body, or
in one of the reports that end a denied call.  `Leads` says where each answer
leads, for each SDK: only "allowed" leads to the body.  In Python every other
answer ends in an exception; a refused `/status` (401, 429) is reported and raised,
an unreachable one is raised past the handler that would report it, because
`BridgeUnavailable` derives from `BaseException`.  In Rust (`RustLeads`) a denial
is posted and the process exits, an agent scope is left by a guard whether its
entry was counted or not, and every request of the client, reports included, goes
through the first-contact retry on either transport.  A request that changes the
governor occupies a client of `Governor` until it is answered; a thread that gives
up leaves it there, and the governor still serves it.  `Retrying` is the
first-contact loop: the flag is read once, at its entry.  Rules are on labels: a
rule denies a tool with one label once a tool with another is in the history, the
form the documents use as their example.  A governor may be absent at first, may
vanish at any time, and may be started again (`Restart`) with every run forgotten
while the process goes on under its run id.  `begun`, `bodies`, `unheard`,
`forgotten` and `told` are history variables.

`Admission` is what `GovernorService` does before the router: count the request
against the address it comes from, then compare its token with every token the
governor accepts.  The governors are replicas that read `NANNY_SESSION_TOKEN` once,
at their start; the operator follows the three steps of "Rotating the token" in
`docs/v0.7/guides/governance-server.mdx`; a local joiner is handed the first token
by the governor on its machine.  The operator's steps are marked external.

`Discovery` has the three threads of each `nanny run` as the code has them: the
governor thread binds, publishes the address, the token and the process id one
after the other, serves and withdraws; the main thread waits for the address,
reads it with the token, connects, spawns the app, polls both sides and clears;
the signal thread kills the app, clears and exits.  Every file is there before it
has its content.  A joiner and the main thread share the reader
(`detect_joined_server`).

`Certs` keeps one number per issue of key material, so that "signed by", "pairs
with" and "trusts" are comparisons.  A command is a sequence of the writes and
renames it has still to do (`steps`); it may be interrupted between any two.  The
governor reads the CA, the certificate and the key one after the other, at its
start and at each report of the watcher.

`RulePacks` has a directory for each pack, `nanny.toml` and `app.json`.  Commands
given in two terminals remove, copy and rewrite them file by file; a run reads the
configuration, the identity and the manifests, and its agent imports the rules
directory by directory, all while the commands go on.

Definitions named `X_Something` before `X`, introduced by "The fault of", are faults: the form `X` would have with a
plausible bug.  Nothing in the specifications uses them; each property is shown to
fail when one of them takes the place of its original.

## 3. Runs

| run | instance | checks |
|---|---|---|
| `governor` | 2 runs, 2 clients, 3 requests of 13 kinds; a capped builtin, an uncapped user tool, a tool off the list | `TypeOK`, `StreamContiguous`, `AccountsMatchLog`, `DenialIsTheStop`, `StreamAppendOnly`, `RunsKeepContract` |
| `overlap` | 1 run, 3 clients, 4 requests; caps 2 and 0; fairness | `CapOvershootBounded`, `StragglersBounded`, `EveryEventWritten` |
| `shutdown` | 2 runs, 1 client, 2 requests, every thread; fairness | `ShutdownInvariant`, `ClosingEventIsAccurate`, `SyncedExitIsComplete`, `AppExitEndsProcess` |
| `spool` | 3 governors (2 live, 1 sandbox), 3 starts, 2 batches of size 1 or 2, cap 4, session line 1, 2 attempts; symmetric in the live governors | `SpoolInvariant`, `EveryBatchAccounted`, `DrainInOrder`, `OutboxBounded`, `HeldIsDurable` |
| `flush` | 1 governor, 2 starts, 3 batches, 3 attempts; fairness | `FlushEnds` |
| `sdk` | 2 threads, in 1 run (Python), in 1 run or 2 (Rust), 3 or 2 calls, scopes or reports, 1 lost answer, refusal or restart, 1 retry, a capped and an uncapped tool, one rule of the application and one of a pack; symmetric in the threads | `SdkInvariant`, `BodiesMatchCounts`, `RuleStalenessBounded`, `ScopesBalanced`, `QuitIsReported` |
| `verdict` | 2 threads in 1 run, 2 calls of one tool or scopes, either SDK, the same faults; fairness | `EveryCallDecided` |
| `admission` | 2 governors, a local and a remote joiner, rate 2, 4 requests, 1 crash, a new token and one that is too short; fairness | `RotationAdmitsFleet`, `LimiterInvariant`, `RotationCompletes` |
| `discovery` | a governor with an app and a headless one of the same app, a joiner, 1 port, 1 signal; fairness | `DiscoveryInvariant`, `ServingIsDiscoverable`, `FreshStartReachesItself`, `HalfGovernedEnds` |
| `certs` | 3 issues, 1 removal, 1 interruption, 1 name of the operator's; fairness | `CertsInvariant`, `FleetStaysConnected`, `ReloadCatchesUp` |
| `packs` | 2 terminals, 2 commands, 1 interruption, 1 run; 4 sources of 3 packs in 2 directories | `PacksInvariant`, `InstalledIsIntact`, `DeclarationsSurvive`, `DeclaredIsEnforced`, `IdentityIsPermanent` |
| `every_rule` | the Python half of `sdk` with 2 calls | a statement of the documents, violated |

What they show, beyond the request path and the shutdown:

- `sdk`: a call is counted once and its body runs once however the governor comes,
  loses an answer or starts again; the only counted calls without a body are those
  whose answer nobody heard.  A rule on the history can be passed by one call per
  other thread and one per unheard answer, and by no more.
- `admission`: at every point of a rotation, with governors down or not yet
  restarted, no joiner that was given its token is refused; one that takes the
  token from disk is, if the old one is listed first, and listing the new one first
  is also what makes a rotation end.
- `discovery`: with one governor of an app there is no bad order; with two, the
  later publication and the earlier clearing cross, and the invariants say for whom
  they still hold.
- `certs`: whichever renames a reload falls between, it serves a bundle whole or
  keeps the one it has; what agents trust changes only with the CA.
- `packs`: without two commands at once no declaration is lost; a directory that no
  command left half done is the copy of one source.

`ShutdownInvariant`, `SpoolInvariant`, `SdkInvariant`, `CertsInvariant`,
`PacksInvariant`, `DiscoveryInvariant` and `LimiterInvariant` join the type
invariant of a module with the safety properties named in their definitions.

Bounds.  `MaxRequests` bounds the requests of a behaviour.  Three requests of two
clients let a denial, a stop and a straggler meet on one run, with a drain between
any two; the second run is there for the steps that must leave it alone.  Four
requests of three clients reach the overshoot bound of a cap of 2 exactly (4), so
the bound is tight.  `TokenWrap = 4` makes two model calls of 3 tokens wrap.  In
the shutdown one client and two requests suffice for a request before, between
and after the closing pass and the sweep, on the app's run or on one opened then.
In the outbox, cap 4 against files of 2 and 3 makes some pairs fit and some evict;
three starts allow two governors to drain what a third left, and a restart after a
kill.  `SendAttempts` is 4 in the code; two attempts distinguish first, last and
between, and the instance of `flush` has three.

Two threads and three calls reach the staleness bound of a rule exactly: one call
passed by the other thread, two with a lost answer as well.  One retry tells the
first attempt from a later one.  Python's threads share a run, where every
interaction is; Rust's are also set apart, where a rule must not be passed at
all.  Three clients of `Governor` are enough for a request of each thread and one
left behind.

In `admission` a second has two ticks and the rate is 2, so that the burst across
the end of a window (3) differs from the rate and from its double; two governors
are one that has been restarted and one that has not.  In `discovery` two
governors of one app are what it takes for one to clear or overwrite the files of
another; the port is one, so that a bind fails while it is taken.  Three issues
are a bundle generated, replaced or imported over, and rotated.  Two commands are
what an overlap needs, and what an interrupted command and its repetition need; two
versions of a pack and a third that shares a directory with the first (`a:b` and
`a-b`) are the ways packs meet on disk.

Deadlock is not checked: a governor that has used its requests, or has exited, has
nothing more to do.

## 4. Fairness

- *handlers* (`WF` on each client's `Handle`): no handler waits on anything but a
  mutex; no thread keeps one across a wait; `http_get`, the builtin that talks to
  the network, has its own time limit.  Clients owe nothing.
- *drain* (`WF`): the thread wakes every 250 ms.
- *shutdown* (`WF` on the drain thread, the forwarder, the main thread, the exit of
  the signal thread): the polls and waits have limits (50 ms, 2 s).  The child, the
  clients, the listener and the sender of a signal owe nothing.
- *forwarder* (`WF` on all its steps together): a request times out after 10 s, a
  backoff ends.  No fairness is assumed of the cloud: it may fail for ever.
- *SDKs* (`WF` on each thread's steps inside a wrapper, and on the governor's work on
  each request): every request has a time limit (2, 5 or 10 s; reqwest's own in
  Rust) and the retry a deadline.  The one request without a limit is Rust's on
  plain TCP to loopback, which ends when the governor's process does.  The
  application owes nothing, not even that a tool's body returns, and nobody promises
  that a governor comes or stays.
- *discovery* (`WF` on the steps of the governor thread and of the main thread):
  both poll or do file work; a signal, a joiner and the app owe nothing.
- *certificates* (`WF` on the reload thread and on the running command): both only
  read and write files.  The operator gives commands when he likes.
- *admission* (`WF` on `Start`, `Restart`, `Move`, `Retract`, `Narrow`, `Leave`): the
  code has no say here.  The guide tells the operator to carry a rotation through,
  a platform restarts what is down, and a local joiner is a process that ends;
  without these a rotation rests where it is, which is no fault of the program.

## 5. Proofs

TLAPS proves 33 of the 40 properties that hold in the runs, for every value of the
constants: every invariant, every action property and the refinement; the seven others
are liveness.  A theorem rests on the assumptions of the modules it extends and on no
others, except where its statement says so.  Those assumptions say what kind of thing
each constant is (caps are natural numbers; the clients, threads, runs and tools finite
sets; some batch has a size, and none one above the cap; requests well formed; the names
of files and packs distinct from the markers for their absence, as the slots from the
marker of none) and, for `RulePacks`, what a checkout may hold (`CheckoutAssumption`: a
signed pack is what its source promises, and no two vendored packs share a directory).
TLC evaluates them on every run.

Each proof has the same shape: an inductive invariant, one lemma for each action or
group of actions, and a temporal step at the end.  Most properties are not inductive;
what the invariant adds is the argument.

- **`GovernorProofs`** (`TypeInvariant`, `CapOvershoot`, `Stragglers`, `StreamHasNoGap`,
  `DenialStops`, `LogIsAppendOnly`, `ContractKept`, `LogIsTheAccount`).
  `Typed` adds to `TypeOK` that the steps of a tool call belong to a tool request.  The
  two bounds count the recorded calls and the calls in the gap between evaluation and
  record together (`CapInv`, `LateInv`): a call is let through only while the count is
  below the cap, only as many are in the gap as there are clients, and after a stop
  nothing enters it.  `NumberedInv` carries the numbering through each critical section
  and through the drain, which moves events and renumbers none.  `ContractKept` is the refinement: `Governor` implements
  `RunContract` with `Slack` set to the number of the other clients.  `ContractInv`
  says that a count is that tool's share of the history, so that `CapInv` and `LateInv`
  give the abstract guard at every step that records a call; every other step stutters.
  `DenialInv` ties each denial in the log to the stop it caused, `BookedInv` the sums
  over the stream to the state of the run.
- **`ShutdownProofs`** (`DoneIsWritten`, `ExitLeavesNothing`, `ClosingIsTrue`).  Every
  action but the closing pass is a step of the request path, so the invariants above are
  reused.  `Threads` says where the main, drain, signal and forwarder threads can stand
  together; `Buffers` where an event can still be; `ToldInv` that a closing event is the
  only one of its run, and that it tells the verdict, or the child's end where there was
  no verdict.
- **`SdkProofs`** (`BodiesAreCounted`, `NothingIsCountedTwice`, `RulesAreBounded`,
  `ScopesAreBalanced`, `QuitsAreReported`).  `Base` ties the threads to the requests in
  flight: whoever waits on a slot is the only one to, what is in it is that thread's
  request until the governor goes (`InSlots`), only a governor that is up has any, and a
  run nobody named is the template (`InRuns`).  Each property is then an account in
  which a thread or a slot on its way to a change is counted beside the change.
  `OnceInv` adds to the calls counted those a thread has still to post and those in a
  slot; it holds because a thread that posts `/tool/call` is no longer armed to retry.
  `UsageInv` does the same with the reports of tokens, which Rust may repeat, once for
  each fault.  `StaleInv` counts with the calls that passed a rule the threads that have
  read a history without the first label and may still pass it.  `ScopeInv` counts with
  the stack the entries and exits in flight that nobody waits for, and bounds those by
  the faults; it says nothing more once a Rust thread has ended its process, as the
  property does.  `GovernorProofs` gives what one critical section does to a run;
  its invariants are not carried over, since a restart forgets a run.
- **`SpoolProofs`** (`SpoolKeepsForm`, `DrainKeepsOrder`, `NoBatchLost`,
  `StoredIsDurable`, `OutboxIsBounded`).  The invariant says whose a batch in memory is (`Owned`), that it
  has no file but its own draft (`Unfiled`, `Drafted`), which bounds the names the clock
  can give out (`ClockBound`), and how the listing of a drain stands to an outbox that
  other governors write to (`Listing`, `DraftsLast`).  `StoredIsDurable` is an action
  property and follows from where each removal stands in the code (`Answered`).
  `OutboxIsBounded` needs the drafts on the scales (`Fits`): the cap is looked at as a
  draft is begun, which the rename makes a file; a governor has one draft at most, so
  those of the others weigh at most one largest batch each.
- **`AdmissionProofs`** (`FleetAdmitted`, `RateIsKept`).  The first rests on one token,
  the settled one, that every running governor accepts through all steps of a rotation,
  crashes and restarts included, and on what each joiner was given, and when.  The
  second follows where the current window of an address and the one before it began.
- **`PacksProofs`** (`IdentityStays`, `PacksStayIntact`, `DeclarationsKept`,
  `DeclaredPacksGovern`, `LastPackWins`).  Whoever works in a directory works there
  alone and has it listed as half done (`Works`); a lone command writes what it has read
  (`Drafts`); at most one command creates the identity (`Claims`); the agent has loaded
  what is there of every directory nobody has touched since (`Progress`).
- **`DiscoveryProofs`** (`RunIsForgotten`, `ServingIsFound`, `FreshStartFindsItself`).
  `Published` ties the content of each file to how far the governor that nobody has
  crossed has got with writing it, `Fresh` what its own main thread may have read.
- **`CertsProofs`** (`AgentsKeepTheirTrust`, `SettledBundlesLoad`).  The first carries
  three things the agents depend on together: the bundle on disk, what the command that
  is running has still to write, and what the reload thread has read so far.  The second
  says that a running command always leads to some bundle that is coherent, which
  becomes the disk when the command ends; a check that fails leaves only `meta.json`
  unwritten.  It has a hypothesis, `KeysComeWithCertificates`: an import of a key brings
  its certificate.  The code does not ask for it (section 6), and the run's imports
  satisfy it.

Two of the properties sum over a set with a fold of the community modules.  The fold is
a recursive function over the parts of the set, and induction over data is not to be had
from the prover; what such a function computes is shown by its uniqueness instead.  Any
two functions that satisfy the recursion differ, if they do, on a least part of the set
(`LeastPart`, from the well-foundedness of strict inclusion), and cannot differ there;
`TotalIsSum` and `WeightIsSum` follow, and with them that elements may be taken out in
any order.

Two actions were written with a `CASE` of overlapping arms (`Rotate`, `ReadKey`), of
which TLC takes the first and the logic does not say which; the proofs showed it.  They,
and the `CASE` of `RustLeads`, have disjoint arms now.

Model-checked only:

- the liveness properties (`EveryEventWritten`, `AppExitEndsProcess`, `FlushEnds`,
  `EveryCallDecided`, `RotationCompletes`, `HalfGovernedEnds`, `ReloadCatchesUp`), under
  the fairness of section 4: they rest on `ENABLED`, which is out of the prover's reach.

## 6. What the code does otherwise than the documents say

One run states a sentence of the documents and finds it violated (see `findings` in
`PROJECT.json`): a call that begins while another thread loads the packs is not
checked against their rules, and no later call is if the load fails.

Others were found by such runs and are kept as text; where there is a weaker form
that holds, it is checked.

- `docs/v0.7/reference/nanny-toml.mdx:67`, `max_calls` is the "most calls to this
  tool in one run": calls in flight pass it (`lib.rs:482`).  Checked:
  `CapOvershootBounded`.
- `docs/v0.7/concepts/event-log.mdx:72`, `ExecutionStopped` is "always the last event
  of a complete run", "emitted on every exit path": requests land after it
  (`network.rs:890`), and a signal exits without it (`server.rs:550`).  Checked:
  `ClosingEventIsAccurate`, `SyncedExitIsComplete`.
- `docs/v0.7/guides/managed-mode.mdx:63`, "if a key is rejected, that is printed too":
  one flag serves the notice of an unreachable cloud and that of a refusal
  (`sync.rs:591`).  Checked: `EveryBatchAccounted`.
- `commands/certs.rs:131`, without `--san` "the names from the previous certificate
  are kept": they are read from `meta.json`, which an import overwrites
  (`certs.rs:513`).  Checked: `FleetStaysConnected`, up to an import.
- `docs/v0.7/guides/rule-packs.mdx:57`, a declared pack that is not installed "stops the
  run before it starts": `nanny run --join` does not look (`main.rs:455`).  Checked:
  `DeclaredIsEnforced`, for a governor of one's own.
- `server.rs:493`, "the app is only spawned once the governor's listener is bound":
  the wait is for `server.addr` to exist (`server.rs:766`), which another governor's
  does.  Checked: `FreshStartReachesItself`.

Met while reading.  In the governor:

- a denial does not kill the app (`server.rs:642`), as
  `docs/v0.7/concepts/how-it-works.mdx:42` says it does;
- `/agent/exit` is served on a stopped run (`network.rs:462`) although a handler
  test lists it among the gated endpoints;
- a child killed because the governor ended is reported `AgentCompleted`
  (`server.rs:646-651`);
- a dead forwarder ends the stdout log too (`network.rs:934`);
- `flush_and_join` is said to be bounded by one 10 s request and may make four per
  batch.

In the Python SDK (`sdks/python/nanny_sdk`):

- the retry is said to disarm "permanently on the first success"; a thread already
  in its loop goes on retrying after another has reached the governor
  (`_client.py:350-368`);
- `/agent/exit` pops whatever is on top, so with two threads in one run an
  `AgentScopeExited` can carry the other thread's scope;
- `/rules` is sent once for a process, in the run of its first call and without the
  retry: a joiner that starts before its governor, and every later `run_scope`, has
  no `RulesDeclared`;
- `/tool/call` answered with 429 or 500 raises `httpx.HTTPStatusError`, no
  `NannyStop`; a refused `/status` stops the shared run with `BridgeUnavailable`,
  which the governor records as `ProcessCrashed`.

In the Rust client:

- a plain-TCP request has no time limit, a failed `agent_enter` leaves a guard that
  pops another's scope, and a usage report or an entry may be counted twice on first
  contact;
- `process::exit` runs no guard, so the scopes of a process that ends itself stay on
  the stack; the exits of `call_tool` for a tool that failed or a bridge that is gone
  post no report.

Over a restart of the governor, which the guide asks for in a rotation: counts,
history, scopes and a stop are gone while `NANNY_RUN_ID` lives on in the agents
(`docs/v0.7/guides/python-sdk.mdx:200`: "one stop state, final"), and `seq` begins at 0
again under the same run id.  `/health`, `/status` and `/events` with a new run id
open a run, and with it an `ExecutionStarted`.

In front of the router: the comment calls the window sliding (`network.rs:190`), it is
fixed and begins with a request; the option it names does not exist; health probes and
refused tokens count; the limiter's map never shrinks.  `server.rs:191` says that in a
rotation "nothing restarts", and the variable is read once, at the start.  The order
the guide gives, old token first, hands a local joiner the old token during the
rotation, and it is refused after the last step.  A joiner that is itself given the
variable with two lines sends a header that is not one.

In the discovery files: a main thread may see the address before the token and give
up a launch that was fine; a governor killed, or a headless one interrupted or
terminated, leaves files that send joiners to nobody; an ending governor deletes the
files of a newer one; a signal between the spawn of the app and the note of its process
id (`server.rs:632-638`) leaves the app running.

In the certificates: `certs.rs:356` says the directory is left in a consistent state
by an interruption, and between two renames it is not; a rotation after an import of a
CA signs with the old key; an import writes before it validates, and an imported key
is compared with no certificate (`certs.rs:496-507`), so that a key imported alone can
leave a bundle that does not load; a change between the
first read and the installation of the watch is not reported, nor is any after the
directory was removed; `nanny run --join` injects `~/.nanny/certs`, where `nanny certs`
writes no bundle.

In the project files: an interrupted add or remove leaves a manifest without rules that
`nanny run` accepts (`pack.rs:90` looks at the manifest only), and an interrupted write
of `nanny.toml` an empty file, which allows nothing; two adds at once lose a
declaration; the rules a manifest lists are compared with nothing; both versions of a
pack are loaded, whichever is declared.  An interrupted `nanny init` leaves an
`app.json` that no command repairs, and two at once may write two identities one after
the other, although "an app's identity is set once and never regenerated"
(`identity.rs:69`).

## 7. Not modelled, and the plan

Not modelled by choice: parsing, messages and exit codes, code generation, library
instrumentation (what it sends is the usage request), `http_get`'s network code, the
tunnels of CONNECT, `nanny status`, `nanny health`, `nanny uninstall` and the listings,
which only read or print.  Expiry of certificates is not acted on by the code.

Joined so far by constants and not by composition: a joiner that `Admission` turns away
is a refused answer in `SdkClient`; the rules that `RulePacks` loads are its `PackRules`;
the token `Discovery` finds is the one `Admission` compares.

Next, should the model grow:

1. composing `Admission` with `SdkClient`, and `RulePacks` with the loading of its rules;
2. the safety half of the liveness arguments: for each of the seven, a measure that every
   fair step lowers.
