-------------------------------- MODULE Spool --------------------------------
(***************************************************************************)
(* The cloud forwarder and its durable outbox (crates/cli/src/sync.rs).    *)
(* A governor that syncs has a forwarder thread: it first delivers what    *)
(* earlier governors left in the outbox of its environment, oldest first,  *)
(* then posts the batches the drain thread sends it, and stores in the     *)
(* outbox the ones the cloud could not take.  The outbox is a directory    *)
(* under the app's .nanny/spool: governors started one after another, or   *)
(* two at once, share it, and any of them may die between two steps.       *)
(*                                                                         *)
(* The cloud is external: it takes a batch or not, and its answer may be   *)
(* lost.  It deduplicates, so what it holds is a set.                      *)
(***************************************************************************)
EXTENDS Naturals, Sequences, FiniteSets, FiniteSetsExt

CONSTANTS
  Procs,          \* the governors that may run in one app directory
  Key,            \* Key[p]: the environment of the API key of p
  Sizes,          \* the sizes of a batch's body
  Header,         \* what the session line of a stored batch adds to its size
  MaxSpool,       \* MAX_SPOOL_BYTES, in the same unit
  SendAttempts,   \* SEND_ATTEMPTS, 4 in the code
  MaxBatches,     \* bound: batches produced in one behaviour
  MaxStarts       \* bound: governors started in one behaviour

\* The side of the cloud a key belongs to, by its prefix.
Environments == {"live", "sandbox"}

ASSUME SpoolAssumption ==
  /\ IsFiniteSet(Procs) /\ Procs # {}
  /\ Key \in [Procs -> Environments]
  /\ Sizes \subseteq Nat /\ Sizes # {} /\ \A s \in Sizes : s <= MaxSpool
  /\ Header \in Nat /\ MaxSpool \in Nat
  /\ SendAttempts \in Nat \ {0}
  /\ MaxBatches \in Nat /\ MaxStarts \in Nat

\* A batch is known by its number; its session is the governor that made it.
Batches ==
  [id : 1 .. MaxBatches, session : 1 .. MaxStarts, env : Environments, size : Sizes]

\* A file of the outbox: a temporary one, written in part or in whole, or a
\* published one.  Names start with the time, kept here as a rank.
Files ==
  [at : 1 .. MaxBatches, batch : Batches, ext : {"tmp", "ndjson"}, whole : BOOLEAN]

VARIABLES
  dir,       \* dir[e]: the files of the outbox of environment e
  cloud,     \* cloud[e]: what side e of the cloud has ingested
  pc,        \* pc[p]: where the forwarder of governor p is
  session,   \* session[p]: the number of this start of it
  plan,      \* plan[p]: the stored batches its first drain has still to take
  hand,      \* hand[p]: the batch of its own it is sending or storing
  tries,     \* tries[p]: the attempts made at the batch it is sending
  channel,   \* channel[p]: the batches the drain thread has handed over
  closed,    \* closed[p]: the drain thread has dropped its end
  warned,    \* warned[p]: the one notice it has given of its own traffic
  starts,    \* how many governors have been started
  made,      \* the batches produced so far
  dropped,   \* history variable: the batches given up, and why
  clock      \* the last rank given to a file name

procVars == <<session, plan, hand, tries, channel, closed, warned>>
spoolVars == <<dir, cloud, pc, procVars, starts, made, dropped, clock>>

NoBatch == [id |-> 0]

Causes == {"refusedLive", "refusedStored", "outboxFull", "unwritable", "killed"}

Phases == {"down", "drain", "sendStored", "remove", "recv", "sendLive",
           "store", "publish"}

SpoolTypeOK ==
  /\ dir \in [Environments -> SUBSET Files]
  /\ cloud \in [Environments -> SUBSET [batch : Batches, whole : BOOLEAN]]
  /\ pc \in [Procs -> Phases]
  /\ session \in [Procs -> 0 .. MaxStarts]
  /\ plan \in [Procs -> SUBSET Files]
  /\ \A p \in Procs : pc[p] \in {"sendStored", "remove"} => plan[p] # {}
  /\ hand \in [Procs -> Batches \cup {NoBatch}]
  /\ \A p \in Procs :
       pc[p] \in {"sendLive", "store", "publish"} => hand[p] # NoBatch
  /\ tries \in [Procs -> 0 .. (SendAttempts - 1)]
  /\ channel \in [Procs -> Seq(Batches)]
  /\ closed \in [Procs -> BOOLEAN]
  /\ warned \in [Procs -> {"no", "holding", "refused"}]
  /\ starts \in 0 .. MaxStarts
  /\ made \subseteq Batches
  /\ dropped \subseteq [batch : Batches, cause : Causes]
  /\ clock \in 0 .. MaxBatches

SpoolInit ==
  /\ dir = [e \in Environments |-> {}]
  /\ cloud = [e \in Environments |-> {}]
  /\ pc = [p \in Procs |-> "down"]
  /\ session = [p \in Procs |-> 0]
  /\ plan = [p \in Procs |-> {}]
  /\ hand = [p \in Procs |-> NoBatch]
  /\ tries = [p \in Procs |-> 0]
  /\ channel = [p \in Procs |-> <<>>]
  /\ closed = [p \in Procs |-> FALSE]
  /\ warned = [p \in Procs |-> "no"]
  /\ starts = 0 /\ made = {} /\ dropped = {} /\ clock = 0

-----------------------------------------------------------------------------
(* The outbox directory *)

\* entries: the published files.
Entries(files) == {f \in files : f.ext = "ndjson"}

\* Names sort by time.
Oldest(files) == CHOOSE f \in files : \A g \in files : f.at <= g.at

Weight(files) == MapThenSumSet(LAMBDA f : f.batch.size + Header, files)

\* The fault of making room before looking at what comes in.
Kept_Late(files, incoming) ==
  LET newest == {{f \in files : f.at >= n} : n \in 1 .. clock + 1}
      fitting == {k \in newest : Weight(k) <= MaxSpool} \cup {{}}
  IN  CHOOSE k \in fitting : \A other \in fitting : Cardinality(other) <= Cardinality(k)

\* enforce_cap: the oldest go until what comes in fits, or nothing is left.
\* What comes in is measured without its session line.
Kept(files, incoming) ==
  LET newest == {{f \in files : f.at >= n} : n \in 1 .. clock + 1}
      fitting == {k \in newest : Weight(k) + incoming <= MaxSpool} \cup {{}}
  IN  CHOOSE k \in fitting : \A other \in fitting : Cardinality(other) <= Cardinality(k)

\* The fault of one outbox for both environments, as it was before the split.
Partition_Shared(e) == "live"

\* Spool::new: the subdirectory a key's outbox is in.
Partition(e) == e

Listed(e) == Entries(dir[Partition(e)])

Remove(e, files) == [dir EXCEPT ![Partition(e)] = @ \ files]

-----------------------------------------------------------------------------
(* A governor starts, feeds its forwarder, and ends *)

\* The listing is taken once, as the forwarder thread starts.
Start(p) ==
  /\ pc[p] = "down"
  /\ starts < MaxStarts
  /\ starts' = starts + 1
  /\ session' = [session EXCEPT ![p] = starts + 1]
  /\ plan' = [plan EXCEPT ![p] = Listed(Key[p])]
  /\ pc' = [pc EXCEPT ![p] = "drain"]
  /\ UNCHANGED <<dir, cloud, hand, tries, channel, closed, warned, made, dropped, clock>>

\* The drain thread hands over what one run has logged.
Produce(p) ==
  /\ pc[p] # "down"
  /\ ~closed[p]
  /\ Cardinality(made) < MaxBatches
  /\ \E size \in Sizes :
       LET b == [id |-> Cardinality(made) + 1, session |-> session[p],
                 env |-> Key[p], size |-> size]
       IN  /\ made' = made \cup {b}
           /\ channel' = [channel EXCEPT ![p] = Append(@, b)]
  /\ UNCHANGED <<dir, cloud, pc, session, plan, hand, tries, closed, warned,
                 dropped, clock, starts>>

\* The drain thread returns and drops its end of the channel.
Close(p) ==
  /\ pc[p] # "down"
  /\ ~closed[p]
  /\ closed' = [closed EXCEPT ![p] = TRUE]
  /\ UNCHANGED <<dir, cloud, pc, session, plan, hand, tries, channel, warned,
                 made, dropped, clock, starts>>

InMemory(p) ==
  {channel[p][i] : i \in DOMAIN channel[p]} \cup
  (IF hand[p] = NoBatch THEN {} ELSE {hand[p]})

\* The process is gone, and its memory with it.
Gone(p) ==
  /\ pc' = [pc EXCEPT ![p] = "down"]
  /\ session' = [session EXCEPT ![p] = 0]
  /\ plan' = [plan EXCEPT ![p] = {}]
  /\ hand' = [hand EXCEPT ![p] = NoBatch]
  /\ tries' = [tries EXCEPT ![p] = 0]
  /\ channel' = [channel EXCEPT ![p] = <<>>]
  /\ closed' = [closed EXCEPT ![p] = FALSE]
  /\ warned' = [warned EXCEPT ![p] = "no"]

\* The process is killed, or exits on a signal, wherever its forwarder is.  What
\* it wrote stays, a temporary file included.
Crash(p) ==
  /\ pc[p] # "down"
  /\ dropped' = dropped \cup {[batch |-> b, cause |-> "killed"] : b \in InMemory(p)}
  /\ Gone(p)
  /\ UNCHANGED <<dir, cloud, starts, made, clock>>

-----------------------------------------------------------------------------
(* send_batch *)

Outcomes == {"Sent", "Retryable", "Permanent"}

\* What a failed attempt leaves in the cloud: nothing, or the batch.
Unanswered(p) ==
  LET sent == IF pc[p] = "sendLive"
              THEN [batch |-> hand[p], whole |-> TRUE]
              ELSE [batch |-> Oldest(plan[p]).batch, whole |-> Oldest(plan[p]).whole]
  IN  cloud' \in {cloud, [cloud EXCEPT ![Key[p]] = @ \cup {sent}]}

\* The last attempt at a batch, and how it ends: taken; refused for good; or,
\* being the last of the attempts, left.
Attempt(p, batch, whole, outcome) ==
  /\ \/ /\ outcome = "Sent"
        /\ cloud' = [cloud EXCEPT ![Key[p]] = @ \cup {[batch |-> batch, whole |-> whole]}]
     \/ outcome = "Permanent" /\ UNCHANGED cloud
     \/ outcome = "Retryable" /\ tries[p] = SendAttempts - 1 /\ Unanswered(p)
  /\ tries' = [tries EXCEPT ![p] = 0]

\* The fault of a retry that starts its count again.
Retry_Renewed(p) ==
  /\ pc[p] \in {"sendStored", "sendLive"}
  /\ tries' = [tries EXCEPT ![p] = (@ + 1) % SendAttempts]
  /\ Unanswered(p)
  /\ UNCHANGED <<dir, pc, session, plan, hand, channel, closed, warned,
                 made, dropped, clock, starts>>

\* A transport error, a 5xx or a 429 with attempts left: back off and go again.
Retry(p) ==
  /\ pc[p] \in {"sendStored", "sendLive"}
  /\ tries[p] < SendAttempts - 1
  /\ tries' = [tries EXCEPT ![p] = @ + 1]
  /\ Unanswered(p)
  /\ UNCHANGED <<dir, pc, session, plan, hand, channel, closed, warned,
                 made, dropped, clock, starts>>

-----------------------------------------------------------------------------
(* drain: what earlier governors left *)

\* Reads the next file of the listing; one that is gone by now is passed over.
ReadNext(p) ==
  /\ pc[p] = "drain"
  /\ plan[p] # {}
  /\ IF Oldest(plan[p]) \in dir[Partition(Key[p])]
     THEN pc' = [pc EXCEPT ![p] = "sendStored"] /\ UNCHANGED plan
     ELSE plan' = [plan EXCEPT ![p] = @ \ {Oldest(@)}] /\ UNCHANGED pc
  /\ UNCHANGED <<dir, cloud, session, hand, tries, channel, closed, warned,
                 made, dropped, clock, starts>>

\* The fault of going on to the next file when one cannot be sent.
SendStored_Skipping(p) ==
  /\ pc[p] = "sendStored"
  /\ LET f == Oldest(plan[p])
     IN  \E outcome \in Outcomes :
           /\ Attempt(p, f.batch, f.whole, outcome)
           /\ pc' = [pc EXCEPT ![p] = IF outcome = "Retryable" THEN "drain" ELSE "remove"]
           /\ plan' = [plan EXCEPT ![p] = IF outcome = "Retryable" THEN @ \ {f} ELSE @]
           /\ dropped' = IF outcome = "Permanent"
                         THEN dropped \cup {[batch |-> f.batch, cause |-> "refusedStored"]}
                         ELSE dropped
  /\ UNCHANGED <<dir, session, hand, channel, closed, warned, made, clock, starts>>

\* The fault of removing what could not be sent.
SendStored_Removing(p) ==
  /\ pc[p] = "sendStored"
  /\ LET f == Oldest(plan[p])
     IN  \E outcome \in Outcomes :
           /\ Attempt(p, f.batch, f.whole, outcome)
           /\ dropped' = IF outcome = "Permanent"
                         THEN dropped \cup {[batch |-> f.batch, cause |-> "refusedStored"]}
                         ELSE dropped
  /\ pc' = [pc EXCEPT ![p] = "remove"]
  /\ UNCHANGED <<dir, session, plan, hand, channel, closed, warned, made, clock, starts>>

\* Taken or refused for good, the file goes next.  Neither: the whole drain
\* stops, and is not taken up again by this governor.
SendStored(p) ==
  /\ pc[p] = "sendStored"
  /\ LET f == Oldest(plan[p])
     IN  \E outcome \in Outcomes :
           /\ Attempt(p, f.batch, f.whole, outcome)
           /\ pc' = [pc EXCEPT ![p] = IF outcome = "Retryable" THEN "recv" ELSE "remove"]
           /\ plan' = [plan EXCEPT ![p] = IF outcome = "Retryable" THEN {} ELSE @]
           /\ dropped' = IF outcome = "Permanent"
                         THEN dropped \cup {[batch |-> f.batch, cause |-> "refusedStored"]}
                         ELSE dropped
  /\ UNCHANGED <<dir, session, hand, channel, closed, warned, made, clock, starts>>

RemoveSent(p) ==
  /\ pc[p] = "remove"
  /\ dir' = Remove(Key[p], {Oldest(plan[p])})
  /\ plan' = [plan EXCEPT ![p] = @ \ {Oldest(@)}]
  /\ pc' = [pc EXCEPT ![p] = "drain"]
  /\ UNCHANGED <<cloud, session, hand, tries, channel, closed, warned,
                 made, dropped, clock, starts>>

DrainEnds(p) ==
  /\ pc[p] = "drain"
  /\ plan[p] = {}
  /\ pc' = [pc EXCEPT ![p] = "recv"]
  /\ UNCHANGED <<dir, cloud, procVars, made, dropped, clock, starts>>

-----------------------------------------------------------------------------
(* The governor's own batches *)

Receive(p) ==
  /\ pc[p] = "recv"
  /\ channel[p] # <<>>
  /\ hand' = [hand EXCEPT ![p] = Head(channel[p])]
  /\ channel' = [channel EXCEPT ![p] = Tail(@)]
  /\ pc' = [pc EXCEPT ![p] = "sendLive"]
  /\ UNCHANGED <<dir, cloud, session, plan, tries, closed, warned,
                 made, dropped, clock, starts>>

\* The channel is closed and empty: the thread ends, flush_and_join returns and
\* the process exits.
Join(p) ==
  /\ pc[p] = "recv"
  /\ channel[p] = <<>> /\ closed[p]
  /\ Gone(p)
  /\ UNCHANGED <<dir, cloud, starts, made, dropped, clock>>

\* The fault of forgetting a batch the cloud could not take.
SendLive_Unstored(p) ==
  /\ pc[p] = "sendLive"
  /\ \E outcome \in Outcomes :
       /\ Attempt(p, hand[p], TRUE, outcome)
       /\ dropped' = IF outcome = "Permanent"
                     THEN dropped \cup {[batch |-> hand[p], cause |-> "refusedLive"]}
                     ELSE dropped
  /\ pc' = [pc EXCEPT ![p] = "recv"]
  /\ hand' = [hand EXCEPT ![p] = NoBatch]
  /\ UNCHANGED <<dir, session, plan, channel, closed, warned, made, clock, starts>>

\* One notice per governor: the first trouble with its own batches is printed,
\* and none after it.
Notice(p, what) ==
  warned' = [warned EXCEPT ![p] = IF @ = "no" THEN what ELSE @]

SendLive(p) ==
  /\ pc[p] = "sendLive"
  /\ \/ /\ Attempt(p, hand[p], TRUE, "Sent")
        /\ pc' = [pc EXCEPT ![p] = "recv"]
        /\ hand' = [hand EXCEPT ![p] = NoBatch]
        /\ UNCHANGED <<warned, dropped, starts>>
     \/ /\ Attempt(p, hand[p], TRUE, "Retryable")
        /\ pc' = [pc EXCEPT ![p] = "store"]
        /\ Notice(p, "holding")
        /\ UNCHANGED <<hand, dropped, starts>>
     \/ /\ Attempt(p, hand[p], TRUE, "Permanent")
        /\ pc' = [pc EXCEPT ![p] = "recv"]
        /\ hand' = [hand EXCEPT ![p] = NoBatch]
        /\ Notice(p, "refused")
        /\ dropped' = dropped \cup {[batch |-> hand[p], cause |-> "refusedLive"]}
  /\ UNCHANGED <<dir, session, plan, channel, closed, made, clock, starts>>

-----------------------------------------------------------------------------
(* store: a batch the cloud could not take *)

\* Makes room, names the file and begins its temporary form.  One step: nothing
\* another governor does in between is seen by it, and what both remove is
\* removed once.
Stage(p) ==
  /\ pc[p] = "store"
  /\ clock' = clock + 1
  /\ LET gone  == Listed(Key[p]) \ Kept(Listed(Key[p]), hand[p].size)
         draft == [at |-> clock + 1, batch |-> hand[p], ext |-> "tmp", whole |-> FALSE]
     IN  /\ dir' = [dir EXCEPT ![Partition(Key[p])] = (@ \ gone) \cup {draft}]
         /\ dropped' = dropped \cup {[batch |-> f.batch, cause |-> "outboxFull"] : f \in gone}
  /\ pc' = [pc EXCEPT ![p] = "publish"]
  /\ UNCHANGED <<cloud, procVars, made, starts>>

\* The temporary file this governor is writing.
Draft(p) ==
  CHOOSE f \in dir[Partition(Key[p])] : f.ext = "tmp" /\ f.batch = hand[p]

\* Written to the end and renamed into place.
Publish(p) ==
  /\ pc[p] = "publish"
  /\ dir' = [dir EXCEPT ![Partition(Key[p])] =
               (@ \ {Draft(p)}) \cup {[Draft(p) EXCEPT !.ext = "ndjson", !.whole = TRUE]}]
  /\ hand' = [hand EXCEPT ![p] = NoBatch]
  /\ pc' = [pc EXCEPT ![p] = "recv"]
  /\ UNCHANGED <<cloud, session, plan, tries, channel, closed, warned,
                 made, dropped, clock, starts>>

\* The directory cannot be created, the file not written, or not renamed: the
\* batch is lost.  What a failed write leaves is removed.
StoreFails(p) ==
  /\ \/ pc[p] = "store" /\ UNCHANGED dir
     \/ pc[p] = "publish" /\ dir' \in {dir, Remove(Key[p], {Draft(p)})}
  /\ dropped' = dropped \cup {[batch |-> hand[p], cause |-> "unwritable"]}
  /\ hand' = [hand EXCEPT ![p] = NoBatch]
  /\ pc' = [pc EXCEPT ![p] = "recv"]
  /\ UNCHANGED <<cloud, session, plan, tries, channel, closed, warned, made, clock, starts>>

-----------------------------------------------------------------------------
Forwarder(p) ==
  \/ ReadNext(p) \/ SendStored(p) \/ RemoveSent(p) \/ DrainEnds(p)
  \/ Receive(p) \/ SendLive(p) \/ Retry(p) \/ Join(p)
  \/ Stage(p) \/ Publish(p) \/ StoreFails(p)

SpoolNext ==
  \E p \in Procs : Start(p) \/ Produce(p) \/ Close(p) \/ Crash(p) \/ Forwarder(p)

SpoolSpec == SpoolInit /\ [][SpoolNext]_spoolVars

\* A running forwarder runs: a request times out after 10 s, and a backoff ends.
FairSpoolSpec == SpoolSpec /\ \A p \in Procs : WF_spoolVars(Forwarder(p))
=============================================================================
