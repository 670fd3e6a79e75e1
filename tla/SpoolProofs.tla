----------------------------- MODULE SpoolProofs -----------------------------
(***************************************************************************)
(* What the forwarder and its outbox keep, for any number of governors,    *)
(* starts and batches: the types, that no batch is lost silently, that a   *)
(* stored batch is durable, that the drain keeps the order, and that the   *)
(* outbox stays within its cap but for what is being written to it.        *)
(*                                                                         *)
(* The invariant says whose a batch in memory is (Owned), that it is new   *)
(* to the outbox until its governor stages it (Unfiled, Drafted), which    *)
(* bounds the names the clock gives out (ClockBound), and where the        *)
(* listing of a drain stands against a directory others write (Listing,    *)
(* DraftsLast).  For the cap, the drafts count with the files (Fits).      *)
(***************************************************************************)
EXTENDS SpoolProperties, SequenceTheorems, FiniteSetTheorems, WellFoundedInduction, TLAPS

Running(p) == pc[p] # "down"

\* A governor that is down has no memory, and no two that run share a session.
Sessions ==
  /\ \A p \in Procs :
       IF Running(p)
       THEN session[p] \in 1 .. starts
       ELSE /\ session[p] = 0 /\ plan[p] = {} /\ hand[p] = NoBatch /\ channel[p] = <<>>
  /\ \A p, q \in Procs :
       Running(p) /\ Running(q) /\ p # q => session[p] # session[q]

Hands ==
  \A p \in Procs : hand[p] # NoBatch <=> pc[p] \in {"sendLive", "store", "publish"}

\* The batches are numbered in the order they were made.
Numbered ==
  /\ IsFiniteSet(made) /\ Cardinality(made) <= MaxBatches
  /\ \A b \in made : b.id <= Cardinality(made)

\* A batch in memory was made by the governor that has it.
Owned ==
  \A p \in Procs : \A b \in InMemory(p) :
    b \in made /\ b.session = session[p] /\ b.env = Key[p]

\* A channel keeps the order of its batches, the one in hand being the oldest.
Ordered ==
  \A p \in Procs : \A i \in 1 .. Len(channel[p]) :
    /\ hand[p].id < channel[p][i].id
    /\ \A j \in 1 .. Len(channel[p]) : i < j => channel[p][i].id < channel[p][j].id

Queued(p) == {b \in made : \E i \in 1 .. Len(channel[p]) : b = channel[p][i]}

\* The batches that may still be given a file.
Unstaged(p) ==
  Queued(p) \cup {b \in made : b = hand[p] /\ pc[p] \in {"sendLive", "store"}}

Waiting == {b \in made : \E p \in Procs : b \in Unstaged(p)}

ClockBound == clock + Cardinality(Waiting) <= Cardinality(made)

\* The files of the outbox, and of the listings taken of it.
Filed ==
  /\ \A e \in Environments : \A f \in dir[e] :
       /\ f.batch \in made /\ f.batch.env = e /\ f.at <= clock
       /\ f.ext = "ndjson" => f.whole
  /\ \A p \in Procs : \A f \in plan[p] :
       f.ext = "ndjson" /\ f.whole /\ f.batch.env = Key[p] /\ f.at <= clock

\* A batch in memory has no file, but the draft of it being written.
Unfiled ==
  \A p \in Procs : \A b \in InMemory(p) : \A e \in Environments : \A f \in dir[e] :
    f.batch = b => pc[p] = "publish" /\ b = hand[p] /\ f.ext = "tmp"

\* A governor at its rename has exactly one draft.
Drafted ==
  \A p \in Procs : pc[p] = "publish" =>
    /\ \E f \in dir[Key[p]] : f.ext = "tmp" /\ f.batch = hand[p]
    /\ \A f, g \in dir[Key[p]] : f.batch = hand[p] /\ g.batch = hand[p] => f = g

\* A file is removed only once the cloud has answered for it.
Answered ==
  \A p \in Procs : pc[p] = "remove" =>
    LET b == Oldest(plan[p]).batch
    IN  Delivered(b) \/ DroppedAs(b, {"refusedStored"})

\* The draft being written is newer than every file of its session.
DraftsLast ==
  \A q \in Procs : pc[q] = "publish" =>
    /\ \A e \in Environments : \A f \in Entries(dir[e]) :
         f.batch.session = session[q] => f.at < Draft(q).at
    /\ \A p \in Procs : \A f \in plan[p] :
         f.batch.session = session[q] => f.at < Draft(q).at

\* A stored batch is in the listing of a drain, or newer than what the listing
\* has of its session.
Listing ==
  \A p \in Procs : \A f \in plan[p] : \A g \in Entries(dir[Key[p]]) :
    g.batch.session = f.batch.session => g \in plan[p] \/ f.at < g.at

-----------------------------------------------------------------------------
(* The operators *)

LEMMA NoBatchIsNone == NoBatch \notin Batches /\ NoBatch.id = 0
BY DEF NoBatch, Batches

LEMMA LeastNat ==
  ASSUME NEW T \in SUBSET Nat, T # {}
  PROVE  \E x \in T : \A y \in T : x <= y
<1>1. PICK x \in T : \A y \in T : ~ (<<y, x>> \in OpToRel(<, Nat))
  BY NatLessThanWellFounded, WFMin
<1>2. ASSUME NEW y \in T, y < x
      PROVE  FALSE
  <2>1. x \in Nat /\ y \in Nat
    OBVIOUS
  <2>2. <<y, x>> \in OpToRel(<, Nat)
    BY <1>2, <2>1, Zenon DEF OpToRel
  <2> QED
    BY <1>1, <2>2
<1>3. \A y \in T : x \in Nat /\ y \in Nat /\ ~ (y < x)
  BY <1>2
<1> QED
  BY <1>3

\* The oldest of a listing is in it: file names are numbers.
LEMMA OldestIn ==
  ASSUME NEW S \in SUBSET Files, S # {}
  PROVE  Oldest(S) \in S /\ \A g \in S : Oldest(S).at <= g.at
<1> DEFINE T == {f.at : f \in S}
<1>1. T \subseteq Nat /\ T # {}
  BY SpoolAssumption DEF Files
<1>2. PICK x \in T : \A y \in T : x <= y
  <2> HIDE DEF T
  <2> QED
    BY <1>1, LeastNat
<1>4. PICK f \in S : f.at = x
  OBVIOUS
<1>5. \A g \in S : f.at <= g.at
  BY <1>2, <1>4
<1> QED
  BY <1>5 DEF Oldest

\* What a forwarder has in memory: its channel, and the batch in hand.
LEMMA MemoryOf ==
  ASSUME SpoolTypeOK, NEW p \in Procs, NEW b
  PROVE  b \in InMemory(p) <=>
           \/ \E i \in 1 .. Len(channel[p]) : b = channel[p][i]
           \/ hand[p] # NoBatch /\ b = hand[p]
BY DEF InMemory, SpoolTypeOK

-----------------------------------------------------------------------------
(* The steps of one governor *)

Step(p) == Start(p) \/ Produce(p) \/ Close(p) \/ Crash(p) \/ Forwarder(p)

\* A governor changes no memory but its own.
LEMMA Elsewhere ==
  ASSUME SpoolTypeOK, NEW p \in Procs, Step(p), NEW q \in Procs, q # p
  PROVE  /\ pc'[q] = pc[q] /\ session'[q] = session[q] /\ plan'[q] = plan[q]
         /\ hand'[q] = hand[q] /\ channel'[q] = channel[q]
<1>1. CASE Start(p) \/ Produce(p) \/ Close(p)
  BY <1>1 DEF Start, Produce, Close, SpoolTypeOK
<1>2. CASE Crash(p) \/ Join(p)
  BY <1>2 DEF Crash, Join, Gone, SpoolTypeOK
<1>3. CASE ReadNext(p) \/ SendStored(p) \/ RemoveSent(p) \/ DrainEnds(p) \/ Retry(p)
  BY <1>3 DEF ReadNext, SendStored, RemoveSent, DrainEnds, Retry, procVars, SpoolTypeOK
<1>4. CASE Receive(p) \/ SendLive(p)
  BY <1>4 DEF Receive, SendLive, SpoolTypeOK
<1>5. CASE Stage(p) \/ Publish(p) \/ StoreFails(p)
  BY <1>5 DEF Stage, Publish, StoreFails, procVars, SpoolTypeOK
<1> QED
  BY <1>1, <1>2, <1>3, <1>4, <1>5 DEF Step, Forwarder

-----------------------------------------------------------------------------
(* Type correctness *)

LEMMA SpoolInitType == SpoolInit => SpoolTypeOK
<1>1. NoBatch \in {NoBatch} /\ <<>> \in Seq(Batches) /\ SendAttempts - 1 \in Nat
  BY SpoolAssumption
<1> QED
  BY <1>1, SpoolAssumption DEF SpoolInit, SpoolTypeOK, Phases

\* The outbox of a governor is that of its environment.
LEMMA Places ==
  ASSUME SpoolTypeOK, NEW p \in Procs
  PROVE  /\ Key[p] \in Environments /\ Partition(Key[p]) = Key[p]
         /\ dir[Key[p]] \in SUBSET Files
         /\ Listed(Key[p]) = Entries(dir[Key[p]])
         /\ Listed(Key[p]) \in SUBSET dir[Key[p]]
         /\ \A files : Remove(Key[p], files) = [dir EXCEPT ![Key[p]] = @ \ files]
BY SpoolAssumption DEF SpoolTypeOK, Partition, Listed, Entries, Remove

\* An attempt leaves in the cloud the batch sent, or nothing.
LEMMA AttemptLeaves ==
  ASSUME SpoolTypeOK, NEW p \in Procs, NEW batch \in Batches, NEW whole \in BOOLEAN,
         pc[p] = "sendLive" => batch = hand[p] /\ whole = TRUE,
         pc[p] # "sendLive" => batch = Oldest(plan[p]).batch /\ whole = Oldest(plan[p]).whole,
         Unanswered(p) \/ \E outcome \in Outcomes : Attempt(p, batch, whole, outcome)
  PROVE  /\ cloud' \in [Environments -> SUBSET [batch : Batches, whole : BOOLEAN]]
         /\ \A e \in Environments : cloud[e] \subseteq cloud'[e]
         /\ \A e \in Environments : \A x \in cloud'[e] :
              x \in cloud[e] \/ (e = Key[p] /\ x = [batch |-> batch, whole |-> whole])
<1>1. \/ cloud' = cloud
      \/ cloud' = [cloud EXCEPT ![Key[p]] = @ \cup {[batch |-> batch, whole |-> whole]}]
  BY DEF Attempt, Unanswered
<1>2. Key[p] \in Environments /\ [batch |-> batch, whole |-> whole] \in [batch : Batches, whole : BOOLEAN]
  BY SpoolAssumption
<1>3. cloud \in [Environments -> SUBSET [batch : Batches, whole : BOOLEAN]]
  BY DEF SpoolTypeOK
<1> QED
  BY <1>1, <1>2, <1>3

LEMMA Storing ==
  ASSUME SpoolTypeOK, Hands, NEW p \in Procs, pc[p] \in {"sendLive", "store", "publish"}
  PROVE  hand[p] \in Batches
BY DEF SpoolTypeOK, Hands

LEMMA Sending ==
  ASSUME SpoolTypeOK, NEW p \in Procs, plan[p] # {}
  PROVE  /\ Oldest(plan[p]) \in plan[p] /\ \A g \in plan[p] : Oldest(plan[p]).at <= g.at
         /\ Oldest(plan[p]) \in Files
         /\ Oldest(plan[p]).batch \in Batches /\ Oldest(plan[p]).whole \in BOOLEAN
<1>1. plan[p] \in SUBSET Files
  BY DEF SpoolTypeOK
<1>2. Oldest(plan[p]) \in plan[p] /\ \A g \in plan[p] : Oldest(plan[p]).at <= g.at
  BY <1>1, OldestIn
<1> QED
  BY <1>1, <1>2 DEF Files

\* There is a name left for a batch that has none.
LEMMA ClockLeft ==
  ASSUME SpoolTypeOK, Hands, Numbered, Owned, ClockBound, NEW p \in Procs, pc[p] = "store"
  PROVE  clock + 1 \in 1 .. MaxBatches
<1>1. hand[p] \in InMemory(p)
  BY MemoryOf, Storing DEF Hands
<1>2. hand[p] \in Waiting
  BY <1>1 DEF Waiting, Unstaged, Owned
<1>3. IsFiniteSet(Waiting) /\ Cardinality(Waiting) \in Nat
  BY FS_Subset, FS_CardinalityType DEF Numbered, Waiting
<1>4. Cardinality(Waiting) >= 1
  BY <1>2, <1>3, FS_EmptySet
<1> QED
  BY <1>3, <1>4, FS_CardinalityType, SpoolAssumption DEF ClockBound, Numbered, SpoolTypeOK

\* The batch a governor's drain thread hands over next.
Made(p, size) ==
  [id |-> Cardinality(made) + 1, session |-> session[p], env |-> Key[p], size |-> size]

LEMMA MadeType ==
  ASSUME SpoolTypeOK, Sessions, Numbered, NEW p \in Procs, NEW size \in Sizes,
         Running(p), Cardinality(made) < MaxBatches
  PROVE  Made(p, size) \in Batches /\ Made(p, size) \notin made
<1>1. Cardinality(made) \in Nat /\ Cardinality(made) + 1 \in 1 .. MaxBatches
  BY FS_CardinalityType, SpoolAssumption DEF Numbered
<1>2. session[p] \in 1 .. MaxStarts
  BY DEF Sessions, SpoolTypeOK
<1> QED
  BY <1>1, <1>2, SpoolAssumption DEF Made, Batches, Numbered

LEMMA SpoolTypeStep ==
  ASSUME SpoolTypeOK, Sessions, Hands, Numbered, Owned, ClockBound, Drafted,
         NEW p \in Procs, Step(p)
  PROVE  SpoolTypeOK'
<1>1. /\ dir \in [Environments -> SUBSET Files] /\ Key[p] \in Environments
      /\ SendAttempts - 1 \in Nat /\ 0 \in 0 .. (SendAttempts - 1)
  BY SpoolAssumption DEF SpoolTypeOK
<1>2. CASE Start(p)
  <2>1. Entries(dir[Key[p]]) \in SUBSET Files
    BY <1>1 DEF Entries
  <2>2. starts' \in 0 .. MaxStarts /\ starts + 1 \in 0 .. MaxStarts
    BY <1>2, SpoolAssumption DEF Start, SpoolTypeOK
  <2> QED
    BY <1>2, <2>1, <2>2, Places DEF Start, SpoolTypeOK, Phases
<1>3. CASE Produce(p)
  <2>1. PICK size \in Sizes :
          /\ made' = made \cup {Made(p, size)}
          /\ channel' = [channel EXCEPT ![p] = Append(@, Made(p, size))]
    BY <1>3 DEF Produce, Made
  <2>2. Made(p, size) \in Batches
    BY <1>3, MadeType DEF Produce, Running
  <2>3. channel' \in [Procs -> Seq(Batches)]
    BY <2>1, <2>2 DEF SpoolTypeOK
  <2>4. made' \subseteq Batches
    BY <2>1, <2>2 DEF SpoolTypeOK
  <2> QED
    BY <1>3, <2>3, <2>4 DEF Produce, SpoolTypeOK
<1>4. CASE Close(p)
  BY <1>4 DEF Close, SpoolTypeOK
<1>5. \A b \in InMemory(p) : b \in Batches
  BY DEF Owned, SpoolTypeOK
<1>6. ASSUME Gone(p), UNCHANGED <<dir, cloud, starts, made, clock>>,
             dropped' \subseteq [batch : Batches, cause : Causes]
      PROVE  SpoolTypeOK'
  <2>1. <<>> \in Seq(Batches)
    OBVIOUS
  <2>2. /\ hand' \in [Procs -> Batches \cup {NoBatch}] /\ channel' \in [Procs -> Seq(Batches)]
        /\ tries' \in [Procs -> 0 .. (SendAttempts - 1)] /\ plan' \in [Procs -> SUBSET Files]
        /\ session' \in [Procs -> 0 .. MaxStarts]
    BY <1>1, <1>6, <2>1, SpoolAssumption DEF Gone, SpoolTypeOK
  <2>3. /\ pc' \in [Procs -> Phases] /\ closed' \in [Procs -> BOOLEAN]
        /\ warned' \in [Procs -> {"no", "holding", "refused"}]
        /\ \A q \in Procs : pc'[q] # "down" =>
             pc'[q] = pc[q] /\ hand'[q] = hand[q] /\ plan'[q] = plan[q]
    BY <1>6 DEF Gone, SpoolTypeOK, Phases
  <2> QED
    BY <1>6, <2>2, <2>3 DEF SpoolTypeOK
<1>7. CASE Crash(p)
  <2>1. dropped' \subseteq [batch : Batches, cause : Causes]
    BY <1>5, <1>7 DEF Crash, SpoolTypeOK, Causes
  <2> QED
    BY <1>6, <1>7, <2>1 DEF Crash
<1>8. CASE Join(p)
  BY <1>6, <1>8 DEF Join, SpoolTypeOK
<1>9. CASE ReadNext(p)
  <2>1. plan' \in [Procs -> SUBSET Files] /\ pc' \in [Procs -> Phases]
    <3>1. plan[p] \ {Oldest(plan[p])} \in SUBSET Files /\ plan \in [Procs -> SUBSET Files]
      BY DEF SpoolTypeOK
    <3>2. plan' = plan \/ plan' = [plan EXCEPT ![p] = plan[p] \ {Oldest(plan[p])}]
      BY <1>9 DEF ReadNext
    <3> QED
      BY <1>9, <3>1, <3>2 DEF ReadNext, SpoolTypeOK, Phases
  <2>2. /\ \A q \in Procs : pc'[q] \in {"sendStored", "remove"} => plan'[q] # {}
        /\ \A q \in Procs :
             pc'[q] \in {"sendLive", "store", "publish"} => pc'[q] = pc[q]
    BY <1>9 DEF ReadNext, SpoolTypeOK
  <2> QED
    BY <1>9, <2>1, <2>2 DEF ReadNext, SpoolTypeOK
<1>10. CASE SendStored(p)
  <2>1. plan[p] # {}
    BY <1>10 DEF SendStored, SpoolTypeOK
  <2>2. PICK outcome \in Outcomes :
          /\ Attempt(p, Oldest(plan[p]).batch, Oldest(plan[p]).whole, outcome)
          /\ pc' = [pc EXCEPT ![p] = IF outcome = "Retryable" THEN "recv" ELSE "remove"]
          /\ plan' = [plan EXCEPT ![p] = IF outcome = "Retryable" THEN {} ELSE @]
          /\ dropped' = IF outcome = "Permanent"
                        THEN dropped \cup
                               {[batch |-> Oldest(plan[p]).batch, cause |-> "refusedStored"]}
                        ELSE dropped
    BY <1>10 DEF SendStored
  <2>3. cloud' \in [Environments -> SUBSET [batch : Batches, whole : BOOLEAN]]
    <3>1. /\ Oldest(plan[p]).batch \in Batches /\ Oldest(plan[p]).whole \in BOOLEAN
          /\ pc[p] = "sendStored"
      BY <1>10, <2>1, Sending DEF SendStored
    <3> QED
      BY <2>2, <3>1, AttemptLeaves
  <2>4. dropped' \subseteq [batch : Batches, cause : Causes]
    BY <2>1, <2>2, Sending DEF SpoolTypeOK, Causes
  <2>5. tries' \in [Procs -> 0 .. (SendAttempts - 1)]
    BY <1>1, <2>2 DEF Attempt, SpoolTypeOK
  <2> QED
    BY <1>10, <2>1, <2>2, <2>3, <2>4, <2>5 DEF SendStored, SpoolTypeOK, Phases
<1>11. CASE RemoveSent(p)
  <2>1. dir' \in [Environments -> SUBSET Files]
    BY <1>1, <1>11 DEF RemoveSent, Remove, Partition
  <2> QED
    BY <1>11, <2>1 DEF RemoveSent, SpoolTypeOK, Phases
<1>12. CASE DrainEnds(p)
  BY <1>12 DEF DrainEnds, procVars, SpoolTypeOK, Phases
<1>13. CASE Retry(p)
  <2>1. cloud' \in [Environments -> SUBSET [batch : Batches, whole : BOOLEAN]]
    <3>1. CASE pc[p] = "sendLive"
      BY <1>13, <3>1, Storing, AttemptLeaves DEF Retry
    <3>2. CASE pc[p] = "sendStored"
      BY <1>13, <3>2, Sending, AttemptLeaves DEF Retry, SpoolTypeOK
    <3> QED
      BY <1>13, <3>1, <3>2 DEF Retry
  <2>2. tries' \in [Procs -> 0 .. (SendAttempts - 1)]
    BY <1>1, <1>13 DEF Retry, SpoolTypeOK
  <2> QED
    BY <1>13, <2>1, <2>2 DEF Retry, SpoolTypeOK
<1>14. CASE Receive(p)
  <2>1. channel[p] \in Seq(Batches) /\ channel[p] # <<>>
    BY <1>14 DEF Receive, SpoolTypeOK
  <2>2. Head(channel[p]) \in Batches /\ Tail(channel[p]) \in Seq(Batches)
    BY <2>1
  <2>3. hand' \in [Procs -> Batches \cup {NoBatch}] /\ hand'[p] # NoBatch
    BY <1>14, <2>2, NoBatchIsNone DEF Receive, SpoolTypeOK
  <2>4. channel' \in [Procs -> Seq(Batches)]
    BY <1>14, <2>2 DEF Receive, SpoolTypeOK
  <2> QED
    BY <1>14, <2>3, <2>4 DEF Receive, SpoolTypeOK, Phases
<1>15. CASE SendLive(p)
  <2>1. hand[p] \in Batches /\ pc[p] = "sendLive"
    BY <1>15, Storing DEF SendLive
  <2>2. \E outcome \in Outcomes : Attempt(p, hand[p], TRUE, outcome)
    BY <1>15 DEF SendLive, Outcomes
  <2>3. cloud' \in [Environments -> SUBSET [batch : Batches, whole : BOOLEAN]]
    BY <2>1, <2>2, AttemptLeaves
  <2>4. tries' \in [Procs -> 0 .. (SendAttempts - 1)]
    BY <1>1, <2>2 DEF Attempt, SpoolTypeOK
  <2>5. dropped' \subseteq [batch : Batches, cause : Causes]
    <3>1. \/ dropped' = dropped
          \/ dropped' = dropped \cup {[batch |-> hand[p], cause |-> "refusedLive"]}
      BY <1>15 DEF SendLive
    <3> QED
      BY <2>1, <3>1 DEF SpoolTypeOK, Causes
  <2>6. warned' \in [Procs -> {"no", "holding", "refused"}] /\ starts' = starts
    BY <1>15 DEF SendLive, Notice, SpoolTypeOK
  <2>7. /\ pc' \in [Procs -> Phases] /\ hand' \in [Procs -> Batches \cup {NoBatch}]
        /\ \A q \in Procs :
             pc'[q] \in {"sendLive", "store", "publish"} => hand'[q] # NoBatch
        /\ \A q \in Procs : pc'[q] \in {"sendStored", "remove"} => plan[q] # {}
    BY <1>15 DEF SendLive, SpoolTypeOK, Phases
  <2> QED
    BY <1>15, <2>3, <2>4, <2>5, <2>6, <2>7 DEF SendLive, SpoolTypeOK
<1>16. CASE Stage(p)
  <2> DEFINE gone == Listed(Key[p]) \ Kept(Listed(Key[p]), hand[p].size)
  <2> DEFINE draft == [at |-> clock + 1, batch |-> hand[p], ext |-> "tmp", whole |-> FALSE]
  <2>1. clock + 1 \in 1 .. MaxBatches /\ hand[p] \in Batches
    BY <1>16, ClockLeft, Storing DEF Stage
  <2>2. draft \in Files /\ gone \in SUBSET Files
    BY <2>1, Places DEF Files
  <2>3. /\ dir' = [dir EXCEPT ![Key[p]] = (@ \ gone) \cup {draft}]
        /\ dropped' = dropped \cup {[batch |-> f.batch, cause |-> "outboxFull"] : f \in gone}
    BY <1>16, Places DEF Stage
  <2> HIDE DEF gone, draft
  <2>4. dir' \in [Environments -> SUBSET Files]
    BY <1>1, <2>2, <2>3
  <2>5. dropped' \subseteq [batch : Batches, cause : Causes]
    BY <2>2, <2>3 DEF SpoolTypeOK, Causes, Files
  <2>6. clock' \in 0 .. MaxBatches
    BY <1>16, <2>1 DEF Stage
  <2> QED
    BY <1>16, <2>4, <2>5, <2>6 DEF Stage, SpoolTypeOK, Phases, procVars
<1>17. CASE Publish(p)
  <2>1. Draft(p) \in dir[Key[p]] /\ Draft(p) \in Files
    BY <1>1, <1>17, Places DEF Publish, Drafted, Draft
  <2>2. [Draft(p) EXCEPT !.ext = "ndjson", !.whole = TRUE] \in Files
    BY <2>1 DEF Files
  <2>3. dir' \in [Environments -> SUBSET Files]
    BY <1>1, <1>17, <2>2, Places DEF Publish
  <2> QED
    BY <1>17, <2>3 DEF Publish, SpoolTypeOK, Phases
<1>18. CASE StoreFails(p)
  <2>1. dir' \in [Environments -> SUBSET Files]
    BY <1>1, <1>18 DEF StoreFails, Remove, Partition
  <2>2. dropped' \subseteq [batch : Batches, cause : Causes]
    BY <1>18, Storing DEF StoreFails, SpoolTypeOK, Causes
  <2> QED
    BY <1>18, <2>1, <2>2 DEF StoreFails, SpoolTypeOK, Phases
<1> QED
  BY <1>2, <1>3, <1>4, <1>7, <1>8, <1>9, <1>10, <1>11, <1>12, <1>13, <1>14, <1>15, <1>16,
     <1>17, <1>18 DEF Step, Forwarder

-----------------------------------------------------------------------------
(* What is in memory *)

\* A step keeps what its governor has in memory, takes from it, or adds the
\* batch just made.
OwnMemory(p) ==
  \/ made' = made /\ channel'[p] = channel[p] /\ hand'[p] \in {hand[p], NoBatch}
  \/ \E size \in Sizes :
       /\ Running(p) /\ Cardinality(made) < MaxBatches
       /\ made' = made \cup {Made(p, size)}
       /\ channel'[p] = Append(channel[p], Made(p, size))
       /\ hand'[p] = hand[p] /\ pc'[p] = pc[p] /\ session'[p] = session[p]
  \/ /\ made' = made /\ channel[p] # <<>> /\ pc[p] = "recv" /\ pc'[p] = "sendLive"
     /\ channel'[p] = Tail(channel[p]) /\ hand'[p] = Head(channel[p])
  \/ made' = made /\ channel'[p] = <<>> /\ hand'[p] = NoBatch

LEMMA MemorySteps ==
  ASSUME SpoolTypeOK, NEW p \in Procs, Step(p)
  PROVE  OwnMemory(p)
<1>1. CASE Start(p) \/ Close(p)
  BY <1>1 DEF Start, Close, OwnMemory
<1>2. CASE Produce(p)
  BY <1>2 DEF Produce, OwnMemory, Made, Running, SpoolTypeOK
<1>3. CASE Crash(p) \/ Join(p)
  BY <1>3 DEF Crash, Join, Gone, OwnMemory, SpoolTypeOK
<1>4. CASE ReadNext(p) \/ SendStored(p) \/ RemoveSent(p) \/ DrainEnds(p) \/ Retry(p) \/ Stage(p)
  BY <1>4 DEF ReadNext, SendStored, RemoveSent, DrainEnds, Retry, Stage, procVars, OwnMemory
<1>5. CASE Receive(p)
  BY <1>5 DEF Receive, OwnMemory, SpoolTypeOK
<1>6. CASE SendLive(p) \/ Publish(p) \/ StoreFails(p)
  BY <1>6 DEF SendLive, Publish, StoreFails, OwnMemory, SpoolTypeOK
<1> QED
  BY <1>1, <1>2, <1>3, <1>4, <1>5, <1>6 DEF Step, Forwarder

LEMMA Remembered ==
  ASSUME SpoolTypeOK, SpoolTypeOK', NEW p \in Procs, Step(p), NEW q \in Procs,
         NEW b \in InMemory(q)'
  PROVE  \/ b \in InMemory(q) /\ b \in Batches
         \/ /\ q = p /\ Running(p) /\ Cardinality(made) < MaxBatches
            /\ pc'[p] = pc[p] /\ session'[p] = session[p] /\ hand'[p] = hand[p]
            /\ \E size \in Sizes : b = Made(p, size) /\ made' = made \cup {b}
<1>1. \/ \E i \in 1 .. Len(channel'[q]) : b = channel'[q][i]
      \/ hand'[q] # NoBatch /\ b = hand'[q]
  BY DEF InMemory, SpoolTypeOK
<1>2. channel[q] \in Seq(Batches) /\ channel'[q] \in Seq(Batches) /\ b \in Batches
  BY <1>1 DEF SpoolTypeOK
<1>3. CASE q # p
  BY <1>1, <1>2, <1>3, Elsewhere, MemoryOf
<1>4. CASE q = p
  <2>1. OwnMemory(p)
    BY MemorySteps
  <2>2. CASE channel'[p] = channel[p] /\ hand'[p] \in {hand[p], NoBatch}
    BY <1>1, <1>2, <1>4, <2>2, MemoryOf
  <2>3. ASSUME NEW size \in Sizes,
               channel'[p] = Append(channel[p], Made(p, size)), hand'[p] = hand[p]
        PROVE  b \in InMemory(p) \/ b = Made(p, size)
    <3>1. \A i \in 1 .. Len(channel'[p]) :
            \/ i \in 1 .. Len(channel[p]) /\ channel'[p][i] = channel[p][i]
            \/ channel'[p][i] = Made(p, size)
      BY <1>2, <1>4, <2>3
    <3> QED
      BY <1>1, <1>4, <2>3, <3>1, MemoryOf
  <2>4. CASE /\ channel[p] # <<>>
             /\ channel'[p] = Tail(channel[p]) /\ hand'[p] = Head(channel[p])
    <3>1. \A i \in 1 .. Len(channel'[p]) :
            i + 1 \in 1 .. Len(channel[p]) /\ channel'[p][i] = channel[p][i + 1]
      BY <1>2, <1>4, <2>4
    <3>2. 1 \in 1 .. Len(channel[p]) /\ hand'[p] = channel[p][1]
      BY <1>2, <1>4, <2>4
    <3> QED
      BY <1>1, <1>2, <1>4, <3>1, <3>2, MemoryOf
  <2>5. CASE channel'[p] = <<>> /\ hand'[p] = NoBatch
    BY <1>1, <1>2, <1>4, <2>5
  <2> QED
    BY <1>2, <1>4, <2>1, <2>2, <2>3, <2>4, <2>5 DEF OwnMemory
<1> QED
  BY <1>3, <1>4

LEMMA SessionsStep ==
  ASSUME SpoolTypeOK, SpoolTypeOK', Sessions, Hands, NEW p \in Procs, Step(p)
  PROVE  Sessions'
<1>1. \/ /\ starts' = starts /\ session'[p] = session[p] /\ Running(p) /\ Running(p)'
      \/ /\ starts' = starts + 1 /\ session'[p] = starts + 1 /\ ~Running(p) /\ Running(p)'
      \/ /\ starts' = starts /\ Running(p) /\ ~Running(p)' /\ session'[p] = 0
         /\ plan'[p] = {} /\ hand'[p] = NoBatch /\ channel'[p] = <<>>
  <2>1. CASE Start(p)
    BY <2>1 DEF Start, SpoolTypeOK, Running
  <2>2. CASE Crash(p) \/ Join(p)
    BY <2>2 DEF Crash, Join, Gone, SpoolTypeOK, Running
  <2>3. CASE Produce(p) \/ Close(p) \/ ReadNext(p) \/ SendStored(p) \/ RemoveSent(p)
             \/ DrainEnds(p) \/ Retry(p)
    BY <2>3 DEF Produce, Close, ReadNext, SendStored, RemoveSent, DrainEnds, Retry, procVars,
         SpoolTypeOK, Running
  <2>4. CASE Receive(p) \/ SendLive(p) \/ Stage(p) \/ Publish(p) \/ StoreFails(p)
    BY <2>4 DEF Receive, SendLive, Stage, Publish, StoreFails, procVars, SpoolTypeOK, Running
  <2> QED
    BY <2>1, <2>2, <2>3, <2>4 DEF Step, Forwarder
<1>2. starts \in Nat /\ \A q \in Procs : session[q] \in Nat
  BY DEF SpoolTypeOK
<1>3. \A q \in Procs : q # p => /\ Running(q)' <=> Running(q)
                              /\ session'[q] = session[q] /\ plan'[q] = plan[q]
                              /\ hand'[q] = hand[q] /\ channel'[q] = channel[q]
  BY Elsewhere DEF Running
<1>4. ASSUME NEW q \in Procs
      PROVE  IF Running(q)'
             THEN session'[q] \in 1 .. starts'
             ELSE session'[q] = 0 /\ plan'[q] = {} /\ hand'[q] = NoBatch /\ channel'[q] = <<>>
  BY <1>1, <1>2, <1>3 DEF Sessions
<1>5. ASSUME NEW q \in Procs, NEW s \in Procs, Running(q)', Running(s)', q # s
      PROVE  session'[q] # session'[s]
  BY <1>1, <1>2, <1>3, <1>5 DEF Sessions
<1> QED
  BY <1>4, <1>5 DEF Sessions

LEMMA HandsStep ==
  ASSUME SpoolTypeOK, SpoolTypeOK', Hands, NEW p \in Procs, Step(p)
  PROVE  Hands'
<1>1. hand'[p] # NoBatch <=> pc'[p] \in {"sendLive", "store", "publish"}
  <2>1. hand[p] # NoBatch <=> pc[p] \in {"sendLive", "store", "publish"}
    BY DEF Hands
  <2>2. CASE Start(p) \/ Produce(p) \/ Close(p)
    BY <2>1, <2>2 DEF Start, Produce, Close, SpoolTypeOK
  <2>3. CASE Crash(p) \/ Join(p)
    BY <2>3 DEF Crash, Join, Gone, SpoolTypeOK
  <2>4. CASE ReadNext(p) \/ SendStored(p) \/ RemoveSent(p) \/ DrainEnds(p) \/ Retry(p)
    BY <2>1, <2>4 DEF ReadNext, SendStored, RemoveSent, DrainEnds, Retry, procVars, SpoolTypeOK
  <2>5. CASE Receive(p)
    BY <2>5 DEF Receive, SpoolTypeOK
  <2>6. CASE SendLive(p) \/ Stage(p) \/ Publish(p) \/ StoreFails(p)
    BY <2>1, <2>6 DEF SendLive, Stage, Publish, StoreFails, procVars, SpoolTypeOK
  <2> QED
    BY <2>2, <2>3, <2>4, <2>5, <2>6 DEF Step, Forwarder
<1> QED
  BY <1>1, Elsewhere DEF Hands

LEMMA NumberedStep ==
  ASSUME SpoolTypeOK, Sessions, Numbered, NEW p \in Procs, Step(p)
  PROVE  Numbered' /\ made \subseteq made'
<1>1. CASE made' = made
  BY <1>1 DEF Numbered
<1>2. ASSUME NEW size \in Sizes, Running(p), Cardinality(made) < MaxBatches,
             made' = made \cup {Made(p, size)}
      PROVE  Numbered' /\ made \subseteq made'
  <2>1. Cardinality(made) \in Nat /\ IsFiniteSet(made')
        /\ Cardinality(made') = Cardinality(made) + 1
    BY <1>2, MadeType, FS_CardinalityType, FS_AddElement DEF Numbered
  <2>2. Made(p, size).id = Cardinality(made) + 1
    BY DEF Made
  <2>3. \A b \in made : b.id \in Nat
    BY DEF SpoolTypeOK, Batches
  <2> QED
    BY <1>2, <2>1, <2>2, <2>3, SpoolAssumption DEF Numbered
<1> QED
  BY <1>1, <1>2, MemorySteps DEF OwnMemory

LEMMA OwnedStep ==
  ASSUME SpoolTypeOK, SpoolTypeOK', Sessions, Sessions', Hands, Numbered, Owned,
         NEW p \in Procs, Step(p)
  PROVE  Owned'
<1> SUFFICES ASSUME NEW q \in Procs, NEW b \in InMemory(q)'
             PROVE  b \in made' /\ b.session = session'[q] /\ b.env = Key[q]
  BY DEF Owned
<1>1. CASE b \in InMemory(q)
  <2>1. b \in made /\ b.session = session[q] /\ b.env = Key[q]
    BY <1>1 DEF Owned
  <2>2. session'[q] = session[q]
    <3>1. b.session \in 1 .. MaxStarts
      BY <2>1 DEF SpoolTypeOK, Batches
    <3>2. session[q] # 0
      BY <2>1, <3>1, SpoolAssumption
    <3>3. Running(q)
      BY <3>2 DEF Sessions
    <3>4. hand'[q] # NoBatch \/ channel'[q] # <<>>
      BY MemoryOf DEF InMemory
    <3>5. Running(q)'
      BY <3>4 DEF Sessions
    <3>6. CASE q = p
      BY <3>3, <3>5, <3>6 DEF Step, Forwarder, Start, Produce, Close, Crash, Join, Gone,
           ReadNext, SendStored, RemoveSent, DrainEnds, Retry, Receive, SendLive, Stage,
           Publish, StoreFails, procVars, Running, SpoolTypeOK
    <3> QED
      BY <3>6, Elsewhere
  <2> QED
    BY <2>1, <2>2, NumberedStep
<1>2. CASE b \notin InMemory(q)
  BY <1>2, Remembered DEF Made
<1> QED
  BY <1>1, <1>2

LEMMA OrderedStep ==
  ASSUME SpoolTypeOK, SpoolTypeOK', Sessions, Hands, Numbered, Owned, Ordered,
         NEW p \in Procs, Step(p)
  PROVE  Ordered'
<1> DEFINE Rising(h, ch) ==
      \A i \in 1 .. Len(ch) :
        /\ h.id < ch[i].id
        /\ \A j \in 1 .. Len(ch) : i < j => ch[i].id < ch[j].id
<1> SUFFICES ASSUME NEW q \in Procs
             PROVE  Rising(hand'[q], channel'[q])
  BY DEF Ordered
<1>1. Rising(hand[q], channel[q])
  BY DEF Ordered
<1>2. CASE q # p
  BY <1>1, <1>2, Elsewhere
<1>3. /\ channel[q] \in Seq(Batches) /\ hand[q] \in Batches \cup {NoBatch}
      /\ \A b \in Batches : b.id \in Nat /\ b.id > 0
  <2>1. \A b \in Batches : b.id \in Nat /\ b.id > 0
    BY SpoolAssumption DEF Batches
  <2> QED
    BY <2>1 DEF SpoolTypeOK
<1>4. CASE channel'[q] = channel[q] /\ hand'[q] \in {hand[q], NoBatch}
  <2>1. \A i \in 1 .. Len(channel[q]) : channel[q][i].id \in Nat /\ channel[q][i].id > 0
    BY <1>3
  <2>2. CASE hand'[q] = NoBatch
    BY <1>1, <1>4, <2>1, <2>2, NoBatchIsNone
  <2>3. CASE hand'[q] = hand[q]
    BY <1>1, <1>4, <2>3
  <2> QED
    BY <1>4, <2>2, <2>3
<1>5. ASSUME NEW size \in Sizes, q = p, hand'[q] = hand[q],
             channel'[q] = Append(channel[q], Made(p, size))
      PROVE  Rising(hand'[q], channel'[q])
  <2>1. \A b \in InMemory(q) : b.id < Made(p, size).id
    BY FS_CardinalityType DEF Owned, Numbered, Made, SpoolTypeOK, Batches
  <2>2. \A i \in 1 .. Len(channel[q]) : channel[q][i].id < Made(p, size).id
    BY <2>1, MemoryOf
  <2>3. hand[q].id < Made(p, size).id
    <3>1. CASE hand[q] = NoBatch
      BY <3>1, NoBatchIsNone, FS_CardinalityType DEF Made, Numbered
    <3>2. CASE hand[q] # NoBatch
      BY <2>1, <3>2, MemoryOf
    <3> QED
      BY <3>1, <3>2
  <2> DEFINE m == Made(p, size)
  <2> HIDE DEF m
  <2>4. /\ Len(channel'[q]) = Len(channel[q]) + 1
        /\ \A i \in 1 .. Len(channel[q]) : channel'[q][i] = channel[q][i]
        /\ channel'[q][Len(channel[q]) + 1] = m
    BY <1>3, <1>5 DEF m
  <2>5. Len(channel[q]) \in Nat
    BY <1>3
  <2>6. \A i \in 1 .. Len(channel'[q]) : i \in 1 .. Len(channel[q]) \/ i = Len(channel[q]) + 1
    BY <2>4, <2>5
  <2> QED
    BY <1>1, <1>5, <2>2, <2>3, <2>4, <2>5, <2>6 DEF m
<1>6. CASE channel[q] # <<>> /\ channel'[q] = Tail(channel[q]) /\ hand'[q] = Head(channel[q])
  <2>1. /\ hand'[q] = channel[q][1] /\ 1 \in 1 .. Len(channel[q])
        /\ \A i \in 1 .. Len(channel'[q]) :
             /\ channel'[q][i] = channel[q][i + 1]
             /\ i + 1 \in 1 .. Len(channel[q]) /\ 1 < i + 1
    BY <1>3, <1>6
  <2>2. \A i, j \in 1 .. Len(channel'[q]) : i < j => i + 1 < j + 1
    BY <1>3, <1>6
  <2> QED
    BY <1>1, <2>1, <2>2
<1>7. CASE channel'[q] = <<>>
  BY <1>7
<1> QED
  BY <1>2, <1>4, <1>5, <1>6, <1>7, MemorySteps DEF OwnMemory

\* The batches that wait for a file: a step makes one more, stages one, or
\* adds none.
LEMMA WaitingStep ==
  ASSUME SpoolTypeOK, SpoolTypeOK', Sessions, Hands, Numbered, Owned, Ordered,
         NEW p \in Procs, Step(p), NEW q \in Procs, NEW b \in Unstaged(q)'
  PROVE  /\ b \in Unstaged(q) \/ (Produce(p) /\ b \notin made)
         /\ Stage(p) => b # hand[p]
<1>1. /\ b \in made' /\ b \in Batches
      /\ \/ \E i \in 1 .. Len(channel'[q]) : b = channel'[q][i]
         \/ b = hand'[q] /\ pc'[q] \in {"sendLive", "store"}
  BY DEF Unstaged, Queued, SpoolTypeOK
<1>2. channel[q] \in Seq(Batches) /\ channel'[q] \in Seq(Batches)
  BY DEF SpoolTypeOK
<1>3. b \in Unstaged(q) \/ (Produce(p) /\ b \notin made)
  <2>1. CASE Produce(p)
    <3> SUFFICES ASSUME b \in made
                 PROVE  b \in Unstaged(q)
      BY <2>1
    <3>1. PICK size \in Sizes : channel' = [channel EXCEPT ![p] = Append(@, Made(p, size))]
      BY <2>1 DEF Produce, Made
    <3>2. b # Made(p, size) /\ hand' = hand /\ pc' = pc
      BY <2>1, MadeType DEF Produce, Running
    <3>3. CASE q # p
      BY <1>1, <3>1, <3>2, <3>3 DEF Unstaged, Queued, SpoolTypeOK
    <3>4. CASE q = p
      <4>1. channel'[q] = Append(channel[q], Made(p, size))
        BY <3>1, <3>4 DEF SpoolTypeOK
      <4>2. \A i \in 1 .. Len(channel'[q]) :
              \/ i \in 1 .. Len(channel[q]) /\ channel'[q][i] = channel[q][i]
              \/ channel'[q][i] = Made(p, size)
        BY <1>2, <4>1
      <4> QED
        BY <1>1, <3>2, <4>2 DEF Unstaged, Queued
    <3> QED
      BY <3>3, <3>4
  <2>2. made' = made \/ Produce(p)
    BY DEF Step, Forwarder, Start, Close, Crash, Join, ReadNext, SendStored, RemoveSent,
         DrainEnds, Retry, Receive, SendLive, Stage, Publish, StoreFails, procVars
  <2>3. CASE q # p
    <3>1. pc'[q] = pc[q] /\ hand'[q] = hand[q] /\ channel'[q] = channel[q]
      BY <2>3, Elsewhere
    <3>2. CASE b \in made
      BY <1>1, <3>1, <3>2 DEF Unstaged, Queued
    <3>3. CASE b \notin made
      BY <1>1, <2>2, <3>3
    <3> QED
      BY <3>2, <3>3
  <2>4. CASE q = p /\ channel'[q] = channel[q] /\ hand'[q] \in {hand[q], NoBatch}
    <3>1. pc'[p] \in {"sendLive", "store"} /\ hand'[p] = hand[p]
            => pc[p] \in {"sendLive", "store"} \/ Receive(p)
      BY DEF Step, Forwarder, Start, Produce, Close, Crash, Join, Gone, ReadNext, SendStored,
           RemoveSent, DrainEnds, Retry, SendLive, Stage, Publish, StoreFails, procVars,
           SpoolTypeOK
    <3>2. Receive(p) => channel'[p] # channel[p]
      BY DEF Receive, SpoolTypeOK
    <3>3. b # NoBatch
      BY <1>1, NoBatchIsNone
    <3> QED
      BY <1>1, <2>1, <2>2, <2>4, <3>1, <3>2, <3>3 DEF Unstaged, Queued
  <2>5. CASE /\ q = p /\ channel[q] # <<>>
             /\ channel'[q] = Tail(channel[q]) /\ hand'[q] = Head(channel[q])
    <3>1. \A i \in 1 .. Len(channel'[q]) :
            i + 1 \in 1 .. Len(channel[q]) /\ channel'[q][i] = channel[q][i + 1]
      BY <1>2, <2>5
    <3>2. 1 \in 1 .. Len(channel[q]) /\ hand'[q] = channel[q][1]
      BY <1>2, <2>5
    <3> QED
      BY <1>1, <2>1, <2>2, <3>1, <3>2 DEF Unstaged, Queued
  <2>6. CASE q = p /\ channel'[q] = <<>> /\ hand'[q] = NoBatch
    BY <1>1, <2>6, NoBatchIsNone
  <2>7. q # p \/ OwnMemory(p)
    BY MemorySteps
  <2>8. ASSUME NEW size \in Sizes, Running(p), Cardinality(made) < MaxBatches,
               made' = made \cup {Made(p, size)}
        PROVE  Produce(p)
    BY <2>2, <2>8, MadeType
  <2> QED
    BY <2>1, <2>3, <2>4, <2>5, <2>6, <2>7, <2>8 DEF OwnMemory
<1>4. ASSUME Stage(p)
      PROVE  b # hand[p]
  <2>1. b \in Unstaged(q) /\ hand[p] \in InMemory(p) /\ pc[p] = "store"
    BY <1>3, <1>4, MemoryOf DEF Stage, Produce, Hands
  <2>2. CASE q = p
    <3>1. \E i \in 1 .. Len(channel[p]) : b = channel[p][i]
      BY <1>1, <1>4, <2>2 DEF Stage, procVars, SpoolTypeOK
    <3>2. hand[p] \in Batches /\ b \in Batches /\ hand[p].id < b.id
      BY <1>1, <2>1, <3>1, Storing DEF Ordered
    <3> QED
      BY <3>2 DEF Batches
  <2>3. CASE q # p
    <3>1. b \in InMemory(q)
      BY <2>1, MemoryOf, NoBatchIsNone, <1>1 DEF Unstaged, Queued
    <3>2. b.session = session[q] /\ hand[p].session = session[p]
      BY <2>1, <3>1 DEF Owned
    <3>3. session[q] # 0 /\ session[p] # 0
      BY <1>1, <2>1, <3>2, Storing, SpoolAssumption DEF Batches
    <3>4. session[q] # session[p]
      BY <2>3, <3>3 DEF Sessions
    <3> QED
      BY <3>2, <3>4
  <2> QED
    BY <2>2, <2>3
<1> QED
  BY <1>3, <1>4

LEMMA ClockStep ==
  ASSUME SpoolTypeOK, SpoolTypeOK', Sessions, Hands, Numbered, Numbered', Owned, Ordered,
         ClockBound, NEW p \in Procs, Step(p)
  PROVE  ClockBound'
<1>1. /\ IsFiniteSet(Waiting) /\ Cardinality(Waiting) \in Nat
      /\ IsFiniteSet(Waiting') /\ Cardinality(Waiting)' \in Nat
      /\ Cardinality(made) \in Nat /\ Cardinality(made)' \in Nat /\ clock \in Nat
  BY FS_Subset, FS_CardinalityType DEF Numbered, Waiting, SpoolTypeOK
<1>2. \A b \in Waiting' : \E q \in Procs : b \in Unstaged(q)'
  BY DEF Waiting
<1>3. CASE Produce(p)
  <2>1. PICK size \in Sizes : made' = made \cup {Made(p, size)}
    BY <1>3 DEF Produce, Made
  <2>2. clock' = clock /\ Made(p, size) \notin made
    BY <1>3, MadeType DEF Produce, Running
  <2>3. Waiting' \subseteq Waiting \cup {Made(p, size)}
    BY <1>2, <2>1, WaitingStep DEF Waiting, Unstaged, Queued
  <2>4. Cardinality(Waiting)' <= Cardinality(Waiting) + 1
    <3> DEFINE m == Made(p, size)
    <3> HIDE DEF m
    <3>1. /\ IsFiniteSet(Waiting \cup {m})
          /\ Cardinality(Waiting \cup {m}) <= Cardinality(Waiting) + 1
      BY <1>1, FS_AddElement
    <3>2. Cardinality(Waiting') <= Cardinality(Waiting \cup {m})
      BY <2>3, <3>1, FS_Subset DEF m
    <3>3. Cardinality(Waiting \cup {m}) \in Nat
      BY <3>1, FS_CardinalityType
    <3> QED
      BY <1>1, <3>1, <3>2, <3>3
  <2>5. Cardinality(made)' = Cardinality(made) + 1
    BY <2>1, <2>2, FS_AddElement DEF Numbered
  <2> QED
    BY <1>1, <2>2, <2>4, <2>5 DEF ClockBound
<1>4. CASE Stage(p)
  <2>1. clock' = clock + 1 /\ made' = made
    BY <1>4 DEF Stage
  <2>2. Waiting' \subseteq Waiting \ {hand[p]}
    BY <1>2, <1>4, <2>1, WaitingStep DEF Waiting, Unstaged, Queued, Stage, Produce
  <2>3. hand[p] \in Waiting
    <3>1. hand[p] \in InMemory(p)
      BY <1>4, MemoryOf DEF Hands, Stage
    <3> QED
      BY <1>4, <3>1 DEF Stage, Waiting, Unstaged, Owned
  <2>4. Cardinality(Waiting)' <= Cardinality(Waiting) - 1
    BY <1>1, <2>2, <2>3, FS_RemoveElement, FS_Subset, FS_CardinalityType
  <2> QED
    BY <1>1, <2>1, <2>4 DEF ClockBound
<1>5. CASE clock' = clock /\ made' = made
  <2>1. Waiting' \subseteq Waiting
    BY <1>2, <1>5, WaitingStep DEF Waiting, Unstaged, Queued
  <2>2. Cardinality(Waiting)' <= Cardinality(Waiting)
    BY <1>1, <2>1, FS_Subset
  <2> QED
    BY <1>1, <1>5, <2>2 DEF ClockBound
<1>6. Produce(p) \/ Stage(p) \/ (clock' = clock /\ made' = made)
  BY DEF Step, Forwarder, Start, Close, Crash, Join, ReadNext, SendStored, RemoveSent,
       DrainEnds, Retry, Receive, SendLive, Publish, StoreFails, procVars
<1> QED
  BY <1>3, <1>4, <1>5, <1>6

-----------------------------------------------------------------------------
(* The cloud *)

LEMMA CloudStep ==
  ASSUME SpoolTypeOK, Hands, Owned, Filed, NEW p \in Procs, Step(p)
  PROVE  /\ \A e \in Environments : cloud[e] \subseteq cloud'[e]
         /\ \A e \in Environments : \A x \in cloud'[e] :
              x \in cloud[e] \/ (e = Key[p] /\ x.batch.env = Key[p] /\ x.whole)
<1>1. CASE pc[p] = "sendLive"
           /\ (Unanswered(p) \/ \E outcome \in Outcomes : Attempt(p, hand[p], TRUE, outcome))
  <2>1. hand[p] \in Batches /\ hand[p].env = Key[p]
    BY <1>1, Storing, MemoryOf DEF Hands, Owned
  <2>2. /\ \A e \in Environments : cloud[e] \subseteq cloud'[e]
        /\ \A e \in Environments : \A x \in cloud'[e] :
             x \in cloud[e] \/ (e = Key[p] /\ x = [batch |-> hand[p], whole |-> TRUE])
    BY <1>1, <2>1, AttemptLeaves
  <2> QED
    BY <2>1, <2>2
<1>2. CASE /\ pc[p] = "sendStored"
           /\ \/ Unanswered(p)
              \/ \E outcome \in Outcomes :
                   Attempt(p, Oldest(plan[p]).batch, Oldest(plan[p]).whole, outcome)
  <2>1. plan[p] # {}
    BY <1>2 DEF SpoolTypeOK
  <2>2. /\ Oldest(plan[p]).batch \in Batches /\ Oldest(plan[p]).whole = TRUE
        /\ Oldest(plan[p]).batch.env = Key[p]
    BY <2>1, Sending DEF Filed
  <2>3. /\ \A e \in Environments : cloud[e] \subseteq cloud'[e]
        /\ \A e \in Environments : \A x \in cloud'[e] :
             x \in cloud[e]
             \/ (e = Key[p] /\ x = [batch |-> Oldest(plan[p]).batch, whole |-> TRUE])
    BY <1>2, <2>2, AttemptLeaves
  <2> QED
    BY <2>2, <2>3
<1>3. CASE Retry(p)
  BY <1>1, <1>2, <1>3 DEF Retry
<1>4. CASE SendStored(p)
  BY <1>2, <1>4 DEF SendStored
<1>5. CASE SendLive(p)
  BY <1>1, <1>5 DEF SendLive, Outcomes
<1>6. cloud' = cloud \/ Retry(p) \/ SendStored(p) \/ SendLive(p)
  BY DEF Step, Forwarder, Start, Produce, Close, Crash, Join, ReadNext, RemoveSent,
       DrainEnds, Receive, Stage, Publish, StoreFails
<1> QED
  BY <1>3, <1>4, <1>5, <1>6

LEMMA DroppedGrows ==
  ASSUME NEW p \in Procs, Step(p)
  PROVE  dropped \subseteq dropped'
BY DEF Step, Forwarder, Start, Produce, Close, Crash, Join, ReadNext, SendStored, RemoveSent,
     DrainEnds, Receive, SendLive, Retry, Stage, Publish, StoreFails

LEMMA DeliveredStays ==
  ASSUME SpoolTypeOK, Hands, Owned, Filed, NEW p \in Procs, Step(p), NEW b, Delivered(b)
  PROVE  Delivered(b)'
BY CloudStep DEF Delivered

-----------------------------------------------------------------------------
(* The directory *)

\* The temporary form of the batch in hand, as it is begun, and as it is
\* published.
Begun(p) == [at |-> clock + 1, batch |-> hand[p], ext |-> "tmp", whole |-> FALSE]

Published(p) == [Draft(p) EXCEPT !.ext = "ndjson", !.whole = TRUE]

LEMMA DraftIs ==
  ASSUME SpoolTypeOK, Drafted, NEW p \in Procs, pc[p] = "publish"
  PROVE  /\ Draft(p) \in dir[Key[p]] /\ Draft(p) \in Files
         /\ Draft(p).ext = "tmp" /\ Draft(p).batch = hand[p]
         /\ \A f \in dir[Key[p]] : f.batch = hand[p] => f = Draft(p)
         /\ Published(p) \in Files /\ Published(p).at = Draft(p).at
         /\ Published(p).batch = hand[p] /\ Published(p).ext = "ndjson" /\ Published(p).whole
<1>1. Draft(p) \in dir[Key[p]] /\ Draft(p).ext = "tmp" /\ Draft(p).batch = hand[p]
  BY Places DEF Drafted, Draft
<1>2. Draft(p) \in Files
  BY <1>1, Places
<1>3. \A f \in dir[Key[p]] : f.batch = hand[p] => f = Draft(p)
  BY <1>1 DEF Drafted
<1> QED
  BY <1>1, <1>2, <1>3 DEF Published, Files

\* The batches in hand of two governors are two.
LEMMA HandsDiffer ==
  ASSUME SpoolTypeOK, Sessions, Hands, Owned, NEW p \in Procs, NEW q \in Procs, p # q,
         NEW b \in InMemory(p), NEW d \in InMemory(q)
  PROVE  b # d /\ b.session # d.session /\ session[p] # session[q]
<1>1. b.session = session[p] /\ d.session = session[q] /\ b \in Batches /\ d \in Batches
  BY DEF Owned, SpoolTypeOK
<1>2. session[p] # 0 /\ session[q] # 0
  BY <1>1, SpoolAssumption DEF Batches
<1> QED
  BY <1>1, <1>2 DEF Sessions

LEMMA FilesAdded ==
  ASSUME SpoolTypeOK, Hands, NEW p \in Procs, Step(p), NEW e \in Environments,
         NEW f \in dir'[e], f \notin dir[e]
  PROVE  /\ e = Key[p]
         /\ (Stage(p) /\ f = Begun(p)) \/ (Publish(p) /\ f = Published(p))
<1>1. CASE Stage(p)
  BY <1>1 DEF Stage, Partition, Begun, SpoolTypeOK
<1>2. CASE Publish(p)
  BY <1>2 DEF Publish, Partition, Published, SpoolTypeOK
<1>3. CASE RemoveSent(p) \/ StoreFails(p)
  BY <1>3 DEF RemoveSent, StoreFails, Remove, Partition, SpoolTypeOK
<1>4. dir' = dir \/ Stage(p) \/ Publish(p) \/ RemoveSent(p) \/ StoreFails(p)
  BY DEF Step, Forwarder, Start, Produce, Close, Crash, Join, ReadNext, SendStored,
       DrainEnds, Receive, SendLive, Retry
<1> QED
  BY <1>1, <1>2, <1>3, <1>4

\* What leaves the outbox: the files the cap pushes out, the one the cloud
\* answered for, and the draft that is renamed or could not be written.
LEMMA FilesGone ==
  ASSUME SpoolTypeOK, Hands, NEW p \in Procs, Step(p), NEW e \in Environments,
         NEW f \in dir[e], f \notin dir'[e]
  PROVE  /\ e = Key[p]
         /\ \/ f.ext = "ndjson" /\ [batch |-> f.batch, cause |-> "outboxFull"] \in dropped'
            \/ RemoveSent(p) /\ f = Oldest(plan[p])
            \/ pc[p] = "publish" /\ f = Draft(p) /\ pc'[p] = "recv"
<1>1. CASE Stage(p)
  <2> DEFINE gone == Listed(Key[p]) \ Kept(Listed(Key[p]), hand[p].size)
  <2>1. /\ dir' = [dir EXCEPT ![Key[p]] = (@ \ gone) \cup {Begun(p)}]
        /\ dropped' = dropped \cup {[batch |-> g.batch, cause |-> "outboxFull"] : g \in gone}
    BY <1>1 DEF Stage, Partition, Begun
  <2>2. \A g \in gone : g.ext = "ndjson"
    BY DEF Listed, Entries
  <2> HIDE DEF gone
  <2>3. e = Key[p] /\ f \in gone
    BY <2>1 DEF SpoolTypeOK
  <2> QED
    BY <2>1, <2>2, <2>3
<1>2. CASE Publish(p)
  BY <1>2 DEF Publish, Partition, SpoolTypeOK
<1>3. CASE RemoveSent(p)
  BY <1>3 DEF RemoveSent, Remove, Partition, SpoolTypeOK
<1>4. CASE StoreFails(p)
  BY <1>4 DEF StoreFails, Remove, Partition, SpoolTypeOK
<1>5. dir' = dir \/ Stage(p) \/ Publish(p) \/ RemoveSent(p) \/ StoreFails(p)
  BY DEF Step, Forwarder, Start, Produce, Close, Crash, Join, ReadNext, SendStored,
       DrainEnds, Receive, SendLive, Retry
<1> QED
  BY <1>1, <1>2, <1>3, <1>4, <1>5

\* The rename of one governor is not disturbed by another.
LEMMA DraftStays ==
  ASSUME SpoolTypeOK, SpoolTypeOK', Sessions, Hands, Owned, Filed, Drafted,
         NEW p \in Procs, Step(p), NEW q \in Procs, q # p, pc[q] = "publish"
  PROVE  /\ Draft(q) \in dir'[Key[q]]
         /\ \A f \in dir'[Key[q]] : f.batch = hand[q] => f = Draft(q)
         /\ hand'[q] = hand[q] /\ Draft(q)' = Draft(q)
<1>1. /\ Draft(q) \in dir[Key[q]] /\ Draft(q).ext = "tmp" /\ Draft(q).batch = hand[q]
      /\ \A f \in dir[Key[q]] : f.batch = hand[q] => f = Draft(q)
      /\ hand[q] \in InMemory(q) /\ Key[q] \in Environments
  BY DraftIs, MemoryOf, SpoolAssumption DEF Hands
<1>2. \A b \in InMemory(p) : b # hand[q]
  BY <1>1, HandsDiffer
<1>3. Draft(q) \in dir'[Key[q]]
  <2>1. RemoveSent(p) => Oldest(plan[p]).ext = "ndjson"
    BY Sending DEF Filed, RemoveSent, SpoolTypeOK
  <2>2. pc[p] = "publish" => Draft(p).batch = hand[p] /\ hand[p] \in InMemory(p)
    BY DraftIs, MemoryOf DEF Hands
  <2> QED
    BY <1>1, <1>2, <2>1, <2>2, FilesGone
<1>4. \A f \in dir'[Key[q]] : f.batch = hand[q] => f = Draft(q)
  <2> SUFFICES ASSUME NEW f \in dir'[Key[q]], f.batch = hand[q], f \notin dir[Key[q]]
               PROVE  FALSE
    BY <1>1
  <2>1. (Stage(p) /\ f = Begun(p)) \/ (Publish(p) /\ f = Published(p))
    BY <1>1, FilesAdded
  <2>2. Stage(p) \/ Publish(p) => hand[p] \in InMemory(p)
    BY MemoryOf DEF Stage, Publish, Hands
  <2>3. Publish(p) => Published(p).batch = hand[p]
    BY DraftIs DEF Publish
  <2> QED
    BY <1>2, <2>1, <2>2, <2>3 DEF Begun
<1>5. hand'[q] = hand[q]
  BY Elsewhere
<1>6. Draft(q)' = Draft(q)
  BY <1>1, <1>3, <1>4, <1>5 DEF Draft, Partition
<1> QED
  BY <1>3, <1>4, <1>5, <1>6

\* The listing of a governor is taken as it starts and only shrinks: by what
\* is gone from the outbox, or all at once.
LEMMA PlanStep ==
  ASSUME SpoolTypeOK, NEW p \in Procs, Step(p), NEW q \in Procs
  PROVE  \/ plan'[q] = plan[q]
         \/ q = p /\ plan'[q] = {}
         \/ q = p /\ Start(p) /\ plan'[q] = Entries(dir[Key[p]]) /\ dir' = dir
         \/ /\ q = p /\ plan[p] # {} /\ plan'[q] = plan[q] \ {Oldest(plan[q])}
            /\ Oldest(plan[q]) \notin dir'[Key[q]]
<1>1. CASE q # p
  BY <1>1, Elsewhere
<1>2. CASE q = p
  <2>1. CASE Start(p)
    BY <1>2, <2>1, Places DEF Start, SpoolTypeOK
  <2>2. CASE Crash(p) \/ Join(p)
    BY <1>2, <2>2 DEF Crash, Join, Gone, SpoolTypeOK
  <2>3. CASE ReadNext(p)
    BY <1>2, <2>3 DEF ReadNext, SpoolTypeOK, Partition
  <2>4. CASE SendStored(p)
    BY <1>2, <2>4 DEF SendStored, SpoolTypeOK
  <2>5. CASE RemoveSent(p)
    <3>1. Key[p] \in Environments
      BY SpoolAssumption
    <3> QED
      BY <1>2, <2>5, <3>1 DEF RemoveSent, Remove, Partition, SpoolTypeOK
  <2>6. plan' = plan \/ Start(p) \/ Crash(p) \/ Join(p) \/ ReadNext(p) \/ SendStored(p)
        \/ RemoveSent(p)
    BY DEF Step, Forwarder, Produce, Close, DrainEnds, Receive, SendLive, Retry, Stage,
         Publish, StoreFails, procVars
  <2> QED
    BY <2>1, <2>2, <2>3, <2>4, <2>5, <2>6
<1> QED
  BY <1>1, <1>2

LEMMA ClockGrows ==
  ASSUME SpoolTypeOK, NEW p \in Procs, Step(p)
  PROVE  clock' \in Nat /\ clock \in Nat /\ clock <= clock'
<1>1. clock \in Nat
  BY SpoolAssumption DEF SpoolTypeOK
<1>2. clock' = clock \/ clock' = clock + 1
  BY DEF Step, Forwarder, Start, Produce, Close, Crash, Join, ReadNext, SendStored, RemoveSent,
       DrainEnds, Receive, SendLive, Retry, Stage, Publish, StoreFails, procVars
<1> QED
  BY <1>1, <1>2

LEMMA FiledStep ==
  ASSUME SpoolTypeOK, SpoolTypeOK', Sessions, Hands, Numbered, Owned, Filed, Drafted,
         NEW p \in Procs, Step(p)
  PROVE  Filed'
<1>1. ASSUME NEW e \in Environments, NEW f \in dir'[e]
      PROVE  /\ f.batch \in made' /\ f.batch.env = e /\ f.at <= clock'
             /\ f.ext = "ndjson" => f.whole
  <2>1. made \subseteq made' /\ clock' \in Nat /\ clock \in Nat /\ clock <= clock'
    BY NumberedStep, ClockGrows
  <2>2. CASE f \in dir[e]
    <3>1. f.at \in Nat
      BY <2>2, SpoolAssumption DEF SpoolTypeOK, Files
    <3> QED
      BY <2>1, <2>2, <3>1 DEF Filed
  <2>3. CASE f \notin dir[e]
    <3>1. e = Key[p] /\ ((Stage(p) /\ f = Begun(p)) \/ (Publish(p) /\ f = Published(p)))
      BY <1>1, <2>3, FilesAdded
    <3>2. hand[p] \in made /\ hand[p].env = Key[p]
      BY <3>1, MemoryOf DEF Stage, Publish, Hands, Owned
    <3>3. CASE Stage(p) /\ f = Begun(p)
      BY <2>1, <3>1, <3>2, <3>3 DEF Begun, Stage
    <3>4. CASE Publish(p) /\ f = Published(p)
      <4>1. /\ Draft(p) \in dir[Key[p]] /\ f.at = Draft(p).at /\ f.batch = hand[p]
            /\ f.whole
        BY <3>4, DraftIs DEF Publish
      <4>2. Draft(p).at <= clock /\ Draft(p).at \in Nat
        BY <3>4, <4>1, SpoolAssumption, DraftIs DEF Filed, Files, Publish
      <4> QED
        BY <2>1, <3>1, <3>2, <4>1, <4>2
    <3> QED
      BY <3>1, <3>3, <3>4
  <2> QED
    BY <2>2, <2>3
<1>2. ASSUME NEW q \in Procs, NEW f \in plan'[q]
      PROVE  f.ext = "ndjson" /\ f.whole /\ f.batch.env = Key[q] /\ f.at <= clock'
  <2>1. f \in plan[q] \/ f \in Entries(dir[Key[q]])
    BY <1>2, PlanStep
  <2>2. f.ext = "ndjson" /\ f.whole /\ f.batch.env = Key[q] /\ f.at <= clock
    BY <2>1, SpoolAssumption DEF Filed, Entries
  <2>3. f.at \in Nat
    <3>1. f \in Files
      BY <2>1, Places DEF SpoolTypeOK, Entries
    <3> QED
      BY <3>1, SpoolAssumption DEF Files
  <2> QED
    BY <2>2, <2>3, ClockGrows
<1> QED
  BY <1>1, <1>2 DEF Filed

\* A governor comes to its rename by staging a batch, and waits there.
LEMMA AtRename ==
  ASSUME SpoolTypeOK, NEW p \in Procs, Step(p), pc'[p] = "publish"
  PROVE  \/ Stage(p) /\ hand' = hand /\ session' = session /\ plan' = plan
         \/ /\ pc[p] = "publish" /\ dir' = dir /\ hand' = hand /\ session' = session
            /\ plan' = plan
BY DEF Step, Forwarder, Start, Produce, Close, Crash, Join, Gone, ReadNext, SendStored,
     RemoveSent, DrainEnds, Receive, SendLive, Retry, Stage, Publish, StoreFails, procVars,
     SpoolTypeOK

LEMMA UnfiledStep ==
  ASSUME SpoolTypeOK, SpoolTypeOK', Sessions, Hands, Numbered, Owned,
         Ordered, Filed, Unfiled, Drafted, NEW p \in Procs, Step(p)
  PROVE  Unfiled'
<1> SUFFICES ASSUME NEW q \in Procs, NEW b \in InMemory(q)', NEW e \in Environments,
                    NEW f \in dir'[e], f.batch = b
             PROVE  pc'[q] = "publish" /\ b = hand'[q] /\ f.ext = "tmp"
  BY DEF Unfiled
<1>1. CASE b \notin InMemory(q)
  <2>1. \E size \in Sizes : b = Made(p, size)
    BY <1>1, Remembered
  <2>2. b \notin made
    BY <1>1, Remembered, MadeType
  <2>3. f \notin dir[e]
    BY <2>2 DEF Filed
  <2>4. (Stage(p) /\ f = Begun(p)) \/ (Publish(p) /\ f = Published(p))
    BY <2>3, FilesAdded
  <2>5. f.batch = hand[p] /\ hand[p] \in InMemory(p)
    BY <2>4, DraftIs, MemoryOf DEF Begun, Stage, Publish, Hands
  <2> QED
    BY <2>2, <2>5 DEF Owned
<1>2. ASSUME b \in InMemory(q), q = p, b = hand[p], pc[p] = "publish"
      PROVE  pc'[p] = "publish" /\ hand'[p] = hand[p]
  <2>1. \/ pc'[p] = "publish" /\ hand'[p] = hand[p]
        \/ hand'[p] = NoBatch /\ (channel'[p] = channel[p] \/ channel'[p] = <<>>)
    BY <1>2 DEF Step, Forwarder, Start, Produce, Close, Crash, Join, Gone, ReadNext, SendStored,
         RemoveSent, DrainEnds, Receive, SendLive, Retry, Stage, Publish, StoreFails, procVars,
         SpoolTypeOK
  <2>2. ASSUME hand'[p] = NoBatch, channel'[p] = channel[p]
        PROVE  FALSE
    <3>1. PICK i \in 1 .. Len(channel[p]) : b = channel[p][i]
      BY <1>2, <2>2 DEF InMemory, SpoolTypeOK
    <3>2. hand[p].id < b.id
      BY <3>1 DEF Ordered
    <3>3. b.id \in Nat
      BY <1>2, Storing, SpoolAssumption DEF Batches
    <3> QED
      BY <1>2, <3>2, <3>3
  <2>3. ASSUME hand'[p] = NoBatch, channel'[p] = <<>>
        PROVE  FALSE
    BY <1>2, <2>3 DEF InMemory
  <2> QED
    BY <2>1, <2>2, <2>3
<1>3. CASE b \in InMemory(q) /\ f \in dir[e]
  <2>1. pc[q] = "publish" /\ b = hand[q] /\ f.ext = "tmp"
    BY <1>3 DEF Unfiled
  <2>2. CASE q = p
    BY <1>2, <1>3, <2>1, <2>2
  <2>3. CASE q # p
    BY <2>1, <2>3, Elsewhere
  <2> QED
    BY <2>2, <2>3
<1>4. CASE b \in InMemory(q) /\ f \notin dir[e]
  <2>1. (Stage(p) /\ f = Begun(p)) \/ (Publish(p) /\ f = Published(p))
    BY <1>4, FilesAdded
  <2>2. b = hand[p] /\ hand[p] \in InMemory(p)
    BY <2>1, DraftIs, MemoryOf DEF Begun, Stage, Publish, Hands
  <2>3. q = p
    BY <1>4, <2>2, HandsDiffer
  <2>4. CASE Stage(p) /\ f = Begun(p)
    BY <2>2, <2>3, <2>4 DEF Stage, Begun, procVars, SpoolTypeOK
  <2>5. CASE Publish(p)
    BY <1>2, <1>4, <2>2, <2>3, <2>5 DEF Publish, SpoolTypeOK
  <2> QED
    BY <2>1, <2>4, <2>5
<1> QED
  BY <1>1, <1>3, <1>4

LEMMA DraftedStep ==
  ASSUME SpoolTypeOK, SpoolTypeOK', Sessions, Hands, Owned, Filed, Unfiled, Drafted,
         NEW p \in Procs, Step(p)
  PROVE  Drafted'
<1> SUFFICES ASSUME NEW q \in Procs, pc'[q] = "publish"
             PROVE  /\ \E f \in dir'[Key[q]] : f.ext = "tmp" /\ f.batch = hand'[q]
                    /\ \A f, g \in dir'[Key[q]] : f.batch = hand'[q] /\ g.batch = hand'[q] => f = g
  BY DEF Drafted
<1>1. CASE q # p
  <2>1. pc[q] = "publish"
    BY <1>1, Elsewhere
  <2> QED
    BY <1>1, <2>1, DraftIs, DraftStays
<1>2. CASE q = p /\ Stage(p)
  <2>1. Begun(p) \in dir'[Key[p]] /\ Key[p] \in Environments /\ hand'[p] = hand[p]
    BY <1>2, Places DEF Stage, Begun, Partition, procVars, SpoolTypeOK
  <2>2. hand[p] \in InMemory(p) /\ pc[p] = "store"
    BY <1>2, MemoryOf DEF Stage, Hands
  <2>3. \A f \in dir'[Key[p]] : f.batch = hand[p] => f = Begun(p)
    BY <1>2, <2>1, <2>2, FilesAdded DEF Unfiled, Publish
  <2> QED
    BY <1>2, <2>1, <2>3 DEF Begun
<1>3. CASE q = p /\ pc[p] = "publish" /\ dir' = dir /\ hand' = hand
  BY <1>3 DEF Drafted
<1> QED
  BY <1>1, <1>2, <1>3, AtRename

LEMMA AnsweredStep ==
  ASSUME SpoolTypeOK, SpoolTypeOK', Hands, Owned, Filed, Answered, NEW p \in Procs, Step(p)
  PROVE  Answered'
<1> SUFFICES ASSUME NEW q \in Procs, pc'[q] = "remove", NEW b, b = Oldest(plan'[q]).batch
             PROVE  Delivered(b)' \/ DroppedAs(b, {"refusedStored"})'
  BY DEF Answered, Delivered, DroppedAs
<1>1. CASE pc[q] = "remove" /\ plan'[q] = plan[q]
  <2>1. Delivered(b) \/ DroppedAs(b, {"refusedStored"})
    BY <1>1 DEF Answered, Delivered, DroppedAs
  <2>2. Delivered(b) => Delivered(b)'
    BY DeliveredStays
  <2>3. DroppedAs(b, {"refusedStored"}) => DroppedAs(b, {"refusedStored"})'
    BY DroppedGrows DEF DroppedAs
  <2> QED
    BY <1>1, <2>1, <2>2, <2>3
<1>2. CASE q = p /\ SendStored(p)
  <2> PICK f : f = Oldest(plan[p])
    OBVIOUS
  <2>1. plan[p] # {} /\ plan'[p] = plan[p]
    BY <1>2 DEF SendStored, SpoolTypeOK
  <2>2. f.whole = TRUE /\ Key[p] \in Environments /\ f.batch \in Batches
    BY <2>1, Sending, SpoolAssumption DEF Filed
  <2>3. \/ cloud' = [cloud EXCEPT ![Key[p]] = @ \cup {[batch |-> f.batch, whole |-> f.whole]}]
        \/ dropped' = dropped \cup {[batch |-> f.batch, cause |-> "refusedStored"]}
    BY <1>2 DEF SendStored, Attempt, Outcomes, SpoolTypeOK
  <2>4. CASE cloud' = [cloud EXCEPT ![Key[p]] = @ \cup {[batch |-> f.batch, whole |-> f.whole]}]
    <3>1. [batch |-> f.batch, whole |-> TRUE] \in cloud'[Key[p]]
      BY <2>2, <2>4 DEF SpoolTypeOK
    <3> QED
      BY <1>2, <2>1, <2>2, <3>1 DEF Delivered
  <2>5. CASE dropped' = dropped \cup {[batch |-> f.batch, cause |-> "refusedStored"]}
    <3>1. PICK d \in dropped' : d = [batch |-> f.batch, cause |-> "refusedStored"]
      BY <2>5
    <3>2. d.batch = b /\ d.cause = "refusedStored"
      BY <1>2, <2>1, <3>1
    <3> QED
      BY <3>2 DEF DroppedAs
  <2> QED
    BY <2>3, <2>4, <2>5
<1>3. \/ pc[q] = "remove" /\ plan'[q] = plan[q]
      \/ q = p /\ SendStored(p)
  <2>1. CASE q = p
    BY <2>1 DEF Step, Forwarder, Start, Produce, Close, Crash, Join, Gone, ReadNext,
         RemoveSent, DrainEnds, Receive, SendLive, Retry, Stage, Publish, StoreFails, procVars,
         SpoolTypeOK
  <2> QED
    BY <2>1, Elsewhere
<1> QED
  BY <1>1, <1>2, <1>3

LEMMA DraftsLastStep ==
  ASSUME SpoolTypeOK, SpoolTypeOK', Sessions, Hands, Owned, Filed, Filed', Unfiled, Drafted,
         Drafted', DraftsLast, NEW p \in Procs, Step(p)
  PROVE  DraftsLast'
<1> SUFFICES ASSUME NEW q \in Procs, pc'[q] = "publish", NEW f,
                    \/ \E e \in Environments : f \in Entries(dir'[e])
                    \/ \E r \in Procs : f \in plan'[r],
                    f.batch.session = session'[q]
             PROVE  f.at < Draft(q)'.at
  BY DEF DraftsLast
<1>1. CASE q # p
  <2>1. pc[q] = "publish" /\ session'[q] = session[q] /\ Draft(q)' = Draft(q)
        /\ hand[q] \in InMemory(q)
    BY <1>1, Elsewhere, DraftStays, MemoryOf DEF Hands
  <2>2. \/ \E e \in Environments : f \in Entries(dir[e])
        \/ \E r \in Procs : f \in plan[r]
    <3>1. ASSUME NEW r \in Procs, f \in plan'[r], f \notin plan[r]
          PROVE  f \in Entries(dir[Key[r]]) /\ Key[r] \in Environments
      BY <3>1, PlanStep, SpoolAssumption
    <3>2. ASSUME NEW e \in Environments, f \in Entries(dir'[e]), f \notin dir[e]
          PROVE  FALSE
      <4>1. f \in dir'[e] /\ f.ext = "ndjson"
        BY <3>2 DEF Entries
      <4>2. Publish(p) /\ f = Published(p)
        BY <3>2, <4>1, FilesAdded DEF Begun
      <4>3. f.batch = hand[p] /\ hand[p] \in InMemory(p)
        BY <4>2, DraftIs, MemoryOf DEF Publish, Hands
      <4>4. hand[p].session = session[p] /\ session[p] # session[q]
        BY <1>1, <2>1, <4>3, HandsDiffer DEF Owned
      <4> QED
        BY <2>1, <4>3, <4>4
    <3> QED
      BY <3>1, <3>2 DEF Entries
  <2> QED
    BY <2>1, <2>2 DEF DraftsLast
<1>2. CASE q = p /\ Stage(p) /\ hand' = hand /\ session' = session /\ plan' = plan
  <2>1. Begun(p) \in dir'[Key[p]] /\ Key[p] \in Environments /\ pc'[p] = "publish"
    BY <1>2, Places DEF Stage, Begun, Partition, SpoolTypeOK
  <2>2. /\ Draft(p)' \in dir'[Key[p]] /\ Draft(p)'.batch = hand'[p]
    <3>1. \E g \in dir'[Key[p]] : g.ext = "tmp" /\ g.batch = hand'[p]
      BY <2>1 DEF Drafted
    <3> QED
      BY <3>1 DEF Draft, Partition
  <2>3. Draft(p)' = Begun(p)
    BY <1>2, <2>1, <2>2 DEF Drafted, Begun
  <2>4. clock \in Nat /\ f.at <= clock /\ f \in Files
    <3>1. clock \in Nat
      BY SpoolAssumption DEF SpoolTypeOK
    <3>2. ASSUME NEW r \in Procs, f \in plan'[r]
          PROVE  f.at <= clock /\ f \in Files
      BY <1>2, <3>2 DEF Filed, SpoolTypeOK
    <3>3. ASSUME NEW e \in Environments, f \in Entries(dir'[e])
          PROVE  f.at <= clock /\ f \in Files
      <4>1. f \in dir'[e] /\ f.ext = "ndjson"
        BY <3>3 DEF Entries
      <4>2. f \in dir[e]
        <5>1. ~ Publish(p) /\ Begun(p).ext = "tmp"
          BY <1>2 DEF Stage, Publish, Begun
        <5> QED
          BY <3>3, <4>1, <5>1, FilesAdded
      <4> QED
        BY <4>2 DEF Filed, SpoolTypeOK
    <3> QED
      BY <3>1, <3>2, <3>3
  <2>5. f.at \in Nat /\ Begun(p).at = clock + 1
    BY <2>4, SpoolAssumption DEF Files, Begun
  <2> QED
    BY <1>2, <2>3, <2>4, <2>5
<1>3. CASE /\ q = p /\ pc[p] = "publish"
           /\ dir' = dir /\ hand' = hand /\ session' = session /\ plan' = plan
  <2>1. Draft(p)' = Draft(p)
    BY <1>3 DEF Draft
  <2> QED
    BY <1>3, <2>1 DEF DraftsLast
<1> QED
  BY <1>1, <1>2, <1>3, AtRename

LEMMA ListingStep ==
  ASSUME SpoolTypeOK, Hands, Owned, Filed, Drafted, DraftsLast, Listing,
         NEW p \in Procs, Step(p)
  PROVE  Listing'
<1> SUFFICES ASSUME NEW q \in Procs, NEW f \in plan'[q], NEW g \in Entries(dir'[Key[q]]),
                    g.batch.session = f.batch.session
             PROVE  g \in plan'[q] \/ f.at < g.at
  BY DEF Listing
<1>1. g \in dir'[Key[q]] /\ g.ext = "ndjson" /\ Key[q] \in Environments
  BY SpoolAssumption DEF Entries
<1>2. CASE q = p /\ Start(p) /\ plan'[q] = Entries(dir[Key[p]]) /\ dir' = dir
  BY <1>2
<1>3. CASE f \in plan[q] /\ g \in dir[Key[q]]
  <2>1. g \in plan[q] \/ f.at < g.at
    BY <1>1, <1>3 DEF Listing, Entries
  <2>2. g \in plan[q] => g \in plan'[q] \/ (q = p /\ Start(p) /\ plan'[q] = Entries(dir[Key[p]]) /\ dir' = dir)
    BY <1>1, PlanStep
  <2> QED
    BY <1>2, <2>1, <2>2
<1>4. CASE f \in plan[q] /\ g \notin dir[Key[q]]
  <2>1. Publish(p) /\ g = Published(p)
    BY <1>1, <1>4, FilesAdded DEF Begun
  <2>2. /\ pc[p] = "publish" /\ g.at = Draft(p).at /\ g.batch = hand[p]
        /\ hand[p] \in InMemory(p)
    BY <2>1, DraftIs, MemoryOf DEF Publish, Hands
  <2>3. f.batch.session = session[p]
    BY <2>2 DEF Owned
  <2> QED
    BY <1>4, <2>2, <2>3 DEF DraftsLast
<1>5. f \in plan[q] \/ (q = p /\ Start(p) /\ plan'[q] = Entries(dir[Key[p]]) /\ dir' = dir)
  BY PlanStep
<1> QED
  BY <1>2, <1>3, <1>4, <1>5

-----------------------------------------------------------------------------
(* The theorems *)

SpoolInductive ==
  /\ SpoolInvariant
  /\ Sessions /\ Hands /\ Numbered /\ Owned /\ Ordered /\ ClockBound
  /\ Filed /\ Unfiled /\ Drafted /\ Answered /\ DraftsLast /\ Listing

LEMMA SpoolInductiveInit == SpoolInit => SpoolInductive
<1> SUFFICES ASSUME SpoolInit
             PROVE  SpoolInductive
  OBVIOUS
<1>1. SpoolTypeOK
  BY SpoolInitType
<1>2. \A p \in Procs : InMemory(p) = {}
  BY DEF SpoolInit, InMemory
<1>3. Waiting = {}
  BY DEF SpoolInit, Waiting
<1>4. Sessions /\ Hands /\ Owned /\ Ordered
  BY <1>2 DEF SpoolInit, Sessions, Hands, Owned, Ordered, Running
<1>5. IsFiniteSet({}) /\ Cardinality({}) = 0
  BY FS_EmptySet
<1>6. Numbered /\ ClockBound
  BY <1>3, <1>5, SpoolAssumption DEF SpoolInit, Numbered, ClockBound
<1>7. Filed /\ Unfiled /\ Drafted /\ Answered /\ DraftsLast /\ Listing
  BY <1>2 DEF SpoolInit, Filed, Unfiled, Drafted, Answered, DraftsLast, Listing
<1>8. EnvironmentsSeparate /\ OnlyWholeBatches
  BY DEF SpoolInit, EnvironmentsSeparate, OnlyWholeBatches
<1> QED
  BY <1>1, <1>4, <1>6, <1>7, <1>8 DEF SpoolInductive, SpoolInvariant

LEMMA SpoolInductiveStep == SpoolInductive /\ [SpoolNext]_spoolVars => SpoolInductive'
<1> SUFFICES ASSUME SpoolInductive, [SpoolNext]_spoolVars
             PROVE  SpoolInductive'
  OBVIOUS
<1>1. /\ SpoolTypeOK /\ EnvironmentsSeparate /\ OnlyWholeBatches
      /\ Sessions /\ Hands /\ Numbered /\ Owned /\ Ordered /\ ClockBound
      /\ Filed /\ Unfiled /\ Drafted /\ Answered /\ DraftsLast /\ Listing
  BY DEF SpoolInductive, SpoolInvariant
<1>2. ASSUME NEW p \in Procs, Step(p)
      PROVE  SpoolInductive'
  <2>1. SpoolTypeOK'
    BY <1>1, <1>2, SpoolTypeStep
  <2>2. Sessions' /\ Hands' /\ Numbered' /\ Ordered'
    BY <1>1, <1>2, <2>1, SessionsStep, HandsStep, NumberedStep, OrderedStep
  <2>3. Owned' /\ ClockBound'
    BY <1>1, <1>2, <2>1, <2>2, OwnedStep, ClockStep
  <2>4. Filed' /\ Unfiled' /\ Drafted' /\ Answered'
    BY <1>1, <1>2, <2>1, FiledStep, UnfiledStep, DraftedStep, AnsweredStep
  <2>5. DraftsLast' /\ Listing'
    BY <1>1, <1>2, <2>1, <2>4, DraftsLastStep, ListingStep
  <2>6. EnvironmentsSeparate' /\ OnlyWholeBatches'
    BY <1>1, <1>2, CloudStep DEF EnvironmentsSeparate, OnlyWholeBatches
  <2> QED
    BY <2>1, <2>2, <2>3, <2>4, <2>5, <2>6 DEF SpoolInductive, SpoolInvariant
<1>3. CASE UNCHANGED spoolVars
  <2>1. SpoolTypeOK' /\ EnvironmentsSeparate' /\ OnlyWholeBatches'
    BY <1>1, <1>3 DEF spoolVars, procVars, SpoolTypeOK, EnvironmentsSeparate, OnlyWholeBatches
  <2>2. Sessions' /\ Hands' /\ Numbered' /\ Owned' /\ Ordered' /\ ClockBound'
    BY <1>1, <1>3 DEF spoolVars, procVars, Sessions, Running, Hands, Numbered, Owned, InMemory,
         Ordered, ClockBound, Waiting, Unstaged, Queued
  <2>3. Filed' /\ Unfiled' /\ Drafted' /\ Answered' /\ DraftsLast' /\ Listing'
    BY <1>1, <1>3 DEF spoolVars, procVars, Filed, Unfiled, InMemory, Drafted, Answered, Delivered,
         DroppedAs, DraftsLast, Draft, Listing
  <2> QED
    BY <2>1, <2>2, <2>3 DEF SpoolInductive, SpoolInvariant
<1> QED
  BY <1>2, <1>3 DEF SpoolNext, Step

\* What is on disk and what the cloud has taken keep their form, for any number
\* of governors sharing an app directory: no batch reaches the other side of the
\* cloud, and none goes out in part.
THEOREM SpoolKeepsForm == SpoolSpec => []SpoolInvariant
<1>1. SpoolInductive => SpoolInvariant
  BY DEF SpoolInductive
<1> QED
  BY <1>1, SpoolInductiveInit, SpoolInductiveStep, PTL DEF SpoolSpec

\* The drain posts what one governor stored in the order it stored it, whoever
\* else writes to the outbox meanwhile: what is not in its listing is newer.
THEOREM DrainKeepsOrder == SpoolSpec => []DrainInOrder
<1>1. SpoolInductive => DrainInOrder
  <2> SUFFICES ASSUME SpoolInductive, NEW p \in Procs, pc[p] = "sendStored",
                      NEW g \in Entries(dir[Oldest(plan[p]).batch.env]),
                      g.batch.session = Oldest(plan[p]).batch.session
               PROVE  Oldest(plan[p]).at <= g.at
    BY DEF DrainInOrder
  <2>1. /\ Oldest(plan[p]) \in plan[p] /\ \A h \in plan[p] : Oldest(plan[p]).at <= h.at
        /\ Oldest(plan[p]) \in Files
    BY Sending DEF SpoolInductive, SpoolInvariant, SpoolTypeOK
  <2>2. Oldest(plan[p]).batch.env = Key[p]
    BY <2>1 DEF SpoolInductive, Filed
  <2>3. g \in plan[p] \/ Oldest(plan[p]).at < g.at
    BY <2>1, <2>2 DEF SpoolInductive, Listing
  <2>4. g.at \in Nat /\ Oldest(plan[p]).at \in Nat
    <3>1. g \in Files
      BY <2>2, Places DEF SpoolInductive, SpoolInvariant, Entries
    <3> QED
      BY <2>1, <3>1, SpoolAssumption DEF Files
  <2> QED
    BY <2>1, <2>3, <2>4
<1> QED
  BY <1>1, SpoolInductiveInit, SpoolInductiveStep, PTL DEF SpoolSpec

-----------------------------------------------------------------------------
(* No batch is lost *)

\* A file leaves the outbox once the cloud has it or has refused it, or for the cap.
LEMMA HeldStep ==
  ASSUME SpoolInductive, NEW p \in Procs, Step(p), NEW b, Held(b)
  PROVE  Held(b)' \/ Delivered(b)' \/ DroppedAs(b, {"refusedStored", "outboxFull"})'
<1>1. /\ SpoolTypeOK /\ Hands /\ Owned /\ Filed /\ Drafted /\ Answered
  BY DEF SpoolInductive, SpoolInvariant
<1> PICK e \in Environments : \E f \in Entries(dir[e]) : f.batch = b
  BY DEF Held
<1>2. PICK f \in dir[e] : f.ext = "ndjson" /\ f.batch = b
  BY DEF Entries
<1>3. CASE f \in dir'[e]
  BY <1>2, <1>3 DEF Held, Entries
<1>4. CASE [batch |-> f.batch, cause |-> "outboxFull"] \in dropped'
  <2>1. PICK d \in dropped' : d = [batch |-> f.batch, cause |-> "outboxFull"]
    BY <1>4
  <2>2. d.batch = b /\ d.cause = "outboxFull"
    BY <1>2, <2>1
  <2> QED
    BY <2>2 DEF DroppedAs
<1>5. CASE RemoveSent(p) /\ f = Oldest(plan[p])
  <2>1. Delivered(b) \/ DroppedAs(b, {"refusedStored"})
    BY <1>1, <1>2, <1>5 DEF Answered, Delivered, DroppedAs, RemoveSent
  <2>2. Delivered(b) => Delivered(b)'
    BY <1>1, DeliveredStays
  <2>3. DroppedAs(b, {"refusedStored"}) => DroppedAs(b, {"refusedStored", "outboxFull"})'
    BY DroppedGrows DEF DroppedAs
  <2> QED
    BY <2>1, <2>2, <2>3
<1>6. CASE pc[p] = "publish" /\ f = Draft(p)
  BY <1>1, <1>2, <1>6, DraftIs
<1> QED
  BY <1>1, <1>2, <1>3, <1>4, <1>5, <1>6, FilesGone

\* A batch leaves the memory of its governor for the cloud, the outbox, or the
\* record of what was given up.
LEMMA MemoryStep ==
  ASSUME SpoolInductive, NEW p \in Procs, Step(p), NEW q \in Procs, Running(q),
         NEW b \in InMemory(q)
  PROVE  \/ Running(q)' /\ b \in InMemory(q)'
         \/ Delivered(b)' \/ Held(b)' \/ DroppedAs(b, Causes)'
<1>1. SpoolTypeOK /\ Hands /\ Owned /\ Filed /\ Drafted
  BY DEF SpoolInductive, SpoolInvariant
<1>2. CASE q # p
  <2>1. pc'[q] = pc[q] /\ hand'[q] = hand[q] /\ channel'[q] = channel[q]
    BY <1>1, <1>2, Elsewhere
  <2> QED
    BY <2>1 DEF Running, InMemory
<1>3. CASE q = p
  <2>1. ASSUME hand'[p] = hand[p], channel'[p] = channel[p], Running(p)'
        PROVE  Running(q)' /\ b \in InMemory(q)'
    BY <1>3, <2>1 DEF InMemory
  <2>2. ASSUME b # hand[p], channel'[p] = channel[p], Running(p)'
        PROVE  Running(q)' /\ b \in InMemory(q)'
    BY <1>3, <2>2 DEF InMemory
  <2>3. ASSUME NEW cause \in Causes, [batch |-> b, cause |-> cause] \in dropped'
        PROVE  DroppedAs(b, Causes)'
    <3>1. PICK d \in dropped' : d = [batch |-> b, cause |-> cause]
      BY <2>3
    <3>2. d.batch = b /\ d.cause \in Causes
      BY <3>1
    <3> QED
      BY <3>2 DEF DroppedAs
  <2>4. CASE Crash(p)
    <3>1. [batch |-> b, cause |-> "killed"] \in dropped'
      BY <1>3, <2>4 DEF Crash
    <3> QED
      BY <2>3, <3>1 DEF Causes
  <2>5. CASE Join(p)
    BY <1>1, <1>3, <2>5, MemoryOf DEF Join, Hands
  <2>6. CASE Produce(p)
    <3>1. PICK size \in Sizes : channel'[p] = Append(channel[p], Made(p, size))
      BY <1>1, <2>6 DEF Produce, Made, SpoolTypeOK
    <3>2. \A i \in 1 .. Len(channel[p]) :
            i \in DOMAIN channel'[p] /\ channel'[p][i] = channel[p][i]
      <4>1. channel[p] \in Seq(Batches)
        BY <1>1 DEF SpoolTypeOK
      <4> HIDE DEF Made
      <4> QED
        BY <3>1, <4>1
    <3>3. hand' = hand /\ pc' = pc
      BY <2>6 DEF Produce
    <3> QED
      BY <1>1, <1>3, <3>2, <3>3, MemoryOf DEF InMemory, Running
  <2>7. CASE Receive(p)
    <3>1. /\ channel[p] \in Seq(Batches) /\ channel[p] # <<>> /\ hand[p] = NoBatch
          /\ hand'[p] = Head(channel[p]) /\ channel'[p] = Tail(channel[p])
          /\ pc'[p] = "sendLive"
      BY <1>1, <2>7 DEF Receive, SpoolTypeOK, Hands
    <3>2. PICK i \in 1 .. Len(channel[p]) : b = channel[p][i]
      BY <1>1, <1>3, <3>1, MemoryOf
    <3>3. CASE i = 1
      BY <1>1, <1>3, <3>1, <3>2, <3>3, NoBatchIsNone DEF InMemory, Running
    <3>4. CASE i # 1
      <4>1. i - 1 \in DOMAIN channel'[p] /\ channel'[p][i - 1] = b
        BY <3>1, <3>2, <3>4
      <4> QED
        BY <1>3, <3>1, <4>1 DEF InMemory, Running
    <3> QED
      BY <3>3, <3>4
  <2>8. CASE SendLive(p)
    <3>1. /\ channel' = channel /\ Running(p)' /\ hand[p] \in Batches
          /\ Key[p] \in Environments
      BY <1>1, <2>8, Storing, SpoolAssumption DEF SendLive, SpoolTypeOK, Running
    <3>2. \/ hand'[p] = hand[p]
          \/ cloud' = [cloud EXCEPT ![Key[p]] = @ \cup {[batch |-> hand[p], whole |-> TRUE]}]
          \/ dropped' = dropped \cup {[batch |-> hand[p], cause |-> "refusedLive"]}
      BY <2>8 DEF SendLive, Attempt
    <3>3. CASE b = hand[p] /\
               cloud' = [cloud EXCEPT ![Key[p]] = @ \cup {[batch |-> hand[p], whole |-> TRUE]}]
      <4>1. [batch |-> b, whole |-> TRUE] \in cloud'[Key[p]]
        BY <1>1, <3>1, <3>3 DEF SpoolTypeOK
      <4> QED
        BY <3>1, <4>1 DEF Delivered
    <3>4. CASE b = hand[p] /\
               dropped' = dropped \cup {[batch |-> hand[p], cause |-> "refusedLive"]}
      BY <2>3, <3>4 DEF Causes
    <3> QED
      BY <2>1, <2>2, <3>1, <3>2, <3>3, <3>4
  <2>9. CASE Publish(p)
    <3>1. pc[p] = "publish" /\ channel' = channel /\ Running(p)' /\ Key[p] \in Environments
      BY <1>1, <2>9, SpoolAssumption DEF Publish, SpoolTypeOK, Running
    <3>2. Published(p) \in dir'[Key[p]]
      BY <1>1, <2>9, <3>1 DEF Publish, Published, Partition, SpoolTypeOK
    <3>3. Published(p).batch = hand[p] /\ Published(p).ext = "ndjson"
      BY <1>1, <3>1, DraftIs
    <3>4. b = hand[p] => Held(b)'
      <4>1. PICK f \in dir'[Key[p]] : f = Published(p)
        BY <3>2
      <4> QED
        BY <3>1, <3>3, <4>1 DEF Held, Entries
    <3> QED
      BY <2>2, <3>1, <3>4
  <2>10. CASE StoreFails(p)
    <3>1. channel' = channel /\ Running(p)'
      BY <1>1, <2>10 DEF StoreFails, SpoolTypeOK, Running
    <3>2. b = hand[p] => [batch |-> b, cause |-> "unwritable"] \in dropped'
      BY <2>10 DEF StoreFails
    <3> QED
      BY <2>2, <2>3, <3>1, <3>2 DEF Causes
  <2>11. CASE /\ Start(p) \/ Close(p) \/ ReadNext(p) \/ SendStored(p) \/ RemoveSent(p)
                \/ DrainEnds(p) \/ Retry(p) \/ Stage(p)
    <3>1. hand' = hand /\ channel' = channel /\ Running(p)'
      BY <1>1, <2>11 DEF Start, Close, ReadNext, SendStored, RemoveSent, DrainEnds, Retry, Stage,
           procVars, SpoolTypeOK, Running
    <3> QED
      BY <2>1, <3>1
  <2> QED
    BY <2>4, <2>5, <2>6, <2>7, <2>8, <2>9, <2>10, <2>11 DEF Step, Forwarder
<1> QED
  BY <1>2, <1>3

LEMMA AccountedStep ==
  SpoolInductive /\ EveryBatchAccounted /\ [SpoolNext]_spoolVars => EveryBatchAccounted'
<1> SUFFICES ASSUME SpoolInductive, EveryBatchAccounted, [SpoolNext]_spoolVars
             PROVE  EveryBatchAccounted'
  OBVIOUS
<1>1. ASSUME NEW p \in Procs, Step(p), NEW b \in made'
      PROVE  \/ Delivered(b)' \/ Held(b)' \/ DroppedAs(b, Causes)'
             \/ \E q \in Procs : Running(q)' /\ b \in InMemory(q)'
  <2>1. /\ SpoolTypeOK /\ Hands /\ Owned /\ Filed
    BY DEF SpoolInductive, SpoolInvariant
  <2>2. CASE b \notin made
    <3>1. PICK size \in Sizes :
            /\ Running(p) /\ pc'[p] = pc[p] /\ b = Made(p, size)
            /\ channel'[p] = Append(channel[p], Made(p, size))
      BY <1>1, <2>1, <2>2, MemorySteps DEF OwnMemory
    <3>2. \E i \in DOMAIN channel'[p] : channel'[p][i] = b
      <4>1. channel[p] \in Seq(Batches)
        BY <2>1 DEF SpoolTypeOK
      <4>2. Len(channel[p]) + 1 \in DOMAIN channel'[p] /\ channel'[p][Len(channel[p]) + 1] = b
        BY <3>1, <4>1
      <4> QED
        BY <4>2
    <3>3. b \in InMemory(p)'
      BY <3>2 DEF InMemory
    <3> QED
      BY <3>1, <3>3 DEF Running
  <2>3. CASE b \in made /\ Delivered(b)
    BY <1>1, <2>1, <2>3, DeliveredStays
  <2>4. CASE b \in made /\ Held(b)
    <3>1. Held(b)' \/ Delivered(b)' \/ DroppedAs(b, {"refusedStored", "outboxFull"})'
      BY <1>1, <2>4, HeldStep
    <3> QED
      BY <3>1 DEF DroppedAs, Causes
  <2>5. CASE b \in made /\ DroppedAs(b, Causes)
    BY <1>1, <2>5, DroppedGrows DEF DroppedAs
  <2>6. ASSUME NEW q \in Procs, Running(q), b \in InMemory(q)
        PROVE  \/ Running(q)' /\ b \in InMemory(q)'
               \/ Delivered(b)' \/ Held(b)' \/ DroppedAs(b, Causes)'
    BY <1>1, <2>6, MemoryStep
  <2> QED
    BY <2>2, <2>3, <2>4, <2>5, <2>6 DEF EveryBatchAccounted, Running
<1>2. CASE UNCHANGED spoolVars
  BY <1>2 DEF spoolVars, procVars, EveryBatchAccounted, Delivered, Held, InMemory, DroppedAs
<1> QED
  BY <1>1, <1>2 DEF SpoolNext, Step, EveryBatchAccounted, Running

\* Deliver or persist: every batch the drain thread handed over is with the
\* cloud, in the outbox, in a running forwarder, or was given up for a cause
\* sync.rs knows, however many governors start, die and share the outbox.
THEOREM NoBatchLost == SpoolSpec => []EveryBatchAccounted
<1>1. SpoolInit => EveryBatchAccounted
  BY DEF SpoolInit, EveryBatchAccounted
<1> QED
  BY <1>1, AccountedStep, SpoolInductiveInit, SpoolInductiveStep, PTL DEF SpoolSpec

\* Once stored, a batch leaves the outbox only for the cloud, for a refusal, or
\* for the cap: no kill, restart or other governor costs it.
THEOREM StoredIsDurable == SpoolSpec => HeldIsDurable
<1>1. SpoolInductive /\ [SpoolNext]_spoolVars =>
        [\A b \in made :
           Held(b) =>
             Held(b)' \/ Delivered(b)' \/ DroppedAs(b, {"refusedStored", "outboxFull"})']_spoolVars
  <2> SUFFICES ASSUME SpoolInductive, NEW p \in Procs, Step(p), NEW b, Held(b)
               PROVE  Held(b)' \/ Delivered(b)' \/ DroppedAs(b, {"refusedStored", "outboxFull"})'
    BY DEF SpoolNext, Step
  <2> QED
    BY HeldStep
<1> QED
  BY <1>1, SpoolInductiveInit, SpoolInductiveStep, PTL DEF SpoolSpec, HeldIsDurable

-----------------------------------------------------------------------------
(* What the outbox weighs *)

Heft(f) == f.batch.size + Header

\* e is the weight of every part of S, whichever file is taken out.
Weighs(e, S) ==
  /\ e \in [SUBSET S -> Nat]
  /\ e[{}] = 0
  /\ \A T \in SUBSET S : \A f \in T : e[T] = Heft(f) + e[T \ {f}]

LEMMA HeftType == \A f \in Files : Heft(f) \in Nat /\ f.batch.size \in Sizes
<1>1. ASSUME NEW f \in Files
      PROVE  Heft(f) \in Nat /\ f.batch.size \in Sizes
  <2>1. f.batch.size \in Sizes
    BY DEF Files, Batches
  <2>2. f.batch.size \in Nat /\ Header \in Nat
    BY <2>1, SpoolAssumption
  <2> QED
    BY <2>1, <2>2 DEF Heft
<1> QED
  BY <1>1

LEMMA FilesFinite == IsFiniteSet(Files)
<1> DEFINE A == 1 .. MaxBatches
           B == 1 .. MaxStarts
           C == {"tmp", "ndjson"}
           P == (A \X ((A \X B) \X (Environments \X Sizes))) \X (C \X BOOLEAN)
           code == [f \in Files |->
                      << <<f.at, << <<f.batch.id, f.batch.session>>, <<f.batch.env, f.batch.size>> >> >>,
                         <<f.ext, f.whole>> >>]
<1>1. IsFiniteSet(A) /\ IsFiniteSet(B)
  BY SpoolAssumption, FS_Interval
<1>2. IsFiniteSet(C) /\ IsFiniteSet(BOOLEAN) /\ IsFiniteSet(Environments)
  <2>1. ASSUME NEW D, NEW x, NEW y, D = {x} \cup {y}
        PROVE  IsFiniteSet(D)
    <3>1. IsFiniteSet({x})
      BY FS_Singleton
    <3> QED
      BY <2>1, <3>1, FS_AddElement
  <2>2. C = {"tmp"} \cup {"ndjson"} /\ Environments = {"live"} \cup {"sandbox"}
    BY DEF Environments
  <2>3. BOOLEAN = {TRUE} \cup {FALSE}
    OBVIOUS
  <2> HIDE DEF C
  <2>4. IsFiniteSet(C)
    BY <2>1, <2>2, Zenon
  <2>5. IsFiniteSet(Environments)
    BY <2>1, <2>2, Zenon
  <2>6. IsFiniteSet(BOOLEAN)
    BY <2>1, <2>3, Zenon
  <2> QED
    BY <2>4, <2>5, <2>6
<1>3. IsFiniteSet(Sizes)
  BY SpoolAssumption, FS_BoundedSetOfNaturals
<1>4. IsFiniteSet(A \X B) /\ IsFiniteSet(Environments \X Sizes) /\ IsFiniteSet(C \X BOOLEAN)
  <2> HIDE DEF A, B, C
  <2> QED
    BY <1>1, <1>2, <1>3, FS_Product
<1>5. IsFiniteSet(P)
  <2> HIDE DEF A, B, C
  <2>1. IsFiniteSet((A \X B) \X (Environments \X Sizes))
    BY <1>4, FS_Product
  <2>2. IsFiniteSet(A \X ((A \X B) \X (Environments \X Sizes)))
    BY <1>1, <2>1, FS_Product
  <2> QED
    BY <1>4, <2>2, FS_Product
<1>6. ASSUME NEW f \in Files
      PROVE  /\ code[f] \in P
             /\ f.at = code[f][1][1] /\ f.batch.id = code[f][1][2][1][1]
             /\ f.batch.session = code[f][1][2][1][2] /\ f.batch.env = code[f][1][2][2][1]
             /\ f.batch.size = code[f][1][2][2][2]
             /\ f.ext = code[f][2][1] /\ f.whole = code[f][2][2]
  <2>1. /\ f.at \in A /\ f.batch.id \in A /\ f.batch.session \in B /\ f.batch.env \in Environments
        /\ f.batch.size \in Sizes /\ f.ext \in C /\ f.whole \in BOOLEAN
    BY DEF Files, Batches
  <2>2. code[f] = << <<f.at, << <<f.batch.id, f.batch.session>>, <<f.batch.env, f.batch.size>> >> >>,
                     <<f.ext, f.whole>> >>
    OBVIOUS
  <2> HIDE DEF A, B, C, code
  <2> QED
    BY <2>1, <2>2
<1>7. \A f, g \in Files : code[f] = code[g] => f = g
  <2> SUFFICES ASSUME NEW f \in Files, NEW g \in Files, code[f] = code[g]
               PROVE  f = g
    OBVIOUS
  <2> HIDE DEF code
  <2>1. /\ f.at = g.at /\ f.ext = g.ext /\ f.whole = g.whole
        /\ f.batch.id = g.batch.id /\ f.batch.session = g.batch.session
        /\ f.batch.env = g.batch.env /\ f.batch.size = g.batch.size
    BY <1>6
  <2>2. f.batch = g.batch
    <3>1. f.batch \in Batches /\ g.batch \in Batches
      BY DEF Files
    <3> QED
      BY <2>1, <3>1 DEF Batches
  <2> QED
    BY <2>1, <2>2 DEF Files
<1>8. code \in Injection(Files, P)
  <2>1. code \in [Files -> P]
    <3>1. \A f \in Files : code[f] \in P
      BY <1>6
    <3>2. code = [f \in Files |-> code[f]]
      OBVIOUS
    <3> HIDE DEF code, P
    <3> QED
      BY <3>1, <3>2
  <2> HIDE DEF code, P
  <2> QED
    BY <1>7, <2>1 DEF Injection, IsInjective
<1> HIDE DEF code, P
<1> QED
  BY <1>5, <1>8, FS_Injection

\* A set of parts of a finite set has a least one, if it has any.
LEMMA LeastPart ==
  ASSUME NEW Bad \in SUBSET (SUBSET Files), Bad # {}
  PROVE  \E T \in Bad : \A f \in T : T \ {f} \notin Bad
<1>1. Bad \subseteq FiniteSubsetsOf(Files)
  BY FilesFinite, FS_FiniteSubsetsOfFinite
<1>2. IsWellFoundedOn(StrictSubsetOrdering(Files), FiniteSubsetsOf(Files))
  BY FS_StrictSubsetOrderingWellFounded
<1>3. PICK T \in Bad : \A U \in Bad : ~ (<<U, T>> \in StrictSubsetOrdering(Files))
  BY <1>1, <1>2, WFMin
<1>4. ASSUME NEW f \in T
      PROVE  <<T \ {f}, T>> \in StrictSubsetOrdering(Files)
  BY DEF StrictSubsetOrdering
<1> QED
  BY <1>3, <1>4

LEMMA WeighsExists == \E e : Weighs(e, Files)
<1> DEFINE Bad == {T \in SUBSET Files : \A e : ~Weighs(e, T)}
<1> SUFFICES ASSUME Files \in Bad
             PROVE  FALSE
  OBVIOUS
<1>1. PICK T \in Bad : \A f \in T : T \ {f} \notin Bad
  <2>1. Bad \in SUBSET (SUBSET Files) /\ Bad # {}
    OBVIOUS
  <2> HIDE DEF Bad
  <2> QED
    BY <2>1, LeastPart
<1>2. T # {}
  <2> DEFINE e == [U \in SUBSET {} |-> 0]
  <2>1. Weighs(e, {})
    BY DEF Weighs
  <2> QED
    BY <2>1
<1>3. PICK y \in T : TRUE
  BY <1>2
<1>4. T \ {y} \in SUBSET Files /\ y \in Files /\ Heft(y) \in Nat
  BY HeftType
<1>5. PICK e : Weighs(e, T \ {y})
  BY <1>1, <1>3, <1>4
<1> DEFINE d == [U \in SUBSET T |-> IF y \in U THEN Heft(y) + e[U \ {y}] ELSE e[U]]
<1>6. \A U \in SUBSET T : U \ {y} \in SUBSET (T \ {y}) /\ e[U \ {y}] \in Nat
  BY <1>5 DEF Weighs
<1>7. d \in [SUBSET T -> Nat] /\ d[{}] = 0
  <2>1. ASSUME NEW U \in SUBSET T
        PROVE  d[U] \in Nat
    <3>1. CASE y \in U
      BY <1>4, <1>6, <3>1
    <3>2. CASE y \notin U
      <4>1. U \ {y} = U
        BY <3>2
      <4>2. d[U] = e[U \ {y}]
        BY <3>2, <4>1
      <4> QED
        BY <1>6, <4>2
    <3> QED
      BY <3>1, <3>2
  <2>2. \A U \in SUBSET T : d[U] \in Nat
    BY <2>1
  <2>3. d[{}] = e[{}]
    OBVIOUS
  <2> QED
    BY <1>5, <2>2, <2>3 DEF Weighs
<1>8. ASSUME NEW U \in SUBSET T, NEW x \in U
      PROVE  d[U] = Heft(x) + d[U \ {x}]
  <2>1. U \ {x} \in SUBSET T /\ x \in T
    OBVIOUS
  <2>2. CASE x = y
    <3>1. y \notin U \ {x}
      BY <2>2
    <3> QED
      BY <2>1, <2>2, <3>1
  <2>3. CASE x # y /\ y \in U
    <3>1. U \ {y} \in SUBSET (T \ {y}) /\ x \in U \ {y}
      BY <2>3
    <3>2. e[U \ {y}] = Heft(x) + e[(U \ {y}) \ {x}]
      BY <1>5, <3>1 DEF Weighs
    <3>3. (U \ {y}) \ {x} = (U \ {x}) \ {y} /\ y \in U \ {x}
      BY <2>3
    <3>4. d[U] = Heft(y) + e[U \ {y}] /\ d[U \ {x}] = Heft(y) + e[(U \ {x}) \ {y}]
      BY <2>1, <2>3, <3>3
    <3>5. Heft(x) \in Nat /\ e[(U \ {x}) \ {y}] \in Nat
      BY <1>6, <2>1, HeftType
    <3>6. e[(U \ {y}) \ {x}] = e[(U \ {x}) \ {y}]
      BY <3>3
    <3> HIDE DEF d
    <3> QED
      BY <1>4, <3>2, <3>4, <3>5, <3>6
  <2>4. CASE y \notin U
    <3>1. U \in SUBSET (T \ {y}) /\ y \notin U \ {x}
      BY <2>4
    <3>2. e[U] = Heft(x) + e[U \ {x}]
      BY <1>5, <3>1 DEF Weighs
    <3> QED
      BY <2>1, <2>4, <3>1, <3>2
  <2> QED
    BY <2>2, <2>3, <2>4
<1>9. Weighs(d, T)
  BY <1>7, <1>8 DEF Weighs
<1> QED
  BY <1>9

\* Weight is that sum: the order the files are taken in makes no difference.
LEMMA WeightIsSum ==
  /\ \A T \in SUBSET Files : Weight(T) \in Nat
  /\ Weight({}) = 0
  /\ \A T \in SUBSET Files : \A f \in T : Weight(T) = Heft(f) + Weight(T \ {f})
<1>1. PICK d : Weighs(d, Files)
  BY WeighsExists
<1>2. ASSUME NEW S \in SUBSET Files
      PROVE  Weight(S) = d[S]
  <2> DEFINE Body(e) == [T \in SUBSET S |->
                           IF T = {} THEN 0
                           ELSE (CHOOSE x \in T : TRUE).batch.size + Header
                                + e[T \ {CHOOSE x \in T : TRUE}]]
             iter == CHOOSE e : e = Body(e)
             sum == [T \in SUBSET S |-> d[T]]
  <2>1. Weight(S) = iter[S]
    BY DEF Weight, MapThenSumSet, MapThenFoldSet
  <2>2. ASSUME NEW e, NEW T \in SUBSET S, T # {}
        PROVE  \E x \in T : Body(e)[T] = Heft(x) + e[T \ {x}]
    <3>1. (CHOOSE x \in T : TRUE) \in T
      BY <2>2
    <3> QED
      BY <2>2, <3>1 DEF Heft
  <2>3. \A e : Body(e) = [T \in SUBSET S |-> Body(e)[T]] /\ Body(e)[{}] = 0
    OBVIOUS
  <2> HIDE DEF Body
  <2>4. ASSUME NEW T \in SUBSET S
        PROVE  sum[T] = Body(sum)[T]
    <3>1. CASE T = {}
      <4>1. sum[T] = 0
        BY <1>1, <3>1 DEF Weighs
      <4> QED
        BY <2>3, <3>1, <4>1
    <3>2. CASE T # {}
      <4>1. PICK x \in T : Body(sum)[T] = Heft(x) + sum[T \ {x}]
        BY <2>2, <3>2
      <4>2. sum[T] = d[T] /\ sum[T \ {x}] = d[T \ {x}]
        OBVIOUS
      <4>3. d[T] = Heft(x) + d[T \ {x}]
        BY <1>1 DEF Weighs
      <4> QED
        BY <4>1, <4>2, <4>3
    <3> QED
      BY <3>1, <3>2
  <2>5. sum = Body(sum)
    <3>1. sum = [T \in SUBSET S |-> sum[T]]
      OBVIOUS
    <3>2. Body(sum) = [T \in SUBSET S |-> Body(sum)[T]]
      BY <2>3
    <3> HIDE DEF sum
    <3> QED
      BY <2>4, <3>1, <3>2
  <2>6. ASSUME NEW e, e = Body(e)
        PROVE  e[S] = d[S]
    <3> DEFINE Bad == {T \in SUBSET S : e[T] # d[T]}
    <3>1. Bad = {}
      <4> SUFFICES ASSUME Bad # {} PROVE FALSE
        OBVIOUS
      <4>1. PICK T \in Bad : \A f \in T : T \ {f} \notin Bad
        <5>1. Bad \in SUBSET (SUBSET Files)
          OBVIOUS
        <5> HIDE DEF Bad
        <5> QED
          BY <5>1, LeastPart
      <4>2. T # {}
        <5>1. e[{}] = 0 /\ d[{}] = 0
          BY <1>1, <2>3, <2>6 DEF Weighs
        <5> QED
          BY <5>1
      <4>3. PICK x \in T : Body(e)[T] = Heft(x) + e[T \ {x}]
        BY <2>2, <4>2
      <4>4. e[T \ {x}] = d[T \ {x}] /\ T \in SUBSET Files /\ e[T] # d[T]
        BY <4>1
      <4>5. d[T] = Heft(x) + d[T \ {x}]
        BY <1>1, <4>4 DEF Weighs
      <4> QED
        BY <2>6, <4>3, <4>4, <4>5
    <3> QED
      BY <3>1
  <2>7. iter = Body(iter)
    BY <2>5
  <2>8. iter[S] = d[S]
    <3> HIDE DEF iter
    <3> QED
      BY <2>6, <2>7
  <2> QED
    BY <2>1, <2>8
<1>3. Weight({}) = 0 /\ \A T \in SUBSET Files : Weight(T) \in Nat
  BY <1>1, <1>2 DEF Weighs
<1>4. ASSUME NEW T \in SUBSET Files, NEW f \in T
      PROVE  Weight(T) = Heft(f) + Weight(T \ {f})
  <2>1. d[T] = Heft(f) + d[T \ {f}]
    BY <1>1 DEF Weighs
  <2> QED
    BY <1>2, <2>1
<1> QED
  BY <1>3, <1>4

\* More files weigh no less, one file adds at most its own weight, and none is
\* heavier than the largest batch.
LEMMA WeightGrows ==
  ASSUME NEW S \in SUBSET Files, NEW R \in SUBSET S
  PROVE  Weight(R) <= Weight(S)
<1> DEFINE Bad == {T \in SUBSET Files : ~ (Weight(R \cap T) <= Weight(T))}
<1>1. Bad = {}
  <2> SUFFICES ASSUME Bad # {} PROVE FALSE
    OBVIOUS
  <2>1. PICK T \in Bad : \A f \in T : T \ {f} \notin Bad
    <3>1. Bad \in SUBSET (SUBSET Files)
      OBVIOUS
    <3> HIDE DEF Bad
    <3> QED
      BY <3>1, LeastPart
  <2>2. T \in SUBSET Files /\ ~ (Weight(R \cap T) <= Weight(T))
    BY <2>1
  <2>3. T # {}
    <3>1. R \cap {} = {} /\ Weight({}) <= Weight({})
      BY WeightIsSum
    <3> QED
      BY <2>2, <3>1
  <2>4. PICK f \in T : TRUE
    BY <2>3
  <2>5. Weight(R \cap (T \ {f})) <= Weight(T \ {f})
    BY <2>1, <2>2
  <2>6. /\ Weight(T) = Heft(f) + Weight(T \ {f}) /\ Heft(f) \in Nat
        /\ Weight(T \ {f}) \in Nat /\ Weight(R \cap T) \in Nat
        /\ Weight(R \cap (T \ {f})) \in Nat
    BY <2>2, WeightIsSum, HeftType
  <2>7. CASE f \in R
    <3>1. (R \cap T) \ {f} = R \cap (T \ {f}) /\ f \in R \cap T /\ R \cap T \in SUBSET Files
      BY <2>2, <2>7
    <3>2. Weight(R \cap T) = Heft(f) + Weight((R \cap T) \ {f})
      BY <3>1, WeightIsSum
    <3>3. Weight((R \cap T) \ {f}) = Weight(R \cap (T \ {f}))
      BY <3>1
    <3> QED
      BY <2>2, <2>5, <2>6, <3>2, <3>3
  <2>8. CASE f \notin R
    <3>1. R \cap T = R \cap (T \ {f})
      BY <2>8
    <3> QED
      BY <2>2, <2>5, <2>6, <3>1
  <2> QED
    BY <2>7, <2>8
<1>2. R \cap S = R /\ S \notin Bad
  BY <1>1
<1> QED
  BY <1>2

LEMMA WeightAdds ==
  ASSUME NEW S \in SUBSET Files, NEW f \in Files
  PROVE  Weight(S \cup {f}) <= Weight(S) + Heft(f)
<1>1. /\ S \cup {f} \in SUBSET Files /\ (S \cup {f}) \ {f} \in SUBSET S
      /\ f \in S \cup {f}
  OBVIOUS
<1>2. Weight(S \cup {f}) = Heft(f) + Weight((S \cup {f}) \ {f})
  BY <1>1, WeightIsSum
<1>3. Weight((S \cup {f}) \ {f}) <= Weight(S)
  BY <1>1, WeightGrows
<1>4. /\ Weight(S) \in Nat /\ Weight((S \cup {f}) \ {f}) \in Nat /\ Heft(f) \in Nat
      /\ Weight(S \cup {f}) \in Nat
  BY <1>1, WeightIsSum, HeftType
<1> QED
  BY <1>2, <1>3, <1>4

LEMMA WeightOfMany ==
  ASSUME NEW R \in SUBSET Files, NEW S \in SUBSET Files, NEW m \in Nat,
         \A f \in S : Heft(f) <= m
  PROVE  Weight(R \cup S) <= Weight(R) + Cardinality(S) * m
<1> DEFINE Bad == {T \in SUBSET S : ~ (Weight(R \cup T) <= Weight(R) + Cardinality(T) * m)}
<1>1. Bad = {}
  <2> SUFFICES ASSUME Bad # {} PROVE FALSE
    OBVIOUS
  <2>1. PICK T \in Bad : \A f \in T : T \ {f} \notin Bad
    <3>1. Bad \in SUBSET (SUBSET Files)
      OBVIOUS
    <3> HIDE DEF Bad
    <3> QED
      BY <3>1, LeastPart
  <2>2. T \in SUBSET S /\ ~ (Weight(R \cup T) <= Weight(R) + Cardinality(T) * m)
    BY <2>1
  <2>3. IsFiniteSet(T) /\ Cardinality(T) \in Nat
    BY <2>2, FilesFinite, FS_Subset, FS_CardinalityType
  <2>4. T # {}
    <3>1. ~ (Weight(R \cup {}) <= Weight(R) + Cardinality({}) * m) => FALSE
      <4>1. R \cup {} = R /\ Cardinality({}) = 0 /\ Weight(R) \in Nat
        BY WeightIsSum, FS_EmptySet
      <4> QED
        BY <4>1
    <3> QED
      BY <2>2, <3>1
  <2>5. PICK f \in T : TRUE
    BY <2>4
  <2>6. Weight(R \cup (T \ {f})) <= Weight(R) + Cardinality(T \ {f}) * m
    BY <2>1, <2>2
  <2>7. Weight(R \cup T) <= Weight(R \cup (T \ {f})) + Heft(f)
    <3>1. R \cup T = (R \cup (T \ {f})) \cup {f}
      OBVIOUS
    <3>2. R \cup (T \ {f}) \in SUBSET Files /\ f \in Files
      BY <2>2
    <3> QED
      BY <3>1, <3>2, WeightAdds
  <2>8. PICK k \in Nat : k = Cardinality(T \ {f}) /\ Cardinality(T) = k + 1
    <3>1. Cardinality(T \ {f}) = Cardinality(T) - 1 /\ IsFiniteSet(T \ {f})
      BY <2>3, FS_RemoveElement
    <3>2. Cardinality(T \ {f}) \in Nat
      BY <3>1, FS_CardinalityType
    <3> QED
      BY <2>3, <3>1, <3>2
  <2>9. (k + 1) * m = k * m + m /\ k * m \in Nat
    OBVIOUS
  <2>10. /\ ~ (Weight(R \cup T) <= Weight(R) + (k + 1) * m)
         /\ Weight(R \cup (T \ {f})) <= Weight(R) + k * m
    BY <2>2, <2>6, <2>8
  <2>11. /\ Weight(R) \in Nat /\ Weight(R \cup T) \in Nat
         /\ Weight(R \cup (T \ {f})) \in Nat /\ Heft(f) \in Nat /\ Heft(f) <= m
    BY <2>2, WeightIsSum, HeftType
  <2> QED
    BY <2>7, <2>9, <2>10, <2>11
<1>2. S \notin Bad
  BY <1>1
<1> QED
  BY <1>2

\* The largest body.
LEMMA LargestSize ==
  Max(Sizes) \in Nat /\ \A s \in Sizes : s <= Max(Sizes)
<1>1. \A s \in Sizes : s \in Nat /\ MaxSpool - s \in Nat
  BY SpoolAssumption
<1>2. PICK room : room = [s \in Sizes |-> MaxSpool - s]
  OBVIOUS
<1>3. \A s \in Sizes : room[s] = MaxSpool - s /\ room[s] \in Nat
  BY <1>1, <1>2
<1>4. PICK T : T = {room[s] : s \in Sizes}
  OBVIOUS
<1>5. T \in SUBSET Nat /\ T # {}
  BY <1>3, <1>4, SpoolAssumption
<1>6. PICK x \in T : \A y \in T : x <= y
  BY <1>5, LeastNat
<1>7. PICK s \in Sizes : x = room[s]
  BY <1>4, <1>6
<1>8. ASSUME NEW r \in Sizes
      PROVE  s >= r
  <2>1. room[s] <= room[r]
    BY <1>4, <1>6, <1>7
  <2>2. MaxSpool \in Nat /\ s \in Nat /\ r \in Nat
    BY SpoolAssumption
  <2> QED
    BY <1>3, <2>1, <2>2
<1>9. Max(Sizes) \in Sizes /\ \A r \in Sizes : Max(Sizes) >= r
  BY <1>8 DEF Max
<1> QED
  BY <1>1, <1>9

\* enforce_cap makes room, or empties the outbox.
LEMMA KeptFits ==
  ASSUME NEW S \in SUBSET Files, NEW incoming \in Nat, clock \in Nat
  PROVE  /\ Kept(S, incoming) \in SUBSET S
         /\ Weight(Kept(S, incoming)) + incoming <= MaxSpool \/ Kept(S, incoming) = {}
<1> DEFINE newest == {{f \in S : f.at >= n} : n \in 1 .. clock + 1}
           fitting == {k \in newest : Weight(k) + incoming <= MaxSpool} \cup {{}}
<1>1. \A k \in fitting : k \in SUBSET S /\ (Weight(k) + incoming <= MaxSpool \/ k = {})
  OBVIOUS
<1>2. IsFiniteSet(S) /\ Cardinality(S) \in Nat
  BY FilesFinite, FS_Subset, FS_CardinalityType
<1>3. ASSUME NEW k \in fitting
      PROVE  Cardinality(k) \in Nat /\ Cardinality(S) - Cardinality(k) \in Nat
  <2>1. IsFiniteSet(k) /\ Cardinality(k) <= Cardinality(S)
    BY <1>1, <1>2, FS_Subset
  <2>2. Cardinality(k) \in Nat
    BY <2>1, FS_CardinalityType
  <2> QED
    BY <1>2, <2>1, <2>2
<1>4. {} \in fitting
  OBVIOUS
<1>5. Kept(S, incoming) =
        CHOOSE k \in fitting : \A other \in fitting : Cardinality(other) <= Cardinality(k)
  BY DEF Kept
<1> HIDE DEF fitting
<1>6. PICK left : left = [k \in fitting |-> Cardinality(S) - Cardinality(k)]
  OBVIOUS
<1>7. PICK T : T = {left[k] : k \in fitting}
  OBVIOUS
<1>8. T \in SUBSET Nat /\ T # {}
  BY <1>3, <1>4, <1>6, <1>7
<1>9. PICK x \in T : \A y \in T : x <= y
  BY <1>8, LeastNat
<1>10. PICK k \in fitting : x = left[k]
  BY <1>7, <1>9
<1>11. ASSUME NEW other \in fitting
       PROVE  Cardinality(other) <= Cardinality(k)
  <2>1. left[k] <= left[other]
    BY <1>7, <1>9, <1>10
  <2>2. left[k] = Cardinality(S) - Cardinality(k) /\ left[other] = Cardinality(S) - Cardinality(other)
    BY <1>6
  <2>3. Cardinality(k) \in Nat /\ Cardinality(other) \in Nat
    BY <1>3
  <2> QED
    BY <1>2, <2>1, <2>2, <2>3
<1>12. Kept(S, incoming) \in fitting
  BY <1>5, <1>11
<1> QED
  BY <1>1, <1>12

-----------------------------------------------------------------------------
(* The cap *)

Writers(e) == {p \in Procs : Key[p] = e}

Room(e) == MaxSpool + Header + (Cardinality(Writers(e)) - 1) * (Max(Sizes) + Header)

\* The drafts that a governor is about to rename.
Pending(e) ==
  {f \in dir[e] : f.ext = "tmp" /\ \E p \in Writers(e) : pc[p] = "publish" /\ f.batch = hand[p]}

Stock(e) == Entries(dir[e]) \cup Pending(e)

\* The drafts count: the cap is looked at as a draft is begun, not as it is
\* renamed, and each governor has at most one.
Fits == \A e \in {Key[p] : p \in Procs} : Weight(Stock(e)) <= Room(e)

LEMMA RoomType ==
  ASSUME NEW p \in Procs
  PROVE  /\ Cardinality(Writers(Key[p])) - 1 \in Nat /\ Room(Key[p]) \in Nat
         /\ Max(Sizes) + Header \in Nat
<1>1. IsFiniteSet(Writers(Key[p])) /\ p \in Writers(Key[p])
  BY SpoolAssumption, FS_Subset DEF Writers
<1>2. Cardinality(Writers(Key[p])) \in Nat /\ Cardinality(Writers(Key[p])) # 0
  BY <1>1, FS_CardinalityType, FS_EmptySet
<1>3. PICK n \in Nat : n = Cardinality(Writers(Key[p])) - 1
  BY <1>2
<1>4. PICK m \in Nat : m = Max(Sizes) + Header
  BY LargestSize, SpoolAssumption
<1>5. Room(Key[p]) = MaxSpool + Header + n * m
  BY <1>3, <1>4 DEF Room
<1>6. MaxSpool \in Nat /\ Header \in Nat /\ n * m \in Nat
  BY SpoolAssumption
<1> QED
  BY <1>3, <1>4, <1>5, <1>6

LEMMA StockType ==
  ASSUME SpoolTypeOK, NEW e \in Environments
  PROVE  /\ Stock(e) \in SUBSET Files /\ Pending(e) \in SUBSET Files
         /\ Entries(dir[e]) \in SUBSET Files
BY DEF SpoolTypeOK, Stock, Pending, Entries

\* A governor that is not at its rename leaves the others at most one draft each.
LEMMA PendingFew ==
  ASSUME SpoolTypeOK, Drafted, NEW p \in Procs, pc[p] # "publish"
  PROVE  Cardinality(Pending(Key[p])) <= Cardinality(Writers(Key[p])) - 1
<1> DEFINE e == Key[p]
           g == [f \in Pending(e) |->
                   CHOOSE q \in Writers(e) : pc[q] = "publish" /\ f.batch = hand[q]]
<1>1. ASSUME NEW f \in Pending(e)
      PROVE  /\ g[f] \in Writers(e) \ {p} /\ pc[g[f]] = "publish" /\ f.batch = hand[g[f]]
             /\ f \in dir[e]
  BY DEF Pending
<1>2. g = [f \in Pending(e) |-> g[f]]
  OBVIOUS
<1> HIDE DEF g
<1>3. g \in [Pending(e) -> Writers(e) \ {p}]
  BY <1>1, <1>2
<1>4. ASSUME NEW f \in Pending(e), NEW h \in Pending(e), g[f] = g[h]
      PROVE  f = h
  <2>1. PICK q \in Writers(e) : q = g[f] /\ q = g[h]
    BY <1>1, <1>4
  <2>2. /\ pc[q] = "publish" /\ f.batch = hand[q] /\ h.batch = hand[q]
        /\ f \in dir[Key[q]] /\ h \in dir[Key[q]] /\ q \in Procs
    BY <1>1, <2>1 DEF Writers
  <2> QED
    BY <2>2 DEF Drafted
<1>5. g \in Injection(Pending(e), Writers(e) \ {p})
  BY <1>3, <1>4 DEF Injection, IsInjective
<1>6. IsFiniteSet(Writers(e)) /\ p \in Writers(e)
  BY SpoolAssumption, FS_Subset DEF Writers
<1>7. IsFiniteSet(Writers(e) \ {p}) /\ Cardinality(Writers(e) \ {p}) = Cardinality(Writers(e)) - 1
  BY <1>6, FS_RemoveElement
<1> QED
  BY <1>5, <1>7, FS_Injection

\* What no governor stages or renames only leaves the stock.
LEMMA StockLeaves ==
  ASSUME SpoolTypeOK, Hands, NEW p \in Procs, Step(p), NEW e \in Environments,
         ~ (e = Key[p] /\ (Stage(p) \/ Publish(p)))
  PROVE  Stock(e)' \subseteq Stock(e)
<1> SUFFICES ASSUME NEW f \in Stock(e)'
             PROVE  f \in Stock(e)
  OBVIOUS
<1>1. f \in dir'[e]
  BY DEF Stock, Entries, Pending
<1>2. f \in dir[e]
  BY <1>1, FilesAdded
<1>3. CASE f.ext = "ndjson"
  BY <1>2, <1>3 DEF Stock, Entries
<1>4. CASE f.ext # "ndjson"
  <2>1. PICK q \in Writers(e) : f.ext = "tmp" /\ pc'[q] = "publish" /\ f.batch = hand'[q]
    BY <1>4 DEF Stock, Entries, Pending, Writers
  <2>2. q \in Procs /\ Key[q] = e
    BY DEF Writers
  <2>3. pc[q] = "publish" /\ hand'[q] = hand[q]
    BY <2>1, <2>2, Elsewhere, AtRename
  <2> QED
    BY <1>2, <2>1, <2>3 DEF Stock, Pending
<1> QED
  BY <1>3, <1>4

\* A rename puts a file in the place of its draft.
LEMMA StockRenames ==
  ASSUME SpoolTypeOK, SpoolTypeOK', Hands, Drafted, NEW p \in Procs, Publish(p)
  PROVE  Weight(Stock(Key[p])') <= Weight(Stock(Key[p]))
<1>1. PICK e \in Environments : e = Key[p]
  BY SpoolAssumption
<1>2. PICK D \in Files : D = Draft(p)
  BY DraftIs DEF Publish
<1>3. PICK P \in Files : P = Published(p)
  BY DraftIs DEF Publish
<1>4. /\ D \in dir[e] /\ D.ext = "tmp" /\ D.batch = hand[p]
      /\ P.batch = hand[p] /\ P.ext = "ndjson" /\ pc[p] = "publish"
  BY <1>1, <1>2, <1>3, DraftIs DEF Publish
<1>5. Step(p)
  BY DEF Step, Forwarder
<1>6. dir'[e] = (dir[e] \ {D}) \cup {P} /\ pc'[p] = "recv"
  BY <1>1, <1>2, <1>3 DEF Publish, Published, Partition, SpoolTypeOK
<1>7. D \in Stock(e)
  BY <1>1, <1>4 DEF Stock, Pending, Writers
<1>8. Stock(e)' \subseteq (Stock(e) \ {D}) \cup {P}
  <2> SUFFICES ASSUME NEW f \in Stock(e)', f # P
               PROVE  f \in Stock(e) \ {D}
    OBVIOUS
  <2>1. f \in dir[e] \ {D}
    BY <1>6 DEF Stock, Entries, Pending
  <2>2. CASE f.ext = "ndjson"
    BY <2>1, <2>2 DEF Stock, Entries
  <2>3. CASE f.ext # "ndjson"
    <3>1. PICK q \in Writers(e) : f.ext = "tmp" /\ pc'[q] = "publish" /\ f.batch = hand'[q]
      BY <2>3 DEF Stock, Entries, Pending, Writers
    <3>2. q \in Procs /\ q # p
      BY <1>6, <3>1 DEF Writers
    <3>3. pc[q] = "publish" /\ hand'[q] = hand[q]
      BY <1>5, <3>1, <3>2, Elsewhere
    <3> QED
      BY <2>1, <3>1, <3>3 DEF Stock, Pending
  <2> QED
    BY <2>2, <2>3
<1>9. PICK S \in SUBSET Files : S = Stock(e)
  BY StockType
<1>10. PICK R : R = Stock(e)'
  OBVIOUS
<1>11. R \subseteq (S \ {D}) \cup {P} /\ D \in S
  BY <1>7, <1>8, <1>9, <1>10
<1>12. Weight(R) <= Weight((S \ {D}) \cup {P})
  <2>1. (S \ {D}) \cup {P} \in SUBSET Files /\ R \in SUBSET ((S \ {D}) \cup {P})
    BY <1>11
  <2> QED
    BY <2>1, WeightGrows
<1>13. Weight((S \ {D}) \cup {P}) <= Weight(S \ {D}) + Heft(P)
  <2>1. S \ {D} \in SUBSET Files
    OBVIOUS
  <2> QED
    BY <2>1, WeightAdds
<1>14. Weight(S) = Heft(D) + Weight(S \ {D}) /\ Heft(P) = Heft(D)
  BY <1>4, <1>11, WeightIsSum DEF Heft
<1>15. /\ Weight(R) \in Nat /\ Weight((S \ {D}) \cup {P}) \in Nat
       /\ Weight(S \ {D}) \in Nat /\ Heft(D) \in Nat /\ Weight(S) \in Nat
  <2>1. R \in SUBSET Files /\ (S \ {D}) \cup {P} \in SUBSET Files /\ S \ {D} \in SUBSET Files
    BY <1>11
  <2> QED
    BY <2>1, WeightIsSum, HeftType
<1>16. Weight(R) <= Weight(S)
  BY <1>12, <1>13, <1>14, <1>15
<1>17. Weight(Stock(e)') <= Weight(Stock(e))
  BY <1>9, <1>10, <1>16
<1> QED
  BY <1>1, <1>17

\* Once room is made, what is kept and the new draft are within the cap but for
\* the session line; the drafts of the others come on top.
LEMMA StockStages ==
  ASSUME SpoolTypeOK, SpoolTypeOK', Hands, Unfiled, Drafted, NEW p \in Procs, Stage(p)
  PROVE  Weight(Stock(Key[p])') <= Room(Key[p])
<1>1. PICK e \in Environments : e = Key[p]
  BY SpoolAssumption
<1>2. hand[p] \in Batches /\ pc[p] = "store" /\ hand[p] \in InMemory(p)
  BY Storing, MemoryOf DEF Stage, Hands
<1>3. PICK S \in SUBSET Files : S = Entries(dir[e])
  BY StockType
<1>4. PICK size \in Nat : size = hand[p].size /\ size \in Sizes /\ size <= MaxSpool
  BY <1>2, SpoolAssumption DEF Batches
<1>5. clock \in Nat
  BY SpoolAssumption DEF SpoolTypeOK
<1>6. PICK K \in SUBSET S : K = Kept(S, size) /\ (Weight(K) + size <= MaxSpool \/ K = {})
  BY <1>4, <1>5, KeptFits
<1>7. PICK B : B = Begun(p)
  OBVIOUS
<1>8. dir'[e] = (dir[e] \ (S \ K)) \cup {B}
  <2>1. Partition(Key[p]) = Key[p] /\ Listed(Key[p]) = S
    BY <1>1, <1>3, Places
  <2>2. dir' = [dir EXCEPT ![Key[p]] = (@ \ (S \ K)) \cup {B}]
    BY <1>4, <1>6, <1>7, <2>1 DEF Stage, Begun
  <2> QED
    BY <1>1, <2>2 DEF SpoolTypeOK
<1>9. B \in Files
  BY <1>8 DEF SpoolTypeOK
<1>10. Heft(B) = size + Header
  BY <1>4, <1>7 DEF Heft, Begun
<1>11. PICK D \in SUBSET Files : D = Pending(e)
  BY StockType
<1>12. Step(p)
  BY DEF Step, Forwarder
<1>13. Stock(e)' \subseteq (K \cup D) \cup {B}
  <2> SUFFICES ASSUME NEW f \in Stock(e)', f # B
               PROVE  f \in K \cup D
    OBVIOUS
  <2>1. f \in dir[e] /\ f \notin S \ K
    BY <1>8 DEF Stock, Entries, Pending
  <2>2. CASE f.ext = "ndjson"
    BY <1>3, <2>1, <2>2 DEF Entries
  <2>3. CASE f.ext # "ndjson"
    <3>1. PICK q \in Writers(e) : f.ext = "tmp" /\ pc'[q] = "publish" /\ f.batch = hand'[q]
      BY <2>3 DEF Stock, Entries, Pending, Writers
    <3>2. hand'[q] = hand[q] /\ q \in Procs
      BY DEF Stage, procVars, Writers
    <3>3. q # p
      BY <1>2, <2>1, <3>1, <3>2 DEF Unfiled
    <3>4. pc[q] = "publish"
      BY <1>12, <3>1, <3>2, <3>3, Elsewhere
    <3> QED
      BY <1>11, <2>1, <3>1, <3>2, <3>4 DEF Pending
  <2> QED
    BY <2>2, <2>3
<1>14. PICK n \in Nat : n = Cardinality(Writers(e)) - 1
  BY <1>1, RoomType
<1>15. PICK m \in Nat : m = Max(Sizes) + Header
  BY <1>1, RoomType
<1>16. PICK k \in Nat : k = Cardinality(D) /\ k <= n
  <2>1. IsFiniteSet(D)
    BY FilesFinite, FS_Subset
  <2>2. Cardinality(D) \in Nat
    BY <2>1, FS_CardinalityType
  <2>3. Cardinality(D) <= n
    BY <1>1, <1>2, <1>11, <1>14, PendingFew
  <2> QED
    BY <2>2, <2>3
<1>17. \A f \in D : Heft(f) <= m
  <2> SUFFICES ASSUME NEW f \in D
               PROVE  Heft(f) <= m
    OBVIOUS
  <2>1. f.batch.size \in Sizes
    BY HeftType
  <2>2. f.batch.size <= Max(Sizes) /\ f.batch.size \in Nat /\ Max(Sizes) \in Nat /\ Header \in Nat
    BY <2>1, LargestSize, SpoolAssumption
  <2> QED
    BY <1>15, <2>2 DEF Heft
<1>18. PICK R : R = Stock(e)'
  OBVIOUS
<1>19. K \in SUBSET Files /\ K \cup D \in SUBSET Files /\ (K \cup D) \cup {B} \in SUBSET Files
  BY <1>9
<1>20. R \in SUBSET ((K \cup D) \cup {B}) /\ R \in SUBSET Files
  BY <1>13, <1>18, <1>19
<1>21. Weight(R) <= Weight((K \cup D) \cup {B})
  BY <1>19, <1>20, WeightGrows
<1>22. Weight((K \cup D) \cup {B}) <= Weight(K \cup D) + (size + Header)
  BY <1>9, <1>10, <1>19, WeightAdds
<1>23. Weight(K \cup D) <= Weight(K) + k * m
  BY <1>16, <1>17, <1>19, WeightOfMany
<1>24. k * m <= n * m /\ k * m \in Nat /\ n * m \in Nat
  <2>1. PICK d \in Nat : n = k + d
    <3>1. n - k \in Nat /\ n = k + (n - k)
      BY <1>16
    <3> QED
      BY <3>1
  <2>2. n * m = k * m + d * m /\ d * m \in Nat /\ k * m \in Nat
    BY <2>1
  <2> QED
    BY <2>2
<1>25. Weight(K) + size <= MaxSpool
  <2>1. K = {} => Weight(K) = 0
    BY WeightIsSum
  <2> QED
    BY <1>4, <1>6, <2>1
<1>26. Room(e) = MaxSpool + Header + n * m
  BY <1>14, <1>15 DEF Room
<1>27. /\ Weight(R) \in Nat /\ Weight((K \cup D) \cup {B}) \in Nat /\ Weight(K \cup D) \in Nat
       /\ Weight(K) \in Nat /\ MaxSpool \in Nat /\ Header \in Nat
  BY <1>19, <1>20, WeightIsSum, SpoolAssumption
<1>28. Weight(R) <= MaxSpool + Header + n * m
  BY <1>21, <1>22, <1>23, <1>24, <1>25, <1>27
<1>29. Weight(Stock(e)') <= Room(e)
  BY <1>18, <1>26, <1>28
<1> QED
  BY <1>1, <1>29

LEMMA FitsStep ==
  SpoolInductive /\ SpoolInductive' /\ Fits /\ [SpoolNext]_spoolVars => Fits'
<1> SUFFICES ASSUME SpoolInductive, SpoolInductive', Fits, [SpoolNext]_spoolVars
             PROVE  Fits'
  OBVIOUS
<1>1. /\ SpoolTypeOK /\ SpoolTypeOK' /\ Hands /\ Unfiled /\ Drafted
  BY DEF SpoolInductive, SpoolInvariant
<1>2. ASSUME NEW p \in Procs, Step(p), NEW q \in Procs
      PROVE  Weight(Stock(Key[q])') <= Room(Key[q])
  <2>1. PICK e \in Environments : e = Key[q]
    BY SpoolAssumption
  <2>2. Weight(Stock(e)) <= Room(e) /\ Room(e) \in Nat /\ Weight(Stock(e)) \in Nat
    BY <1>1, <2>1, RoomType, StockType, WeightIsSum DEF Fits
  <2>3. CASE e = Key[p] /\ Stage(p)
    BY <1>1, <2>1, <2>3, StockStages
  <2>4. CASE e = Key[p] /\ Publish(p)
    <3>1. Weight(Stock(e)') <= Weight(Stock(e))
      BY <1>1, <2>4, StockRenames
    <3>2. PICK R : R = Stock(e)'
      OBVIOUS
    <3>3. R \in SUBSET Files
      <4>1. dir'[e] \in SUBSET Files
        BY <1>1 DEF SpoolTypeOK
      <4> QED
        BY <3>2, <4>1 DEF Stock, Entries, Pending
    <3>4. Weight(R) \in Nat
      BY <3>3, WeightIsSum
    <3> QED
      BY <2>1, <2>2, <3>1, <3>2, <3>4
  <2>5. CASE ~ (e = Key[p] /\ (Stage(p) \/ Publish(p)))
    <3>1. PICK R, S : R = Stock(e)' /\ S = Stock(e)
      OBVIOUS
    <3>2. R \in SUBSET S /\ S \in SUBSET Files
      BY <1>1, <1>2, <2>5, <3>1, StockLeaves, StockType
    <3>3. Weight(R) <= Weight(S) /\ Weight(R) \in Nat /\ Weight(S) \in Nat
      BY <3>2, WeightGrows, WeightIsSum
    <3> QED
      BY <2>1, <2>2, <3>1, <3>3
  <2> QED
    BY <2>3, <2>4, <2>5
<1>3. ASSUME UNCHANGED spoolVars, NEW q \in Procs
      PROVE  Weight(Stock(Key[q])') <= Room(Key[q])
  <2>1. Stock(Key[q])' = Stock(Key[q])
    BY <1>3 DEF spoolVars, procVars, Stock, Entries, Pending
  <2> QED
    BY <2>1 DEF Fits
<1>4. \A q \in Procs : Weight(Stock(Key[q])') <= Room(Key[q])
  BY <1>2, <1>3 DEF SpoolNext, Step
<1> QED
  BY <1>4 DEF Fits

\* The outbox stays within its cap but for the session line of one batch and for
\* one batch of each other governor of its environment: enforce_cap, which looks
\* before the draft is renamed and leaves the drafts out, lets no more pass.
THEOREM OutboxIsBounded == SpoolSpec => []OutboxBounded
<1>1. SpoolInit => Fits
  <2> SUFFICES ASSUME SpoolInit, NEW q \in Procs
               PROVE  Weight(Stock(Key[q])) <= Room(Key[q])
    BY DEF Fits
  <2>1. Stock(Key[q]) = {}
    BY SpoolAssumption DEF SpoolInit, Stock, Entries, Pending
  <2>2. Weight({}) = 0 /\ Room(Key[q]) \in Nat
    BY WeightIsSum, RoomType
  <2> QED
    BY <2>1, <2>2
<1>2. SpoolInductive /\ Fits => OutboxBounded
  <2> SUFFICES ASSUME SpoolInductive, Fits, NEW q \in Procs
               PROVE  Weight(Entries(dir[Key[q]])) <= Room(Key[q])
    BY DEF OutboxBounded, Room, Writers
  <2>1. SpoolTypeOK /\ Key[q] \in Environments
    BY SpoolAssumption DEF SpoolInductive, SpoolInvariant
  <2>2. PICK R, S : R = Entries(dir[Key[q]]) /\ S = Stock(Key[q])
    OBVIOUS
  <2>3. R \in SUBSET S /\ S \in SUBSET Files
    BY <2>1, <2>2, StockType DEF Stock
  <2>4. Weight(R) <= Weight(S) /\ Weight(R) \in Nat /\ Weight(S) \in Nat /\ Room(Key[q]) \in Nat
    BY <2>3, WeightGrows, WeightIsSum, RoomType
  <2>5. Weight(S) <= Room(Key[q])
    BY <2>2 DEF Fits
  <2> QED
    BY <2>2, <2>4, <2>5
<1> QED
  BY <1>1, <1>2, FitsStep, SpoolInductiveInit, SpoolInductiveStep, PTL DEF SpoolSpec
=============================================================================
