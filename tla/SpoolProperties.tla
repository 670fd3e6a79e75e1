--------------------------- MODULE SpoolProperties ---------------------------
(***************************************************************************)
(* What must hold of the forwarder and its outbox.                         *)
(***************************************************************************)
EXTENDS Spool

Delivered(b) == \E e \in Environments : [batch |-> b, whole |-> TRUE] \in cloud[e]

Held(b) == \E e \in Environments : \E f \in Entries(dir[e]) : f.batch = b

DroppedAs(b, causes) == \E d \in dropped : d.batch = b /\ d.cause \in causes

-----------------------------------------------------------------------------
(* Safety *)

\* Deliver or persist: a batch the drain thread handed over is with the cloud,
\* in the outbox, in the memory of a running forwarder, or was given up for one
\* of the causes sync.rs knows or because its process was killed.  No path
\* through send_batch, store, drain and a restart drops one silently.
EveryBatchAccounted ==
  \A b \in made :
    \/ Delivered(b)
    \/ Held(b)
    \/ \E p \in Procs : pc[p] # "down" /\ b \in InMemory(p)
    \/ DroppedAs(b, Causes)

\* A batch reaches the side of the cloud its key belongs to, whichever key the
\* governor that finally delivers it holds.
EnvironmentsSeparate ==
  \A e \in Environments : \A x \in cloud[e] : x.batch.env = e

\* The cloud never ingests part of a batch, wherever a governor was killed while
\* it stored one.
OnlyWholeBatches ==
  \A e \in Environments : \A x \in cloud[e] : x.whole

\* The drain posts the stored batches of one governor in the order it stored
\* them: none goes out while an older one of its session is still in the outbox.
DrainInOrder ==
  \A p \in Procs :
    pc[p] = "sendStored" =>
      LET f == Oldest(plan[p])
      IN  \A g \in Entries(dir[f.batch.env]) :
            g.batch.session = f.batch.session => f.at <= g.at

\* The outbox exceeds its cap by the session line of one batch, and by one batch
\* for each other governor: enforce_cap and the rename are separate steps.
OutboxBounded ==
  \A e \in {Key[p] : p \in Procs} :
    Weight(Entries(dir[e])) <=
      MaxSpool + Header + (Cardinality({p \in Procs : Key[p] = e}) - 1) * (Max(Sizes) + Header)

\* What is on disk and what the cloud has taken keep their form.
SpoolInvariant == SpoolTypeOK /\ EnvironmentsSeparate /\ OnlyWholeBatches

-----------------------------------------------------------------------------
(* Action properties *)

\* Once stored, a batch leaves the outbox only when the cloud has it, has
\* refused it for good, or the cap pushed it out.  A killed governor, an
\* unreachable cloud or another governor never costs it.
HeldIsDurable ==
  [][\A b \in made :
       Held(b) =>
         Held(b)' \/ Delivered(b)' \/ DroppedAs(b, {"refusedStored", "outboxFull"})']_spoolVars

-----------------------------------------------------------------------------
(* Liveness, under the fairness of FairSpoolSpec *)

\* A shutdown is delayed, not hung, by a cloud that cannot be reached: a forwarder
\* whose channel is closed ends.
FlushEnds ==
  \A p \in Procs : closed[p] /\ pc[p] # "down" ~> pc[p] = "down"
=============================================================================
