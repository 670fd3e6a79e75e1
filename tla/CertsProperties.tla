-------------------------- MODULE CertsProperties ---------------------------
(***************************************************************************)
(* What must hold of a bundle and of the governor that serves it.          *)
(***************************************************************************)
EXTENDS Certs

CertsTypeOK ==
  /\ disk \in [Files -> Contents]
  /\ doing \in {"none", "generate", "rotate", "rename", "import", "remove"}
  /\ issues \in Issues /\ removes \in 0 .. MaxRemoves /\ deaths \in 0 .. MaxDeaths
  /\ gov \in {"down", "starting", "loaded", "up"}
  /\ served \in Bundle /\ buffer \in Bundle
  /\ reading \in {"idle", "ca", "cert", "key"}
  /\ {watching, told, unseen} \subseteq BOOLEAN
  /\ fleet \in Fleets
  /\ doing = "none" <=> steps = <<>>

-----------------------------------------------------------------------------
(* Safety *)

\* "CA unchanged, existing agents retain their trust anchor" (commands/certs.rs):
\* agents that got through once get through at every moment the governor is up,
\* whatever rotations are run or interrupted, restarts and reloads between two
\* renames included, until the operator generates, imports or removes.  The
\* names they dial are kept too, as long as no rotation is interrupted or
\* given names of its own.
FleetStaysConnected == (fleet.joined /\ gov = "up") => Connects(fleet)

\* Whatever commands were given, as long as none was interrupted, a bundle with
\* its CA key and without a foreign certificate can be served once no command
\* runs: a governor started or told now loads what is there, and the CA on
\* disk is the one that signed it.
SettledBundleLoads ==
  (doing = "none" /\ deaths = 0 /\ Whole("ca.key") /\ disk["ca.key"].ca = disk["ca.crt"].ca
     /\ disk["server.crt"].ca # External)
    => /\ Loads(OnDisk)
       /\ disk["ca.crt"].ca = disk["server.crt"].ca
       /\ disk["client.crt"].pair = disk["client.key"].pair

\* What the commands leave on disk is well formed.
CertsInvariant == CertsTypeOK /\ SettledBundleLoads

-----------------------------------------------------------------------------
(* Liveness, under CertsFairness *)

Current == served = OnDisk

Quiet == gov = "up" /\ doing = "none" /\ ~unseen

\* A governor whose watcher has missed nothing serves what is on disk before
\* long, if that can be served at all and nothing moves meanwhile.  A report
\* that arrives while the files are read is not lost.
ReloadCatchesUp ==
  Quiet ~> (Current \/ ~Loads(OnDisk) \/ ~Quiet)
=============================================================================
