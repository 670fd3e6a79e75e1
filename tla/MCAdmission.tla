---------------------------- MODULE MCAdmission ----------------------------
(***************************************************************************)
(* Two governors, a remote joiner, and a local one on the machine of one   *)
(* of them; a rotation, before or after one to a token that is too short.  *)
(* The orchestrator probes from the address of the remote joiner.          *)
(***************************************************************************)
EXTENDS AdmissionProperties

CONSTANTS g1, g2, remote, local, far, near

MCHome == [j \in {local} |-> g1]
MCFrom == [j \in {remote, local} |-> IF j = remote THEN far ELSE near]
=============================================================================
