------------------------------- MODULE MCSpool -------------------------------
(***************************************************************************)
(* Two governors with a live key and one with a sandbox key in one app     *)
(* directory, started three times between them.                            *)
(***************************************************************************)
EXTENDS SpoolProperties, TLC

CONSTANTS p1, p2, p3

MCKey == [p \in {p1, p2, p3} |-> IF p = p3 THEN "sandbox" ELSE "live"]

MCLiveKey == [p \in {p1} |-> "live"]

Symmetry == Permutations({p1, p2})
=============================================================================
