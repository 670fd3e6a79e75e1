----------------------------- MODULE MCDiscovery -----------------------------
(* A governor with an app, a headless one of the same app, and one port. *)
EXTENDS DiscoveryProperties

CONSTANTS a, g1, g2, j1

MCAppOf == [g \in Governors |-> a]
=============================================================================
