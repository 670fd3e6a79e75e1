------------------------------ MODULE MCGovernor ------------------------------
(***************************************************************************)
(* Two runs, two clients: one tool with a cap of 1 in the registry, one    *)
(* user tool with no cap, one off the allowlist.                           *)
(***************************************************************************)
EXTENDS GovernorProperties

CONSTANTS search, mail, shell, a, r1, r2, c1, c2

MCTools    == {search, mail, shell}
MCAllowed  == {search, mail}
MCCapped   == {search}
MCMaxCalls == [t \in {search} |-> 1]
MCNames    == {a}
MCRuns     == {r1, r2}
MCClients  == {c1, c2}

Ask(op, which, on, tokens) == [op |-> op, which |-> which, on |-> on, tokens |-> tokens]

MCRequests ==
  {Ask("tool", "app", t, 0) : t \in MCTools} \cup
  {Ask("enter", "app", a, 0), Ask("exit", "app", NoName, 0),
   Ask("usage", "harness", a, 3), Ask("usage", "harness", NoName, 0),
   Ask("identify", "rules", a, 0),
   Ask("stop", "app", "BridgeUnavailable", 0), Ask("stop", "app", "ManualStop", 0),
   Ask("stopRule", "app", mail, 0), Ask("read", "app", NoName, 0),
   Ask("consult", "app", mail, 0)}
=============================================================================
