------------------------------ MODULE MCOverlap ------------------------------
(***************************************************************************)
(* One run and three clients whose tool calls overlap: a tool with a cap   *)
(* of 2, a tool with a cap of 0, a tool that denies, and a stop.           *)
(***************************************************************************)
EXTENDS GovernorProperties

CONSTANTS search, never, a, r1, c1, c2, c3

MCTools    == {search, never}
MCMaxCalls == [t \in MCTools |-> IF t = search THEN 2 ELSE 0]
MCRuns     == {r1}
MCClients  == {c1, c2, c3}

Ask(op, on) == [op |-> op, which |-> "app", on |-> on, tokens |-> 0]

MCRequests == {Ask("tool", search), Ask("tool", never), Ask("stop", "ManualStop")}
=============================================================================
