------------------------------ MODULE MCShutdown ------------------------------
(***************************************************************************)
(* The app's run and one opened by a joining process, one client: a tool,  *)
(* a model call, and a client that stopped itself on a denied tool.        *)
(***************************************************************************)
EXTENDS ShutdownProperties

CONSTANTS search, a, r1, r2, c1

MCMaxCalls == <<>>
MCRuns     == {r1, r2}

Ask(op, on, tokens) == [op |-> op, which |-> "app", on |-> on, tokens |-> tokens]

MCRequests ==
  {Ask("tool", search, 0), Ask("usage", NoName, 3), Ask("stop", "ToolDenied", 0)}
=============================================================================
