------------------------------- MODULE MCPacks -------------------------------
(***************************************************************************)
(* Two versions of a pack and a pack whose name folds to the directory of  *)
(* the first.  The first version can be had from two sources, one of which *)
(* lacks a module.  A project that was checked out without a nanny.toml,   *)
(* with one that declares nothing, and with one that declares a pack.      *)
(***************************************************************************)
EXTENDS PacksProperties

CONSTANTS v1, v2, alias, old, torn, new, other, taint, loop, d1, d2, i1, i2

MCSources  == {old, torn, new, other}
MCPinOf    == [s \in MCSources |-> CASE s = new -> v2 [] s = other -> alias [] OTHER -> v1]
MCPromised == [s \in MCSources |-> CASE s = new -> {taint} [] s = other -> {loop} [] OTHER -> {taint, loop}]
MCHeld     == [MCPromised EXCEPT ![torn] = {taint}]
MCFolderOf == [p \in {v1, v2, alias} |-> IF p = v2 THEN d2 ELSE d1]
MCCheckouts ==
  {[pins |-> {}, vendored |-> {}, there |-> FALSE],
   [pins |-> {}, vendored |-> {}, there |-> TRUE],
   [pins |-> {v1}, vendored |-> {}, there |-> TRUE],
   [pins |-> {v1}, vendored |-> {old}, there |-> TRUE]}
MCSorted   == <<d1, d2>>
=============================================================================
