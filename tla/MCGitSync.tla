------------------------------ MODULE MCGitSync -----------------------------
(***************************************************************************)
(* Small instances of GitSync: two machines, two records.                  *)
(***************************************************************************)
EXTENDS GitSync, TLC

CONSTANTS m1, m2, a, b

MCMachines == {m1, m2}
MCPaths == {a, b}
MCLocated == {a}
NoLocated == {}

FewEdits == m1 :> 1 @@ m2 :> 2
=============================================================================
