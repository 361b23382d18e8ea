----------------------------- MODULE MCWorkspace -----------------------------
(***************************************************************************)
(* A small instance of Workspace: two profiles, one command that sets the  *)
(* home up and two that may be anything.                                   *)
(***************************************************************************)
EXTENDS Workspace, TLC

CONSTANTS c1, c2, c3, p1, p2

MCCallers == {c1, c2, c3}
MCProfiles == {p1, p2}
MCKindsOf == [c \in MCCallers |->
                CASE c = c1 -> {"init"}
                  [] c = c2 -> {"create", "connect", "use"}
                  [] OTHER -> {"use", "rename", "init", "import"}]
\* `statenest init`, again and again.
MCInits == [c \in MCCallers |-> {"init"}]
MCSymmetry == Permutations(MCProfiles)
=============================================================================
