----------------------------- MODULE MCRegistry -----------------------------
(***************************************************************************)
(* Small instances of Registry: two clones of one repository.              *)
(***************************************************************************)
EXTENDS Registry, TLC

CONSTANTS A, B, r1, r2, a1, a2, u, v

MCClones == {A, B}
MCRemotes == {r1, r2}

\* One clone is registered twice; beside that, anything else runs in it, and
\* anything in the other one.
MCCallers == {a1, a2, u, v}
MCDirOf == a1 :> A @@ a2 :> A @@ u :> A @@ v :> B
MCKindsOf == a1 :> {"add"} @@ a2 :> {"add"} @@ u :> Kinds \ {"add"} @@ v :> Kinds

\* Neither of the two that register, nor of the remotes, is special.
MCSymmetry == Permutations({a1, a2}) \cup Permutations(MCRemotes)
=============================================================================
