--------------------------- MODULE MCSessionHooks ---------------------------
(***************************************************************************)
(* A small instance of SessionHooks, with two stories:                     *)
(*   - a session with a turn is compacted and ended, each delivered twice, *)
(*     while the repository changes;                                       *)
(*   - handlers of three kinds update one record at once, while locks time *)
(*     out, the record ages and the project comes and goes.                *)
(***************************************************************************)
EXTENDS SessionHooks, TLC

CONSTANTS s, p, t1, t2, c1, c2, x1, x2, A

MCEvents == {s, p, t1, t2, c1, c2, x1, x2}
MCKinds ==
  s :> "SessionStart" @@ p :> "PreCompact" @@ t1 :> "Stop" @@ t2 :> "Stop"
  @@ c1 :> "PostCompact" @@ c2 :> "PostCompact" @@ x1 :> "SessionEnd" @@ x2 :> "SessionEnd"
Redelivered == [e \in MCEvents |-> A]

CompactedAndEnded ==
  [events |-> {t1, c1, c2, x1, x2}, moves |-> 1,
   toggled |-> FALSE, failsOpen |-> FALSE, ages |-> FALSE]
Busy ==
  [events |-> {s, p, t1, t2}, moves |-> 0,
   toggled |-> TRUE, failsOpen |-> TRUE, ages |-> TRUE]
MCStories == {CompactedAndEnded, Busy}

\* The two deliveries of an event are interchangeable.
Deliveries == Permutations({c1, c2}) \cup Permutations({x1, x2})
=============================================================================
