------------------------------ MODULE MCRecords ------------------------------
(***************************************************************************)
(* A small instance of Records: a migration, at times another beside it,   *)
(* and calls of every kind.                                                *)
(***************************************************************************)
EXTENDS Records

CONSTANTS c1, c2, c3, c4

MCCallers == {c1, c2, c3, c4}
Calls == Kinds \ {"migrate"}
MCKindsOf == [c \in MCCallers |->
                CASE c = c1 -> {"migrate"}
                  [] c = c2 -> {"task", "focus"}
                  [] c = c3 -> Calls
                  [] OTHER -> {"status", "decision", "migrate"}]
=============================================================================
