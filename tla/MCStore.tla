------------------------------- MODULE MCStore -------------------------------
(***************************************************************************)
(* How records get to the disk and back: the calls that write them, by     *)
(* Records; the replacement of one file, by AtomicFile; and decisions.md,  *)
(* by Decisions.  None touches the state of another, and a behaviour is    *)
(* about one of them.                                                      *)
(*                                                                         *)
(* Two writers, three writes, two attempts for each rename.  Two machines  *)
(* and three decisions: two of one title, two whose reasons end alike, one *)
(* whose reason has a heading in it.                                       *)
(***************************************************************************)
EXTENDS MCRecords, AtomicFile, Decisions

MCEntries == {"d1", "d2", "d3"}
MCTitle == [d \in MCEntries |-> IF d = "d3" THEN "other" ELSE "same"]
Given(type, text) == [kind |-> type, text |-> <<text>>, nl |-> TRUE]
MCReason == [d \in MCEntries |->
  CASE d = "d1" -> <<Given("text", "r")>>
    [] d = "d2" -> <<>>
    [] d = "d3" -> <<Given("text", "s"), Given("heading", "part"), Given("text", "r")>>]

VARIABLE about   \* what the behaviour is about
storeVars == <<vars, writeVars, decisionsVars, about>>

\* Where it is not about the calls, these are some calls that have not begun.
SomeCalls ==
  /\ disk["project"] = Record(0, {}) /\ disk["tasks"] = NoFile
  /\ kind = [c \in Callers |-> CHOOSE k \in KindsOf[c] : TRUE]

StoreInit ==
  /\ Init /\ WriteInit /\ DecisionsInit
  /\ \/ about = "calls"
     \/ about \in {"file", "decisions"} /\ SomeCalls

StoreNext ==
  /\ UNCHANGED about
  /\ \/ about = "calls" /\ Next /\ UNCHANGED <<writeVars, decisionsVars>>
     \/ about = "file" /\ WriteNext /\ UNCHANGED <<vars, decisionsVars>>
     \/ about = "decisions" /\ DecisionsNext /\ UNCHANGED <<vars, writeVars>>

StoreSpec == StoreInit /\ [][StoreNext]_storeVars

\* store.ts: decisions are read as they were recorded, in what the user writes and
\* git merges, with the exceptions Decisions names.
DecisionsReadBack == DecisionsAreRead /\ ReasonsNotMixed
=============================================================================
