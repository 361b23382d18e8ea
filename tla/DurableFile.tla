----------------------------- MODULE DurableFile -----------------------------
(***************************************************************************)
(* What util/fs-atomic.ts promises of a file that is replaced.  Whoever    *)
(* looks sees a value somebody wrote, and the power may take it back to an *)
(* earlier one only as long as the directory has not been flushed.  A      *)
(* write replaces the file or is refused, and never both.  Every other     *)
(* module takes the writing of a record as one step of this file.          *)
(***************************************************************************)
CONSTANTS Values, None   \* what is written, each once; no such file

VARIABLES
  value,     \* what a reader finds
  fallback,  \* what a reader may find after a loss of power
  outcome    \* what came of each write: "open", "replaced" or "refused"

fileVars == <<value, fallback, outcome>>

FileInit == value = None /\ fallback = {None} /\ outcome = [v \in Values |-> "open"]

Decides(v, how) == outcome[v] = "open" /\ outcome' = [outcome EXCEPT ![v] = how]

Replace ==
  \E v \in Values : /\ Decides(v, "replaced")
                    /\ value' = v /\ fallback' = fallback \cup {v}

\* The caller gets an error.
Refuse == (\E v \in Values : Decides(v, "refused")) /\ UNCHANGED <<value, fallback>>

\* The disk has caught up.
Settle == fallback' = {value} /\ UNCHANGED <<value, outcome>>

LosePower == value' \in fallback /\ fallback' = {value'} /\ UNCHANGED outcome

FileNext == Replace \/ Refuse \/ Settle \/ LosePower

FileSpec == FileInit /\ [][FileNext]_fileVars
=============================================================================
