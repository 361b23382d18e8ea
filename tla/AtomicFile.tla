------------------------------ MODULE AtomicFile ------------------------------
(***************************************************************************)
(* The replacement of a file, call by call: writeFileAtomic of             *)
(* src/util/fs-atomic.ts, by several writers of one file, with calls that  *)
(* fail, processes that die and a loss of power.                           *)
(*                                                                         *)
(* An inode is the file a writer has opened under a random name beside the *)
(* target; the rename makes it the target.  What the disk keeps through a  *)
(* loss of power is what the code may rely on: an inode that was flushed,  *)
(* and a directory entry as it was at the last flush of the directory or   *)
(* at some rename since.                                                   *)
(***************************************************************************)
EXTENDS Naturals, FiniteSets

CONSTANTS
  Savers,
  Attempts,      \* renames tried, 8 in the code
  MaxWrites,     \* bound on the writes begun
  MaxTrouble     \* bound on the deaths, and on the losses of power

None == 0              \* no file
Inodes == 1..MaxWrites

ASSUME FileAssumption ==
  Attempts \in Nat \ {0} /\ MaxWrites \in Nat /\ MaxTrouble \in Nat

VARIABLES
  written,    \* how much of each inode is there: "none", "part" or "whole"
  flushed,    \* the inodes whose contents are on the disk
  target,     \* the inode under the name of the file
  entries,    \* the inodes the disk may have under that name
  temps,      \* the inodes under a name of their own
  step, mine,   \* what each writer does next, and its inode
  tried,      \* the renames it has tried
  next,       \* the inode the next write gets
  trouble,
  outcome     \* history: what came of each write: "open", "replaced" or "refused"

writeVars == <<written, flushed, target, entries, temps, step, mine, tried, next,
          trouble, outcome>>

WriteLabels == {"idle", "open", "write", "flush", "rename", "flushDir", "cleanUp", "done", "failed"}
Writing(w) == step[w] \notin {"idle", "done", "failed"}

WriteTypeOK ==
  /\ written \in [Inodes -> {"none", "part", "whole"}]
  /\ flushed \subseteq Inodes
  /\ target \in Inodes \cup {None}
  /\ entries \subseteq Inodes \cup {None} /\ target \in entries
  /\ temps \subseteq Inodes
  /\ step \in [Savers -> WriteLabels]
  /\ mine \in [Savers -> Inodes \cup {None}]
  /\ tried \in [Savers -> 0..Attempts]
  /\ next \in 1..MaxWrites + 1
  /\ trouble \in 0..MaxTrouble
  /\ outcome \in [Inodes -> {"open", "replaced", "refused"}]

WriteInit ==
  /\ written = [i \in Inodes |-> "none"] /\ flushed = {}
  /\ target = None /\ entries = {None} /\ temps = {}
  /\ step = [w \in Savers |-> "idle"] /\ mine = [w \in Savers |-> None]
  /\ tried = [w \in Savers |-> 0]
  /\ next = 1 /\ trouble = 0 /\ outcome = [i \in Inodes |-> "open"]

StepsTo(w, label) == step' = [step EXCEPT ![w] = label]
onDisk == <<written, flushed, target, entries, temps>>

-----------------------------------------------------------------------------
(* writeFileAtomic.                                                        *)

Begin(w) ==
  /\ step[w] \in {"idle", "done", "failed"} /\ next <= MaxWrites
  /\ mine' = [mine EXCEPT ![w] = next] /\ next' = next + 1
  /\ tried' = [tried EXCEPT ![w] = 0]
  /\ StepsTo(w, "open")
  /\ UNCHANGED <<onDisk, trouble, outcome>>

\* The directory is made and the temporary file opened, or one of them fails; then
\* there is no file, and the removal finds none.
OpenTemp(w) ==
  /\ step[w] = "open"
  /\ \/ StepsTo(w, "write") /\ temps' = temps \cup {mine[w]}
     \/ StepsTo(w, "cleanUp") /\ UNCHANGED temps
  /\ UNCHANGED <<written, flushed, target, entries, mine, tried, next, trouble, outcome>>

\* The write goes on in parts and may fail at any of them.
Write(w) ==
  /\ step[w] = "write"
  /\ \/ written[mine[w]] = "none" /\ written' = [written EXCEPT ![mine[w]] = "part"]
        /\ UNCHANGED step
     \/ written[mine[w]] = "part" /\ written' = [written EXCEPT ![mine[w]] = "whole"]
        /\ StepsTo(w, "flush")
     \/ StepsTo(w, "cleanUp") /\ UNCHANGED written
  /\ UNCHANGED <<flushed, target, entries, temps, mine, tried, next, trouble, outcome>>

\* Faulty variant of Flush: it is left to the operating system.
FlushLater(w) ==
  /\ step[w] = "flush"
  /\ StepsTo(w, "rename")
  /\ UNCHANGED <<onDisk, mine, tried, next, trouble, outcome>>

\* handle.sync, then handle.close.
Flush(w) ==
  /\ step[w] = "flush"
  /\ \/ StepsTo(w, "rename") /\ flushed' = flushed \cup {mine[w]}
     \/ StepsTo(w, "cleanUp") /\ UNCHANGED flushed
  /\ UNCHANGED <<written, target, entries, temps, mine, tried, next, trouble, outcome>>

NoTryLeft(w) == tried[w] >= Attempts - 1

\* Somebody holds the target open: the rename is tried again after a delay.
RenameHeld(w) ==
  /\ step[w] = "rename"
  /\ tried' = [tried EXCEPT ![w] = @ + 1]
  /\ IF NoTryLeft(w) THEN StepsTo(w, "cleanUp") ELSE UNCHANGED step
  /\ UNCHANGED <<onDisk, mine, next, trouble, outcome>>

\* Any other error is not worth a second attempt.
RenameFails(w) ==
  /\ step[w] = "rename" /\ StepsTo(w, "cleanUp")
  /\ UNCHANGED <<onDisk, mine, tried, next, trouble, outcome>>

Rename(w) ==
  /\ step[w] = "rename" /\ StepsTo(w, "flushDir")
  /\ target' = mine[w] /\ entries' = entries \cup {mine[w]}
  /\ temps' = temps \ {mine[w]}
  /\ outcome' = [outcome EXCEPT ![mine[w]] = "replaced"]
  /\ UNCHANGED <<written, flushed, mine, tried, next, trouble>>

\* The disk has the entry as it is, and none it had before.  Best effort: on Windows
\* a directory cannot be opened.
FlushDirectory(w) ==
  /\ step[w] = "flushDir" /\ StepsTo(w, "done")
  /\ entries' = {target} \/ UNCHANGED entries
  /\ UNCHANGED <<written, flushed, target, temps, mine, tried, next, trouble, outcome>>

\* The removal may fail too, and then nobody hears of it.
CleanUp(w) ==
  /\ step[w] = "cleanUp" /\ StepsTo(w, "failed")
  /\ temps' = temps \ {mine[w]} \/ UNCHANGED temps
  /\ outcome' = [outcome EXCEPT ![mine[w]] = "refused"]
  /\ UNCHANGED <<written, flushed, target, entries, mine, tried, next, trouble>>

SaverStep(w) ==
  \/ OpenTemp(w) \/ Write(w) \/ Flush(w)
  \/ RenameHeld(w) \/ RenameFails(w) \/ Rename(w)
  \/ FlushDirectory(w) \/ CleanUp(w)

-----------------------------------------------------------------------------
(* The others.                                                             *)

SaverDies(w) ==
  /\ Writing(w) /\ StepsTo(w, "idle")
  /\ trouble < MaxTrouble /\ trouble' = trouble + 1
  /\ UNCHANGED <<onDisk, mine, tried, next, outcome>>

\* Every process ends.  The disk has one of the entries it may have, and of what was
\* not flushed perhaps a part; a rename that is undone gives the other name back.
LosePower ==
  /\ trouble < MaxTrouble /\ trouble' = trouble + 1
  /\ \E i \in entries : \E kept \in SUBSET ((temps \cup entries) \ {i, None}) :
       target' = i /\ entries' = {i} /\ temps' = kept
  /\ \E torn \in SUBSET {i \in Inodes \ flushed : written[i] = "whole"} :
       written' = [i \in Inodes |-> IF i \in torn THEN "part" ELSE written[i]]
  /\ flushed' = flushed \cup 1..next - 1
  /\ step' = [w \in Savers |-> "idle"]
  /\ UNCHANGED <<mine, tried, next, outcome>>

WriteNext ==
  \/ \E w \in Savers : Begin(w) \/ SaverStep(w) \/ SaverDies(w)
  \/ LosePower

WriteSpec == WriteInit /\ [][WriteNext]_writeVars

-----------------------------------------------------------------------------
(***************************************************************************)
(* The properties.                                                         *)
(***************************************************************************)
\* fs-atomic.ts:10-13: "a crash mid-write leaves either the old file or the new one".
\* Whoever reads finds a value that was written, whole, whatever fails and dies and
\* loses power; only what the directory's flush has not reached can be taken back; and
\* a caller who is told of an error has not replaced the file, and never will.
Torn == MaxWrites + 1

\* What readFileOrNull gives: an inode is opened under the name, and read.
ValueOf(i) == IF i = None \/ written[i] = "whole" THEN i ELSE Torn
File == INSTANCE DurableFile
          WITH Values <- Inodes, value <- ValueOf(target),
               fallback <- {ValueOf(i) : i \in entries}
ImplementsDurableFile == File!FileSpec
=============================================================================
