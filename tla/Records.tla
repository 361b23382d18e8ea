------------------------------ MODULE Records ------------------------------
(***************************************************************************)
(* The records of one project as the tools that write them use them: the   *)
(* tools of the MCP server (src/mcp/tools.ts), `task`, `decision` and      *)
(* `migrate`, over src/storage/store.ts and src/core/migrations.ts.        *)
(*                                                                         *)
(* A call opens the workspace, reads a file, changes what it read and      *)
(* writes all of it back; a decision is appended instead.  Nothing is      *)
(* locked, the server runs its calls side by side, and the user runs       *)
(* commands next to it.  A migration plans first, asks, copies the whole   *)
(* profile aside and then writes the records as it planned them.           *)
(*                                                                         *)
(* A record is its schema version and the set of calls whose change it     *)
(* holds: each call changes an entry or a field of its own.                *)
(***************************************************************************)
EXTENDS Naturals, FiniteSets

CONSTANTS
  Callers,     \* the calls
  NoFile,      \* no such file
  KindsOf,     \* what each call may be
  MaxFaults    \* bound: how many calls die, pulls arrive, files become unreadable

Kinds == {"focus", "task", "status", "decision", "checkpoint", "migrate"}
Files == {"project", "tasks", "decisions"}
CurrentVersion == 1
Versions == 0..CurrentVersion + 1
Records == [ok : BOOLEAN, version : Versions, edits : SUBSET Callers]

ASSUME RecordsAssumption ==
  /\ KindsOf \in [Callers -> SUBSET Kinds]
  /\ NoFile \notin Records
  /\ MaxFaults \in Nat

VARIABLES
  disk,         \* each file of the project
  checkpoints,  \* the checkpoint files, by the call that wrote each
  backup,       \* what each migration copied aside, under a name of its own
  pc,           \* where each call is
  kind,         \* what each call is
  copy,         \* the files as each call read or planned them
  faults,       \* how often something went wrong
  met,          \* history: the calls that each call ran beside and that write its record
  late,         \* history: the changes written beside each migration, once it has its copy
  unread        \* history: the changes a call wrote over because it could not read them

vars == <<disk, checkpoints, backup, pc, kind, copy, faults, met, late, unread>>

Labels == {"new", "header", "append", "checkpoint", "write", "plan", "confirm", "backup",
           "project", "tasks", "done", "failed", "dead"}

TypeOK ==
  /\ disk \in [Files -> Records \cup {NoFile}]
  /\ disk["project"] # NoFile
  /\ checkpoints \subseteq Callers
  /\ backup \in [Callers -> [Files -> Records \cup {NoFile}]]
  /\ pc \in [Callers -> Labels]
  /\ kind \in [Callers -> Kinds]
  /\ copy \in [Callers -> [Files -> Records \cup {NoFile}]]
  /\ faults \in 0..MaxFaults
  /\ met \in [Callers -> SUBSET Callers]
  /\ late \in [Callers -> SUBSET Callers] /\ unread \subseteq Callers

Record(v, edits) == [ok |-> TRUE, version |-> v, edits |-> edits]

Init ==
  /\ \E v \in 0..CurrentVersion, tasks \in {NoFile, Record(0, {})} :
       disk = [f \in Files |-> CASE f = "project" -> Record(v, {})
                                 [] f = "tasks" -> tasks
                                 [] OTHER -> NoFile]
  /\ checkpoints = {}
  /\ backup = [c \in Callers |-> [f \in Files |-> NoFile]]
  /\ pc = [c \in Callers |-> "new"]
  /\ kind \in {k \in [Callers -> Kinds] : \A c \in Callers : k[c] \in KindsOf[c]}
  /\ copy = [c \in Callers |-> [f \in Files |-> NoFile]]
  /\ faults = 0
  /\ met = [c \in Callers |-> {}]
  /\ late = [c \in Callers |-> {}] /\ unread = {}

Running(c) == pc[c] \notin {"new", "done", "failed", "dead"}
Goes(c, label) == pc' = [pc EXCEPT ![c] = label]

FileOf(c) == CASE kind[c] \in {"task", "status"} -> "tasks"
               [] kind[c] = "decision" -> "decisions"
               [] OTHER -> "project"

Edits(f) == IF disk[f] = NoFile THEN {} ELSE disk[f].edits

\* A call that begins meets the running ones that write the record it writes.
Rivals(c, d) == FileOf(c) = FileOf(d) \/ "migrate" \in {kind[c], kind[d]}
Meets(c) ==
  LET others == {d \in Callers : Running(d) /\ Rivals(c, d)}
  IN met' = [d \in Callers |-> IF d = c THEN others
                              ELSE met[d] \cup (IF d \in others THEN {c} ELSE {})]

\* What call c writes while a migration, another one, has its copy and has not ended.
Late(c, edits) ==
  late' = [d \in Callers |-> IF d # c /\ pc[d] \in {"project", "tasks"}
                             THEN late[d] \cup edits ELSE late[d]]

\* A call that has ended keeps nothing.
Forgets(c) == copy' = [copy EXCEPT ![c] = [f \in Files |-> NoFile]]

-----------------------------------------------------------------------------
(* Reading and migrating a record.                                         *)

\* migrateRecord: an older record is brought up to the current version, one
\* from the future is left as it is.
Migrated(record) ==
  [record EXCEPT !.version = IF @ < CurrentVersion THEN CurrentVersion ELSE @]

\* readYamlFile migrates in memory; a file that is missing or cannot be read is
\* null, which for tasks means none.
Loaded(f) == IF disk[f] # NoFile /\ disk[f].ok THEN Migrated(disk[f])
             ELSE Record(CurrentVersion, {})

-----------------------------------------------------------------------------
(* The calls that change one record.                                       *)

\* Faulty: works on what the server read when it started.
OpenCached(c) ==
  /\ pc[c] = "new" /\ kind[c] # "migrate"
  /\ copy' = [copy EXCEPT ![c][FileOf(c)] = Record(CurrentVersion, {})]
  /\ Goes(c, CASE kind[c] = "decision" -> "append"
               [] kind[c] = "checkpoint" -> "checkpoint"
               [] OTHER -> "write")
  /\ Meets(c)
  /\ UNCHANGED <<disk, checkpoints, backup, kind, faults, late, unread>>

\* Every call opens the workspace anew, and finds the project in project.yaml;
\* `task done` finds the task in tasks.yaml.
Open(c) ==
  /\ pc[c] = "new" /\ kind[c] # "migrate"
  /\ copy' = [copy EXCEPT ![c][FileOf(c)] =
                IF kind[c] = "decision" THEN disk["decisions"] ELSE Loaded(FileOf(c))]
  /\ Goes(c, CASE ~disk["project"].ok -> "failed"
               [] kind[c] = "status" /\ Loaded("tasks").edits = {} -> "failed"
               [] kind[c] = "decision" /\ disk["decisions"] = NoFile -> "header"
               [] kind[c] = "decision" /\ disk["decisions"] # NoFile -> "append"
               [] kind[c] = "checkpoint" -> "checkpoint"
               [] OTHER -> "write")
  /\ Meets(c)
  /\ UNCHANGED <<disk, checkpoints, backup, kind, faults, late, unread>>

\* A checkpoint is a file of its own, written before the project that dates it.
WriteCheckpoint(c) ==
  /\ pc[c] = "checkpoint"
  /\ checkpoints' = checkpoints \cup {c}
  /\ Goes(c, "write")
  /\ UNCHANGED <<disk, backup, kind, copy, faults, met, late, unread>>

\* What call c makes of the record it read.
Changed(record, c) == [record EXCEPT !.edits = @ \cup {c}]

\* The whole record is written back, with the change.
WriteBack(c) ==
  /\ pc[c] = "write"
  /\ disk' = [disk EXCEPT ![FileOf(c)] = Changed(copy[c][FileOf(c)], c)]
  /\ unread' = unread \cup (IF disk[FileOf(c)] # NoFile /\ ~disk[FileOf(c)].ok
                            THEN Edits(FileOf(c)) ELSE {})
  /\ Late(c, copy[c][FileOf(c)].edits \cup {c})
  /\ Goes(c, "done") /\ Forgets(c)
  /\ UNCHANGED <<checkpoints, backup, kind, faults, met>>

\* appendDecision: the first one writes a header, in place of whatever the file
\* has become since, and every one appends its entry.
WriteHeader(c) ==
  /\ pc[c] = "header"
  /\ disk' = [disk EXCEPT !["decisions"] = Record(CurrentVersion, {})]
  /\ Goes(c, "append")
  /\ UNCHANGED <<checkpoints, backup, kind, copy, faults, met, late, unread>>

\* Faulty: every decision begins the file anew.
AppendAnew(c) ==
  /\ pc[c] = "append"
  /\ disk' = [disk EXCEPT !["decisions"] = Record(CurrentVersion, {c})]
  /\ Late(c, {c})
  /\ Goes(c, "done") /\ Forgets(c)
  /\ UNCHANGED <<checkpoints, backup, kind, faults, met, unread>>

AppendDecision(c) ==
  /\ pc[c] = "append"
  /\ disk' = [disk EXCEPT !["decisions"] = Record(CurrentVersion, Edits("decisions") \cup {c})]
  /\ Late(c, {c})
  /\ Goes(c, "done") /\ Forgets(c)
  /\ UNCHANGED <<checkpoints, backup, kind, faults, met, unread>>

-----------------------------------------------------------------------------
(* `statenest migrate`.                                                    *)

Old(record) == record # NoFile /\ record.ok /\ record.version < CurrentVersion

Planned(c, f) == f # "decisions" /\ copy[c][f] # NoFile

\* The plan holds the migrated form of every readable record of an older
\* version; decisions are not versioned, a newer record is only reported.
Plan(c) ==
  /\ pc[c] = "new" /\ kind[c] = "migrate"
  /\ copy' = [copy EXCEPT ![c] = [f \in Files |->
                IF Old(disk[f]) THEN Migrated(disk[f]) ELSE NoFile]]
  /\ Goes(c, IF \E f \in Files : Old(disk[f]) THEN "confirm" ELSE "done")
  /\ Meets(c)
  /\ UNCHANGED <<disk, checkpoints, backup, kind, faults, late, unread>>

\* Faulty: writes without a copy.
ConfirmUnsaved(c) ==
  /\ pc[c] = "confirm"
  /\ Goes(c, "project")
  /\ UNCHANGED <<disk, checkpoints, backup, kind, copy, faults, met, late, unread>>

\* The user is asked, or asked for a dry run.
Confirm(c) ==
  /\ pc[c] = "confirm"
  /\ \/ Goes(c, "backup") /\ UNCHANGED copy
     \/ Goes(c, "done") /\ Forgets(c)
  /\ UNCHANGED <<disk, checkpoints, backup, kind, faults, met, late, unread>>

CopyAside(c) ==
  /\ pc[c] = "backup"
  /\ backup' = [backup EXCEPT ![c] = disk]
  /\ Goes(c, "project")
  /\ UNCHANGED <<disk, checkpoints, kind, copy, faults, met, late, unread>>

\* The planned records are written one after another, as they were planned.
WriteMigrated(c, f, next) ==
  /\ pc[c] = f
  /\ IF Planned(c, f) THEN disk' = [disk EXCEPT ![f] = copy[c][f]] /\ Late(c, copy[c][f].edits)
     ELSE UNCHANGED <<disk, late>>
  /\ Goes(c, next)
  /\ IF next = "done" THEN Forgets(c) ELSE UNCHANGED copy
  /\ UNCHANGED <<checkpoints, backup, kind, faults, met, unread>>

-----------------------------------------------------------------------------
(* What happens to calls and files from outside.                           *)

Fault == faults < MaxFaults /\ faults' = faults + 1

Die(c) ==
  /\ Fault /\ Running(c)
  /\ Goes(c, "dead") /\ Forgets(c)
  /\ UNCHANGED <<disk, checkpoints, backup, kind, met, late, unread>>

\* A record of a newer StateNest; a file with conflict markers in it.
Newer(record) == [record EXCEPT !.version = CurrentVersion + 1]
Spoilt(record) == [record EXCEPT !.ok = FALSE]

\* A sync brings the record as a newer StateNest wrote it on another machine.
PullNewer ==
  /\ Fault
  /\ \E f \in {"project", "tasks"} :
       /\ disk[f] # NoFile
       /\ disk' = [disk EXCEPT ![f] = Newer(disk[f])]
  /\ UNCHANGED <<checkpoints, backup, pc, kind, copy, met, late, unread>>

\* A sync stops in a conflict, or an edit goes wrong.
Spoil ==
  /\ Fault
  /\ \E f \in {"project", "tasks"} : /\ disk[f] # NoFile
                                     /\ disk' = [disk EXCEPT ![f] = Spoilt(disk[f])]
  /\ UNCHANGED <<checkpoints, backup, pc, kind, copy, met, late, unread>>

CallStep(c) ==
  \/ Open(c) \/ WriteCheckpoint(c) \/ WriteBack(c) \/ WriteHeader(c) \/ AppendDecision(c)
  \/ Plan(c) \/ Confirm(c) \/ CopyAside(c)
  \/ WriteMigrated(c, "project", "tasks") \/ WriteMigrated(c, "tasks", "done")

Next == (\E c \in Callers : CallStep(c) \/ Die(c)) \/ PullNewer \/ Spoil

Spec == Init /\ [][Next]_vars

-----------------------------------------------------------------------------
(* Properties.                                                             *)

\* What a migration copied aside of a file.
Saved(c, f) == IF backup[c][f] = NoFile THEN {} ELSE backup[c][f].edits

\* What a call said it recorded is there, in the record or in a backup, unless
\* a call it ran beside wrote the same record, or it was in a file that could
\* not be read when tasks were next written (which the code says cannot be:
\* UnreadRecordKept).  The server reads everything anew for every call
\* (src/mcp/tools.ts:33-42) so that this holds.
AnsweredIsKept ==
  \A c \in Callers :
    pc[c] = "done" /\ kind[c] # "migrate" =>
      \/ c \in Edits(FileOf(c)) \cup unread
      \/ \E d \in Callers : c \in Saved(d, FileOf(c))
      \/ met[c] # {}

\* A decision disappears only when the header of a call that found no file is
\* written over it.
DecisionsGrow ==
  [][Edits("decisions") \subseteq Edits("decisions")'
     \/ \E c \in Callers : /\ pc[c] = "header" /\ pc'[c] = "append"
                           /\ copy[c]["decisions"] = NoFile]_vars

\* A migration takes from a record only what its backup holds, or what was
\* changed after the copy was made.
BackupHoldsReplaced ==
  [][\A c \in Callers, f \in Files :
       pc[c] = f /\ pc'[c] # pc[c] =>
         Edits(f) \ Edits(f)' \subseteq late[c] \cup Saved(c, f)]_vars

\* store.ts:44-45: "Nothing here ever deletes data it could not parse", and what
\* doctor.ts:179 tells the user of such files.  A call that no other ran beside takes
\* nothing out of a file that cannot be read.
UnreadRecordKept ==
  [][\A c \in Callers :
       LET f == FileOf(c)
       IN pc[c] = "write" /\ pc'[c] = "done" /\ met[c] = {} /\ disk[f] # NoFile /\ ~disk[f].ok =>
            Edits(f) \subseteq Edits(f)']_vars
=============================================================================
