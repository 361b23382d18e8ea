------------------------------ MODULE Registry ------------------------------
(***************************************************************************)
(* The project registry of one profile, as the processes of one machine    *)
(* use it: src/core/registry.ts over src/storage/store.ts.                 *)
(*                                                                         *)
(* A project is the file project.yaml in a directory named by the          *)
(* project's id, next to its tasks; its checkpoints are in another         *)
(* directory of that name.  The id is derived from the remote of the       *)
(* repository (and is then the same on every machine), or random when      *)
(* there is no remote.  A process identifies the project of a clone, keeps *)
(* what it read, and later writes all of it back; nothing is locked.       *)
(*                                                                         *)
(* When a project gains a remote, its directories are renamed to the id    *)
(* the remote implies: three file-system steps, any of which may fail or   *)
(* be the last before the process dies.                                    *)
(***************************************************************************)
EXTENDS Naturals, FiniteSets

CONSTANTS
  Clones,       \* directories of this machine
  Remotes,      \* the identities a remote may have; each one's derived id is itself
  NoRemote,     \* a clone without a remote, a project without a repository
  NoProject,    \* no project.yaml, or no project found
  Earlier,      \* a checkpoint of a project that was removed
  Callers,      \* the commands and hooks that run; each one's random id is itself
  DirOf,        \* the clone each one runs in
  KindsOf,      \* what each one may be
  MaxMoves,     \* bound: how often the remote of a clone changes
  MaxDeaths     \* bound: how many processes die or fail half-way

Checkpoints == Callers \cup {Earlier}
Kinds == {"add", "start", "checkpoint", "task", "remove"}
Ids == Remotes \cup Callers
Projects == [id : Ids, identity : Remotes \cup {NoRemote}, previous : SUBSET Remotes,
             at : SUBSET Clones]
TaskFiles == [owner : Ids, tasks : SUBSET Callers]

ASSUME RegistryAssumption ==
  /\ Remotes \cap Callers = {}
  /\ NoRemote \notin Remotes
  /\ NoProject \notin Projects
  /\ Earlier \notin Callers
  /\ DirOf \in [Callers -> Clones]
  /\ KindsOf \in [Callers -> SUBSET Kinds]
  /\ MaxMoves \in Nat /\ MaxDeaths \in Nat

VARIABLES
  remote,       \* the remote each clone has
  project,      \* project.yaml in each project directory
  taskFile,     \* tasks.yaml in each project directory; a file without tasks is no file
  checkpoints,  \* the checkpoint directories, by the caller that wrote each checkpoint
  pc,           \* where each process is
  knows,        \* what each process has in memory
  moves,        \* how often a remote has changed
  deaths,       \* how many processes died or failed
  owed,         \* history: the checkpoints written, without those the user deleted
  halfMoved,    \* history: project directories renamed without the record in them
  blurred       \* history: an identity changed beside another process, or by half

diskVars == <<project, taskFile, checkpoints>>
boundVars == <<moves, deaths>>
historyVars == <<owed, halfMoved, blurred>>
vars == <<remote, diskVars, pc, knows, boundVars, historyVars>>

Labels == {"new", "scan", "again", "create", "merge", "check", "moveHistory", "moveDir",
           "rename", "touch", "touched", "checkpoint", "save", "readTasks", "writeTasks",
           "delete", "purge", "done", "dead"}

NoTasks(id) == [owner |-> id, tasks |-> {}]

\* What a process is, the remote it saw, the project it works on as it read or
\* wrote it, whether its Registry has cached the list of projects, that list
\* while it is still looked at, and the tasks it read; and, as history, whether
\* another process ran at the same time.
Knowledge == [kind : Kinds, saw : Remotes \cup {NoRemote}, rec : Projects \cup {NoProject},
              listed : BOOLEAN, cache : SUBSET Projects, tasks : SUBSET Callers,
              owner : Ids, met : BOOLEAN]

Nothing(c) == [kind |-> "add", saw |-> NoRemote, rec |-> NoProject, listed |-> FALSE,
               cache |-> {}, tasks |-> {}, owner |-> c, met |-> FALSE]

TypeOK ==
  /\ remote \in [Clones -> Remotes \cup {NoRemote}]
  /\ project \in [Ids -> Projects \cup {NoProject}]
  /\ taskFile \in [Ids -> TaskFiles]
  /\ checkpoints \in [Ids -> SUBSET Checkpoints]
  /\ pc \in [Callers -> Labels]
  /\ knows \in [Callers -> Knowledge]
  /\ moves \in 0..MaxMoves
  /\ deaths \in 0..MaxDeaths
  /\ owed \subseteq Checkpoints
  /\ halfMoved \subseteq Ids
  /\ blurred \in BOOLEAN

\* Nothing is registered; a project that was may have left its checkpoints.
Init ==
  /\ remote \in [Clones -> Remotes \cup {NoRemote}]
  /\ project = [d \in Ids |-> NoProject]
  /\ taskFile = [d \in Ids |-> NoTasks(d)]
  /\ \E left \in Remotes \cup {NoRemote} :
       checkpoints = [d \in Ids |-> IF d = left THEN {Earlier} ELSE {}]
  /\ pc = [c \in Callers |-> "new"]
  /\ knows = [c \in Callers |-> Nothing(c)]
  /\ moves = 0 /\ deaths = 0
  /\ owed = UNION {checkpoints[d] : d \in Ids}
  /\ halfMoved = {} /\ blurred = FALSE

kind(c) == knows[c].kind
saw(c) == knows[c].saw
rec(c) == knows[c].rec

\* A process goes on with what it knows, or ends and knows nothing.
Proceed(c, label, known) ==
  /\ pc' = [pc EXCEPT ![c] = label]
  /\ knows' = [knows EXCEPT ![c] = IF label \in {"done", "dead"} THEN Nothing(c) ELSE known]

Goto(c, label) == Proceed(c, label, knows[c])
Works(c, label, p) == Proceed(c, label, [knows[c] EXCEPT !.rec = p])

Midway(c) == pc[c] \notin {"new", "done", "dead"}

(***************************************************************************)
(* identify                                                                *)
(***************************************************************************)

\* saveProject: the record goes to the directory its own id names.
Save(p) == project' = [project EXCEPT ![p.id] = p]

\* The projects listProjects returns.
All == {project[d] : d \in Ids} \ {NoProject}

\* byId: the cached record, or else the file.
ById(list, id) ==
  LET cached == {p \in list : p.id = id}
  IN IF cached # {} THEN cached ELSE {project[id]} \ {NoProject}

\* The project of the derived id, if it has that very identity.
Direct(list, r) == IF r = NoRemote THEN {} ELSE {p \in ById(list, r) : p.identity = r}

\* byRepositoryIdentity, then byLocation: the first hit in directory order.
Matches(c, r, list) ==
  LET current == {p \in list : p.identity = r}
      transferred == {p \in list : r \in p.previous}
      here == {p \in list : DirOf[c] \in p.at}
  IN IF r # NoRemote /\ current # {} THEN current
     ELSE IF r # NoRemote /\ transferred # {} THEN transferred ELSE here

\* What a process does with the project it identified, or without one.
AfterFound(k) ==
  CASE k = "add" -> "merge"
    [] k = "start" -> "touch"
    [] k = "checkpoint" -> "checkpoint"
    [] k = "task" -> "readTasks"
    [] k = "remove" -> "delete"

\* autoRegister wants a remote; it calls register, which identifies again.
AfterMissed(c) ==
  CASE kind(c) = "add" -> "create"
    [] kind(c) = "start" /\ saw(c) # NoRemote -> "again"
    [] OTHER -> "done"

\* identify: read the repository, then the one file its remote points at.
\* `statenest remove` resolves a name in the list of projects instead.
Identify(c) ==
  /\ pc[c] = "new"
  /\ \E k \in KindsOf[c] :
       LET r == remote[DirOf[c]]
           direct == IF k = "remove" THEN {} ELSE Direct({}, r)
           others == {d \in Callers \ {c} : Midway(d)}
       IN /\ pc' = [pc EXCEPT ![c] = IF direct = {} THEN "scan" ELSE AfterFound(k)]
          /\ knows' = [d \in Callers |->
               IF d = c THEN [knows[c] EXCEPT !.kind = k, !.saw = r, !.met = others # {},
                        !.rec = IF direct = {} THEN NoProject ELSE CHOOSE p \in direct : TRUE]
               ELSE IF d \in others THEN [knows[d] EXCEPT !.met = TRUE] ELSE knows[d]]
  /\ blurred' = (blurred \/ \E d \in Callers : pc[d] = "rename")
  /\ UNCHANGED <<remote, diskVars, boundVars, owed, halfMoved>>

\* identify: all projects are read and cached.
Scan(c) ==
  /\ pc[c] = "scan"
  /\ LET found == IF kind(c) = "remove" THEN All ELSE Matches(c, saw(c), All)
         listed == [knows[c] EXCEPT !.listed = TRUE]
     IN \/ \E p \in found : Proceed(c, AfterFound(kind(c)), [listed EXCEPT !.rec = p])
        \/ found = {} /\ Proceed(c, AfterMissed(c), [listed EXCEPT
             !.cache = IF AfterMissed(c) = "again" THEN All ELSE {}])
  /\ UNCHANGED <<remote, diskVars, boundVars, historyVars>>

\* register, called by autoRegister, reads the repository and identifies again,
\* now with the cached list; only the file of the derived id is read afresh.
IdentifyAgain(c) ==
  /\ pc[c] = "again"
  /\ LET r == remote[DirOf[c]]
         direct == Direct(knows[c].cache, r)
         found == IF direct # {} THEN direct ELSE Matches(c, r, knows[c].cache)
         known == [knows[c] EXCEPT !.saw = r, !.cache = {}]
     IN \/ \E p \in found : Proceed(c, "merge", [known EXCEPT !.rec = p])
        \/ found = {} /\ Proceed(c, "create", known)
  /\ UNCHANGED <<remote, diskVars, boundVars, historyVars>>

(***************************************************************************)
(* register                                                                *)
(***************************************************************************)

\* SessionStart goes on to touchActivity.
AfterRegister(c) == IF kind(c) = "start" THEN "touch" ELSE "done"

Located(p, d) == [p EXCEPT !.at = @ \cup {d}]

\* Faulty: every project gets a random id.
RandomCandidate(c) ==
  [id |-> c, identity |-> saw(c), previous |-> {}, at |-> {DirOf[c]}]

\* deriveProjectId and the candidate record.
Candidate(c) ==
  [id |-> IF saw(c) # NoRemote THEN saw(c) ELSE c,
   identity |-> saw(c), previous |-> {}, at |-> {DirOf[c]}]

Create(c) ==
  /\ pc[c] = "create"
  /\ Save(Candidate(c))
  /\ Works(c, AfterRegister(c), Candidate(c))
  /\ UNCHANGED <<remote, taskFile, checkpoints, boundVars, historyVars>>

\* Faulty: the identity before a transfer is not remembered.
ReconciledAfresh(p, r) == IF r = NoRemote THEN p ELSE [p EXCEPT !.identity = r]

\* reconcileRepository: a remote that differs from the recorded one replaces it,
\* and the recorded one joins the previous identities.
Reconciled(p, r) ==
  IF r = NoRemote THEN p
  ELSE [p EXCEPT !.identity = r,
                 !.previous = IF p.identity \in {r, NoRemote} THEN @ ELSE @ \cup {p.identity}]

GainsRemote(p, r) == p.identity = NoRemote /\ r # NoRemote

\* register, for a project that is known.
Merge(c) ==
  /\ pc[c] = "merge"
  /\ LET merged == Reconciled(Located(rec(c), DirOf[c]), saw(c)) IN
       /\ Save(merged)
       /\ Works(c, IF GainsRemote(rec(c), saw(c)) THEN "check" ELSE AfterRegister(c), merged)
       /\ blurred' = (blurred \/ (merged.identity # rec(c).identity /\ knows[c].met))
  /\ UNCHANGED <<remote, taskFile, checkpoints, boundVars, owed, halfMoved>>

(***************************************************************************)
(* adoptDerivedId                                                          *)
(***************************************************************************)

\* Never collide with a project that already has the derived id.
CheckDerived(c) ==
  /\ pc[c] = "check"
  /\ Goto(c, IF project[saw(c)] # NoProject THEN AfterRegister(c) ELSE "moveHistory")
  /\ UNCHANGED <<remote, diskVars, boundVars, historyVars>>

\* A rename throws and is caught: register returns what it had.
Fails(c) == deaths < MaxDeaths /\ deaths' = deaths + 1 /\ Goto(c, AfterRegister(c))

\* Faulty: what is in the way is replaced.
AlwaysMovable(old, new) == TRUE

\* A directory is not renamed over one with files in it.
Movable(old, new) == checkpoints[old] = {} \/ checkpoints[new] = {}

\* The checkpoints first.
MoveHistory(c) ==
  /\ pc[c] = "moveHistory"
  /\ LET old == rec(c).id
         new == saw(c)
     IN \/ /\ Movable(old, new)
           /\ checkpoints' = IF checkpoints[old] = {} THEN checkpoints
                ELSE [checkpoints EXCEPT ![new] = checkpoints[old], ![old] = {}]
           /\ Goto(c, "moveDir")
           /\ UNCHANGED deaths
        \/ /\ ~Movable(old, new)
           /\ Goto(c, AfterRegister(c))
           /\ UNCHANGED <<checkpoints, deaths>>
        \/ checkpoints[old] # {} /\ Fails(c) /\ UNCHANGED checkpoints
  /\ UNCHANGED <<remote, project, taskFile, moves, historyVars>>

HasFiles(d) == project[d] # NoProject \/ taskFile[d].tasks # {}

\* Then the project directory, with the record and the tasks as they are.
MoveDir(c) ==
  /\ pc[c] = "moveDir"
  /\ LET old == rec(c).id
         new == saw(c)
     IN \/ /\ HasFiles(old) /\ ~HasFiles(new)
           /\ project' = [project EXCEPT ![new] = project[old], ![old] = NoProject]
           /\ taskFile' = [taskFile EXCEPT ![new] = taskFile[old], ![old] = NoTasks(old)]
           /\ blurred' = (blurred \/ knows[c].met)
           /\ Goto(c, "rename")
           /\ UNCHANGED deaths
        \/ /\ ~HasFiles(old)
           /\ Goto(c, "rename")
           /\ UNCHANGED <<project, taskFile, blurred, deaths>>
        \/ /\ HasFiles(old) /\ HasFiles(new)
           /\ Goto(c, AfterRegister(c))
           /\ UNCHANGED <<project, taskFile, blurred, deaths>>
        \/ HasFiles(old) /\ Fails(c) /\ UNCHANGED <<project, taskFile, blurred>>
  /\ UNCHANGED <<remote, checkpoints, moves, owed, halfMoved>>

\* Faulty: the record is saved as it was.
KeptId(c) == rec(c)

Renamed(c) == [rec(c) EXCEPT !.id = saw(c)]

\* Then the record gets the id of its directory; or the write fails, and the
\* record in the renamed directory keeps the old one.
SaveRenamed(c) ==
  /\ pc[c] = "rename"
  /\ \/ /\ Save(Renamed(c))
        /\ Works(c, AfterRegister(c), Renamed(c))
        /\ blurred' = (blurred \/ knows[c].met)
        /\ UNCHANGED <<deaths, halfMoved>>
     \/ /\ Fails(c)
        /\ halfMoved' = halfMoved \cup {saw(c)}
        /\ blurred' = TRUE
        /\ UNCHANGED project
  /\ UNCHANGED <<remote, taskFile, checkpoints, moves, owed>>

(***************************************************************************)
(* touchActivity, checkpoints, tasks, remove                               *)
(***************************************************************************)

\* byId: the cached record, or else the file as it is now.
ReadForTouch(c) ==
  /\ pc[c] = "touch"
  /\ LET p == IF knows[c].listed THEN rec(c) ELSE project[rec(c).id] IN
       Works(c, IF p = NoProject THEN "done" ELSE "touched", p)
  /\ UNCHANGED <<remote, diskVars, boundVars, historyVars>>

Touch(c) ==
  /\ pc[c] = "touched"
  /\ Save(Located(rec(c), DirOf[c]))
  /\ Goto(c, "done")
  /\ UNCHANGED <<remote, taskFile, checkpoints, boundVars, historyVars>>

\* createCheckpoint: a file of its own under the project's id.
WriteCheckpoint(c) ==
  /\ pc[c] = "checkpoint"
  /\ checkpoints' = [checkpoints EXCEPT ![rec(c).id] = @ \cup {c}]
  /\ owed' = owed \cup {c}
  /\ Goto(c, "save")
  /\ UNCHANGED <<remote, project, taskFile, boundVars, halfMoved, blurred>>

\* Then the project as it was read, with the time of the checkpoint.
SaveCheckpointed(c) ==
  /\ pc[c] = "save"
  /\ Save(rec(c))
  /\ Goto(c, "done")
  /\ UNCHANGED <<remote, taskFile, checkpoints, boundVars, historyVars>>

ReadTasks(c) ==
  /\ pc[c] = "readTasks"
  /\ LET file == taskFile[rec(c).id] IN
       Proceed(c, "writeTasks", [knows[c] EXCEPT
         !.tasks = file.tasks,
         !.owner = IF file.tasks = {} THEN rec(c).id ELSE file.owner])
  /\ UNCHANGED <<remote, diskVars, boundVars, historyVars>>

\* writeTasks: to the file of the project the task file says it belongs to.
WriteTasks(c) ==
  /\ pc[c] = "writeTasks"
  /\ taskFile' = [taskFile EXCEPT ![knows[c].owner] =
       [owner |-> knows[c].owner, tasks |-> knows[c].tasks \cup {c}]]
  /\ Goto(c, "done")
  /\ UNCHANGED <<remote, project, checkpoints, boundVars, historyVars>>

\* deleteProject: the project directory, then, if the user says so, the checkpoints.
DeleteProject(c) ==
  /\ pc[c] = "delete"
  /\ project' = [project EXCEPT ![rec(c).id] = NoProject]
  /\ taskFile' = [taskFile EXCEPT ![rec(c).id] = NoTasks(rec(c).id)]
  /\ Goto(c, "purge") \/ Goto(c, "done")
  /\ blurred' = (blurred \/ knows[c].met)
  /\ UNCHANGED <<remote, checkpoints, boundVars, owed, halfMoved>>

PurgeHistory(c) ==
  /\ pc[c] = "purge"
  /\ checkpoints' = [checkpoints EXCEPT ![rec(c).id] = {}]
  /\ owed' = owed \ checkpoints[rec(c).id]
  /\ Goto(c, "done")
  /\ UNCHANGED <<remote, project, taskFile, boundVars, halfMoved, blurred>>

(***************************************************************************)
(* The environment                                                         *)
(***************************************************************************)

\* git remote add, remove or set-url.
ChangeRemote(d) ==
  /\ moves < MaxMoves
  /\ moves' = moves + 1
  /\ \E r \in (Remotes \cup {NoRemote}) \ {remote[d]} : remote' = [remote EXCEPT ![d] = r]
  /\ UNCHANGED <<diskVars, pc, knows, deaths, historyVars>>

Die(c) ==
  /\ Midway(c)
  /\ deaths < MaxDeaths
  /\ deaths' = deaths + 1
  /\ Goto(c, "dead")
  /\ IF pc[c] = "rename"
       THEN halfMoved' = halfMoved \cup {saw(c)} /\ blurred' = TRUE
       ELSE UNCHANGED <<halfMoved, blurred>>
  /\ UNCHANGED <<remote, diskVars, moves, owed>>

CallerStep(c) ==
  \/ Identify(c) \/ Scan(c) \/ IdentifyAgain(c)
  \/ Create(c) \/ Merge(c)
  \/ CheckDerived(c) \/ MoveHistory(c) \/ MoveDir(c) \/ SaveRenamed(c)
  \/ ReadForTouch(c) \/ Touch(c)
  \/ WriteCheckpoint(c) \/ SaveCheckpointed(c)
  \/ ReadTasks(c) \/ WriteTasks(c)
  \/ DeleteProject(c) \/ PurgeHistory(c)

Next ==
  \/ \E c \in Callers : CallerStep(c) \/ Die(c)
  \/ \E d \in Clones : ChangeRemote(d)

Spec == Init /\ [][Next]_vars

(***************************************************************************)
(* Properties                                                              *)
(***************************************************************************)

\* registry.ts:109-111: a transferred repository "keeps its old identity on
\* record, so a machine that still has the old remote configured continues to
\* resolve to the same project rather than registering a second one".  However
\* remotes move and whoever writes an old copy back, a project whose id was
\* derived from a remote can be found by that remote.
IdRemembersIdentity ==
  \A p \in All : p.id \in Remotes => p.id \in {p.identity} \cup p.previous

\* The record in a project directory carries the id of the directory, so that
\* what is found by listing can be found by id; except between the renaming of a
\* directory and the writing of its record, for good if that writing never comes.
DirMatchesId ==
  \A d \in Ids : project[d] # NoProject /\ project[d].id # d =>
    d \in halfMoved \/ \E c \in Callers : pc[c] = "rename" /\ saw(c) = d

\* A checkpoint is never lost: through failed adoptions, removals, processes
\* with an old idea of the id and projects that come back, every one written is
\* in some checkpoint directory until its user deletes it (store.ts:121-123).
HistoryKept == owed \subseteq UNION {checkpoints[d] : d \in Ids}

\* One repository is one project (docs/multi-machine.md): processes that register
\* its clones at once, die, or come back to a removed project never make two
\* records of one identity, unless an identity changed or a project was removed
\* while another process was at work on what it had read.
OneRecordPerIdentity ==
  ~blurred => \A p, q \in All : p.identity = q.identity /\ p.identity # NoRemote => p = q
=============================================================================
