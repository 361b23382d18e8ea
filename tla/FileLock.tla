------------------------------ MODULE FileLock ------------------------------
(***************************************************************************)
(* The advisory lock of src/util/file-lock.ts: a lock is a file created    *)
(* with open(.., 'wx') and removed with rm.  Several processes share the   *)
(* file system; each process holds any number of callers, which share its  *)
(* in-memory queue (the inFlight map).                                     *)
(*                                                                         *)
(* A caller uses one of two functions.  withExclusiveFileLock (the sync    *)
(* runner) skips its work when the lock is taken.  withFileLock (session   *)
(* records) queues behind its own process's callers, retries until its     *)
(* deadline, and then runs its work WITHOUT the lock.                      *)
(*                                                                         *)
(* Every file-system call is a step of its own, because every await is a   *)
(* point where another process may run.                                    *)
(***************************************************************************)
EXTENDS Naturals, Sequences

CONSTANTS
  Callers,            \* the calls made, one withFileLock/withExclusiveFileLock each
  Exclusive,          \* those that use withExclusiveFileLock
  Processes,          \* operating-system processes
  ProcessOf,          \* the process each caller runs in
  NoFile,             \* the lock file does not exist
  MaxMissingRetries,  \* MAX_MISSING_DIR_RETRIES
  MaxSweeps           \* bound: how often the directory may be swept away

ASSUME FileLockAssumption ==
  /\ Exclusive \subseteq Callers
  /\ ProcessOf \in [Callers -> Processes]
  /\ NoFile \notin [owner : Callers, age : 0..2, stamped : BOOLEAN]
  /\ MaxMissingRetries \in Nat
  /\ MaxSweeps \in Nat

VARIABLES
  file,      \* the lock file: its creator, its age class, whether it was stamped
  dir,       \* does the lock's directory exist
  pc,        \* where each caller is
  holds,     \* acquire() returned true for this caller
  late,      \* Date.now() >= deadline for this caller
  missing,   \* missingDirRetries of this caller
  verdict,   \* what isStale saw: "aged", "vanished" or "none"
  queue,     \* per process, the advisory callers in arrival order (inFlight)
  sweeps,    \* how often the directory was swept
  thefts,    \* history: how a live owner's lock file was removed by another
  leaked     \* history: callers whose stamp or release failed, leaving their file behind

vars == <<file, dir, pc, holds, late, missing, verdict, queue, sweeps, thefts, leaked>>

(***************************************************************************)
(* Age classes of the lock file: younger than a second, older than a       *)
(* second, older than staleMs.                                             *)
(***************************************************************************)
Fresh == 0
OverASecond == 1
OverStaleMs == 2

LockFile == [owner : Callers, age : Fresh..OverStaleMs, stamped : BOOLEAN]

Advisory == Callers \ Exclusive

\* The states of a caller inside acquire(), and those in which it believes
\* that it owns the lock file.
Acquiring == {"open", "stamp", "stat", "break"}
Running == Acquiring \cup {"work", "release"}

Owning(c) == pc[c] = "stamp" \/ (pc[c] \in {"work", "release"} /\ holds[c])

RootCauses == {"aged", "vanished", "swept"}

TypeOK ==
  /\ file \in LockFile \cup {NoFile}
  /\ dir \in BOOLEAN
  /\ pc \in [Callers -> Running \cup {"idle", "queued", "done", "skipped", "dead"}]
  /\ holds \in [Callers -> BOOLEAN]
  /\ late \in [Callers -> BOOLEAN]
  /\ missing \in [Callers -> 0..(MaxMissingRetries + 1)]
  /\ verdict \in [Callers -> {"none", "aged", "vanished"}]
  /\ queue \in [Processes -> Seq(Callers)]
  /\ sweeps \in 0..MaxSweeps
  /\ thefts \subseteq RootCauses \cup {"release"}
  /\ leaked \subseteq Callers

Init ==
  /\ file = NoFile
  /\ dir = TRUE
  /\ pc = [c \in Callers |-> "idle"]
  /\ holds = [c \in Callers |-> FALSE]
  /\ late = [c \in Callers |-> FALSE]
  /\ missing = [c \in Callers |-> 0]
  /\ verdict = [c \in Callers |-> "none"]
  /\ queue = [p \in Processes |-> <<>>]
  /\ sweeps = 0
  /\ thefts = {}
  /\ leaked = {}

Goto(c, label) == pc' = [pc EXCEPT ![c] = label]

(***************************************************************************)
(* Guards of the code that the mutated models weaken.                      *)
(***************************************************************************)

\* Faulty: open(.., 'w'), which succeeds on an existing file.
CreatesAlways(f) == TRUE

\* open(.., 'wx') succeeds only when the file is absent.
CreateSucceeds(f) == f = NoFile

\* Faulty: no in-process queue, as before it was introduced.
TurnAlways(c) == TRUE

\* The promise of the previous caller in this process has settled.
MyTurn(c) == queue[ProcessOf[c]] # <<>> /\ Head(queue[ProcessOf[c]]) = c

\* Faulty: the retry loop forgets its deadline.
NeverGivesUp(c) == FALSE

\* Date.now() >= deadline: stop retrying.
GivesUp(c) == late[c]

\* missingDirRetries > MAX_MISSING_DIR_RETRIES.
TooManyMissing(n) == n > MaxMissingRetries

\* Faulty: a lock file that others may take for stale by now is left to them.
RemovedWhileFresh(c) == holds[c] /\ file # NoFile /\ file.age = Fresh

\* if (acquired) rm(lockPath): whatever file is there by now.
RemovedOnRelease(c) == holds[c]

(***************************************************************************)
(* The caller's steps                                                      *)
(***************************************************************************)

\* What becomes of a caller that acquire() answered false: the exclusive one
\* returns notRun, the advisory one goes ahead without the lock.
GiveUp(c) ==
  /\ Goto(c, IF c \in Exclusive THEN "skipped" ELSE "work")
  /\ holds' = [holds EXCEPT ![c] = FALSE]

\* withExclusiveFileLock: no queue, timeoutMs = 0, the directory is created.
CallExclusive(c) ==
  /\ c \in Exclusive
  /\ pc[c] = "idle"
  /\ Goto(c, "open")
  /\ late' = [late EXCEPT ![c] = TRUE]
  /\ dir' = TRUE
  /\ UNCHANGED <<file, holds, missing, verdict, queue, sweeps, thefts, leaked>>

\* withFileLock: chain onto the promise already stored for this path.
CallAdvisory(c) ==
  /\ c \in Advisory
  /\ pc[c] = "idle"
  /\ Goto(c, "queued")
  /\ queue' = [queue EXCEPT ![ProcessOf[c]] = Append(@, c)]
  /\ UNCHANGED <<file, dir, holds, late, missing, verdict, sweeps, thefts, leaked>>

\* The predecessor settled: lockAcrossProcesses starts, and so does the deadline.
StartAdvisory(c) ==
  /\ pc[c] = "queued"
  /\ MyTurn(c)
  /\ Goto(c, "open")
  /\ dir' = TRUE
  /\ UNCHANGED <<file, holds, late, missing, verdict, queue, sweeps, thefts, leaked>>

\* open(lockPath, 'wx') creates the file; it is still empty.
OpenCreates(c) ==
  /\ pc[c] = "open"
  /\ dir
  /\ CreateSucceeds(file)
  /\ file' = [owner |-> c, age |-> Fresh, stamped |-> FALSE]
  /\ Goto(c, "stamp")
  /\ UNCHANGED <<dir, holds, late, missing, verdict, queue, sweeps, thefts, leaked>>

\* EEXIST: somebody's file is there, so isStale will look at it.
OpenExists(c) ==
  /\ pc[c] = "open"
  /\ file # NoFile
  /\ Goto(c, "stat")
  /\ UNCHANGED <<file, dir, holds, late, missing, verdict, queue, sweeps, thefts, leaked>>

\* EPERM or EBUSY while the file is being replaced (Windows): contention too,
\* but its age is not examined.
OpenBusy(c) ==
  /\ pc[c] = "open"
  /\ file # NoFile
  /\ GivesUp(c)
  /\ GiveUp(c)
  /\ UNCHANGED <<file, dir, late, missing, verdict, queue, sweeps, thefts, leaked>>

\* ENOENT: the directory is gone.  Recreate it and retry, a bounded number of times.
OpenMissingDir(c) ==
  /\ pc[c] = "open"
  /\ ~dir
  /\ missing' = [missing EXCEPT ![c] = @ + 1]
  /\ IF TooManyMissing(missing[c] + 1) \/ GivesUp(c)
       THEN GiveUp(c) /\ UNCHANGED dir
       ELSE dir' = TRUE /\ UNCHANGED <<pc, holds>>
  /\ UNCHANGED <<file, late, verdict, queue, sweeps, thefts, leaked>>

\* Any other error of open: acquire returns false at once.
OpenRefused(c) ==
  /\ pc[c] = "open"
  /\ GiveUp(c)
  /\ UNCHANGED <<file, dir, late, missing, verdict, queue, sweeps, thefts, leaked>>

\* handle.writeFile(pid and time): the mtime is now.  The handle may already
\* name a file that another caller has unlinked.
Stamp(c) ==
  /\ pc[c] = "stamp"
  /\ file' = IF file # NoFile /\ file.owner = c
               THEN [file EXCEPT !.age = Fresh, !.stamped = TRUE] ELSE file
  /\ holds' = [holds EXCEPT ![c] = TRUE]
  /\ Goto(c, "work")
  /\ UNCHANGED <<dir, late, missing, verdict, queue, sweeps, thefts, leaked>>

\* The write fails (disk full): the same catch answers false, and the empty
\* file that open created stays behind.
StampFails(c) ==
  /\ pc[c] = "stamp"
  /\ GiveUp(c)
  /\ leaked' = leaked \cup {c}
  /\ UNCHANGED <<file, dir, late, missing, verdict, queue, sweeps, thefts>>

\* isStale: older than staleMs, or still empty after a second; a file that
\* vanished before the stat counts as stale as well.
IsStale(f) ==
  \/ f = NoFile
  \/ f.age = OverStaleMs
  \/ ~f.stamped /\ f.age >= OverASecond

Judge(c) ==
  /\ pc[c] = "stat"
  /\ IF IsStale(file)
       THEN /\ Goto(c, "break")
            /\ verdict' = [verdict EXCEPT ![c] = IF file = NoFile THEN "vanished" ELSE "aged"]
            /\ UNCHANGED holds
       ELSE /\ UNCHANGED verdict
            /\ IF GivesUp(c) THEN GiveUp(c) ELSE Goto(c, "open") /\ UNCHANGED holds
  /\ UNCHANGED <<file, dir, late, missing, queue, sweeps, thefts, leaked>>

\* History only: the file about to be removed belongs to a caller that is not
\* finished with it.
Robs(c) == file # NoFile /\ file.owner # c /\ Owning(file.owner)

\* rm(lockPath, force), then `continue`: the next open follows with neither a
\* deadline check nor a delay.  An error of rm is swallowed.
Break(c) ==
  /\ pc[c] = "break"
  /\ Goto(c, "open")
  /\ verdict' = [verdict EXCEPT ![c] = "none"]
  /\ \/ /\ file' = NoFile
        /\ thefts' = thefts \cup (IF Robs(c) THEN {verdict[c]} ELSE {})
     \/ UNCHANGED <<file, thefts>>
  /\ UNCHANGED <<dir, holds, late, missing, queue, sweeps, leaked>>

\* The work returned or threw; the finally block comes next.
WorkEnds(c) ==
  /\ pc[c] = "work"
  /\ Goto(c, "release")
  /\ UNCHANGED <<file, dir, holds, late, missing, verdict, queue, sweeps, thefts, leaked>>

\* The finally block, after which the promise settles and the next caller of
\* this process may start.  An error of rm is swallowed here too.
Release(c) ==
  /\ pc[c] = "release"
  /\ \/ /\ RemovedOnRelease(c)
        /\ file' = NoFile
        /\ thefts' = thefts \cup (IF Robs(c) THEN {"release"} ELSE {})
        /\ UNCHANGED leaked
     \/ /\ RemovedOnRelease(c)
        /\ leaked' = leaked \cup {c}
        /\ UNCHANGED <<file, thefts>>
     \/ /\ ~RemovedOnRelease(c)
        /\ UNCHANGED <<file, thefts, leaked>>
  /\ queue' = IF c \in Advisory
                THEN [queue EXCEPT ![ProcessOf[c]] = Tail(@)] ELSE queue
  /\ holds' = [holds EXCEPT ![c] = FALSE]
  /\ Goto(c, "done")
  /\ UNCHANGED <<dir, late, missing, verdict, sweeps>>

(***************************************************************************)
(* The environment: time, crashes, and whoever sweeps the cache directory. *)
(***************************************************************************)

DeadlinePasses(c) ==
  /\ pc[c] \in Acquiring
  /\ ~late[c]
  /\ late' = [late EXCEPT ![c] = TRUE]
  /\ UNCHANGED <<file, dir, pc, holds, missing, verdict, queue, sweeps, thefts, leaked>>

FileAges ==
  /\ file # NoFile
  /\ file.age < OverStaleMs
  /\ file' = [file EXCEPT !.age = @ + 1]
  /\ UNCHANGED <<dir, pc, holds, late, missing, verdict, queue, sweeps, thefts, leaked>>

\* A process dies, with every call it was making; its file stays.
Crash(p) ==
  /\ \E c \in Callers : ProcessOf[c] = p /\ pc[c] \in Running
  /\ pc' = [c \in Callers |->
             IF ProcessOf[c] = p /\ pc[c] \notin {"done", "skipped"} THEN "dead" ELSE pc[c]]
  /\ queue' = [queue EXCEPT ![p] = <<>>]
  /\ UNCHANGED <<file, dir, holds, late, missing, verdict, sweeps, thefts, leaked>>

SweepDir ==
  /\ dir
  /\ sweeps < MaxSweeps
  /\ sweeps' = sweeps + 1
  /\ dir' = FALSE
  /\ file' = NoFile
  /\ thefts' = thefts \cup
       (IF file # NoFile /\ Owning(file.owner) THEN {"swept"} ELSE {})
  /\ UNCHANGED <<pc, holds, late, missing, verdict, queue, leaked>>

CallerStep(c) ==
  \/ StartAdvisory(c)
  \/ OpenCreates(c) \/ OpenExists(c) \/ OpenBusy(c) \/ OpenMissingDir(c) \/ OpenRefused(c)
  \/ Stamp(c) \/ StampFails(c)
  \/ Judge(c) \/ Break(c)
  \/ WorkEnds(c) \/ Release(c)

Next ==
  \/ \E c \in Callers :
       CallExclusive(c) \/ CallAdvisory(c) \/ CallerStep(c) \/ DeadlinePasses(c)
  \/ \E p \in Processes : Crash(p)
  \/ FileAges
  \/ SweepDir

\* The event loop runs every ready continuation and the clock advances; calls,
\* crashes, sweeps and the ageing of the file are not promised.
Fairness ==
  \A c \in Callers : WF_vars(CallerStep(c)) /\ WF_vars(DeadlinePasses(c))

Spec == Init /\ [][Next]_vars /\ Fairness

(***************************************************************************)
(* Properties                                                              *)
(***************************************************************************)

\* Two callers are running their work and each was told it has the lock.
Overlap ==
  \E c, d \in Callers :
    c # d /\ pc[c] = "work" /\ pc[d] = "work" /\ holds[c] /\ holds[d]

\* Two callers believe they hold the lock only after one of three things took
\* a live owner's file away: a lock judged too old (slow holder, suspended
\* machine), a lock that vanished between EEXIST and stat, or the directory
\* being swept.  A release alone never starts it: the unconditional rm of the
\* finally block can remove another's lock only once one of those happened.
OverlapHasRootCause ==
  Overlap \/ "release" \in thefts => thefts \cap RootCauses # {}

\* withFileLock's in-process promise: two calls of one process never run their
\* work at the same time, not even those that gave up on the lock file.
SameProcessExclusion ==
  \A c, d \in Advisory :
    c # d /\ ProcessOf[c] = ProcessOf[d] => ~(pc[c] = "work" /\ pc[d] = "work")

\* A lock file is never left behind by a caller that finished: its creator is
\* still using it, died, or failed to stamp or to remove it.
LockFileHasOwner ==
  file # NoFile =>
    Owning(file.owner) \/ pc[file.owner] = "dead" \/ file.owner \in leaked

\* A removal of a stale lock that leaves the lock file where it is.  The loop
\* then starts again without looking at its deadline.
RemovalFails == \E c \in Callers : Break(c) /\ file # NoFile /\ UNCHANGED file

Waiting(c) == pc[c] \in Acquiring \cup {"queued"}
Served(c) == pc[c] \in {"work", "skipped", "dead"}

\* Unless removals of the lock file fail for ever, every call of withFileLock
\* reaches its work, and every call of withExclusiveFileLock its work or its
\* notRun, or its process dies: neither the queue, nor a lock nobody releases,
\* nor a directory that keeps vanishing holds a caller up for good.
CallerServed ==
  []<><<RemovalFails>>_vars \/ \A c \in Callers : Waiting(c) ~> Served(c)
=============================================================================
