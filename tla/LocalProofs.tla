----------------------------- MODULE LocalProofs -----------------------------
(***************************************************************************)
(* The three things the processes of one machine share: the lock of        *)
(* FileLock, the file that AtomicFile replaces, and the machine-local      *)
(* state that AutoSync goes by.                                            *)
(*                                                                         *)
(* What the lock guarantees for every number of callers and processes: its *)
(* types, the in-process queue, and the only ways in which two callers can *)
(* believe that they hold it.  Why a replaced file is durable, for any     *)
(* number of writers, writes and rename attempts, and any number of deaths *)
(* and losses of power: every step of writeFileAtomic is a step of         *)
(* DurableFile or one it does not see.  And why no request for a sync is   *)
(* lost, for any number of writers, runners and manual syncs, any          *)
(* MAX_PASSES, any number of crashes and either value of auto_push.        *)
(***************************************************************************)
EXTENDS FileLock, AtomicFile, AutoSync, TLAPS

(***************************************************************************)
(* The lock                                                                *)
(***************************************************************************)
\* An advisory caller that has started is at the head of its process's queue.
AtHead ==
  \A c \in Advisory :
    pc[c] \in Running => queue[ProcessOf[c]] # <<>> /\ Head(queue[ProcessOf[c]]) = c

\* Until the first theft, the lock file exists and names whoever owns it.
OwnsFile ==
  thefts \cap RootCauses = {} =>
    \A c \in Callers : Owning(c) => file # NoFile /\ file.owner = c

\* A release can rob another caller only after an earlier theft.
ReleaseIsSecond == "release" \in thefts => thefts \cap RootCauses # {}

\* A caller that is still retrying has not used up its retries, and one about
\* to remove the lock file has a verdict on it.
AcquiringOK ==
  /\ \A c \in Callers : pc[c] \in Acquiring \cup {"idle", "queued"} => missing[c] <= MaxMissingRetries
  /\ \A c \in Callers : pc[c] = "break" => verdict[c] \in {"aged", "vanished"}

\* The inductive invariant.
IInv == TypeOK /\ AtHead /\ AcquiringOK /\ OwnsFile /\ ReleaseIsSecond

LEMMA Constants ==
  /\ Exclusive \subseteq Callers
  /\ ProcessOf \in [Callers -> Processes]
  /\ NoFile \notin LockFile
  /\ MaxMissingRetries \in Nat
  /\ MaxSweeps \in Nat
  BY FileLockAssumption DEF LockFile, Fresh, OverStaleMs

\* A rewritten lock file is still a lock file.
LEMMA FileTypes ==
  /\ \A c \in Callers : [owner |-> c, age |-> Fresh, stamped |-> FALSE] \in LockFile
  /\ \A f \in LockFile : [f EXCEPT !.age = Fresh, !.stamped = TRUE] \in LockFile
  /\ \A f \in LockFile : f.age < OverStaleMs => [f EXCEPT !.age = @ + 1] \in LockFile
  <1> USE DEF LockFile, Fresh, OverStaleMs
  <1>1. \A c \in Callers : [owner |-> c, age |-> Fresh, stamped |-> FALSE] \in LockFile
    OBVIOUS
  <1>2. ASSUME NEW f \in LockFile
        PROVE  [f EXCEPT !.age = Fresh, !.stamped = TRUE] \in LockFile
    <2>1. Fresh \in Fresh..OverStaleMs /\ TRUE \in BOOLEAN
      OBVIOUS
    <2>2. QED
      BY <2>1
  <1>3. ASSUME NEW f \in LockFile, f.age < OverStaleMs
        PROVE  [f EXCEPT !.age = @ + 1] \in LockFile
    <2>1. f.age + 1 \in Fresh..OverStaleMs
      BY <1>3
    <2>2. QED
      BY <2>1
  <1>4. QED
    BY <1>1, <1>2, <1>3

LEMMA TypesKept == IInv /\ [Next]_vars => TypeOK'
  <1> SUFFICES ASSUME IInv, [Next]_vars PROVE TypeOK'
    OBVIOUS
  <1> USE Constants DEF IInv, TypeOK, Goto, GiveUp, Running, Acquiring, Advisory, RootCauses
  <1>1. ASSUME NEW c \in Callers, CallExclusive(c) PROVE TypeOK'
    BY <1>1 DEF CallExclusive
  <1>2. ASSUME NEW c \in Callers, CallAdvisory(c) PROVE TypeOK'
    BY <1>2 DEF CallAdvisory
  <1>3. ASSUME NEW c \in Callers, StartAdvisory(c) PROVE TypeOK'
    BY <1>3 DEF StartAdvisory
  <1>4. ASSUME NEW c \in Callers, OpenCreates(c) PROVE TypeOK'
    BY <1>4, FileTypes DEF OpenCreates
  <1>5. ASSUME NEW c \in Callers, OpenExists(c) PROVE TypeOK'
    BY <1>5 DEF OpenExists
  <1>6. ASSUME NEW c \in Callers, OpenBusy(c) PROVE TypeOK'
    BY <1>6 DEF OpenBusy
  <1>7. ASSUME NEW c \in Callers, OpenMissingDir(c) PROVE TypeOK'
    <2>1. missing[c] \in 0..(MaxMissingRetries + 1) /\ missing[c] <= MaxMissingRetries
      BY <1>7 DEF OpenMissingDir, AcquiringOK
    <2>2. missing[c] + 1 \in 0..(MaxMissingRetries + 1)
      BY <2>1
    <2>3. missing' \in [Callers -> 0..(MaxMissingRetries + 1)]
      BY <1>7, <2>2 DEF OpenMissingDir
    <2>4. QED
      BY <1>7, <2>3 DEF OpenMissingDir
  <1>8. ASSUME NEW c \in Callers, OpenRefused(c) PROVE TypeOK'
    BY <1>8 DEF OpenRefused
  <1>9. ASSUME NEW c \in Callers, Stamp(c) PROVE TypeOK'
    BY <1>9, FileTypes DEF Stamp
  <1>10. ASSUME NEW c \in Callers, StampFails(c) PROVE TypeOK'
    BY <1>10 DEF StampFails
  <1>11. ASSUME NEW c \in Callers, Judge(c) PROVE TypeOK'
    BY <1>11 DEF Judge
  <1>12. ASSUME NEW c \in Callers, Break(c) PROVE TypeOK'
    <2>1. verdict[c] \in RootCauses
      BY <1>12 DEF Break, AcquiringOK
    <2>2. thefts' \subseteq RootCauses \cup {"release"}
      BY <1>12, <2>1 DEF Break
    <2>3. QED
      BY <1>12, <2>2 DEF Break
  <1>13. ASSUME NEW c \in Callers, WorkEnds(c) PROVE TypeOK'
    BY <1>13 DEF WorkEnds
  <1>14. ASSUME NEW c \in Callers, Release(c) PROVE TypeOK'
    <2>1. queue' \in [Processes -> Seq(Callers)]
      BY <1>14 DEF Release, AtHead
    <2>2. thefts' \subseteq RootCauses \cup {"release"}
      BY <1>14 DEF Release
    <2>3. QED
      BY <1>14, <2>1, <2>2 DEF Release
  <1>15. ASSUME NEW c \in Callers, DeadlinePasses(c) PROVE TypeOK'
    BY <1>15 DEF DeadlinePasses
  <1>16. ASSUME NEW p \in Processes, Crash(p) PROVE TypeOK'
    BY <1>16 DEF Crash
  <1>17. CASE FileAges
    BY <1>17, FileTypes DEF FileAges
  <1>18. CASE SweepDir
    <2>1. sweeps' \in 0..MaxSweeps
      BY <1>18 DEF SweepDir
    <2>2. thefts' \subseteq RootCauses \cup {"release"}
      BY <1>18 DEF SweepDir
    <2>3. QED
      BY <1>18, <2>1, <2>2 DEF SweepDir
  <1>19. CASE UNCHANGED vars
    BY <1>19 DEF vars
  <1>20. QED
    BY <1>1, <1>2, <1>3, <1>4, <1>5, <1>6, <1>7, <1>8, <1>9, <1>10, <1>11, <1>12, <1>13,
       <1>14, <1>15, <1>16, <1>17, <1>18, <1>19 DEF Next, CallerStep

\* A caller that joins the queue leaves its head alone.
LEMMA AppendKeepsHead ==
  ASSUME NEW s \in Seq(Callers), s # <<>>, NEW c \in Callers
  PROVE  Append(s, c) # <<>> /\ Head(Append(s, c)) = Head(s)
  OBVIOUS

\* Only the head of a process's queue leaves "queued", and only its release
\* takes it off the queue.
LEMMA AtHeadKept == IInv /\ [Next]_vars => AtHead'
  <1> SUFFICES ASSUME IInv, [Next]_vars PROVE AtHead'
    OBVIOUS
  <1> USE Constants DEF IInv, TypeOK, AtHead, Goto, GiveUp, Running, Acquiring, Advisory
  <1>1. ASSUME NEW c \in Callers, CallExclusive(c) PROVE AtHead'
    BY <1>1 DEF CallExclusive
  <1>2. ASSUME NEW c \in Callers, CallAdvisory(c) PROVE AtHead'
    BY <1>2, AppendKeepsHead DEF CallAdvisory
  <1>3. ASSUME NEW c \in Callers, StartAdvisory(c) PROVE AtHead'
    BY <1>3 DEF StartAdvisory, MyTurn
  <1>4. ASSUME NEW c \in Callers,
               \/ OpenCreates(c) \/ OpenExists(c) \/ OpenBusy(c) \/ OpenMissingDir(c)
               \/ OpenRefused(c) \/ Stamp(c) \/ StampFails(c) \/ Judge(c) \/ Break(c)
               \/ WorkEnds(c)
        PROVE  AtHead'
    <2>1. queue' = queue /\ pc[c] \in Running
      BY <1>4 DEF OpenCreates, OpenExists, OpenBusy, OpenMissingDir, OpenRefused, Stamp,
                  StampFails, Judge, Break, WorkEnds
    <2>2. \A d \in Callers : d # c => pc'[d] = pc[d]
      BY <1>4 DEF OpenCreates, OpenExists, OpenBusy, OpenMissingDir, OpenRefused, Stamp,
                  StampFails, Judge, Break, WorkEnds
    <2>3. QED
      BY <2>1, <2>2
  <1>5. ASSUME NEW c \in Callers, Release(c) PROVE AtHead'
    <2> SUFFICES ASSUME NEW d \in Advisory, pc'[d] \in Running
                 PROVE  queue'[ProcessOf[d]] # <<>> /\ Head(queue'[ProcessOf[d]]) = d
      OBVIOUS
    <2>1. d # c /\ pc[d] \in Running /\ pc[c] = "release"
      BY <1>5 DEF Release
    <2>2. ASSUME c \in Advisory PROVE ProcessOf[d] # ProcessOf[c]
      BY <2>1, <2>2
    <2>3. queue' = queue \/ (c \in Advisory /\ queue' = [queue EXCEPT ![ProcessOf[c]] = Tail(@)])
      BY <1>5 DEF Release
    <2>4. queue'[ProcessOf[d]] = queue[ProcessOf[d]]
      BY <2>2, <2>3
    <2>5. QED
      BY <2>1, <2>4
  <1>6. ASSUME NEW c \in Callers, DeadlinePasses(c) PROVE AtHead'
    BY <1>6 DEF DeadlinePasses
  <1>7. ASSUME NEW p \in Processes, Crash(p) PROVE AtHead'
    BY <1>7 DEF Crash
  <1>8. CASE FileAges \/ SweepDir \/ UNCHANGED vars
    BY <1>8 DEF FileAges, SweepDir, vars
  <1>9. QED
    BY <1>1, <1>2, <1>3, <1>4, <1>5, <1>6, <1>7, <1>8 DEF Next, CallerStep


\* missingDirRetries is counted only while it is within its limit, and every
\* verdict is one isStale gave.
LEMMA AcquiringKept == IInv /\ [Next]_vars => AcquiringOK'
  <1> SUFFICES ASSUME IInv, [Next]_vars PROVE AcquiringOK'
    OBVIOUS
  <1> USE Constants DEF IInv, TypeOK, AcquiringOK, Goto, GiveUp, Acquiring, Advisory
  <1>1. ASSUME NEW c \in Callers, CallExclusive(c) \/ CallAdvisory(c) \/ StartAdvisory(c)
        PROVE  AcquiringOK'
    BY <1>1 DEF CallExclusive, CallAdvisory, StartAdvisory
  <1>2. ASSUME NEW c \in Callers, OpenMissingDir(c) PROVE AcquiringOK'
    BY <1>2 DEF OpenMissingDir, TooManyMissing
  <1>3. ASSUME NEW c \in Callers,
               OpenCreates(c) \/ OpenExists(c) \/ OpenBusy(c) \/ OpenRefused(c)
        PROVE  AcquiringOK'
    BY <1>3 DEF OpenCreates, OpenExists, OpenBusy, OpenRefused
  <1>4. ASSUME NEW c \in Callers, Stamp(c) \/ StampFails(c) PROVE AcquiringOK'
    BY <1>4 DEF Stamp, StampFails
  <1>5. ASSUME NEW c \in Callers, Judge(c) PROVE AcquiringOK'
    BY <1>5 DEF Judge
  <1>6. ASSUME NEW c \in Callers, Break(c) PROVE AcquiringOK'
    BY <1>6 DEF Break
  <1>7. ASSUME NEW c \in Callers, WorkEnds(c) \/ Release(c) \/ DeadlinePasses(c)
        PROVE  AcquiringOK'
    BY <1>7 DEF WorkEnds, Release, DeadlinePasses
  <1>8. ASSUME NEW p \in Processes, Crash(p) PROVE AcquiringOK'
    BY <1>8 DEF Crash
  <1>9. CASE FileAges \/ SweepDir \/ UNCHANGED vars
    BY <1>9 DEF FileAges, SweepDir, vars
  <1>10. QED
    BY <1>1, <1>2, <1>3, <1>4, <1>5, <1>6, <1>7, <1>8, <1>9 DEF Next, CallerStep

\* The heart of the argument.  While nothing has been stolen, a create finds no
\* owner, a release removes the releaser's own file, and any removal of somebody
\* else's live file is recorded as the theft it is.
LEMMA OwnershipKept == IInv /\ [Next]_vars => (OwnsFile /\ ReleaseIsSecond)'
  <1> SUFFICES ASSUME IInv, [Next]_vars PROVE (OwnsFile /\ ReleaseIsSecond)'
    OBVIOUS
  <1> USE Constants DEF IInv, TypeOK, OwnsFile, ReleaseIsSecond, Owning, Goto, GiveUp
  <1>1. ASSUME NEW c \in Callers, CallExclusive(c) \/ CallAdvisory(c) \/ StartAdvisory(c)
        PROVE  (OwnsFile /\ ReleaseIsSecond)'
    BY <1>1 DEF CallExclusive, CallAdvisory, StartAdvisory
  <1>2. ASSUME NEW c \in Callers, OpenCreates(c)
        PROVE  (OwnsFile /\ ReleaseIsSecond)'
    <2>1. file' # NoFile /\ file'.owner = c
      BY <1>2, FileTypes DEF OpenCreates
    <2>2. thefts \cap RootCauses = {} => \A d \in Callers : ~Owning(d)
      BY <1>2 DEF OpenCreates, CreateSucceeds
    <2>3. QED
      BY <1>2, <2>1, <2>2 DEF OpenCreates
  <1>3. ASSUME NEW c \in Callers,
               OpenExists(c) \/ OpenBusy(c) \/ OpenMissingDir(c) \/ OpenRefused(c)
        PROVE  (OwnsFile /\ ReleaseIsSecond)'
    BY <1>3 DEF OpenExists, OpenBusy, OpenMissingDir, OpenRefused
  <1>4. ASSUME NEW c \in Callers, Stamp(c)
        PROVE  (OwnsFile /\ ReleaseIsSecond)'
    <2>1. file # NoFile => file' # NoFile
      <3>1. file # NoFile => file \in LockFile /\ [file EXCEPT !.age = Fresh, !.stamped = TRUE] \in LockFile
        BY FileTypes
      <3>2. file # NoFile => file' = file \/ file' = [file EXCEPT !.age = Fresh, !.stamped = TRUE]
        BY <1>4 DEF Stamp
      <3>3. QED
        BY <3>1, <3>2
    <2>2. file # NoFile => file'.owner = file.owner
      BY <1>4 DEF Stamp, LockFile
    <2>3. QED
      BY <1>4, <2>1, <2>2 DEF Stamp
  <1>5. ASSUME NEW c \in Callers, StampFails(c) \/ Judge(c) \/ WorkEnds(c) \/ DeadlinePasses(c)
        PROVE  (OwnsFile /\ ReleaseIsSecond)'
    BY <1>5 DEF StampFails, Judge, WorkEnds, DeadlinePasses
  <1>6. ASSUME NEW c \in Callers, Break(c)
        PROVE  (OwnsFile /\ ReleaseIsSecond)'
    <2>1. verdict[c] \in RootCauses /\ ~Owning(c) /\ \A d \in Callers : Owning(d)' <=> Owning(d)
      BY <1>6 DEF Break, AcquiringOK, RootCauses
    <2>2. CASE Robs(c) /\ file' = NoFile
      <3>1. thefts' \cap RootCauses # {} \/ UNCHANGED <<file, thefts>>
        BY <1>6, <2>1, <2>2 DEF Break
      <3>2. QED
        BY <1>6, <2>1, <3>1 DEF Break
    <2>3. CASE ~Robs(c) /\ file' = NoFile
      <3>1. thefts' = thefts
        BY <1>6, <2>3 DEF Break
      <3>2. thefts \cap RootCauses = {} => \A d \in Callers : ~Owning(d)
        BY <2>1, <2>3 DEF Robs
      <3>3. QED
        BY <2>1, <3>1, <3>2
    <2>4. CASE file' # NoFile
      BY <1>6, <2>1, <2>4 DEF Break
    <2>5. QED
      BY <2>2, <2>3, <2>4
  <1>7. ASSUME NEW c \in Callers, Release(c)
        PROVE  (OwnsFile /\ ReleaseIsSecond)'
    <2>1. thefts' = thefts \/ thefts' = thefts \cup {"release"}
      BY <1>7 DEF Release
    <2>2. thefts' \cap RootCauses = thefts \cap RootCauses
      BY <2>1 DEF RootCauses
    <2>3. CASE thefts \cap RootCauses = {}
      <3>1. RemovedOnRelease(c) => file # NoFile /\ file.owner = c
        BY <1>7, <2>3 DEF Release, RemovedOnRelease
      <3>2. thefts' = thefts
        BY <1>7, <3>1 DEF Release, Robs
      <3>3. \A d \in Callers : Owning(d)' => Owning(d) /\ d # c
        BY <1>7 DEF Release
      <3>4. QED
        BY <1>7, <2>3, <3>1, <3>2, <3>3 DEF Release
    <2>4. CASE thefts \cap RootCauses # {}
      BY <2>2, <2>4
    <2>5. QED
      BY <2>3, <2>4
  <1>8. ASSUME NEW p \in Processes, Crash(p)
        PROVE  (OwnsFile /\ ReleaseIsSecond)'
    BY <1>8 DEF Crash
  <1>9. CASE FileAges
    <2>1. file' # NoFile
      BY <1>9, FileTypes DEF FileAges
    <2>2. file'.owner = file.owner
      BY <1>9 DEF FileAges, LockFile
    <2>3. QED
      BY <1>9, <2>1, <2>2 DEF FileAges
  <1>10. CASE SweepDir
    <2>1. CASE file # NoFile /\ Owning(file.owner)
      BY <1>10, <2>1 DEF SweepDir, RootCauses
    <2>2. CASE ~(file # NoFile /\ Owning(file.owner))
      BY <1>10, <2>2 DEF SweepDir
    <2>3. QED
      BY <2>1, <2>2
  <1>11. CASE UNCHANGED vars
    BY <1>11 DEF vars
  <1>12. QED
    BY <1>1, <1>2, <1>3, <1>4, <1>5, <1>6, <1>7, <1>8, <1>9, <1>10, <1>11 DEF Next, CallerStep

LEMMA InvariantHolds == Spec => []IInv
  <1>1. Init => IInv
    BY Constants DEF Init, IInv, TypeOK, AtHead, AcquiringOK, OwnsFile, ReleaseIsSecond,
                     Owning, Running, Acquiring, Advisory
  <1>2. IInv /\ [Next]_vars => IInv'
    BY TypesKept, AtHeadKept, AcquiringKept, OwnershipKept DEF IInv
  <1>3. QED
    BY <1>1, <1>2, PTL DEF Spec

\* Type correctness, for every set of callers and processes.
THEOREM TypeCorrect == Spec => []TypeOK
  BY InvariantHolds, PTL DEF IInv

\* Two callers that both believe they hold the lock (and a release that removes
\* another's lock) presuppose a lock judged too old, one that vanished between
\* EEXIST and stat, or a swept directory.
THEOREM OverlapNeedsCause == Spec => []OverlapHasRootCause
  <1>1. IInv => OverlapHasRootCause
    BY DEF IInv, OwnsFile, ReleaseIsSecond, OverlapHasRootCause, Overlap, Owning
  <1>2. QED
    BY <1>1, InvariantHolds, PTL

\* withFileLock serialises the calls of one process exactly, whatever happens
\* to the lock file.
THEOREM QueueSerialises == Spec => []SameProcessExclusion
  <1>1. IInv => SameProcessExclusion
    BY DEF IInv, AtHead, SameProcessExclusion, Running
  <1>2. QED
    BY <1>1, InvariantHolds, PTL

\* A caller that returned never leaves its lock file behind.
THEOREM NoOrphanedLock == Spec => []LockFileHasOwner
  <1>1. Init => LockFileHasOwner
    BY DEF Init, LockFileHasOwner
  <1>2. IInv /\ LockFileHasOwner /\ [Next]_vars => LockFileHasOwner'
    <2> SUFFICES ASSUME IInv, LockFileHasOwner, [Next]_vars PROVE LockFileHasOwner'
      OBVIOUS
    <2> USE Constants DEF IInv, TypeOK, LockFileHasOwner, Owning, Goto, GiveUp, LockFile
    <2>1. ASSUME NEW c \in Callers, CallExclusive(c) \/ CallAdvisory(c) \/ StartAdvisory(c)
          PROVE  LockFileHasOwner'
      BY <2>1 DEF CallExclusive, CallAdvisory, StartAdvisory
    <2>2. ASSUME NEW c \in Callers, OpenCreates(c) PROVE LockFileHasOwner'
      BY <2>2 DEF OpenCreates
    <2>3. ASSUME NEW c \in Callers,
                 OpenExists(c) \/ OpenBusy(c) \/ OpenMissingDir(c) \/ OpenRefused(c)
          PROVE  LockFileHasOwner'
      BY <2>3 DEF OpenExists, OpenBusy, OpenMissingDir, OpenRefused
    <2>4. ASSUME NEW c \in Callers, Stamp(c) PROVE LockFileHasOwner'
      <3>1. file' = NoFile \/ (file # NoFile /\ file'.owner = file.owner)
        BY <2>4, FileTypes DEF Stamp
      <3>2. QED
        BY <2>4, <3>1 DEF Stamp
    <2>5. ASSUME NEW c \in Callers, StampFails(c) \/ Judge(c) \/ WorkEnds(c) \/ DeadlinePasses(c)
          PROVE  LockFileHasOwner'
      BY <2>5 DEF StampFails, Judge, WorkEnds, DeadlinePasses
    <2>6. ASSUME NEW c \in Callers, Break(c) PROVE LockFileHasOwner'
      BY <2>6 DEF Break
    <2>7. ASSUME NEW c \in Callers, Release(c) PROVE LockFileHasOwner'
      BY <2>7 DEF Release, RemovedOnRelease
    <2>8. ASSUME NEW p \in Processes, Crash(p) PROVE LockFileHasOwner'
      BY <2>8 DEF Crash
    <2>9. CASE FileAges
      <3>1. file'.owner = file.owner
        BY <2>9, FileTypes DEF FileAges
      <3>2. QED
        BY <2>9, <3>1 DEF FileAges
    <2>10. CASE SweepDir \/ UNCHANGED vars
      BY <2>10 DEF SweepDir, vars
    <2>11. QED
      BY <2>1, <2>2, <2>3, <2>4, <2>5, <2>6, <2>7, <2>8, <2>9, <2>10 DEF Next, CallerStep
  <1>3. QED
    BY <1>1, <1>2, InvariantHolds, PTL DEF Spec

(***************************************************************************)
(* The replacement of a file                                               *)
(***************************************************************************)

\* No two writers have the same inode.
OwnInode == \A w, v \in Savers : w # v /\ mine[w] # None => mine[w] # mine[v]

\* An inode nobody has been given yet is nowhere.
NextIsFresh ==
  /\ \A i \in Inodes : i >= next =>
       /\ written[i] = "none" /\ i \notin flushed /\ i \notin entries /\ i \notin temps
       /\ outcome[i] = "open"
  /\ \A w \in Savers : mine[w] < next

\* Before its rename a writer's inode is under a name of its own only, and nobody
\* has been told anything of the write.
NotYetReplaced ==
  \A w \in Savers : step[w] \in {"open", "write", "flush", "rename", "cleanUp"} =>
    mine[w] \in Inodes /\ mine[w] \notin entries /\ outcome[mine[w]] = "open"

\* What a writer has written of its inode, and whether it has been flushed.
WrittenThenFlushed ==
  \A w \in Savers :
    /\ step[w] \in {"open", "write", "flush", "rename", "cleanUp", "flushDir"} => mine[w] \in Inodes
    /\ step[w] = "flush" => written[mine[w]] = "whole"
    /\ step[w] = "rename" => written[mine[w]] = "whole" /\ mine[w] \in flushed

\* Whatever the disk may have under the name of the file is there whole, and flushed.
EntriesWhole == \A i \in entries : i # None => written[i] = "whole" /\ i \in flushed

\* Whoever may try the rename has an attempt left.
AttemptsLeft == \A w \in Savers : step[w] \in {"open", "write", "flush", "rename"} => tried[w] < Attempts

\* The inductive invariant.
AtomicInv ==
  /\ WriteTypeOK /\ OwnInode /\ NextIsFresh /\ NotYetReplaced /\ WrittenThenFlushed
  /\ EntriesWhole /\ AttemptsLeft

\* There is no file among the inodes, however many there are.
LEMMA Sizes ==
  /\ Attempts \in Nat \ {0} /\ MaxWrites \in Nat /\ MaxTrouble \in Nat
  /\ Inodes = 1..MaxWrites /\ None = 0 /\ None \notin Inodes
  BY FileAssumption DEF Inodes, None

LEMMA AtomicInit == WriteInit => AtomicInv
  BY Sizes DEF WriteInit, AtomicInv, WriteTypeOK, OwnInode, NextIsFresh, NotYetReplaced, WrittenThenFlushed,
                   EntriesWhole, AttemptsLeft, WriteLabels

LEMMA AtomicTypes == AtomicInv /\ [WriteNext]_writeVars => WriteTypeOK' /\ AttemptsLeft'
  <1> SUFFICES ASSUME AtomicInv, [WriteNext]_writeVars PROVE WriteTypeOK' /\ AttemptsLeft'
    OBVIOUS
  <1>s. /\ Attempts \in Nat \ {0} /\ MaxWrites \in Nat /\ MaxTrouble \in Nat
        /\ Inodes = 1..MaxWrites /\ None = 0 /\ None \notin Inodes
    BY Sizes
  <1> USE <1>s DEF WriteTypeOK, AttemptsLeft, WriteLabels, StepsTo
  <1>0. /\ WriteTypeOK /\ AttemptsLeft
        /\ \A w \in Savers : step[w] \in WriteLabels \ {"idle", "done", "failed"} => mine[w] \in Inodes
    BY DEF AtomicInv, WrittenThenFlushed
  <1>1. ASSUME NEW w \in Savers, Begin(w) PROVE WriteTypeOK' /\ AttemptsLeft'
    BY <1>1, <1>0 DEF Begin, onDisk
  <1>2. ASSUME NEW w \in Savers, OpenTemp(w) PROVE WriteTypeOK' /\ AttemptsLeft'
    BY <1>2, <1>0 DEF OpenTemp
  <1>3. ASSUME NEW w \in Savers, Write(w) PROVE WriteTypeOK' /\ AttemptsLeft'
    BY <1>3, <1>0 DEF Write
  <1>4. ASSUME NEW w \in Savers, Flush(w) PROVE WriteTypeOK' /\ AttemptsLeft'
    BY <1>4, <1>0 DEF Flush
  <1>5. ASSUME NEW w \in Savers, RenameHeld(w) PROVE WriteTypeOK' /\ AttemptsLeft'
    <2>1. step[w] = "rename" /\ tried' = [tried EXCEPT ![w] = @ + 1]
      BY <1>5 DEF RenameHeld
    <2>2. tried' \in [Savers -> 0..Attempts]
      BY <2>1, <1>0
    <2>3. /\ step' \in [Savers -> WriteLabels]
          /\ \A v \in Savers : step'[v] = step[v] \/ (v = w /\ step'[v] = "cleanUp")
      BY <1>5, <1>0 DEF RenameHeld
    <2>4. AttemptsLeft'
      BY <1>5, <1>0, <2>1 DEF RenameHeld, NoTryLeft
    <2>5. QED
      BY <1>5, <1>0, <2>2, <2>3, <2>4 DEF RenameHeld, onDisk
  <1>6. ASSUME NEW w \in Savers, RenameFails(w) PROVE WriteTypeOK' /\ AttemptsLeft'
    BY <1>6, <1>0 DEF RenameFails, onDisk
  <1>7. ASSUME NEW w \in Savers, Rename(w) PROVE WriteTypeOK' /\ AttemptsLeft'
    BY <1>7, <1>0 DEF Rename
  <1>8. ASSUME NEW w \in Savers, FlushDirectory(w) PROVE WriteTypeOK' /\ AttemptsLeft'
    BY <1>8, <1>0 DEF FlushDirectory
  <1>9. ASSUME NEW w \in Savers, CleanUp(w) PROVE WriteTypeOK' /\ AttemptsLeft'
    BY <1>9, <1>0 DEF CleanUp
  <1>10. ASSUME NEW w \in Savers, SaverDies(w) PROVE WriteTypeOK' /\ AttemptsLeft'
    BY <1>10, <1>0 DEF SaverDies, onDisk
  <1>11. CASE LosePower
    BY <1>11, <1>0 DEF LosePower
  <1>12. CASE UNCHANGED writeVars
    BY <1>12, <1>0 DEF writeVars
  <1> HIDE DEF WriteTypeOK, AttemptsLeft, WriteLabels, StepsTo
  <1>13. QED
    BY <1>1, <1>2, <1>3, <1>4, <1>5, <1>6, <1>7, <1>8, <1>9, <1>10, <1>11, <1>12
    DEF WriteNext, SaverStep

\* No inode is given twice.
LEMMA InodesKept == AtomicInv /\ [WriteNext]_writeVars => (OwnInode /\ NextIsFresh)'
  <1> SUFFICES ASSUME AtomicInv, [WriteNext]_writeVars PROVE (OwnInode /\ NextIsFresh)'
    OBVIOUS
  <1>s. /\ Attempts \in Nat \ {0} /\ MaxWrites \in Nat /\ MaxTrouble \in Nat
        /\ Inodes = 1..MaxWrites /\ None = 0 /\ None \notin Inodes
    BY Sizes
  <1> USE <1>s DEF AtomicInv, WriteTypeOK, OwnInode, NextIsFresh, NotYetReplaced, WrittenThenFlushed, StepsTo
  <1>1. ASSUME NEW w \in Savers, Begin(w) PROVE (OwnInode /\ NextIsFresh)'
    BY <1>1 DEF Begin, onDisk
  <1>2. ASSUME NEW w \in Savers, OpenTemp(w) PROVE (OwnInode /\ NextIsFresh)'
    BY <1>2 DEF OpenTemp
  <1>3. ASSUME NEW w \in Savers, Write(w) PROVE (OwnInode /\ NextIsFresh)'
    BY <1>3 DEF Write
  <1>4. ASSUME NEW w \in Savers, Flush(w) PROVE (OwnInode /\ NextIsFresh)'
    BY <1>4 DEF Flush
  <1>5. ASSUME NEW w \in Savers, RenameHeld(w) PROVE (OwnInode /\ NextIsFresh)'
    BY <1>5 DEF RenameHeld, NoTryLeft, onDisk
  <1>6. ASSUME NEW w \in Savers, RenameFails(w) PROVE (OwnInode /\ NextIsFresh)'
    BY <1>6 DEF RenameFails, onDisk
  <1>7. ASSUME NEW w \in Savers, Rename(w) PROVE (OwnInode /\ NextIsFresh)'
    BY <1>7 DEF Rename
  <1>8. ASSUME NEW w \in Savers, FlushDirectory(w) PROVE (OwnInode /\ NextIsFresh)'
    BY <1>8 DEF FlushDirectory
  <1>9. ASSUME NEW w \in Savers, CleanUp(w) PROVE (OwnInode /\ NextIsFresh)'
    BY <1>9 DEF CleanUp
  <1>10. ASSUME NEW w \in Savers, SaverDies(w) PROVE (OwnInode /\ NextIsFresh)'
    BY <1>10 DEF SaverDies, onDisk
  <1>11. CASE LosePower
    BY <1>11 DEF LosePower
  <1>12. CASE UNCHANGED writeVars
    BY <1>12 DEF writeVars
  <1> HIDE DEF AtomicInv, WriteTypeOK, OwnInode, NextIsFresh, NotYetReplaced, WrittenThenFlushed, StepsTo
  <1>13. QED
    BY <1>1, <1>2, <1>3, <1>4, <1>5, <1>6, <1>7, <1>8, <1>9, <1>10, <1>11, <1>12
    DEF WriteNext, SaverStep

LEMMA OrderKept == AtomicInv /\ [WriteNext]_writeVars => (NotYetReplaced /\ WrittenThenFlushed /\ EntriesWhole)'
  <1> SUFFICES ASSUME AtomicInv, [WriteNext]_writeVars
               PROVE (NotYetReplaced /\ WrittenThenFlushed /\ EntriesWhole)'
    OBVIOUS
  <1>s. /\ Attempts \in Nat \ {0} /\ MaxWrites \in Nat /\ MaxTrouble \in Nat
        /\ Inodes = 1..MaxWrites /\ None = 0 /\ None \notin Inodes
    BY Sizes
  <1> USE <1>s DEF AtomicInv, WriteTypeOK, OwnInode, NextIsFresh, NotYetReplaced, WrittenThenFlushed,
                        EntriesWhole, WriteLabels, StepsTo
  <1>1. ASSUME NEW w \in Savers, Begin(w)
        PROVE (NotYetReplaced /\ WrittenThenFlushed /\ EntriesWhole)'
    BY <1>1 DEF Begin, onDisk
  <1>2. ASSUME NEW w \in Savers, OpenTemp(w)
        PROVE (NotYetReplaced /\ WrittenThenFlushed /\ EntriesWhole)'
    BY <1>2 DEF OpenTemp
  <1>3. ASSUME NEW w \in Savers, Write(w)
        PROVE (NotYetReplaced /\ WrittenThenFlushed /\ EntriesWhole)'
    BY <1>3 DEF Write
  <1>4. ASSUME NEW w \in Savers, Flush(w)
        PROVE (NotYetReplaced /\ WrittenThenFlushed /\ EntriesWhole)'
    BY <1>4 DEF Flush
  <1>5. ASSUME NEW w \in Savers, RenameHeld(w)
        PROVE (NotYetReplaced /\ WrittenThenFlushed /\ EntriesWhole)'
    BY <1>5 DEF RenameHeld, NoTryLeft, onDisk
  <1>6. ASSUME NEW w \in Savers, RenameFails(w)
        PROVE (NotYetReplaced /\ WrittenThenFlushed /\ EntriesWhole)'
    BY <1>6 DEF RenameFails, onDisk
  <1>7. ASSUME NEW w \in Savers, Rename(w)
        PROVE (NotYetReplaced /\ WrittenThenFlushed /\ EntriesWhole)'
    BY <1>7 DEF Rename
  <1>8. ASSUME NEW w \in Savers, FlushDirectory(w)
        PROVE (NotYetReplaced /\ WrittenThenFlushed /\ EntriesWhole)'
    <2>1. entries' \subseteq entries
      BY <1>8 DEF FlushDirectory
    <2>2. QED
      BY <1>8, <2>1 DEF FlushDirectory
  <1>9. ASSUME NEW w \in Savers, CleanUp(w)
        PROVE (NotYetReplaced /\ WrittenThenFlushed /\ EntriesWhole)'
    BY <1>9 DEF CleanUp
  <1>10. ASSUME NEW w \in Savers, SaverDies(w)
         PROVE (NotYetReplaced /\ WrittenThenFlushed /\ EntriesWhole)'
    BY <1>10 DEF SaverDies, onDisk
  <1>11. CASE LosePower
    BY <1>11 DEF LosePower
  <1>12. CASE UNCHANGED writeVars
    BY <1>12 DEF writeVars
  <1> HIDE DEF AtomicInv, WriteTypeOK, OwnInode, NextIsFresh, NotYetReplaced, WrittenThenFlushed,
              EntriesWhole, WriteLabels, StepsTo
  <1>13. QED
    BY <1>1, <1>2, <1>3, <1>4, <1>5, <1>6, <1>7, <1>8, <1>9, <1>10, <1>11, <1>12
    DEF WriteNext, SaverStep

\* Every step keeps the invariant.
LEMMA AtomicKept == AtomicInv /\ [WriteNext]_writeVars => AtomicInv'
  BY AtomicTypes, InodesKept, OrderKept DEF AtomicInv

\* A reader never finds part of a value: what is under the name, or may be after a loss
\* of power, is read as it was written.
LEMMA ReadWhole ==
  ASSUME AtomicInv
  PROVE  ValueOf(target) = target /\ {ValueOf(i) : i \in entries} = entries
  BY DEF AtomicInv, WriteTypeOK, EntriesWhole, ValueOf

\* Every step of the writers, and of what goes wrong, is one of DurableFile or none.
LEMMA StepImplements ==
  ASSUME AtomicInv, AtomicInv', [WriteNext]_writeVars
  PROVE  [File!FileNext]_(File!fileVars)
  <1> DEFINE value == ValueOf(target)
             fallback == {ValueOf(i) : i \in entries}
  <1>a. value = target /\ fallback = entries /\ value' = target' /\ fallback' = entries'
    BY ReadWhole DEF AtomicInv, WriteTypeOK, EntriesWhole, ValueOf
  <1> SUFFICES \/ UNCHANGED <<value, fallback, outcome>>
               \/ File!FileNext
    BY DEF File!fileVars
  <1> HIDE DEF value, fallback
  <1>1. CASE UNCHANGED <<target, entries, outcome>>
    BY <1>1, <1>a
  <1>2. ASSUME NEW w \in Savers, Rename(w) PROVE File!FileNext
    BY <1>2, <1>a
    DEF Rename, AtomicInv, NotYetReplaced, WrittenThenFlushed, File!FileNext, File!Replace,
      File!Decides, value, fallback
  <1>3. ASSUME NEW w \in Savers, FlushDirectory(w)
        PROVE UNCHANGED <<value, fallback, outcome>> \/ File!FileNext
    BY <1>3, <1>a DEF FlushDirectory, File!FileNext, File!Settle, value, fallback
  <1>4. ASSUME NEW w \in Savers, CleanUp(w) PROVE File!FileNext
    BY <1>4, <1>a
    DEF CleanUp, AtomicInv, NotYetReplaced, WrittenThenFlushed, File!FileNext, File!Refuse,
      File!Decides, value, fallback
  <1>5. CASE LosePower
    BY <1>5, <1>a DEF LosePower, File!FileNext, File!LosePower, value, fallback
  <1>6. QED
    BY <1>1, <1>2, <1>3, <1>4, <1>5
    DEF WriteNext, SaverStep, writeVars, onDisk, Begin, OpenTemp, Write, Flush, RenameHeld, RenameFails, SaverDies

\* Type correctness.
THEOREM AtomicTypeCorrect == WriteSpec => []WriteTypeOK
  <1>0. WriteInit => AtomicInv
    BY AtomicInit
  <1>1. AtomicInv => WriteTypeOK
    BY DEF AtomicInv
  <1>2. QED
    BY <1>0, AtomicKept, <1>1, PTL DEF WriteSpec

\* fs-atomic.ts:10-13: writeFileAtomic implements DurableFile.  Whatever calls fail,
\* processes die and power is lost, a reader finds a value that was written, whole; a
\* loss of power takes it back only to one the directory's flush had not reached; and
\* a write that was refused has not replaced the file.
THEOREM Durable == WriteSpec => ImplementsDurableFile
  <1>0. WriteInit => AtomicInv
    BY AtomicInit
  <1>1. WriteInit => File!FileInit
    BY Sizes DEF WriteInit, File!FileInit, ValueOf, None
  <1>2. QED
    BY <1>0, AtomicKept, StepImplements, <1>1, PTL
    DEF WriteSpec, ImplementsDurableFile, File!FileSpec

(***************************************************************************)
(* Automatic sync                                                          *)
(***************************************************************************)

\* A record nobody accounts for: it is where its machine wants it, or a sync is
\* known to have missed it.
Settled == Delivered \cup missed

\* A writer asks for a sync only after its record is in the profile directory.
WroteFirst == \A w \in Writers : wpc[w] \in {"schedule", "request", "spawn", "done"} => w \in posted

\* A sync past its commit has every record there was, but those written since.
CommitCaptured ==
  \A r \in Runners : rpc[r] = "push" => posted \subseteq committed \cup missed

\* A sync about to be recorded as synced has settled every record.
SyncedSettled ==
  \A r \in Runners :
    rpc[r] \in {"record", "write"} /\ ended[r] = "synced" => posted \subseteq Settled

\* A runner about to write back a state without a request overlooks nobody.
CopyCurrent ==
  \A r \in Runners : rpc[r] = "write" /\ ~rcopy[r].requested =>
    \A w \in Writers \ Settled : ~HasRequested(w)

\* The inductive invariant.
SyncInv ==
  /\ SyncTypeOK
  /\ WroteFirst /\ CommitCaptured /\ SyncedSettled /\ CopyCurrent /\ RequestKept

LEMMA SyncParameters ==
  /\ Writers \cap Manual = {}
  /\ Writers \subseteq Runners /\ Manual \subseteq Runners
  /\ NoRunner \notin Runners
  /\ MaxPasses \in Nat \ {0}
  /\ AutoPush \in BOOLEAN
  /\ MaxCrashes \in Nat
  BY AutoSyncAssumption DEF Runners

\* What is written to the machine-local state is a machine-local state.
LEMMA StateTypes ==
  /\ Quiet \in LocalStates
  /\ \A state \in LocalStates : Requested(state) \in LocalStates /\ Requested(state).requested
  /\ \A state \in LocalStates, result \in Outcomes :
       /\ Recorded(state, result) \in LocalStates
       /\ Recorded(state, result).requested = (result # "synced" /\ state.requested)
       /\ HealthOf(result) \in Healths
  <1>1. Quiet \in LocalStates
    BY DEF Quiet, LocalStates, Healths
  <1>2. ASSUME NEW state \in LocalStates
        PROVE  Requested(state) \in LocalStates /\ Requested(state).requested
    BY DEF LocalStates, Requested
  <1>3. ASSUME NEW state \in LocalStates, NEW result \in Outcomes
        PROVE  /\ Recorded(state, result) \in LocalStates
               /\ Recorded(state, result).requested = (result # "synced" /\ state.requested)
               /\ HealthOf(result) \in Healths
    <2>1. HealthOf(result) \in Healths
      BY DEF Outcomes, Healths, HealthOf
    <2>2. QED
      BY <2>1 DEF LocalStates, Recorded
  <1>4. QED
    BY <1>1, <1>2, <1>3

\* A process that ends, or a runner that returns, is at rest.
LEMMA EndsTypes ==
  ASSUME SyncTypeOK, NEW r \in Runners, NEW label \in {"done", "dead"}, Ends(r, label)
  PROVE  /\ rpc' \in [Runners -> RunnerLabels]
         /\ ended' \in [Runners -> Outcomes]
         /\ pass' \in [Runners -> 0..MaxPasses]
         /\ rcopy' \in [Runners -> LocalStates]
         /\ rpc'[r] = label
         /\ \A q \in Runners \ {r} : rpc'[q] = rpc[q] /\ ended'[q] = ended[q] /\ rcopy'[q] = rcopy[q]
  BY SyncParameters, StateTypes DEF SyncTypeOK, Ends, RunnerGoes, RunnerLabels, Outcomes

LEMMA SyncTypesKept == SyncInv /\ [SyncNext]_syncVars => SyncTypeOK'
  <1> SUFFICES ASSUME SyncInv, [SyncNext]_syncVars PROVE SyncTypeOK'
    OBVIOUS
  <1> USE SyncParameters DEF SyncInv, SyncTypeOK, WriterAt, RunnerGoes, WriterLabels, RunnerLabels
  <1>1. ASSUME NEW w \in Writers, WriteRecord(w) PROVE SyncTypeOK'
    BY <1>1 DEF WriteRecord, runnerVars
  <1>2. ASSUME NEW w \in Writers, ReadForRequest(w) PROVE SyncTypeOK'
    BY <1>2 DEF ReadForRequest, runnerVars, dataVars, historyVars
  <1>3. ASSUME NEW w \in Writers, WriteRequest(w) PROVE SyncTypeOK'
    <2>1. missed' \subseteq posted
      BY <1>3 DEF WriteRequest, WroteFirst
    <2>2. QED
      BY <1>3, <2>1, StateTypes DEF WriteRequest, runnerVars, dataVars
  <1>4. ASSUME NEW w \in Writers, Spawn(w) PROVE SyncTypeOK'
    BY <1>4 DEF Spawn, dataVars, historyVars
  <1>5. ASSUME NEW w \in Writers, WriterDies(w) PROVE SyncTypeOK'
    BY <1>5, StateTypes DEF WriterDies, runnerVars, dataVars, historyVars
  <1>6. ASSUME NEW r \in Runners, Finish(r), UNCHANGED <<local, dataVars, writerVars, crashes, historyVars>>
        PROVE  SyncTypeOK'
    BY <1>6, EndsTypes DEF Finish, dataVars, writerVars, historyVars
  <1>7. ASSUME NEW r \in Runners, TakeLock(r) PROVE SyncTypeOK'
    BY <1>6, <1>7 DEF TakeLock, dataVars, writerVars, historyVars
  <1>8. ASSUME NEW r \in Runners, LookBefore(r) PROVE SyncTypeOK'
    BY <1>6, <1>8 DEF LookBefore, dataVars, writerVars, historyVars
  <1>9. ASSUME NEW r \in Runners, StartManual(r) PROVE SyncTypeOK'
    BY <1>9 DEF StartManual, dataVars, writerVars, historyVars
  <1>10. ASSUME NEW r \in Runners, Commit(r) PROVE SyncTypeOK'
    BY <1>10 DEF Commit, Outcome, Outcomes, writerVars
  <1>11. ASSUME NEW r \in Runners, Push(r) PROVE SyncTypeOK'
    BY <1>11 DEF Push, Outcome, Outcomes, writerVars
  <1>12. ASSUME NEW r \in Runners, ReadForOutcome(r) PROVE SyncTypeOK'
    BY <1>12 DEF ReadForOutcome, dataVars, writerVars, historyVars
  <1>13. ASSUME NEW r \in Runners, WriteOutcome(r) PROVE SyncTypeOK'
    <2>1. local' \in LocalStates /\ lastHealth' \in Healths /\ overlapped' \in BOOLEAN
      BY <1>13, StateTypes DEF WriteOutcome, Healths
    <2>2. UNCHANGED <<posted, committed, sent, wpc, wcopy, crashes, missed>>
      BY <1>13 DEF WriteOutcome, dataVars, writerVars
    <2>3. CASE r \in Manual
      BY <1>13, <2>1, <2>2, <2>3, EndsTypes DEF WriteOutcome, Finish
    <2>4. CASE r \notin Manual
      <3>1. pass' \in [Runners -> 0..MaxPasses]
        BY <1>13, <2>4 DEF WriteOutcome
      <3>2. rcopy' = [rcopy EXCEPT ![r] = Quiet]
        BY <1>13, <2>4 DEF WriteOutcome
      <3>3. rcopy' \in [Runners -> LocalStates]
        BY <3>2, StateTypes
      <3>4. rpc' \in [Runners -> RunnerLabels] /\ UNCHANGED <<lock, ended>>
        BY <1>13, <2>4 DEF WriteOutcome
      <3>5. QED
        BY <2>1, <2>2, <3>1, <3>3, <3>4
    <2>5. QED
      BY <2>3, <2>4
  <1>14. ASSUME NEW r \in Runners, LookAfter(r) PROVE SyncTypeOK'
    BY <1>6, <1>14 DEF LookAfter, dataVars, writerVars, historyVars
  <1>15. ASSUME NEW r \in Runners, RunnerDies(r) PROVE SyncTypeOK'
    BY <1>15, EndsTypes DEF RunnerDies, dataVars, writerVars, historyVars
  <1>16. CASE BreakStaleLock
    BY <1>16 DEF BreakStaleLock, dataVars, writerVars, runnerVars, historyVars
  <1>17. CASE UNCHANGED syncVars
    BY <1>17 DEF syncVars, dataVars, writerVars, runnerVars, historyVars
  <1>18. QED
    BY <1>1, <1>2, <1>3, <1>4, <1>5, <1>7, <1>8, <1>9, <1>10, <1>11, <1>12, <1>13, <1>14, <1>15,
       <1>16, <1>17 DEF SyncNext, WriterStep, RunnerStep

\* The steps of a writer.  A record written while a sync is in flight is missed,
\* and so is one requested while a runner is about to write an older state.
LEMMA WriterKeeps ==
  ASSUME SyncInv, NEW w \in Writers, WriterStep(w) \/ WriterDies(w)
  PROVE  (WroteFirst /\ CommitCaptured /\ SyncedSettled /\ CopyCurrent /\ RequestKept)'
  <1> USE SyncParameters DEF SyncInv, SyncTypeOK, WriterAt, HasRequested
  <1>1. CASE WriteRecord(w)
    <2> USE <1>1 DEF WriteRecord, runnerVars, InFlight, Settled, Delivered
    <2>1. WroteFirst'
      BY DEF WroteFirst
    <2>2. CommitCaptured'
      BY DEF CommitCaptured
    <2>3. SyncedSettled'
      BY DEF SyncedSettled
    <2>4. CopyCurrent'
      BY DEF CopyCurrent
    <2>5. RequestKept'
      BY DEF RequestKept
    <2>6. QED
      BY <2>1, <2>2, <2>3, <2>4, <2>5
  <1>2. CASE ReadForRequest(w) \/ WriterDies(w)
    <2>1. UNCHANGED <<local, dataVars, runnerVars, missed>>
      BY <1>2 DEF ReadForRequest, WriterDies, historyVars
    <2>2. \A v \in Writers : HasRequested(v)' = HasRequested(v)
      BY <1>2 DEF ReadForRequest, WriterDies
    <2>3. WroteFirst'
      BY <1>2, <2>1 DEF ReadForRequest, WriterDies, WroteFirst, dataVars
    <2>4. QED
      BY <2>1, <2>2, <2>3 DEF CommitCaptured, SyncedSettled, CopyCurrent, RequestKept, Settled,
                              Delivered, dataVars, runnerVars
  <1>3. CASE WriteRequest(w)
    <2>1. UNCHANGED <<dataVars, runnerVars>> /\ missed \subseteq missed'
      BY <1>3 DEF WriteRequest
    <2>2. local'.requested
      BY <1>3, StateTypes DEF WriteRequest
    <2>3. ASSUME NEW r \in Runners, rpc[r] = "write" PROVE w \in Settled'
      BY <1>3, <2>1, <2>3 DEF WriteRequest, Settled, Delivered, dataVars
    <2>4. \A v \in Writers : v # w => HasRequested(v)' = HasRequested(v)
      BY <1>3 DEF WriteRequest
    <2>5. WroteFirst'
      BY <1>3, <2>1 DEF WriteRequest, WroteFirst, dataVars
    <2>6. CommitCaptured' /\ SyncedSettled'
      BY <2>1 DEF CommitCaptured, SyncedSettled, Settled, Delivered, dataVars, runnerVars
    <2>7. CopyCurrent'
      BY <2>1, <2>3, <2>4 DEF CopyCurrent, Settled, Delivered, dataVars, runnerVars
    <2>8. RequestKept'
      BY <2>2 DEF RequestKept
    <2>9. QED
      BY <2>5, <2>6, <2>7, <2>8
  <1>4. CASE Spawn(w)
    <2>1. UNCHANGED <<local, dataVars, missed, ended, rcopy>>
      BY <1>4 DEF Spawn, historyVars
    <2>2. \A r \in Runners : rpc'[r] = rpc[r] \/ rpc'[r] = "spawned"
      BY <1>4 DEF Spawn, RunnerGoes
    <2>3. \A v \in Writers : HasRequested(v)' = HasRequested(v)
      BY <1>4 DEF Spawn
    <2>4. WroteFirst'
      BY <1>4, <2>1 DEF Spawn, WroteFirst, dataVars
    <2>5. CommitCaptured' /\ SyncedSettled'
      BY <2>1, <2>2 DEF CommitCaptured, SyncedSettled, Settled, Delivered, dataVars
    <2>6. CopyCurrent' /\ RequestKept'
      BY <2>1, <2>2, <2>3 DEF CopyCurrent, RequestKept, Settled, Delivered, dataVars
    <2>7. QED
      BY <2>4, <2>5, <2>6
  <1>5. QED
    BY <1>1, <1>2, <1>3, <1>4 DEF WriterStep

\* A step that moves a runner without touching the records or the local state.
LEMMA RunnerMoveKeeps ==
  ASSUME SyncInv, NEW r \in Runners, UNCHANGED <<local, dataVars, wpc, missed>>,
         rpc'[r] \in RunnerLabels \ {"push", "write"},
         rpc'[r] = "record" => ended'[r] # "synced",
         \A q \in Runners \ {r} : rpc'[q] = rpc[q] /\ ended'[q] = ended[q] /\ rcopy'[q] = rcopy[q]
  PROVE  (WroteFirst /\ CommitCaptured /\ SyncedSettled /\ CopyCurrent /\ RequestKept)'
  <1> USE DEF SyncInv, HasRequested, Settled, Delivered, dataVars
  <1>1. WroteFirst' /\ RequestKept'
    BY DEF WroteFirst, RequestKept
  <1>2. CommitCaptured'
    BY DEF CommitCaptured
  <1>3. SyncedSettled'
    BY DEF SyncedSettled
  <1>4. CopyCurrent'
    BY DEF CopyCurrent
  <1>5. QED
    BY <1>1, <1>2, <1>3, <1>4

\* A step that settles more records and leaves the local state alone.
LEMMA SettlingKeeps ==
  ASSUME SyncInv, NEW r \in Runners, UNCHANGED <<local, posted, wpc>>,
         Settled \subseteq Settled', committed \cup missed \subseteq committed' \cup missed',
         rpc'[r] = "push" => posted \subseteq committed' \cup missed',
         rpc'[r] = "record" /\ ended'[r] = "synced" => posted \subseteq Settled',
         rpc'[r] # "write",
         \A q \in Runners \ {r} : rpc'[q] = rpc[q] /\ ended'[q] = ended[q] /\ rcopy'[q] = rcopy[q]
  PROVE  (WroteFirst /\ CommitCaptured /\ SyncedSettled /\ CopyCurrent /\ RequestKept)'
  <1> USE DEF SyncInv, HasRequested
  <1>1. WroteFirst'
    BY DEF WroteFirst
  <1>2. RequestKept'
    BY DEF RequestKept, Settled
  <1>3. CommitCaptured'
    BY DEF CommitCaptured
  <1>4. SyncedSettled'
    BY DEF SyncedSettled
  <1>5. CopyCurrent'
    BY DEF CopyCurrent
  <1>6. QED
    BY <1>1, <1>2, <1>3, <1>4, <1>5

\* The commit captures every record, and the push settles what was captured.
LEMMA SyncKeeps ==
  ASSUME SyncInv, NEW r \in Runners, Commit(r) \/ Push(r)
  PROVE  (WroteFirst /\ CommitCaptured /\ SyncedSettled /\ CopyCurrent /\ RequestKept)'
  <1> USE SyncParameters DEF SyncInv, SyncTypeOK, RunnerGoes, Outcome
  <1>1. UNCHANGED <<local, posted, wpc, rcopy>>
    BY DEF Commit, Push, writerVars
  <1>2. \A q \in Runners \ {r} : rpc'[q] = rpc[q] /\ ended'[q] = ended[q] /\ rcopy'[q] = rcopy[q]
    BY <1>1 DEF Commit, Push
  <1>3. CASE Commit(r)
    <2>1. /\ rpc'[r] # "write" /\ committed \subseteq committed'
          /\ rpc'[r] = "push" => committed' = posted
          /\ rpc'[r] = "record" => ended'[r] # "synced"
      BY <1>3 DEF Commit
    <2>2. UNCHANGED sent /\ (UNCHANGED <<committed, missed>> \/ missed' = missed \ Delivered')
      BY <1>3 DEF Commit
    <2>3. Settled \subseteq Settled' /\ committed \cup missed \subseteq committed' \cup missed'
      BY <2>1, <2>2 DEF Settled, Delivered
    <2>4. QED
      BY <1>1, <1>2, <2>1, <2>3, SettlingKeeps
  <1>4. CASE Push(r)
    <2>1. /\ rpc'[r] = "record" /\ UNCHANGED committed
          /\ posted \subseteq committed \cup missed
      BY <1>4 DEF Push, CommitCaptured
    <2>2. CASE sent' = (IF r \in Manual \/ AutoPush THEN committed ELSE sent) /\ missed' = missed \ Delivered'
      <3>1. Settled \subseteq Settled' /\ committed \cup missed \subseteq committed' \cup missed'
        BY <2>1, <2>2 DEF Settled, Delivered
      <3>2. posted \subseteq Settled'
        BY <2>1, <2>2 DEF Settled, Delivered
      <3>3. QED
        BY <1>1, <1>2, <2>1, <3>1, <3>2, SettlingKeeps
    <2>3. CASE missed' = missed \cup (committed \ Delivered) /\ UNCHANGED sent
      <3>1. Settled \subseteq Settled' /\ posted \subseteq Settled' /\ missed \subseteq missed'
        BY <2>1, <2>3 DEF Settled, Delivered
      <3>2. QED
        BY <1>1, <1>2, <2>1, <3>1, SettlingKeeps
    <2>4. CASE ended'[r] # "synced" /\ UNCHANGED <<sent, missed>>
      <3>1. Settled \subseteq Settled'
        BY <2>1, <2>4 DEF Settled, Delivered
      <3>2. QED
        BY <1>1, <1>2, <2>1, <2>4, <3>1, SettlingKeeps
    <2>5. QED
      BY <1>4, <2>2, <2>3, <2>4 DEF Push
  <1>5. QED
    BY <1>3, <1>4

\* The state a runner reads has a request for everything unsettled, and the one
\* it writes back drops the request only when nothing is.
LEMMA RecordKeeps ==
  ASSUME SyncInv, NEW r \in Runners, ReadForOutcome(r) \/ WriteOutcome(r)
  PROVE  (WroteFirst /\ CommitCaptured /\ SyncedSettled /\ CopyCurrent /\ RequestKept)'
  <1> USE SyncParameters DEF SyncInv, SyncTypeOK, RunnerGoes
  <1>1. UNCHANGED <<dataVars, wpc, missed>>
    BY DEF ReadForOutcome, WriteOutcome, historyVars, writerVars
  <1>2. Settled' = Settled /\ posted' = posted /\ \A w \in Writers : HasRequested(w)' = HasRequested(w)
    BY <1>1 DEF Settled, Delivered, HasRequested, dataVars
  <1>3. WroteFirst'
    BY <1>1 DEF WroteFirst, dataVars
  <1>4. CASE ReadForOutcome(r)
    <2>1. /\ rpc[r] = "record" /\ rpc' = [rpc EXCEPT ![r] = "write"]
          /\ rcopy' = [rcopy EXCEPT ![r] = local] /\ UNCHANGED <<local, ended>>
      BY <1>4 DEF ReadForOutcome
    <2>2. CommitCaptured'
      BY <1>1, <2>1 DEF CommitCaptured, dataVars
    <2>3. SyncedSettled'
      BY <1>2, <2>1 DEF SyncedSettled
    <2>4. RequestKept'
      BY <1>2, <2>1 DEF RequestKept, Settled
    <2>5. CopyCurrent'
      BY <1>2, <2>1 DEF CopyCurrent, RequestKept, Settled
    <2>6. QED
      BY <1>3, <2>2, <2>3, <2>4, <2>5
  <1>5. CASE WriteOutcome(r)
    <2>1. rpc[r] = "write" /\ local' = Recorded(rcopy[r], ended[r])
      BY <1>5 DEF WriteOutcome
    <2>2. rpc'[r] \in {"done", "after"} /\
          \A q \in Runners \ {r} : rpc'[q] = rpc[q] /\ ended'[q] = ended[q] /\ rcopy'[q] = rcopy[q]
      BY <1>5 DEF WriteOutcome, Finish, Ends
    <2>3. CommitCaptured'
      BY <1>1, <2>2 DEF CommitCaptured, dataVars
    <2>4. SyncedSettled'
      BY <1>2, <2>2 DEF SyncedSettled
    <2>5. CopyCurrent'
      BY <1>2, <2>2 DEF CopyCurrent
    <2>6. local'.requested = (ended[r] # "synced" /\ rcopy[r].requested)
      BY <2>1, StateTypes
    <2>7. ASSUME ~local'.requested, NEW w \in Writers \ Settled PROVE ~HasRequested(w)
      <3>1. CASE ended[r] = "synced"
        BY <2>1, <2>7, <3>1 DEF SyncedSettled, WroteFirst, HasRequested
      <3>2. CASE ~rcopy[r].requested
        BY <2>1, <2>7, <3>2 DEF CopyCurrent
      <3>3. QED
        BY <2>6, <2>7, <3>1, <3>2
    <2>8. RequestKept'
      BY <1>2, <2>7 DEF RequestKept, Settled
    <2>9. QED
      BY <1>3, <2>3, <2>4, <2>5, <2>8
  <1>6. QED
    BY <1>4, <1>5

LEMMA SyncInvariantKept == SyncInv /\ [SyncNext]_syncVars => SyncInv'
  <1> SUFFICES ASSUME SyncInv, [SyncNext]_syncVars
               PROVE  (WroteFirst /\ CommitCaptured /\ SyncedSettled /\ CopyCurrent /\ RequestKept)'
    BY SyncTypesKept DEF SyncInv
  <1>1. ASSUME NEW w \in Writers, WriterStep(w) \/ WriterDies(w)
        PROVE  (WroteFirst /\ CommitCaptured /\ SyncedSettled /\ CopyCurrent /\ RequestKept)'
    BY <1>1, WriterKeeps
  <1>2. ASSUME NEW r \in Runners,
               TakeLock(r) \/ LookBefore(r) \/ StartManual(r) \/ LookAfter(r) \/ RunnerDies(r)
        PROVE  (WroteFirst /\ CommitCaptured /\ SyncedSettled /\ CopyCurrent /\ RequestKept)'
    <2> USE SyncParameters DEF SyncInv, SyncTypeOK, RunnerGoes, Finish, Ends
    <2>1. UNCHANGED <<local, dataVars, wpc, missed>>
      BY <1>2 DEF TakeLock, LookBefore, StartManual, LookAfter, RunnerDies, historyVars, writerVars
    <2>2. rpc'[r] \in {"before", "fetch", "done", "dead"}
      BY <1>2 DEF TakeLock, LookBefore, StartManual, LookAfter, RunnerDies
    <2>3. \A q \in Runners \ {r} : rpc'[q] = rpc[q] /\ ended'[q] = ended[q] /\ rcopy'[q] = rcopy[q]
      BY <1>2 DEF TakeLock, LookBefore, StartManual, LookAfter, RunnerDies
    <2>4. QED
      BY <2>1, <2>2, <2>3, RunnerMoveKeeps DEF RunnerLabels
  <1>3. ASSUME NEW r \in Runners, Commit(r) \/ Push(r)
        PROVE  (WroteFirst /\ CommitCaptured /\ SyncedSettled /\ CopyCurrent /\ RequestKept)'
    BY <1>3, SyncKeeps
  <1>4. ASSUME NEW r \in Runners, ReadForOutcome(r) \/ WriteOutcome(r)
        PROVE  (WroteFirst /\ CommitCaptured /\ SyncedSettled /\ CopyCurrent /\ RequestKept)'
    BY <1>4, RecordKeeps
  <1>5. CASE BreakStaleLock \/ UNCHANGED syncVars
    BY <1>5 DEF BreakStaleLock, syncVars, dataVars, writerVars, runnerVars, historyVars, SyncInv, WroteFirst,
                CommitCaptured, SyncedSettled, CopyCurrent, RequestKept, Settled, Delivered, HasRequested
  <1>6. QED
    BY <1>1, <1>2, <1>3, <1>4, <1>5 DEF SyncNext, RunnerStep

LEMMA SyncInvariantHolds == SyncSpec => []SyncInv
  <1>1. SyncInit => SyncInv
    <2> SUFFICES ASSUME SyncInit PROVE SyncInv
      OBVIOUS
    <2>1. local \in LocalStates /\ wcopy \in [Writers -> LocalStates] /\ rcopy \in [Runners -> LocalStates]
      BY StateTypes DEF SyncInit
    <2>2. SyncTypeOK
      <3>1. wpc \in [Writers -> WriterLabels]
        BY DEF SyncInit, WriterLabels
      <3>2. rpc \in [Runners -> RunnerLabels]
        BY DEF SyncInit, RunnerLabels
      <3>3. pass \in [Runners -> 0..MaxPasses] /\ crashes \in 0..MaxCrashes
        BY SyncParameters DEF SyncInit
      <3>4. ended \in [Runners -> Outcomes] /\ lastHealth \in Healths
        BY DEF SyncInit, Outcomes, Healths
      <3>5. /\ lock \in Runners \cup {NoRunner} /\ overlapped \in BOOLEAN
            /\ posted \subseteq Writers /\ committed \subseteq posted
            /\ sent \subseteq committed /\ missed \subseteq posted
        BY DEF SyncInit
      <3>6. QED
        BY <2>1, <3>1, <3>2, <3>3, <3>4, <3>5 DEF SyncTypeOK
    <2>3. WroteFirst /\ CommitCaptured /\ SyncedSettled /\ CopyCurrent /\ RequestKept
      BY DEF SyncInit, WroteFirst, CommitCaptured, SyncedSettled, CopyCurrent, RequestKept, HasRequested
    <2>4. QED
      BY <2>2, <2>3 DEF SyncInv
  <1>2. QED
    BY <1>1, SyncInvariantKept, PTL DEF SyncSpec

\* Type correctness, for every set of writers, runners and manual syncs.
THEOREM SyncTypeCorrect == SyncSpec => []SyncTypeOK
  BY SyncInvariantHolds, PTL DEF SyncInv

\* No failure, crash or repetition loses the request for a record: whatever is
\* neither delivered nor written in one of the known windows is still asked for.
THEOREM RequestsSurvive == SyncSpec => []RequestKept
  BY SyncInvariantHolds, PTL DEF SyncInv

-----------------------------------------------------------------------------
(* The health.                                                             *)

\* A request about to be written back carries the health of the last outcome.
CopyHealthy ==
  ~overlapped => \A w \in Writers : wpc[w] = "request" => wcopy[w].health = local.health

HealthInv == HealthIsLastOutcome /\ CopyHealthy

LEMMA HealthKept == SyncTypeOK /\ HealthInv /\ [SyncNext]_syncVars => HealthInv'
  <1> SUFFICES ASSUME SyncTypeOK, HealthInv, [SyncNext]_syncVars PROVE HealthInv'
    OBVIOUS
  <1>1. wpc \in [Writers -> WriterLabels] /\ wcopy \in [Writers -> LocalStates]
    BY DEF SyncTypeOK
  \* The steps that write neither the state nor a writer's copy of it.
  <1>2. ASSUME UNCHANGED <<local, lastHealth, overlapped, wcopy>>,
               \A w \in Writers : wpc'[w] = "request" => wpc[w] = "request"
        PROVE  HealthInv'
    BY <1>2 DEF HealthInv, HealthIsLastOutcome, CopyHealthy
  <1>3. ASSUME NEW w \in Writers, WriteRecord(w) \/ Spawn(w) PROVE HealthInv'
    <2>1. UNCHANGED <<local, lastHealth, overlapped, wcopy>>
      BY <1>3 DEF WriteRecord, Spawn, historyVars
    <2>2. \A v \in Writers : wpc'[v] = "request" => wpc[v] = "request"
      BY <1>1, <1>3 DEF WriteRecord, Spawn, WriterAt
    <2>3. QED
      BY <1>2, <2>1, <2>2
  <1>4. ASSUME NEW w \in Writers, ReadForRequest(w) PROVE HealthInv'
    <2>1. UNCHANGED <<local, lastHealth, overlapped>>
      BY <1>4 DEF ReadForRequest, historyVars
    <2>2. \A v \in Writers : v # w => wpc'[v] = wpc[v] /\ wcopy'[v] = wcopy[v]
      BY <1>1, <1>4 DEF ReadForRequest, WriterAt
    <2>3. wcopy'[w] = local
      BY <1>1, <1>4 DEF ReadForRequest
    <2>4. QED
      BY <2>1, <2>2, <2>3 DEF HealthInv, HealthIsLastOutcome, CopyHealthy
  <1>5. ASSUME NEW w \in Writers, WriteRequest(w) PROVE HealthInv'
    <2>1. UNCHANGED <<lastHealth, overlapped>> /\ wpc[w] = "request"
      BY <1>5 DEF WriteRequest, WriterAt
    <2>2. local'.health = wcopy[w].health
      BY <1>1, <1>5 DEF WriteRequest, Requested, LocalStates
    <2>3. ~overlapped => local'.health = local.health
      BY <2>1, <2>2 DEF HealthInv, CopyHealthy
    <2>4. \A v \in Writers : wpc'[v] = "request" => wpc[v] = "request" /\ wcopy'[v] = wcopy[v]
      BY <1>1, <1>5 DEF WriteRequest, WriterAt
    <2>5. QED
      BY <2>1, <2>3, <2>4 DEF HealthInv, HealthIsLastOutcome, CopyHealthy
  <1>6. ASSUME NEW w \in Writers, WriterDies(w) PROVE HealthInv'
    <2>1. UNCHANGED <<local, lastHealth, overlapped>>
      BY <1>6 DEF WriterDies, historyVars
    <2>2. \A v \in Writers : wpc'[v] = "request" => wpc[v] = "request" /\ wcopy'[v] = wcopy[v]
      BY <1>1, <1>6 DEF WriterDies
    <2>3. QED
      BY <2>1, <2>2 DEF HealthInv, HealthIsLastOutcome, CopyHealthy
  <1>7. ASSUME NEW r \in Runners, WriteOutcome(r) PROVE HealthInv'
    <2>1. UNCHANGED <<wpc, wcopy>>
      BY <1>7 DEF WriteOutcome, writerVars
    <2>2. local'.health = HealthOf(ended[r])
      BY <1>7 DEF WriteOutcome, Recorded
    <2>3. ~overlapped' => \A w \in Writers : wpc[w] # "request"
      BY <1>7 DEF WriteOutcome
    <2>4. ~overlapped' => lastHealth' = HealthOf(ended[r])
      BY <1>7 DEF WriteOutcome
    <2>5. QED
      BY <2>1, <2>2, <2>3, <2>4 DEF HealthInv, HealthIsLastOutcome, CopyHealthy
  <1>8. ASSUME NEW r \in Runners,
               \/ TakeLock(r) \/ LookBefore(r) \/ Commit(r) \/ Push(r) \/ ReadForOutcome(r)
               \/ LookAfter(r) \/ StartManual(r) \/ RunnerDies(r)
        PROVE  HealthInv'
    <2>1. UNCHANGED <<local, lastHealth, overlapped, wpc, wcopy>>
      BY <1>8 DEF TakeLock, LookBefore, Commit, Push, ReadForOutcome, LookAfter, StartManual,
                  RunnerDies, writerVars, historyVars
    <2>2. QED
      BY <1>2, <2>1
  <1>9. CASE BreakStaleLock \/ UNCHANGED syncVars
    <2>1. UNCHANGED <<local, lastHealth, overlapped, wpc, wcopy>>
      BY <1>9 DEF BreakStaleLock, syncVars, writerVars, historyVars
    <2>2. QED
      BY <1>2, <2>1
  <1>10. QED
    BY <1>3, <1>4, <1>5, <1>6, <1>7, <1>8, <1>9 DEF SyncNext, WriterStep, RunnerStep

\* The health that statenest shows is that of the last sync to finish, unless a request
\* straddled its recording: no other mixture of runners, manual syncs, requests and
\* crashes hides a conflict from `statenest sync repair`.
THEOREM HealthFollows == SyncSpec => []HealthIsLastOutcome
  <1>1. SyncInit => HealthInv
    BY DEF SyncInit, Quiet, HealthInv, HealthIsLastOutcome, CopyHealthy
  <1>2. QED
    BY <1>1, HealthKept, SyncTypeCorrect, PTL DEF SyncSpec, HealthInv
==============================================================================
