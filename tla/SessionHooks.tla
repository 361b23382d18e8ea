---------------------------- MODULE SessionHooks ----------------------------
(***************************************************************************)
(* The Claude Code integration for one session of one project:             *)
(* src/integrations/claude/handlers.ts and session.ts, with                *)
(* createCheckpoint and isCheckpointWorthwhile of checkpoints/create.ts.   *)
(*                                                                         *)
(* Every hook event is a process of its own.  All of them share one        *)
(* session record on disk, changed by updateSessionRecord: take the        *)
(* record's lock, read, change, write, release.  A process that cannot get *)
(* the lock in time updates the record without it (FileLock).  A handler   *)
(* that overruns its deadline is cut off wherever it stands (hook.ts       *)
(* exits the process).                                                     *)
(*                                                                         *)
(* Times and repository contents are abstracted to what the decisions      *)
(* compare: whether the minimum interval has passed since the last         *)
(* checkpoint, and which of a few states the repository is in.             *)
(***************************************************************************)
EXTENDS Naturals, FiniteSets

CONSTANTS
  Events,       \* the hook processes that may run
  KindOf,       \* the handler each one runs
  SummaryOf,    \* the compaction summary (its digest) handed to a PostCompact
  NoDigest,     \* last_compact_digest = null
  NoRecord,     \* no session file, or an unreadable one
  NoEvent,      \* nobody holds the record's lock
  Slow,         \* the git read did not finish within its own deadline
  NoState,      \* no checkpoint yet, or one without repository state
  Eligible,     \* the repository qualifies for automatic registration
  MaxMoves,     \* bound: how often the repository changes
  MaxKills,     \* bound: how many hook processes are cut off
  Stories       \* what may come together in one session

Kinds == {"SessionStart", "Stop", "PreCompact", "PostCompact", "SessionEnd"}

\* The events of a story, and what else may happen in it: how often the repository
\* changes, whether the user adds and removes the project, whether an update may time
\* out waiting for the lock, whether the record may be over 72 hours old.
StoryRecords ==
  [events : SUBSET Events, moves : 0..MaxMoves,
   toggled : BOOLEAN, failsOpen : BOOLEAN, ages : BOOLEAN]

ASSUME SessionHooksAssumption ==
  /\ KindOf \in [Events -> Kinds]
  /\ \A e \in Events : SummaryOf[e] # NoDigest
  /\ NoEvent \notin Events
  /\ Slow # NoState /\ Slow \notin Nat /\ NoState \notin Nat
  /\ Eligible \in BOOLEAN /\ Stories \subseteq StoryRecords
  /\ MaxMoves \in Nat /\ MaxKills \in Nat

Digests == {SummaryOf[e] : e \in Events}
Records == [project : BOOLEAN, turns : Nat, checkpointed : BOOLEAN,
            digest : Digests \cup {NoDigest}, pending : BOOLEAN]

ASSUME NoRecordAssumption == NoRecord \notin Records

VARIABLES
  story,       \* what may come in this session
  record,      \* the session file
  lock,        \* who holds the record's lock
  registered,  \* the project is in the registry
  repoState,   \* what git would report now
  intervalUp,  \* the minimum interval since the last checkpoint has passed
  lastState,   \* the repository state the project's last checkpoint recorded
  anyBefore,   \* the project has a checkpoint
  written,     \* the events that wrote a checkpoint
  pc,          \* where each handler is
  seen,        \* the record as each SessionEnd first read it, outside the lock
  copy,        \* the record as its update read it
  repo,        \* what the handler's git read returned
  found,       \* whether the handler's registry.identify found the project
  reason,      \* why a handler returned without a checkpoint
  prune,       \* progress of a SessionStart's pruneSessionRecords
  aged,        \* the session file is older than 72 hours
  killed,      \* handlers cut off
  unlocked,    \* history: some update ran without the lock
  pruned,      \* history: the record was removed
  updated,     \* history: events whose change of the record was written
  before       \* history: for each event, those that had updated the record when it read it first

sessionVars == <<record, lock, aged>>
projectVars == <<registered, repoState, intervalUp, lastState, anyBefore, written>>
handlerVars == <<pc, seen, copy, repo, found, reason>>
historyVars == <<unlocked, pruned, updated, before>>
vars == <<story, sessionVars, projectVars, handlerVars, prune, killed, historyVars>>

NewRecord == [project |-> FALSE, turns |-> 0, checkpointed |-> FALSE,
              digest |-> NoDigest, pending |-> FALSE]

Labels == {"new", "update", "write", "assess", "claim", "claimed", "create", "done", "killed"}
Reasons == {"none", "no record", "already checkpointed", "no turns", "no project",
            "same compaction", "too soon", "no activity", "nothing changed"}
RepoStates == 0..MaxMoves

TypeOK ==
  /\ story \in Stories
  /\ record \in Records \cup {NoRecord}
  /\ lock \in Events \cup {NoEvent}
  /\ registered \in BOOLEAN
  /\ repoState \in RepoStates
  /\ intervalUp \in BOOLEAN
  /\ lastState \in RepoStates \cup {NoState}
  /\ anyBefore \in BOOLEAN
  /\ written \subseteq Events
  /\ pc \in [Events -> Labels]
  /\ seen \in [Events -> Records \cup {NoRecord}]
  /\ copy \in [Events -> Records]
  /\ repo \in [Events -> RepoStates \cup {Slow}]
  /\ found \in [Events -> BOOLEAN]
  /\ reason \in [Events -> Reasons]
  /\ prune \in [Events -> {"none", "stat", "rm", "done"}]
  /\ aged \in BOOLEAN
  /\ killed \subseteq Events
  /\ unlocked \in BOOLEAN /\ pruned \in BOOLEAN
  /\ updated \subseteq Events
  /\ before \in [Events -> SUBSET Events]

Init ==
  /\ story \in Stories
  /\ record = NoRecord
  /\ lock = NoEvent
  /\ registered \in BOOLEAN
  /\ repoState = 0
  /\ intervalUp = TRUE
  /\ lastState = NoState
  /\ anyBefore = FALSE
  /\ written = {}
  /\ pc = [e \in Events |-> "new"]
  /\ seen = [e \in Events |-> NoRecord]
  /\ copy = [e \in Events |-> NewRecord]
  /\ repo = [e \in Events |-> Slow]
  /\ found = [e \in Events |-> FALSE]
  /\ reason = [e \in Events |-> "none"]
  /\ prune = [e \in Events |-> "none"]
  /\ aged = FALSE
  /\ killed = {}
  /\ unlocked = FALSE /\ pruned = FALSE
  /\ updated = {}
  /\ before = [e \in Events |-> {}]

Is(e, kind) == KindOf[e] = kind
Goto(e, label) == pc' = [pc EXCEPT ![e] = label]
Return(e, why) ==
  /\ Goto(e, "done")
  /\ reason' = [reason EXCEPT ![e] = why]

Existing == IF record = NoRecord THEN NewRecord ELSE record

(***************************************************************************)
(* updateSessionRecord: read, change, write.                               *)
(***************************************************************************)

\* The change each handler passes to updateSessionRecord.
StartedFrom(e, r) ==
  IF r.turns > 0 \/ r.project THEN r ELSE [r EXCEPT !.project = found[e]]

TurnAdded(e, r) == [r EXCEPT !.project = @ \/ found[e], !.turns = @ + 1]

CompactionExpected(e, r) == [r EXCEPT !.project = @ \/ found[e], !.pending = TRUE]

CompactionNoted(e, r) ==
  [r EXCEPT !.checkpointed = TRUE, !.digest = SummaryOf[e], !.pending = FALSE]

Claimed(e, r) == [r EXCEPT !.checkpointed = TRUE]

Changed(e, r) ==
  CASE Is(e, "SessionStart") -> StartedFrom(e, r)
    [] Is(e, "Stop") -> TurnAdded(e, r)
    [] Is(e, "PreCompact") -> CompactionExpected(e, r)
    [] Is(e, "PostCompact") -> CompactionNoted(e, r)
    [] Is(e, "SessionEnd") -> Claimed(e, r)

\* Faulty: a compaction's checkpoint does not count for the session.
ChangedUnmarked(e, r) ==
  IF Is(e, "PostCompact") THEN [Changed(e, r) EXCEPT !.checkpointed = r.checkpointed]
  ELSE Changed(e, r)

ChangeOf(e, r) == Changed(e, r)

\* Faulty: whoever wants the lock takes it.
LockAlways(e) == TRUE

LockFree(e) == lock = NoEvent

\* The lock is taken and the record read.
ReadLocked(e) ==
  /\ pc[e] \in {"update", "claim"}
  /\ LockFree(e)
  /\ lock' = e
  /\ copy' = [copy EXCEPT ![e] = Existing]
  /\ Goto(e, IF pc[e] = "claim" THEN "claimed" ELSE "write")
  /\ UNCHANGED <<story, record, aged, projectVars, seen, repo, found, reason, prune, killed,
                 historyVars>>

\* The deadline passed while another held the lock: read without it.
ReadUnlocked(e) ==
  /\ story.failsOpen
  /\ pc[e] \in {"update", "claim"}
  /\ lock # NoEvent
  /\ copy' = [copy EXCEPT ![e] = Existing]
  /\ Goto(e, IF pc[e] = "claim" THEN "claimed" ELSE "write")
  /\ unlocked' = TRUE
  /\ UNCHANGED <<story, sessionVars, projectVars, seen, repo, found, reason, prune, killed,
                 pruned, updated, before>>

\* A lock whose holder was cut off is broken once it is stale.
BreakLock ==
  /\ lock \in killed
  /\ lock' = NoEvent
  /\ UNCHANGED <<story, record, aged, projectVars, handlerVars, prune, killed, historyVars>>

Unlock(e) == lock' = IF lock = e THEN NoEvent ELSE lock

\* What was read is no longer needed once the update has been written.
Forget(e) == copy' = [copy EXCEPT ![e] = NewRecord]

\* The changed record is written and the lock released; a PostCompact has
\* already written its checkpoint, so every kind returns from here.
WriteRecord(e) ==
  /\ pc[e] = "write"
  /\ record' = ChangeOf(e, copy[e])
  /\ aged' = FALSE
  /\ Unlock(e)
  /\ Goto(e, "done")
  /\ updated' = updated \cup {e}
  /\ Forget(e)
  /\ UNCHANGED <<story, projectVars, seen, repo, found, reason, prune, killed,
                 unlocked, pruned, before>>

(***************************************************************************)
(* SessionStart, Stop, PreCompact                                          *)
(***************************************************************************)

\* runHandler is called for an event of this session, once.
Fires(e) == e \in story.events /\ pc[e] = "new"

\* onSessionStart: identify, register the repository if it is eligible, start
\* pruning old session files in the background, then update the record.
StartSession(e) ==
  /\ Is(e, "SessionStart")
  /\ Fires(e)
  /\ registered' = (registered \/ Eligible)
  /\ found' = [found EXCEPT ![e] = registered']
  /\ prune' = [prune EXCEPT ![e] = "stat"]
  /\ Goto(e, "update")
  /\ UNCHANGED <<story, sessionVars, repoState, intervalUp, lastState, anyBefore, written,
                 seen, copy, repo, reason, killed, historyVars>>

\* onStop and onPreCompact identify the project and update the record.
StartUpdate(e) ==
  /\ KindOf[e] \in {"Stop", "PreCompact"}
  /\ Fires(e)
  /\ found' = [found EXCEPT ![e] = registered]
  /\ Goto(e, "update")
  /\ UNCHANGED <<story, sessionVars, projectVars, seen, copy, repo, reason, prune, killed,
                 historyVars>>

\* pruneSessionRecords: stat every session file, then rm the old ones.  It takes
\* no lock, and it runs on while the handler that started it goes ahead.
PruneStat(e) ==
  /\ prune[e] = "stat"
  /\ prune' = [prune EXCEPT ![e] = IF record # NoRecord /\ aged THEN "rm" ELSE "done"]
  /\ UNCHANGED <<story, sessionVars, projectVars, handlerVars, killed, historyVars>>

PruneRemove(e) ==
  /\ prune[e] = "rm"
  /\ prune' = [prune EXCEPT ![e] = "done"]
  /\ record' = NoRecord
  /\ pruned' = TRUE
  /\ aged' = FALSE
  /\ UNCHANGED <<story, lock, projectVars, handlerVars, killed, unlocked, updated, before>>

(***************************************************************************)
(* Checkpoints                                                             *)
(***************************************************************************)

\* createCheckpoint writes a new file.  It records the repository state the
\* handler read, which is null when that read timed out.
Checkpoint(e) ==
  /\ written' = written \cup {e}
  /\ anyBefore' = TRUE
  /\ intervalUp' = FALSE
  /\ lastState' = IF repo[e] = Slow THEN NoState ELSE repo[e]
  /\ UNCHANGED <<registered, repoState>>

\* isCheckpointWorthwhile, by the reason it gives ("none": worthwhile).
Verdict(r) ==
  CASE ~anyBefore -> IF r = Slow THEN "no activity" ELSE "none"
    [] anyBefore /\ ~intervalUp -> "too soon"
    [] anyBefore /\ intervalUp /\ (r = Slow \/ r = lastState) -> "nothing changed"
    [] OTHER -> "none"

(***************************************************************************)
(* PostCompact                                                             *)
(***************************************************************************)

\* Faulty: the digest is recorded before the checkpoint is written.
CompactFirstStep == "update"

\* What a PostCompact does after its duplicate check.
CompactNextStep == "create"

\* Faulty: no duplicate check.
NeverSame(e) == FALSE

\* record.last_compact_digest === digest
SameCompaction(e) == record # NoRecord /\ record.digest = SummaryOf[e]

\* The duplicate check and the project lookup, outside the lock, and the git read.
StartPostCompact(e) ==
  /\ Is(e, "PostCompact")
  /\ Fires(e)
  /\ before' = [before EXCEPT ![e] = updated]
  /\ \E r \in {repoState, Slow} : repo' = [repo EXCEPT ![e] = r]
  /\ \/ SameCompaction(e) /\ Return(e, "same compaction")
     \/ ~SameCompaction(e) /\ ~registered /\ Return(e, "no project")
     \/ /\ ~SameCompaction(e) /\ registered
        /\ Goto(e, CompactNextStep)
        /\ UNCHANGED reason
  /\ UNCHANGED <<story, sessionVars, projectVars, seen, copy, found, prune, killed,
                 unlocked, pruned, updated>>

\* The checkpoint comes first, the update of the record after it.
CreateFromCompaction(e) ==
  /\ Is(e, "PostCompact")
  /\ pc[e] = "create"
  /\ Checkpoint(e)
  /\ Goto(e, "update")
  /\ UNCHANGED <<story, sessionVars, seen, copy, repo, found, reason, prune, killed, historyVars>>

(***************************************************************************)
(* SessionEnd                                                              *)
(***************************************************************************)

AlreadyCheckpointed(r) == r.checkpointed

\* The record is read outside the lock.
StartSessionEnd(e) ==
  /\ Is(e, "SessionEnd")
  /\ Fires(e)
  /\ seen' = [seen EXCEPT ![e] = record]
  /\ before' = [before EXCEPT ![e] = updated]
  /\ \/ record = NoRecord /\ Return(e, "no record")
     \/ record # NoRecord /\ AlreadyCheckpointed(record) /\ Return(e, "already checkpointed")
     \/ record # NoRecord /\ ~AlreadyCheckpointed(record) /\ record.turns < 1 /\ Return(e, "no turns")
     \/ /\ record # NoRecord /\ ~AlreadyCheckpointed(record) /\ record.turns >= 1
        /\ IF record.project /\ registered
             THEN Goto(e, "assess") /\ UNCHANGED reason
             ELSE Return(e, "no project")
  /\ UNCHANGED <<story, sessionVars, projectVars, copy, repo, found, prune, killed,
                 unlocked, pruned, updated>>

\* The git read with its own deadline, the last checkpoint, and the verdict.
AssessSession(e) ==
  /\ pc[e] = "assess"
  /\ \E r \in {repoState, Slow} :
       /\ repo' = [repo EXCEPT ![e] = r]
       /\ IF Verdict(r) = "none" THEN Goto(e, "claim") /\ UNCHANGED reason
          ELSE Return(e, Verdict(r))
  /\ UNCHANGED <<story, sessionVars, projectVars, seen, copy, found, prune, killed, historyVars>>

\* Faulty: the result of the claim is looked at alone.
RefusedByClaim(e) == ChangeOf(e, copy[e]).checkpointed

\* `claimed.checkpointed && record.checkpointed`: record is what this handler
\* read before the lock, which was unclaimed or it would not be here.
ClaimRefused(e) == ChangeOf(e, copy[e]).checkpointed /\ seen[e].checkpointed

\* The claim is written and the lock released.
ClaimSession(e) ==
  /\ pc[e] = "claimed"
  /\ record' = ChangeOf(e, copy[e])
  /\ aged' = FALSE
  /\ Unlock(e)
  /\ updated' = updated \cup {e}
  /\ IF ClaimRefused(e) THEN Return(e, "already checkpointed")
     ELSE Goto(e, "create") /\ UNCHANGED reason
  /\ Forget(e)
  /\ UNCHANGED <<story, projectVars, seen, repo, found, prune, killed,
                 unlocked, pruned, before>>

CreateFromSessionEnd(e) ==
  /\ Is(e, "SessionEnd")
  /\ pc[e] = "create"
  /\ Checkpoint(e)
  /\ Goto(e, "done")
  /\ UNCHANGED <<story, sessionVars, seen, copy, repo, found, reason, prune, killed, historyVars>>

(***************************************************************************)
(* The environment                                                         *)
(***************************************************************************)

\* The deadline of withDeadline, or Claude Code's own kill.
Kill(e) ==
  /\ pc[e] \notin {"new", "done", "killed"}
  /\ Cardinality(killed) < MaxKills
  /\ killed' = killed \cup {e}
  /\ Goto(e, "killed")
  /\ prune' = [prune EXCEPT ![e] = "done"]
  /\ UNCHANGED <<story, sessionVars, projectVars, seen, copy, repo, found, reason, historyVars>>

\* `statenest add .` and `statenest remove`.
ToggleProject ==
  /\ story.toggled
  /\ registered' = ~registered
  /\ UNCHANGED <<story, sessionVars, repoState, intervalUp, lastState, anyBefore, written,
                 handlerVars, prune, killed, historyVars>>

RepoMoves ==
  /\ repoState < story.moves
  /\ repoState' = repoState + 1
  /\ UNCHANGED <<story, sessionVars, registered, intervalUp, lastState, anyBefore, written,
                 handlerVars, prune, killed, historyVars>>

IntervalPasses ==
  /\ ~intervalUp
  /\ intervalUp' = TRUE
  /\ UNCHANGED <<story, sessionVars, registered, repoState, lastState, anyBefore, written,
                 handlerVars, prune, killed, historyVars>>

RecordAges ==
  /\ story.ages
  /\ record # NoRecord /\ ~aged
  /\ aged' = TRUE
  /\ UNCHANGED <<story, record, lock, projectVars, handlerVars, prune, killed, historyVars>>

HandlerStep(e) ==
  \/ StartSession(e) \/ StartUpdate(e) \/ StartPostCompact(e) \/ StartSessionEnd(e)
  \/ ReadLocked(e) \/ ReadUnlocked(e) \/ WriteRecord(e)
  \/ CreateFromCompaction(e)
  \/ AssessSession(e) \/ ClaimSession(e) \/ CreateFromSessionEnd(e)

PruneStep(e) == PruneStat(e) \/ PruneRemove(e)

Next ==
  \/ \E e \in Events : HandlerStep(e) \/ PruneStep(e) \/ Kill(e)
  \/ BreakLock
  \/ ToggleProject \/ RepoMoves \/ IntervalPasses \/ RecordAges

Spec == Init /\ [][Next]_vars

(***************************************************************************)
(* Properties                                                              *)
(***************************************************************************)

\* Neither of the two things the record is not protected from has happened:
\* an update that went ahead without the lock, and a record removed for its age.
Undisturbed == ~unlocked /\ ~pruned

Kind(k) == {e \in Events : Is(e, k)}

\* Every Stop whose update finished is counted, however updates of the record
\* interleave, are cut off or restart the session (handlers.ts:390-398: without
\* the lock "every concurrent Stop reads the same count").
TurnsCounted ==
  Undisturbed /\ record # NoRecord => record.turns = Cardinality(updated \cap Kind("Stop"))

\* A PostCompact is dropped as a duplicate only when a checkpoint of that very
\* compaction exists: cutting a hook off at any point never loses a compaction
\* for good, and two different compactions are never taken for one.
CompactionNeverLost ==
  \A e \in Kind("PostCompact") : reason[e] = "same compaction" =>
    \E f \in written \cap Kind("PostCompact") : SummaryOf[f] = SummaryOf[e]

\* A PostCompact delivered again after the first delivery finished writes
\* nothing, as long as no other compaction came in between.
CompactionOnce ==
  Undisturbed => \A e, f \in Kind("PostCompact") :
    /\ e \in written
    /\ f \in before[e]
    /\ SummaryOf[f] = SummaryOf[e]
    => \E g \in updated \cap Kind("PostCompact") : SummaryOf[g] # SummaryOf[e]

\* A SessionEnd that read the record after another SessionEnd claimed the
\* session, or after a compaction was recorded, writes no checkpoint.
SessionEndAfterClaim ==
  Undisturbed => \A e \in written \cap Kind("SessionEnd") :
    before[e] \cap (Kind("SessionEnd") \cup Kind("PostCompact")) = {}

\* The flag says what it means: a checkpoint was written, or the handler that
\* claimed the session is about to write it, or it was cut off in between.
FlagMeansCheckpoint ==
  record # NoRecord /\ record.checkpointed =>
    \/ written # {}
    \/ \E e \in Kind("SessionEnd") : pc[e] = "create"
    \/ killed \cap Kind("SessionEnd") # {}
=============================================================================
