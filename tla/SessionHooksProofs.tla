------------------------- MODULE SessionHooksProofs -------------------------
(***************************************************************************)
(* What the session record says is true, for any set of hook processes of  *)
(* any kinds, any story they come in, and any number of them cut off.      *)
(***************************************************************************)
EXTENDS SessionHooks, FiniteSetTheorems, TLAPS

Claimants == Kind("SessionEnd") \cup Kind("PostCompact")

\* Which handler can be where, and what it has done by then.
Paths ==
  \A e \in Events :
    /\ pc[e] \in {"assess", "claim", "claimed"} => e \in Kind("SessionEnd")
    /\ pc[e] \in {"update", "write"} => e \notin Kind("SessionEnd")
    /\ pc[e] = "create" => e \in Claimants
    /\ pc[e] \in {"update", "write"} /\ e \in Kind("PostCompact") => e \in written
    /\ e \in killed => pc[e] = "killed"
    /\ e \in written => pc[e] # "new"
    /\ e \in updated =>
         IF e \in Kind("SessionEnd") THEN pc[e] \in {"create", "done", "killed"} ELSE pc[e] = "done"

\* A SessionEnd past its first look saw a record nobody had claimed.
SawUnclaimed ==
  \A e \in Events : pc[e] \in {"assess", "claim", "claimed"} =>
    seen[e] # NoRecord /\ ~seen[e].checkpointed

\* The digest of a record is that of a compaction whose checkpoint is written.
DigestTrue(r) ==
  r.digest # NoDigest => \E f \in written \cap Kind("PostCompact") : SummaryOf[f] = r.digest

\* Something accounts for a claimed session.
Accounted ==
  \/ written # {}
  \/ \E e \in Kind("SessionEnd") : pc[e] = "create"
  \/ killed \cap Kind("SessionEnd") # {}

\* The record, and every copy a handler is about to write back, mean what they say.
RecordTrue ==
  /\ record # NoRecord => DigestTrue(record) /\ (record.checkpointed => Accounted)
  /\ \A e \in Events : DigestTrue(copy[e]) /\ (copy[e].checkpointed => Accounted)

\* As long as nothing goes past the lock, whoever is about to write holds it, and the
\* record is still what it read.
CopyCurrent ==
  Undisturbed => \A e \in Events : pc[e] \in {"write", "claimed"} => lock = e /\ copy[e] = Existing

\* As long as nothing goes past the lock, the record remembers every update.
RecordRemembers ==
  Undisturbed =>
    /\ record = NoRecord => updated = {}
    /\ record # NoRecord /\ ~record.checkpointed => updated \cap Claimants = {}
    /\ updated \cap Kind("PostCompact") # {} =>
         /\ record # NoRecord
         /\ \E g \in updated \cap Kind("PostCompact") : SummaryOf[g] = record.digest

\* A SessionEnd that goes on, or has written, came before every claim.
EndedFirst ==
  Undisturbed => \A e \in Kind("SessionEnd") :
    pc[e] \in {"assess", "claim", "claimed", "create"} \/ e \in written =>
      before[e] \cap Claimants = {}

\* A PostCompact that goes on, or has written, found another compaction's digest if
\* its own had been recorded before it came.
CompactedAnew ==
  Undisturbed => \A e, f \in Kind("PostCompact") :
    /\ pc[e] = "create" \/ e \in written
    /\ f \in before[e]
    /\ SummaryOf[f] = SummaryOf[e]
    => \E g \in updated \cap Kind("PostCompact") : SummaryOf[g] # SummaryOf[e]

\* The inductive invariant.
IInv ==
  /\ TypeOK /\ Paths /\ SawUnclaimed /\ RecordTrue
  /\ CopyCurrent /\ IsFiniteSet(updated) /\ TurnsCounted /\ RecordRemembers
  /\ EndedFirst /\ CompactedAnew /\ CompactionNeverLost

LEMMA Constants ==
  /\ KindOf \in [Events -> Kinds]
  /\ \A e \in Events : SummaryOf[e] # NoDigest /\ SummaryOf[e] \in Digests
  /\ NoEvent \notin Events
  /\ Eligible \in BOOLEAN /\ MaxMoves \in Nat
  /\ \A t \in Stories : t.moves \in 0..MaxMoves
  /\ NoRecord \notin Records
  /\ NewRecord \in Records /\ NewRecord.turns = 0
  /\ ~NewRecord.checkpointed /\ NewRecord.digest = NoDigest
  <1>1. \A t \in Stories : t.moves \in 0..MaxMoves
    BY SessionHooksAssumption DEF StoryRecords
  <1>2. QED
    BY <1>1, SessionHooksAssumption, NoRecordAssumption DEF Digests, Records, NewRecord

\* The kinds exclude one another.
LEMMA OneKind ==
  ASSUME NEW e \in Events
  PROVE  /\ e \in Kind("Stop") => e \notin Claimants
         /\ e \in Kind("SessionEnd") => e \notin Kind("PostCompact")
         /\ Is(e, "SessionEnd") = (e \in Kind("SessionEnd"))
         /\ Is(e, "PostCompact") = (e \in Kind("PostCompact"))
         /\ Is(e, "SessionStart") => e \notin Claimants /\ e \notin Kind("Stop")
         /\ KindOf[e] \in {"Stop", "PreCompact"} => e \notin Claimants
  BY DEF Kind, Is, Claimants

\* What each handler's change does to the count, the claim and the digest.
LEMMA ChangeMeans ==
  ASSUME TypeOK, NEW e \in Events, NEW r \in Records
  PROVE  /\ ChangeOf(e, r) \in Records
         /\ ChangeOf(e, r).turns = IF e \in Kind("Stop") THEN r.turns + 1 ELSE r.turns
         /\ ChangeOf(e, r).checkpointed = (r.checkpointed \/ e \in Claimants)
         /\ ChangeOf(e, r).digest = IF e \in Kind("PostCompact") THEN SummaryOf[e] ELSE r.digest
  <1> USE DEF ChangeOf, Changed, Is, Kind, Claimants, Records
  <1>0. KindOf[e] \in Kinds /\ SummaryOf[e] \in Digests /\ found[e] \in BOOLEAN
    BY Constants DEF TypeOK
  <1>1. CASE KindOf[e] = "SessionStart"
    BY <1>0, <1>1 DEF StartedFrom
  <1>2. CASE KindOf[e] = "Stop"
    <2>1. ChangeOf(e, r) = [r EXCEPT !.project = r.project \/ found[e], !.turns = r.turns + 1]
      BY <1>2 DEF TurnAdded
    <2>2. r.turns + 1 \in Nat /\ (r.project \/ found[e]) \in BOOLEAN
      BY <1>0
    <2>3. ChangeOf(e, r) \in Records
      BY <2>1, <2>2
    <2>4. QED
      BY <1>2, <2>1, <2>3
  <1>3. CASE KindOf[e] = "PreCompact"
    BY <1>0, <1>3 DEF CompactionExpected
  <1>4. CASE KindOf[e] = "PostCompact"
    BY <1>0, <1>4 DEF CompactionNoted
  <1>5. CASE KindOf[e] = "SessionEnd"
    BY <1>0, <1>5 DEF Claimed
  <1>6. QED
    BY <1>0, <1>1, <1>2, <1>3, <1>4, <1>5 DEF Kinds

\* A handler that returns, or goes to a label of its own, stays typed.
LEMMA MovesTyped ==
  ASSUME TypeOK, NEW e \in Events
  PROVE  /\ \A why \in Reasons : Return(e, why) =>
              pc' \in [Events -> Labels] /\ reason' \in [Events -> Reasons]
         /\ \A label \in Labels : Goto(e, label) /\ UNCHANGED reason =>
              pc' \in [Events -> Labels] /\ reason' \in [Events -> Reasons]
  BY DEF TypeOK, Return, Goto, Labels

LEMMA BoundKept ==
  ASSUME TypeOK, RepoMoves
  PROVE  repoState' \in RepoStates
  <1>1. story.moves \in 0..MaxMoves /\ MaxMoves \in Nat /\ repoState \in 0..MaxMoves
    BY Constants DEF TypeOK, RepoStates
  <1>2. repoState' = repoState + 1 /\ repoState < story.moves
    BY DEF RepoMoves
  <1>3. QED
    BY <1>1, <1>2 DEF RepoStates

LEMMA Initially == Init => IInv
  <1> SUFFICES ASSUME Init PROVE IInv
    OBVIOUS
  <1> USE Constants DEF Init
  <1>1. TypeOK
    <2>1. repoState \in RepoStates /\ repo \in [Events -> RepoStates \cup {Slow}]
      BY DEF RepoStates
    <2>2. pc \in [Events -> Labels] /\ reason \in [Events -> Reasons]
      BY DEF Labels, Reasons
    <2>3. QED
      BY <2>1, <2>2 DEF TypeOK
  <1>2. Paths /\ SawUnclaimed /\ RecordTrue /\ CompactionNeverLost
    BY DEF Paths, SawUnclaimed, RecordTrue, DigestTrue, CompactionNeverLost, Kind
  <1>3. CopyCurrent /\ IsFiniteSet(updated) /\ TurnsCounted /\ RecordRemembers /\ EndedFirst /\ CompactedAnew
    BY FS_EmptySet DEF CopyCurrent, TurnsCounted, RecordRemembers, EndedFirst, CompactedAnew, Kind
  <1>4. QED
    BY <1>1, <1>2, <1>3 DEF IInv

LEMMA TypesKept == IInv /\ [Next]_vars => TypeOK'
  <1> SUFFICES ASSUME IInv, [Next]_vars PROVE TypeOK'
    OBVIOUS
  <1> USE Constants DEF IInv, TypeOK, Labels, Reasons, RepoStates, Goto
  <1>1. ASSUME NEW e \in Events, StartSession(e) PROVE TypeOK'
    BY <1>1 DEF StartSession, Fires, sessionVars, projectVars, handlerVars, historyVars
  <1>2. ASSUME NEW e \in Events, StartUpdate(e) PROVE TypeOK'
    BY <1>2 DEF StartUpdate, Fires, sessionVars, projectVars, handlerVars, historyVars
  <1>3. ASSUME NEW e \in Events, StartPostCompact(e) PROVE TypeOK'
    <2>1. pc' \in [Events -> Labels] /\ reason' \in [Events -> Reasons]
      BY <1>3, MovesTyped DEF StartPostCompact, CompactNextStep
    <2>2. PICK r \in {repoState, Slow} : repo' = [repo EXCEPT ![e] = r]
      BY <1>3 DEF StartPostCompact
    <2>3. QED
      BY <1>3, <2>1, <2>2 DEF StartPostCompact, sessionVars, projectVars
  <1>4. ASSUME NEW e \in Events, StartSessionEnd(e) PROVE TypeOK'
    <2>1. pc' \in [Events -> Labels] /\ reason' \in [Events -> Reasons]
      BY <1>4, MovesTyped DEF StartSessionEnd
    <2>2. QED
      BY <1>4, <2>1 DEF StartSessionEnd, sessionVars, projectVars
  <1>5. ASSUME NEW e \in Events, ReadLocked(e) PROVE TypeOK'
    <2>1. Existing \in Records
      BY DEF Existing
    <2>2. QED
      BY <1>5, <2>1 DEF ReadLocked, projectVars, historyVars
  <1>6. ASSUME NEW e \in Events, ReadUnlocked(e) PROVE TypeOK'
    <2>1. Existing \in Records
      BY DEF Existing
    <2>2. QED
      BY <1>6, <2>1 DEF ReadUnlocked, sessionVars, projectVars
  <1>7. ASSUME NEW e \in Events, WriteRecord(e) PROVE TypeOK'
    <2>1. record' \in Records
      BY <1>7, ChangeMeans DEF WriteRecord
    <2>2. QED
      BY <1>7, <2>1 DEF WriteRecord, Unlock, Forget, projectVars
  <1>8. ASSUME NEW e \in Events, CreateFromCompaction(e) PROVE TypeOK'
    BY <1>8 DEF CreateFromCompaction, Checkpoint, sessionVars, projectVars, handlerVars, historyVars
  <1>9. ASSUME NEW e \in Events, AssessSession(e) PROVE TypeOK'
    <2>1. \A r : Verdict(r) \in Reasons
      BY DEF Verdict
    <2>2. PICK r \in {repoState, Slow} :
            /\ repo' = [repo EXCEPT ![e] = r]
            /\ IF Verdict(r) = "none" THEN Goto(e, "claim") /\ UNCHANGED reason
               ELSE Return(e, Verdict(r))
      BY <1>9 DEF AssessSession
    <2>3. pc' \in [Events -> Labels] /\ reason' \in [Events -> Reasons]
      BY <2>1, <2>2, MovesTyped
    <2>4. QED
      BY <1>9, <2>2, <2>3 DEF AssessSession, sessionVars, projectVars, historyVars
  <1>10. ASSUME NEW e \in Events, ClaimSession(e) PROVE TypeOK'
    <2>1. record' \in Records
      BY <1>10, ChangeMeans DEF ClaimSession
    <2>2. QED
      BY <1>10, <2>1 DEF ClaimSession, Unlock, Forget, Return, projectVars
  <1>11. ASSUME NEW e \in Events, CreateFromSessionEnd(e) PROVE TypeOK'
    BY <1>11
    DEF CreateFromSessionEnd, Checkpoint, sessionVars, projectVars, handlerVars, historyVars
  <1>12. ASSUME NEW e \in Events, PruneStat(e) PROVE TypeOK'
    BY <1>12 DEF PruneStat, sessionVars, projectVars, handlerVars, historyVars
  <1>13. ASSUME NEW e \in Events, PruneRemove(e) PROVE TypeOK'
    BY <1>13 DEF PruneRemove, sessionVars, projectVars, handlerVars, historyVars
  <1>14. ASSUME NEW e \in Events, Kill(e) PROVE TypeOK'
    BY <1>14 DEF Kill, sessionVars, projectVars, handlerVars, historyVars
  <1>15. CASE BreakLock
    BY <1>15 DEF BreakLock, sessionVars, projectVars, handlerVars, historyVars
  <1>16. CASE ToggleProject
    BY <1>16 DEF ToggleProject, sessionVars, projectVars, handlerVars, historyVars
  <1>17. CASE RepoMoves
    <2>2. repoState' \in RepoStates
      BY <1>17, BoundKept
    <2>3. QED
      BY <1>17, <2>2 DEF RepoMoves, sessionVars, handlerVars, historyVars
  <1>18. CASE IntervalPasses
    BY <1>18 DEF IntervalPasses, sessionVars, projectVars, handlerVars, historyVars
  <1>19. CASE RecordAges
    BY <1>19 DEF RecordAges, sessionVars, projectVars, handlerVars, historyVars
  <1>20. CASE UNCHANGED vars
    BY <1>20 DEF vars, sessionVars, projectVars, handlerVars, historyVars
  <1>21. QED
    BY <1>1, <1>2, <1>3, <1>4, <1>5, <1>6, <1>7, <1>8, <1>9, <1>10, <1>11, <1>12,
       <1>13, <1>14, <1>15, <1>16, <1>17, <1>18, <1>19, <1>20
    DEF Next, HandlerStep, PruneStep

LEMMA PathsKept == IInv /\ [Next]_vars => (Paths /\ SawUnclaimed)'
  <1> SUFFICES ASSUME IInv, [Next]_vars PROVE (Paths /\ SawUnclaimed)'
    OBVIOUS
  <1> USE Constants DEF IInv, TypeOK, Paths, SawUnclaimed, Goto
  <1>1. ASSUME NEW e \in Events, StartSession(e) PROVE (Paths /\ SawUnclaimed)'
    <2>1. e \notin killed /\ e \notin written /\ e \notin updated
      BY <1>1 DEF StartSession, Fires
    <2>2. e \notin Claimants /\ e \notin Kind("SessionEnd") /\ e \notin Kind("PostCompact")
      BY <1>1 DEF StartSession, Kind, Is, Claimants
    <2>3. QED
      BY <1>1, <2>1, <2>2 DEF StartSession, sessionVars, historyVars
  <1>2. ASSUME NEW e \in Events, StartUpdate(e) PROVE (Paths /\ SawUnclaimed)'
    <2>1. e \notin killed /\ e \notin written /\ e \notin updated
      BY <1>2 DEF StartUpdate, Fires
    <2>2. e \notin Claimants /\ e \notin Kind("SessionEnd") /\ e \notin Kind("PostCompact")
      BY <1>2 DEF StartUpdate, Kind, Is, Claimants
    <2>3. QED
      BY <1>2, <2>1, <2>2 DEF StartUpdate, sessionVars, projectVars, historyVars
  <1>3. ASSUME NEW e \in Events, StartPostCompact(e) PROVE (Paths /\ SawUnclaimed)'
    <2>1. e \notin killed /\ e \notin written /\ e \notin updated
      BY <1>3 DEF StartPostCompact, Fires
    <2>2. e \in Claimants /\ e \notin Kind("SessionEnd") /\ e \in Kind("PostCompact")
      BY <1>3 DEF StartPostCompact, Kind, Is, Claimants
    <2>3. QED
      BY <1>3, <2>1, <2>2 DEF StartPostCompact, CompactNextStep, Return, sessionVars, projectVars
  <1>4. ASSUME NEW e \in Events, StartSessionEnd(e) PROVE (Paths /\ SawUnclaimed)'
    <2>1. e \notin killed /\ e \notin written /\ e \notin updated
      BY <1>4 DEF StartSessionEnd, Fires
    <2>2. e \in Claimants /\ e \in Kind("SessionEnd") /\ e \notin Kind("PostCompact")
      BY <1>4 DEF StartSessionEnd, Kind, Is, Claimants
    <2>3. QED
      BY <1>4, <2>1, <2>2 DEF StartSessionEnd, AlreadyCheckpointed, Return, sessionVars, projectVars
  <1>5. ASSUME NEW e \in Events, ReadLocked(e) PROVE (Paths /\ SawUnclaimed)'
    BY <1>5 DEF ReadLocked, LockFree, sessionVars, projectVars, handlerVars, historyVars
  <1>6. ASSUME NEW e \in Events, ReadUnlocked(e) PROVE (Paths /\ SawUnclaimed)'
    BY <1>6 DEF ReadUnlocked, sessionVars, projectVars, handlerVars, historyVars
  <1>7. ASSUME NEW e \in Events, WriteRecord(e) PROVE (Paths /\ SawUnclaimed)'
    BY <1>7 DEF WriteRecord, Unlock, Forget, sessionVars, projectVars, handlerVars, historyVars
  <1>8. ASSUME NEW e \in Events, CreateFromCompaction(e) PROVE (Paths /\ SawUnclaimed)'
    <2>1. e \notin Kind("SessionEnd")
      BY <1>8 DEF CreateFromCompaction, Kind, Is
    <2>2. QED
      BY <1>8, <2>1 DEF CreateFromCompaction, Checkpoint, sessionVars, historyVars
  <1>9. ASSUME NEW e \in Events, AssessSession(e) PROVE (Paths /\ SawUnclaimed)'
    BY <1>9 DEF AssessSession, Return, sessionVars, projectVars, handlerVars, historyVars
  <1>10. ASSUME NEW e \in Events, ClaimSession(e) PROVE (Paths /\ SawUnclaimed)'
    <2>1. e \in Kind("SessionEnd") /\ e \in Claimants /\ e \notin Kind("PostCompact")
      BY <1>10 DEF ClaimSession, Kind, Claimants, Is
    <2>2. pc' \in {[pc EXCEPT ![e] = "create"], [pc EXCEPT ![e] = "done"]}
      BY <1>10 DEF ClaimSession, Return
    <2>3. QED
      BY <1>10, <2>1, <2>2 DEF ClaimSession, projectVars
  <1>11. ASSUME NEW e \in Events, CreateFromSessionEnd(e) PROVE (Paths /\ SawUnclaimed)'
    BY <1>11
    DEF CreateFromSessionEnd, Checkpoint, sessionVars, projectVars, handlerVars, historyVars
  <1>12. ASSUME NEW e \in Events, PruneStat(e) PROVE (Paths /\ SawUnclaimed)'
    BY <1>12 DEF PruneStat, sessionVars, projectVars, handlerVars, historyVars
  <1>13. ASSUME NEW e \in Events, PruneRemove(e) PROVE (Paths /\ SawUnclaimed)'
    BY <1>13 DEF PruneRemove, sessionVars, projectVars, handlerVars, historyVars
  <1>14. ASSUME NEW e \in Events, Kill(e) PROVE (Paths /\ SawUnclaimed)'
    BY <1>14 DEF Kill, sessionVars, projectVars, handlerVars, historyVars
  <1>15. CASE BreakLock
    BY <1>15 DEF BreakLock, sessionVars, projectVars, handlerVars, historyVars
  <1>16. CASE ToggleProject
    BY <1>16 DEF ToggleProject, sessionVars, projectVars, handlerVars, historyVars
  <1>17. CASE RepoMoves
    BY <1>17 DEF RepoMoves, sessionVars, projectVars, handlerVars, historyVars
  <1>18. CASE IntervalPasses
    BY <1>18 DEF IntervalPasses, sessionVars, projectVars, handlerVars, historyVars
  <1>19. CASE RecordAges
    BY <1>19 DEF RecordAges, sessionVars, projectVars, handlerVars, historyVars
  <1>20. CASE UNCHANGED vars
    BY <1>20 DEF vars, sessionVars, projectVars, handlerVars, historyVars
  <1>21. QED
    BY <1>1, <1>2, <1>3, <1>4, <1>5, <1>6, <1>7, <1>8, <1>9, <1>10, <1>11, <1>12,
       <1>13, <1>14, <1>15, <1>16, <1>17, <1>18, <1>19, <1>20
    DEF Next, HandlerStep, PruneStep

\* Nothing written is forgotten, and what has once gone past the lock has done so for good.
LEMMA Grow == IInv /\ [Next]_vars => written \subseteq written' /\ updated \subseteq updated' /\ (Undisturbed' => Undisturbed)
  <1> SUFFICES ASSUME IInv, [Next]_vars
               PROVE written \subseteq written' /\ updated \subseteq updated' /\ (Undisturbed' => Undisturbed)
    OBVIOUS
  <1> USE DEF Undisturbed
  <1>1. ASSUME NEW e \in Events, StartSession(e)
        PROVE written \subseteq written' /\ updated \subseteq updated' /\ (Undisturbed' => Undisturbed)
    BY <1>1 DEF StartSession, Fires, sessionVars, projectVars, handlerVars, historyVars
  <1>2. ASSUME NEW e \in Events, StartUpdate(e)
        PROVE written \subseteq written' /\ updated \subseteq updated' /\ (Undisturbed' => Undisturbed)
    BY <1>2 DEF StartUpdate, Fires, sessionVars, projectVars, handlerVars, historyVars
  <1>3. ASSUME NEW e \in Events, StartPostCompact(e)
        PROVE written \subseteq written' /\ updated \subseteq updated' /\ (Undisturbed' => Undisturbed)
    BY <1>3
    DEF StartPostCompact, Fires, Return, CompactNextStep, SameCompaction, sessionVars, projectVars,
      handlerVars, historyVars
  <1>4. ASSUME NEW e \in Events, StartSessionEnd(e)
        PROVE written \subseteq written' /\ updated \subseteq updated' /\ (Undisturbed' => Undisturbed)
    BY <1>4
    DEF StartSessionEnd, Fires, Return, AlreadyCheckpointed, sessionVars, projectVars, handlerVars,
      historyVars
  <1>5. ASSUME NEW e \in Events, ReadLocked(e)
        PROVE written \subseteq written' /\ updated \subseteq updated' /\ (Undisturbed' => Undisturbed)
    BY <1>5 DEF ReadLocked, LockFree, sessionVars, projectVars, handlerVars, historyVars
  <1>6. ASSUME NEW e \in Events, ReadUnlocked(e)
        PROVE written \subseteq written' /\ updated \subseteq updated' /\ (Undisturbed' => Undisturbed)
    BY <1>6 DEF ReadUnlocked, sessionVars, projectVars, handlerVars, historyVars
  <1>7. ASSUME NEW e \in Events, WriteRecord(e)
        PROVE written \subseteq written' /\ updated \subseteq updated' /\ (Undisturbed' => Undisturbed)
    BY <1>7 DEF WriteRecord, Unlock, Forget, sessionVars, projectVars, handlerVars, historyVars
  <1>8. ASSUME NEW e \in Events, CreateFromCompaction(e)
        PROVE written \subseteq written' /\ updated \subseteq updated' /\ (Undisturbed' => Undisturbed)
    BY <1>8 DEF CreateFromCompaction, Checkpoint, sessionVars, projectVars, handlerVars, historyVars
  <1>9. ASSUME NEW e \in Events, AssessSession(e)
        PROVE written \subseteq written' /\ updated \subseteq updated' /\ (Undisturbed' => Undisturbed)
    BY <1>9 DEF AssessSession, Return, sessionVars, projectVars, handlerVars, historyVars
  <1>10. ASSUME NEW e \in Events, ClaimSession(e)
         PROVE written \subseteq written' /\ updated \subseteq updated' /\ (Undisturbed' => Undisturbed)
    BY <1>10
    DEF ClaimSession, Unlock, Forget, Return, ClaimRefused, sessionVars, projectVars, handlerVars,
      historyVars
  <1>11. ASSUME NEW e \in Events, CreateFromSessionEnd(e)
         PROVE written \subseteq written' /\ updated \subseteq updated' /\ (Undisturbed' => Undisturbed)
    BY <1>11
    DEF CreateFromSessionEnd, Checkpoint, sessionVars, projectVars, handlerVars, historyVars
  <1>12. ASSUME NEW e \in Events, PruneStat(e)
         PROVE written \subseteq written' /\ updated \subseteq updated' /\ (Undisturbed' => Undisturbed)
    BY <1>12 DEF PruneStat, sessionVars, projectVars, handlerVars, historyVars
  <1>13. ASSUME NEW e \in Events, PruneRemove(e)
         PROVE written \subseteq written' /\ updated \subseteq updated' /\ (Undisturbed' => Undisturbed)
    BY <1>13 DEF PruneRemove, sessionVars, projectVars, handlerVars, historyVars
  <1>14. ASSUME NEW e \in Events, Kill(e)
         PROVE written \subseteq written' /\ updated \subseteq updated' /\ (Undisturbed' => Undisturbed)
    BY <1>14 DEF Kill, sessionVars, projectVars, handlerVars, historyVars
  <1>15. CASE BreakLock
    BY <1>15 DEF BreakLock, sessionVars, projectVars, handlerVars, historyVars
  <1>16. CASE ToggleProject
    BY <1>16 DEF ToggleProject, sessionVars, projectVars, handlerVars, historyVars
  <1>17. CASE RepoMoves
    BY <1>17 DEF RepoMoves, sessionVars, projectVars, handlerVars, historyVars
  <1>18. CASE IntervalPasses
    BY <1>18 DEF IntervalPasses, sessionVars, projectVars, handlerVars, historyVars
  <1>19. CASE RecordAges
    BY <1>19 DEF RecordAges, sessionVars, projectVars, handlerVars, historyVars
  <1>20. CASE UNCHANGED vars
    BY <1>20 DEF vars, sessionVars, projectVars, handlerVars, historyVars
  <1>21. QED
    BY <1>1, <1>2, <1>3, <1>4, <1>5, <1>6, <1>7, <1>8, <1>9, <1>10, <1>11, <1>12,
       <1>13, <1>14, <1>15, <1>16, <1>17, <1>18, <1>19, <1>20
    DEF Next, HandlerStep, PruneStep

\* A claim once accounted for stays so: a SessionEnd about to write does, or is cut off.
LEMMA StaysAccounted == IInv /\ [Next]_vars => (Accounted => Accounted')
  <1> SUFFICES ASSUME IInv, [Next]_vars PROVE (Accounted => Accounted')
    OBVIOUS
  <1> USE Grow, OneKind DEF Accounted, Paths, IInv, TypeOK, Goto
  <1>1. ASSUME NEW e \in Events, StartSession(e) PROVE (Accounted => Accounted')
    BY <1>1 DEF StartSession, Fires, sessionVars, projectVars, handlerVars, historyVars
  <1>2. ASSUME NEW e \in Events, StartUpdate(e) PROVE (Accounted => Accounted')
    BY <1>2 DEF StartUpdate, Fires, sessionVars, projectVars, handlerVars, historyVars
  <1>3. ASSUME NEW e \in Events, StartPostCompact(e) PROVE (Accounted => Accounted')
    <2>1. \A f \in Events : pc[f] = "create" => pc'[f] = "create"
      BY <1>3 DEF StartPostCompact, Fires, Return
    <2>2. QED
      BY <1>3, <2>1 DEF StartPostCompact, projectVars, Kind
  <1>4. ASSUME NEW e \in Events, StartSessionEnd(e) PROVE (Accounted => Accounted')
    <2>1. \A f \in Events : pc[f] = "create" => pc'[f] = "create"
      BY <1>4 DEF StartSessionEnd, Fires, Return
    <2>2. QED
      BY <1>4, <2>1 DEF StartSessionEnd, projectVars, Kind
  <1>5. ASSUME NEW e \in Events, ReadLocked(e) PROVE (Accounted => Accounted')
    BY <1>5 DEF ReadLocked, LockFree, sessionVars, projectVars, handlerVars, historyVars
  <1>6. ASSUME NEW e \in Events, ReadUnlocked(e) PROVE (Accounted => Accounted')
    BY <1>6 DEF ReadUnlocked, sessionVars, projectVars, handlerVars, historyVars
  <1>7. ASSUME NEW e \in Events, WriteRecord(e) PROVE (Accounted => Accounted')
    <2>1. e \notin Kind("SessionEnd")
      BY <1>7 DEF WriteRecord
    <2>2. QED
      BY <1>7, <2>1 DEF WriteRecord, Goto, projectVars
  <1>8. ASSUME NEW e \in Events, CreateFromCompaction(e) PROVE (Accounted => Accounted')
    BY <1>8 DEF CreateFromCompaction, Checkpoint
  <1>9. ASSUME NEW e \in Events, AssessSession(e) PROVE (Accounted => Accounted')
    <2>1. \A f \in Events : pc[f] = "create" => pc'[f] = "create"
      BY <1>9 DEF AssessSession, Return
    <2>2. QED
      BY <1>9, <2>1 DEF AssessSession, projectVars, Kind
  <1>10. ASSUME NEW e \in Events, ClaimSession(e) PROVE (Accounted => Accounted')
    <2>1. \A f \in Events : pc[f] = "create" => pc'[f] = "create"
      BY <1>10 DEF ClaimSession, Return
    <2>2. QED
      BY <1>10, <2>1 DEF ClaimSession, projectVars, Kind
  <1>11. ASSUME NEW e \in Events, CreateFromSessionEnd(e) PROVE (Accounted => Accounted')
    BY <1>11 DEF CreateFromSessionEnd, Checkpoint
  <1>12. ASSUME NEW e \in Events, PruneStat(e) PROVE (Accounted => Accounted')
    BY <1>12 DEF PruneStat, sessionVars, projectVars, handlerVars, historyVars
  <1>13. ASSUME NEW e \in Events, PruneRemove(e) PROVE (Accounted => Accounted')
    BY <1>13 DEF PruneRemove, sessionVars, projectVars, handlerVars, historyVars
  <1>14. ASSUME NEW e \in Events, Kill(e) PROVE (Accounted => Accounted')
    <2>1. ASSUME NEW f \in Kind("SessionEnd"), pc[f] = "create" PROVE Accounted'
      <3>1. CASE f = e
        BY <1>14, <2>1, <3>1 DEF Kill
      <3>2. CASE f # e
        BY <1>14, <2>1, <3>2 DEF Kill, Kind
      <3>3. QED
        BY <3>1, <3>2
    <2>2. QED
      BY <1>14, <2>1 DEF Kill
  <1>15. CASE BreakLock
    BY <1>15 DEF BreakLock, sessionVars, projectVars, handlerVars, historyVars
  <1>16. CASE ToggleProject
    BY <1>16 DEF ToggleProject, sessionVars, projectVars, handlerVars, historyVars
  <1>17. CASE RepoMoves
    BY <1>17 DEF RepoMoves, sessionVars, projectVars, handlerVars, historyVars
  <1>18. CASE IntervalPasses
    BY <1>18 DEF IntervalPasses, sessionVars, projectVars, handlerVars, historyVars
  <1>19. CASE RecordAges
    BY <1>19 DEF RecordAges, sessionVars, projectVars, handlerVars, historyVars
  <1>20. CASE UNCHANGED vars
    BY <1>20 DEF vars, sessionVars, projectVars, handlerVars, historyVars
  <1>21. QED
    BY <1>1, <1>2, <1>3, <1>4, <1>5, <1>6, <1>7, <1>8, <1>9, <1>10, <1>11, <1>12,
       <1>13, <1>14, <1>15, <1>16, <1>17, <1>18, <1>19, <1>20
    DEF Next, HandlerStep, PruneStep

\* Whoever writes a digest or a claim into the record has its checkpoint, or will.
LEMMA TrueKept == IInv /\ [Next]_vars => RecordTrue'
  <1> SUFFICES ASSUME IInv, [Next]_vars PROVE RecordTrue'
    OBVIOUS
  <1> USE Constants, Grow, StaysAccounted DEF IInv, RecordTrue, DigestTrue
  <1>1. ASSUME NEW e \in Events, StartSession(e) PROVE RecordTrue'
    BY <1>1 DEF StartSession, Fires, sessionVars, projectVars, handlerVars, historyVars
  <1>2. ASSUME NEW e \in Events, StartUpdate(e) PROVE RecordTrue'
    BY <1>2 DEF StartUpdate, Fires, sessionVars, projectVars, handlerVars, historyVars
  <1>3. ASSUME NEW e \in Events, StartPostCompact(e) PROVE RecordTrue'
    BY <1>3
    DEF StartPostCompact, Fires, Return, CompactNextStep, SameCompaction, sessionVars, projectVars,
      handlerVars, historyVars
  <1>4. ASSUME NEW e \in Events, StartSessionEnd(e) PROVE RecordTrue'
    BY <1>4
    DEF StartSessionEnd, Fires, Return, AlreadyCheckpointed, sessionVars, projectVars, handlerVars,
      historyVars
  <1>5. ASSUME NEW e \in Events, ReadLocked(e) PROVE RecordTrue'
    <2>1. DigestTrue(Existing) /\ (Existing.checkpointed => Accounted)
      BY DEF Existing
    <2>2. \A f \in Events : copy'[f] = copy[f] \/ copy'[f] = Existing
      BY <1>5 DEF ReadLocked, TypeOK
    <2>3. QED
      BY <1>5, <2>1, <2>2 DEF ReadLocked, projectVars
  <1>6. ASSUME NEW e \in Events, ReadUnlocked(e) PROVE RecordTrue'
    <2>1. DigestTrue(Existing) /\ (Existing.checkpointed => Accounted)
      BY DEF Existing
    <2>2. \A f \in Events : copy'[f] = copy[f] \/ copy'[f] = Existing
      BY <1>6 DEF ReadUnlocked, TypeOK
    <2>3. QED
      BY <1>6, <2>1, <2>2 DEF ReadUnlocked, sessionVars, projectVars
  <1>7. ASSUME NEW e \in Events, WriteRecord(e) PROVE RecordTrue'
    <2>1. copy[e] \in Records /\ e \notin Kind("SessionEnd") /\ (e \in Kind("PostCompact") => e \in written)
      BY <1>7 DEF WriteRecord, TypeOK, Paths
    <2>2. /\ record' = ChangeOf(e, copy[e])
          /\ \A f \in Events : copy'[f] = copy[f] \/ copy'[f] = NewRecord
          /\ UNCHANGED written
      BY <1>7 DEF WriteRecord, Forget, TypeOK, projectVars
    <2>3. DigestTrue(record')
      BY <2>1, <2>2, ChangeMeans
    <2>4. record'.checkpointed => Accounted
      BY <2>1, <2>2, ChangeMeans DEF Claimants, Accounted
    <2>5. QED
      BY <2>2, <2>3, <2>4
  <1>8. ASSUME NEW e \in Events, CreateFromCompaction(e) PROVE RecordTrue'
    BY <1>8 DEF CreateFromCompaction, Checkpoint, sessionVars, projectVars, handlerVars, historyVars
  <1>9. ASSUME NEW e \in Events, AssessSession(e) PROVE RecordTrue'
    BY <1>9 DEF AssessSession, Return, sessionVars, projectVars, handlerVars, historyVars
  <1>10. ASSUME NEW e \in Events, ClaimSession(e) PROVE RecordTrue'
    <2>1. copy[e] \in Records /\ e \in Kind("SessionEnd") /\ e \notin Kind("PostCompact") /\ ~seen[e].checkpointed
      BY <1>10, OneKind DEF ClaimSession, TypeOK, Paths, SawUnclaimed
    <2>2. /\ record' = ChangeOf(e, copy[e])
          /\ \A f \in Events : copy'[f] = copy[f] \/ copy'[f] = NewRecord
          /\ UNCHANGED written
      BY <1>10 DEF ClaimSession, Forget, TypeOK, projectVars
    <2>3. DigestTrue(record')
      BY <2>1, <2>2, ChangeMeans
    <2>4. pc'[e] = "create"
      BY <1>10, <2>1 DEF ClaimSession, ClaimRefused, TypeOK, Goto
    <2>5. Accounted'
      BY <2>1, <2>4 DEF Accounted, Kind
    <2>6. QED
      BY <2>2, <2>3, <2>5
  <1>11. ASSUME NEW e \in Events, CreateFromSessionEnd(e) PROVE RecordTrue'
    BY <1>11
    DEF CreateFromSessionEnd, Checkpoint, sessionVars, projectVars, handlerVars, historyVars
  <1>12. ASSUME NEW e \in Events, PruneStat(e) PROVE RecordTrue'
    BY <1>12 DEF PruneStat, sessionVars, projectVars, handlerVars, historyVars
  <1>13. ASSUME NEW e \in Events, PruneRemove(e) PROVE RecordTrue'
    BY <1>13 DEF PruneRemove, sessionVars, projectVars, handlerVars, historyVars
  <1>14. ASSUME NEW e \in Events, Kill(e) PROVE RecordTrue'
    BY <1>14 DEF Kill, sessionVars, projectVars, handlerVars, historyVars
  <1>15. CASE BreakLock
    BY <1>15 DEF BreakLock, sessionVars, projectVars, handlerVars, historyVars
  <1>16. CASE ToggleProject
    BY <1>16 DEF ToggleProject, sessionVars, projectVars, handlerVars, historyVars
  <1>17. CASE RepoMoves
    BY <1>17 DEF RepoMoves, sessionVars, projectVars, handlerVars, historyVars
  <1>18. CASE IntervalPasses
    BY <1>18 DEF IntervalPasses, sessionVars, projectVars, handlerVars, historyVars
  <1>19. CASE RecordAges
    BY <1>19 DEF RecordAges, sessionVars, projectVars, handlerVars, historyVars
  <1>20. CASE UNCHANGED vars
    BY <1>20 DEF vars, sessionVars, projectVars, handlerVars, historyVars
  <1>21. QED
    BY <1>1, <1>2, <1>3, <1>4, <1>5, <1>6, <1>7, <1>8, <1>9, <1>10, <1>11, <1>12,
       <1>13, <1>14, <1>15, <1>16, <1>17, <1>18, <1>19, <1>20
    DEF Next, HandlerStep, PruneStep

LEMMA LossKept == IInv /\ [Next]_vars => CompactionNeverLost'
  <1> SUFFICES ASSUME IInv, [Next]_vars PROVE CompactionNeverLost'
    OBVIOUS
  <1> USE Grow DEF IInv, CompactionNeverLost
  <1>1. ASSUME NEW e \in Events, StartSession(e) PROVE CompactionNeverLost'
    BY <1>1 DEF StartSession, Fires, sessionVars, projectVars, handlerVars, historyVars
  <1>2. ASSUME NEW e \in Events, StartUpdate(e) PROVE CompactionNeverLost'
    BY <1>2 DEF StartUpdate, Fires, sessionVars, projectVars, handlerVars, historyVars
  <1>3. ASSUME NEW e \in Events, StartPostCompact(e) PROVE CompactionNeverLost'
    <2>1. ASSUME SameCompaction(e)
          PROVE \E f \in written \cap Kind("PostCompact") : SummaryOf[f] = SummaryOf[e]
      BY <2>1, Constants DEF SameCompaction, RecordTrue, DigestTrue
    <2>2. \A f \in Events : reason'[f] = reason[f] \/ f = e
      BY <1>3 DEF StartPostCompact, Return, TypeOK
    <2>3. reason'[e] = "same compaction" => SameCompaction(e) \/ reason[e] = "same compaction"
      BY <1>3 DEF StartPostCompact, Return, TypeOK
    <2>4. QED
      BY <2>1, <2>2, <2>3 DEF Kind
  <1>4. ASSUME NEW e \in Events, StartSessionEnd(e) PROVE CompactionNeverLost'
    <2>1. \A f \in Events : reason'[f] = "same compaction" => reason[f] = "same compaction"
      BY <1>4 DEF StartSessionEnd, Return, TypeOK
    <2>2. QED
      BY <2>1 DEF Kind
  <1>5. ASSUME NEW e \in Events, ReadLocked(e) PROVE CompactionNeverLost'
    BY <1>5 DEF ReadLocked, LockFree, sessionVars, projectVars, handlerVars, historyVars
  <1>6. ASSUME NEW e \in Events, ReadUnlocked(e) PROVE CompactionNeverLost'
    BY <1>6 DEF ReadUnlocked, sessionVars, projectVars, handlerVars, historyVars
  <1>7. ASSUME NEW e \in Events, WriteRecord(e) PROVE CompactionNeverLost'
    BY <1>7 DEF WriteRecord, Unlock, Forget, sessionVars, projectVars, handlerVars, historyVars
  <1>8. ASSUME NEW e \in Events, CreateFromCompaction(e) PROVE CompactionNeverLost'
    BY <1>8 DEF CreateFromCompaction, Checkpoint, sessionVars, projectVars, handlerVars, historyVars
  <1>9. ASSUME NEW e \in Events, AssessSession(e) PROVE CompactionNeverLost'
    <2>1. \A r : Verdict(r) # "same compaction"
      BY DEF Verdict
    <2>2. PICK r \in {repoState, Slow} : UNCHANGED reason \/ reason' = [reason EXCEPT ![e] = Verdict(r)]
      BY <1>9 DEF AssessSession, Return
    <2>3. QED
      BY <2>1, <2>2 DEF Kind, TypeOK
  <1>10. ASSUME NEW e \in Events, ClaimSession(e) PROVE CompactionNeverLost'
    <2>1. \A f \in Events : reason'[f] = "same compaction" => reason[f] = "same compaction"
      BY <1>10 DEF ClaimSession, Return, TypeOK
    <2>2. QED
      BY <2>1 DEF Kind
  <1>11. ASSUME NEW e \in Events, CreateFromSessionEnd(e) PROVE CompactionNeverLost'
    BY <1>11
    DEF CreateFromSessionEnd, Checkpoint, sessionVars, projectVars, handlerVars, historyVars
  <1>12. ASSUME NEW e \in Events, PruneStat(e) PROVE CompactionNeverLost'
    BY <1>12 DEF PruneStat, sessionVars, projectVars, handlerVars, historyVars
  <1>13. ASSUME NEW e \in Events, PruneRemove(e) PROVE CompactionNeverLost'
    BY <1>13 DEF PruneRemove, sessionVars, projectVars, handlerVars, historyVars
  <1>14. ASSUME NEW e \in Events, Kill(e) PROVE CompactionNeverLost'
    BY <1>14 DEF Kill, sessionVars, projectVars, handlerVars, historyVars
  <1>15. CASE BreakLock
    BY <1>15 DEF BreakLock, sessionVars, projectVars, handlerVars, historyVars
  <1>16. CASE ToggleProject
    BY <1>16 DEF ToggleProject, sessionVars, projectVars, handlerVars, historyVars
  <1>17. CASE RepoMoves
    BY <1>17 DEF RepoMoves, sessionVars, projectVars, handlerVars, historyVars
  <1>18. CASE IntervalPasses
    BY <1>18 DEF IntervalPasses, sessionVars, projectVars, handlerVars, historyVars
  <1>19. CASE RecordAges
    BY <1>19 DEF RecordAges, sessionVars, projectVars, handlerVars, historyVars
  <1>20. CASE UNCHANGED vars
    BY <1>20 DEF vars, sessionVars, projectVars, handlerVars, historyVars
  <1>21. QED
    BY <1>1, <1>2, <1>3, <1>4, <1>5, <1>6, <1>7, <1>8, <1>9, <1>10, <1>11, <1>12,
       <1>13, <1>14, <1>15, <1>16, <1>17, <1>18, <1>19, <1>20
    DEF Next, HandlerStep, PruneStep

\* While the lock is respected, its holder alone is between reading and writing.
LEMMA LockKept == IInv /\ [Next]_vars => CopyCurrent'
  <1> SUFFICES ASSUME IInv, [Next]_vars PROVE CopyCurrent'
    OBVIOUS
  <1> USE Constants, Grow DEF IInv, CopyCurrent, Existing, TypeOK, Goto
  <1>1. ASSUME NEW e \in Events, StartSession(e) PROVE CopyCurrent'
    BY <1>1 DEF StartSession, Fires, sessionVars, projectVars, handlerVars, historyVars
  <1>2. ASSUME NEW e \in Events, StartUpdate(e) PROVE CopyCurrent'
    BY <1>2 DEF StartUpdate, Fires, sessionVars, projectVars, handlerVars, historyVars
  <1>3. ASSUME NEW e \in Events, StartPostCompact(e) PROVE CopyCurrent'
    BY <1>3
    DEF StartPostCompact, Fires, Return, CompactNextStep, SameCompaction, sessionVars, projectVars,
      handlerVars, historyVars
  <1>4. ASSUME NEW e \in Events, StartSessionEnd(e) PROVE CopyCurrent'
    BY <1>4
    DEF StartSessionEnd, Fires, Return, AlreadyCheckpointed, sessionVars, projectVars, handlerVars,
      historyVars
  <1>5. ASSUME NEW e \in Events, ReadLocked(e) PROVE CopyCurrent'
    BY <1>5 DEF ReadLocked, LockFree, sessionVars, projectVars, handlerVars, historyVars
  <1>6. ASSUME NEW e \in Events, ReadUnlocked(e) PROVE CopyCurrent'
    BY <1>6 DEF ReadUnlocked, Undisturbed
  <1>7. ASSUME NEW e \in Events, WriteRecord(e) PROVE CopyCurrent'
    BY <1>7 DEF WriteRecord, Unlock, Forget, sessionVars, projectVars, handlerVars, historyVars
  <1>8. ASSUME NEW e \in Events, CreateFromCompaction(e) PROVE CopyCurrent'
    BY <1>8 DEF CreateFromCompaction, Checkpoint, sessionVars, projectVars, handlerVars, historyVars
  <1>9. ASSUME NEW e \in Events, AssessSession(e) PROVE CopyCurrent'
    <2>1. pc'[e] \notin {"write", "claimed"} /\ \A f \in Events \ {e} : pc'[f] = pc[f]
      BY <1>9 DEF AssessSession, Return
    <2>2. QED
      BY <1>9, <2>1 DEF AssessSession, sessionVars, projectVars, historyVars
  <1>10. ASSUME NEW e \in Events, ClaimSession(e) PROVE CopyCurrent'
    <2>1. pc'[e] \notin {"write", "claimed"} /\ \A f \in Events \ {e} : pc'[f] = pc[f]
      BY <1>10 DEF ClaimSession, Return
    <2>2. Undisturbed => \A f \in Events \ {e} : pc[f] \notin {"write", "claimed"}
      BY <1>10 DEF ClaimSession
    <2>3. QED
      BY <2>1, <2>2
  <1>11. ASSUME NEW e \in Events, CreateFromSessionEnd(e) PROVE CopyCurrent'
    BY <1>11
    DEF CreateFromSessionEnd, Checkpoint, sessionVars, projectVars, handlerVars, historyVars
  <1>12. ASSUME NEW e \in Events, PruneStat(e) PROVE CopyCurrent'
    BY <1>12 DEF PruneStat, sessionVars, projectVars, handlerVars, historyVars
  <1>13. ASSUME NEW e \in Events, PruneRemove(e) PROVE CopyCurrent'
    BY <1>13 DEF PruneRemove, Undisturbed
  <1>14. ASSUME NEW e \in Events, Kill(e) PROVE CopyCurrent'
    BY <1>14 DEF Kill, sessionVars, projectVars, handlerVars, historyVars
  <1>15. CASE BreakLock
    BY <1>15 DEF BreakLock, Paths, projectVars, handlerVars, historyVars
  <1>16. CASE ToggleProject
    BY <1>16 DEF ToggleProject, sessionVars, projectVars, handlerVars, historyVars
  <1>17. CASE RepoMoves
    BY <1>17 DEF RepoMoves, sessionVars, projectVars, handlerVars, historyVars
  <1>18. CASE IntervalPasses
    BY <1>18 DEF IntervalPasses, sessionVars, projectVars, handlerVars, historyVars
  <1>19. CASE RecordAges
    BY <1>19 DEF RecordAges, sessionVars, projectVars, handlerVars, historyVars
  <1>20. CASE UNCHANGED vars
    BY <1>20 DEF vars, sessionVars, projectVars, handlerVars, historyVars
  <1>21. QED
    BY <1>1, <1>2, <1>3, <1>4, <1>5, <1>6, <1>7, <1>8, <1>9, <1>10, <1>11, <1>12,
       <1>13, <1>14, <1>15, <1>16, <1>17, <1>18, <1>19, <1>20
    DEF Next, HandlerStep, PruneStep

\* What a write leaves in the record, while the lock is respected: one turn more if it
\* is a Stop's, every claim, and the digest of a compaction that updated it.
LEMMA WriteRemembers ==
  ASSUME IInv, NEW e \in Events, pc[e] \in {"write", "claimed"}, Undisturbed,
         record' = ChangeOf(e, copy[e]), updated' = updated \cup {e}
  PROVE  /\ record' # NoRecord
         /\ record'.turns = Cardinality(updated' \cap Kind("Stop"))
         /\ ~record'.checkpointed => updated' \cap Claimants = {}
         /\ updated' \cap Kind("PostCompact") # {} =>
              \E g \in updated' \cap Kind("PostCompact") : SummaryOf[g] = record'.digest
  <1>1. TypeOK /\ copy[e] \in Records /\ copy[e] = Existing /\ e \notin updated
    BY DEF IInv, TypeOK, CopyCurrent, Paths
  <1>2. /\ record' \in Records /\ record' # NoRecord
        /\ record'.turns = IF e \in Kind("Stop") THEN copy[e].turns + 1 ELSE copy[e].turns
        /\ record'.checkpointed = (copy[e].checkpointed \/ e \in Claimants)
        /\ record'.digest = IF e \in Kind("PostCompact") THEN SummaryOf[e] ELSE copy[e].digest
    BY <1>1, ChangeMeans, Constants
  <1>3. IsFiniteSet(updated \cap Kind("Stop"))
    BY FS_Intersection DEF IInv
  <1>4. copy[e].turns = Cardinality(updated \cap Kind("Stop"))
    <2>1. CASE record = NoRecord
      <3>1. updated \cap Kind("Stop") = {}
        BY <2>1 DEF IInv, RecordRemembers
      <3>2. QED
        BY <1>1, <2>1, <3>1, FS_EmptySet, Constants DEF Existing
    <2>2. CASE record # NoRecord
      BY <1>1, <2>2 DEF Existing, IInv, TurnsCounted
    <2>3. QED
      BY <2>1, <2>2
  <1>5. record'.turns = Cardinality(updated' \cap Kind("Stop"))
    <2>1. CASE e \in Kind("Stop")
      <3>1. updated' \cap Kind("Stop") = (updated \cap Kind("Stop")) \cup {e}
        BY <2>1
      <3>2. Cardinality(updated' \cap Kind("Stop")) = Cardinality(updated \cap Kind("Stop")) + 1
        BY <1>1, <1>3, <3>1, FS_AddElement
      <3>3. QED
        BY <1>2, <1>4, <2>1, <3>2
    <2>2. CASE e \notin Kind("Stop")
      <3>1. updated' \cap Kind("Stop") = updated \cap Kind("Stop")
        BY <2>2
      <3>2. QED
        BY <1>2, <1>4, <2>2, <3>1
    <2>3. QED
      BY <2>1, <2>2
  <1>6. ~record'.checkpointed => updated' \cap Claimants = {}
    BY <1>1, <1>2 DEF Existing, IInv, RecordRemembers
  <1>7. updated' \cap Kind("PostCompact") # {} =>
          \E g \in updated' \cap Kind("PostCompact") : SummaryOf[g] = record'.digest
    <2>1. CASE e \in Kind("PostCompact")
      BY <1>2, <2>1
    <2>2. CASE e \notin Kind("PostCompact")
      BY <1>1, <1>2, <2>2 DEF Existing, IInv, RecordRemembers
    <2>3. QED
      BY <2>1, <2>2
  <1>8. QED
    BY <1>2, <1>5, <1>6, <1>7

LEMMA CountKept == IInv /\ [Next]_vars => (IsFiniteSet(updated) /\ TurnsCounted /\ RecordRemembers)'
  <1> SUFFICES ASSUME IInv, [Next]_vars
               PROVE (IsFiniteSet(updated) /\ TurnsCounted /\ RecordRemembers)'
    OBVIOUS
  <1> USE Grow DEF IInv, TurnsCounted, RecordRemembers
  <1>1. ASSUME NEW e \in Events, StartSession(e)
        PROVE (IsFiniteSet(updated) /\ TurnsCounted /\ RecordRemembers)'
    BY <1>1 DEF StartSession, Fires, sessionVars, projectVars, handlerVars, historyVars
  <1>2. ASSUME NEW e \in Events, StartUpdate(e)
        PROVE (IsFiniteSet(updated) /\ TurnsCounted /\ RecordRemembers)'
    BY <1>2 DEF StartUpdate, Fires, sessionVars, projectVars, handlerVars, historyVars
  <1>3. ASSUME NEW e \in Events, StartPostCompact(e)
        PROVE (IsFiniteSet(updated) /\ TurnsCounted /\ RecordRemembers)'
    BY <1>3
    DEF StartPostCompact, Fires, Return, CompactNextStep, SameCompaction, sessionVars, projectVars,
      handlerVars, historyVars
  <1>4. ASSUME NEW e \in Events, StartSessionEnd(e)
        PROVE (IsFiniteSet(updated) /\ TurnsCounted /\ RecordRemembers)'
    BY <1>4
    DEF StartSessionEnd, Fires, Return, AlreadyCheckpointed, sessionVars, projectVars, handlerVars,
      historyVars
  <1>5. ASSUME NEW e \in Events, ReadLocked(e)
        PROVE (IsFiniteSet(updated) /\ TurnsCounted /\ RecordRemembers)'
    BY <1>5 DEF ReadLocked, LockFree, sessionVars, projectVars, handlerVars, historyVars
  <1>6. ASSUME NEW e \in Events, ReadUnlocked(e)
        PROVE (IsFiniteSet(updated) /\ TurnsCounted /\ RecordRemembers)'
    BY <1>6 DEF ReadUnlocked, sessionVars, projectVars, handlerVars, historyVars
  <1>7. ASSUME NEW e \in Events, WriteRecord(e)
        PROVE (IsFiniteSet(updated) /\ TurnsCounted /\ RecordRemembers)'
    <2>1. pc[e] \in {"write", "claimed"} /\ record' = ChangeOf(e, copy[e]) /\ updated' = updated \cup {e}
      BY <1>7 DEF WriteRecord
    <2>2. IsFiniteSet(updated')
      BY <2>1, FS_AddElement
    <2>3. Undisturbed' => Undisturbed
      BY Grow
    <2>4. QED
      BY <2>1, <2>2, <2>3, WriteRemembers
  <1>8. ASSUME NEW e \in Events, CreateFromCompaction(e)
        PROVE (IsFiniteSet(updated) /\ TurnsCounted /\ RecordRemembers)'
    BY <1>8 DEF CreateFromCompaction, Checkpoint, sessionVars, projectVars, handlerVars, historyVars
  <1>9. ASSUME NEW e \in Events, AssessSession(e)
        PROVE (IsFiniteSet(updated) /\ TurnsCounted /\ RecordRemembers)'
    BY <1>9 DEF AssessSession, Return, sessionVars, projectVars, handlerVars, historyVars
  <1>10. ASSUME NEW e \in Events, ClaimSession(e)
         PROVE (IsFiniteSet(updated) /\ TurnsCounted /\ RecordRemembers)'
    <2>1. pc[e] \in {"write", "claimed"} /\ record' = ChangeOf(e, copy[e]) /\ updated' = updated \cup {e}
      BY <1>10 DEF ClaimSession
    <2>2. IsFiniteSet(updated')
      BY <2>1, FS_AddElement
    <2>3. Undisturbed' => Undisturbed
      BY Grow
    <2>4. QED
      BY <2>1, <2>2, <2>3, WriteRemembers
  <1>11. ASSUME NEW e \in Events, CreateFromSessionEnd(e)
         PROVE (IsFiniteSet(updated) /\ TurnsCounted /\ RecordRemembers)'
    BY <1>11
    DEF CreateFromSessionEnd, Checkpoint, sessionVars, projectVars, handlerVars, historyVars
  <1>12. ASSUME NEW e \in Events, PruneStat(e)
         PROVE (IsFiniteSet(updated) /\ TurnsCounted /\ RecordRemembers)'
    BY <1>12 DEF PruneStat, sessionVars, projectVars, handlerVars, historyVars
  <1>13. ASSUME NEW e \in Events, PruneRemove(e)
         PROVE (IsFiniteSet(updated) /\ TurnsCounted /\ RecordRemembers)'
    BY <1>13 DEF PruneRemove, Undisturbed, projectVars, handlerVars
  <1>14. ASSUME NEW e \in Events, Kill(e)
         PROVE (IsFiniteSet(updated) /\ TurnsCounted /\ RecordRemembers)'
    BY <1>14 DEF Kill, sessionVars, projectVars, handlerVars, historyVars
  <1>15. CASE BreakLock
    BY <1>15 DEF BreakLock, sessionVars, projectVars, handlerVars, historyVars
  <1>16. CASE ToggleProject
    BY <1>16 DEF ToggleProject, sessionVars, projectVars, handlerVars, historyVars
  <1>17. CASE RepoMoves
    BY <1>17 DEF RepoMoves, sessionVars, projectVars, handlerVars, historyVars
  <1>18. CASE IntervalPasses
    BY <1>18 DEF IntervalPasses, sessionVars, projectVars, handlerVars, historyVars
  <1>19. CASE RecordAges
    BY <1>19 DEF RecordAges, sessionVars, projectVars, handlerVars, historyVars
  <1>20. CASE UNCHANGED vars
    BY <1>20 DEF vars, sessionVars, projectVars, handlerVars, historyVars
  <1>21. QED
    BY <1>1, <1>2, <1>3, <1>4, <1>5, <1>6, <1>7, <1>8, <1>9, <1>10, <1>11, <1>12,
       <1>13, <1>14, <1>15, <1>16, <1>17, <1>18, <1>19, <1>20
    DEF Next, HandlerStep, PruneStep

LEMMA OrderKept == IInv /\ [Next]_vars => (EndedFirst /\ CompactedAnew)'
  <1> SUFFICES ASSUME IInv, [Next]_vars PROVE (EndedFirst /\ CompactedAnew)'
    OBVIOUS
  <1> USE Grow, OneKind DEF IInv, EndedFirst, CompactedAnew, TypeOK, Goto, Paths
  <1>1. ASSUME NEW e \in Events, StartSession(e) PROVE (EndedFirst /\ CompactedAnew)'
    BY <1>1 DEF StartSession, Fires, sessionVars, projectVars, handlerVars, historyVars
  <1>2. ASSUME NEW e \in Events, StartUpdate(e) PROVE (EndedFirst /\ CompactedAnew)'
    BY <1>2 DEF StartUpdate, Fires, sessionVars, projectVars, handlerVars, historyVars
  <1>3. ASSUME NEW e \in Events, StartPostCompact(e) PROVE (EndedFirst /\ CompactedAnew)'
    <2>1. e \in Kind("PostCompact") /\ e \notin Kind("SessionEnd") /\ e \notin written
      BY <1>3 DEF StartPostCompact, Fires, Kind, Is
    <2>a. pc' \in {[pc EXCEPT ![e] = "create"], [pc EXCEPT ![e] = "done"]}
      BY <1>3 DEF StartPostCompact, Return, CompactNextStep
    <2>b. before' = [before EXCEPT ![e] = updated] /\ UNCHANGED <<updated, written>>
      BY <1>3 DEF StartPostCompact, projectVars
    <2>2. /\ \A f \in Events \ {e} : pc'[f] = pc[f] /\ before'[f] = before[f]
          /\ before'[e] = updated /\ updated' = updated /\ written' = written
      BY <2>a, <2>b
    <2>3. EndedFirst'
      BY <2>1, <2>2 DEF Kind
    <2>4. pc'[e] = "create" => ~SameCompaction(e)
      <3>1. CASE ~SameCompaction(e)
        BY <3>1
      <3>2. CASE SameCompaction(e)
        <4>1. pc' = [pc EXCEPT ![e] = "done"]
          BY <1>3, <3>2 DEF StartPostCompact, Return, SameCompaction
        <4>2. QED
          BY <4>1
      <3>3. QED
        BY <3>1, <3>2
    <2>5. ASSUME Undisturbed, ~SameCompaction(e), NEW f \in Kind("PostCompact"), f \in updated, SummaryOf[f] = SummaryOf[e]
          PROVE  \E g \in updated \cap Kind("PostCompact") : SummaryOf[g] # SummaryOf[e]
      BY <2>5 DEF RecordRemembers, SameCompaction
    <2>6. CompactedAnew'
      BY <2>1, <2>2, <2>4, <2>5 DEF Kind
    <2>7. QED
      BY <2>3, <2>6
  <1>4. ASSUME NEW e \in Events, StartSessionEnd(e) PROVE (EndedFirst /\ CompactedAnew)'
    <2>1. e \in Kind("SessionEnd") /\ e \notin Kind("PostCompact") /\ e \notin written
      BY <1>4 DEF StartSessionEnd, Fires, Kind, Is
    <2>a. pc' \in {[pc EXCEPT ![e] = "assess"], [pc EXCEPT ![e] = "done"]}
      BY <1>4 DEF StartSessionEnd, Return
    <2>b. before' = [before EXCEPT ![e] = updated] /\ UNCHANGED <<updated, written>>
      BY <1>4 DEF StartSessionEnd, projectVars
    <2>2. /\ \A f \in Events \ {e} : pc'[f] = pc[f] /\ before'[f] = before[f]
          /\ before'[e] = updated /\ updated' = updated /\ written' = written
      BY <2>a, <2>b
    <2>3. pc'[e] \in {"assess", "done"} /\ (pc'[e] = "assess" => record # NoRecord /\ ~record.checkpointed)
      <3>1. CASE record # NoRecord /\ ~record.checkpointed
        BY <2>a, <3>1
      <3>2. CASE ~(record # NoRecord /\ ~record.checkpointed)
        <4>1. pc' = [pc EXCEPT ![e] = "done"]
          BY <1>4, <3>2 DEF StartSessionEnd, Return, AlreadyCheckpointed
        <4>2. QED
          BY <4>1
      <3>3. QED
        BY <3>1, <3>2
    <2>4. EndedFirst'
      BY <2>1, <2>2, <2>3 DEF RecordRemembers, Kind
    <2>5. CompactedAnew'
      BY <2>1, <2>2, <2>3 DEF Kind
    <2>6. QED
      BY <2>4, <2>5
  <1>5. ASSUME NEW e \in Events, ReadLocked(e) PROVE (EndedFirst /\ CompactedAnew)'
    BY <1>5 DEF ReadLocked, LockFree, sessionVars, projectVars, handlerVars, historyVars
  <1>6. ASSUME NEW e \in Events, ReadUnlocked(e) PROVE (EndedFirst /\ CompactedAnew)'
    BY <1>6 DEF ReadUnlocked, sessionVars, projectVars, handlerVars, historyVars
  <1>7. ASSUME NEW e \in Events, WriteRecord(e) PROVE (EndedFirst /\ CompactedAnew)'
    BY <1>7 DEF WriteRecord, Unlock, Forget, sessionVars, projectVars, handlerVars, historyVars
  <1>8. ASSUME NEW e \in Events, CreateFromCompaction(e) PROVE (EndedFirst /\ CompactedAnew)'
    BY <1>8 DEF CreateFromCompaction, Checkpoint, sessionVars, projectVars, handlerVars, historyVars
  <1>9. ASSUME NEW e \in Events, AssessSession(e) PROVE (EndedFirst /\ CompactedAnew)'
    <2>1. \A f \in Events \ {e} : pc'[f] = pc[f]
      BY <1>9 DEF AssessSession, Return
    <2>2. e \in Kind("SessionEnd") /\ e \notin Kind("PostCompact")
      BY <1>9 DEF AssessSession, Kind
    <2>3. QED
      BY <1>9, <2>1, <2>2 DEF AssessSession, projectVars, historyVars, Kind
  <1>10. ASSUME NEW e \in Events, ClaimSession(e) PROVE (EndedFirst /\ CompactedAnew)'
    <2>0. pc' \in {[pc EXCEPT ![e] = "create"], [pc EXCEPT ![e] = "done"]}
      BY <1>10 DEF ClaimSession, Return
    <2>1. \A f \in Events \ {e} : pc'[f] = pc[f]
      BY <2>0
    <2>2. e \in Kind("SessionEnd") /\ e \notin Kind("PostCompact")
      BY <1>10 DEF ClaimSession, Kind
    <2>3. QED
      BY <1>10, <2>1, <2>2 DEF ClaimSession, projectVars, Kind
  <1>11. ASSUME NEW e \in Events, CreateFromSessionEnd(e) PROVE (EndedFirst /\ CompactedAnew)'
    BY <1>11
    DEF CreateFromSessionEnd, Checkpoint, sessionVars, projectVars, handlerVars, historyVars
  <1>12. ASSUME NEW e \in Events, PruneStat(e) PROVE (EndedFirst /\ CompactedAnew)'
    BY <1>12 DEF PruneStat, sessionVars, projectVars, handlerVars, historyVars
  <1>13. ASSUME NEW e \in Events, PruneRemove(e) PROVE (EndedFirst /\ CompactedAnew)'
    BY <1>13 DEF PruneRemove, sessionVars, projectVars, handlerVars, historyVars
  <1>14. ASSUME NEW e \in Events, Kill(e) PROVE (EndedFirst /\ CompactedAnew)'
    BY <1>14 DEF Kill, sessionVars, projectVars, handlerVars, historyVars
  <1>15. CASE BreakLock
    BY <1>15 DEF BreakLock, sessionVars, projectVars, handlerVars, historyVars
  <1>16. CASE ToggleProject
    BY <1>16 DEF ToggleProject, sessionVars, projectVars, handlerVars, historyVars
  <1>17. CASE RepoMoves
    BY <1>17 DEF RepoMoves, sessionVars, projectVars, handlerVars, historyVars
  <1>18. CASE IntervalPasses
    BY <1>18 DEF IntervalPasses, sessionVars, projectVars, handlerVars, historyVars
  <1>19. CASE RecordAges
    BY <1>19 DEF RecordAges, sessionVars, projectVars, handlerVars, historyVars
  <1>20. CASE UNCHANGED vars
    BY <1>20 DEF vars, sessionVars, projectVars, handlerVars, historyVars
  <1>21. QED
    BY <1>1, <1>2, <1>3, <1>4, <1>5, <1>6, <1>7, <1>8, <1>9, <1>10, <1>11, <1>12,
       <1>13, <1>14, <1>15, <1>16, <1>17, <1>18, <1>19, <1>20
    DEF Next, HandlerStep, PruneStep

LEMMA Kept == IInv /\ [Next]_vars => IInv'
  BY TypesKept, PathsKept, TrueKept, LossKept, LockKept, CountKept, OrderKept DEF IInv

LEMMA Invariant == Spec => []IInv
  BY Initially, Kept, PTL DEF Spec

\* Type correctness.
THEOREM TypeCorrect == Spec => []TypeOK
  <1>1. IInv => TypeOK
    BY DEF IInv
  <1>2. QED
    BY Invariant, <1>1, PTL

\* handlers.ts, onPostCompact: a compaction is dropped as a duplicate only if its checkpoint
\* exists, wherever a hook was cut off: the digest is recorded after the checkpoint.
THEOREM NoCompactionLost == Spec => []CompactionNeverLost
  <1>1. IInv => CompactionNeverLost
    BY DEF IInv
  <1>2. QED
    BY Invariant, <1>1, PTL

\* A session marked as checkpointed has a checkpoint, or a SessionEnd about to write one,
\* or one that was cut off between its claim and its checkpoint.
THEOREM FlagTrue == Spec => []FlagMeansCheckpoint
  <1>1. IInv => FlagMeansCheckpoint
    BY DEF IInv, RecordTrue, Accounted, FlagMeansCheckpoint
  <1>2. QED
    BY Invariant, <1>1, PTL

\* While the lock is respected, no Stop's turn is lost, whatever handlers update the
\* record at once and wherever they are cut off.
THEOREM NoTurnLost == Spec => []TurnsCounted
  <1>1. IInv => TurnsCounted
    BY DEF IInv
  <1>2. QED
    BY Invariant, <1>1, PTL

\* While the lock is respected, a SessionEnd that comes after a claim or a recorded
\* compaction writes no checkpoint.
THEOREM ClaimHolds == Spec => []SessionEndAfterClaim
  <1>1. IInv => SessionEndAfterClaim
    BY DEF IInv, EndedFirst, SessionEndAfterClaim, Claimants
  <1>2. QED
    BY Invariant, <1>1, PTL

\* While the lock is respected, a compaction delivered again after it was recorded writes
\* nothing, unless another was recorded in between.
THEOREM RedeliveryIgnored == Spec => []CompactionOnce
  <1>1. IInv => CompactionOnce
    BY DEF IInv, CompactedAnew, CompactionOnce
  <1>2. QED
    BY Invariant, <1>1, PTL
=============================================================================
