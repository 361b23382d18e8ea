------------------------------ MODULE AutoSync ------------------------------
(***************************************************************************)
(* Automatic sync of one profile on one machine: src/sync/auto-sync.ts,    *)
(* the machine-local state of src/core/machine-local.ts it is driven by,   *)
(* and `statenest sync`, which runs the same sync without the lock.        *)
(*                                                                         *)
(* A process that writes a record asks for a sync by setting               *)
(* sync_requested_at in the machine-local state, and starts a detached     *)
(* runner.  A runner takes the sync lock or gives up, then goes round: see *)
(* whether a sync is requested, sync, record the outcome, look again.      *)
(* Every change of the local state reads the file and then writes it, with *)
(* no lock, so that any two changes can interleave.                        *)
(*                                                                         *)
(* The sync is abstracted to what automatic sync sees of it: which records *)
(* its commit captured, whether the push delivered them, and the outcome.  *)
(* GitSync models it in detail.                                            *)
(***************************************************************************)
EXTENDS Naturals, FiniteSets

CONSTANTS
  Writers,     \* processes that write a record, each with the runner it starts
  Manual,      \* `statenest sync` runs
  Forced,      \* the writers whose runner is the session-start refresh
  NoRunner,    \* nobody holds the sync lock
  MaxPasses,   \* MAX_PASSES
  AutoPush,    \* auto_push
  MaxCrashes   \* bound: how many processes die half-way

ASSUME AutoSyncAssumption ==
  /\ Writers \cap Manual = {}
  /\ Forced \subseteq Writers
  /\ NoRunner \notin Writers \cup Manual
  /\ MaxPasses \in Nat \ {0}
  /\ AutoPush \in BOOLEAN
  /\ MaxCrashes \in Nat

Runners == Writers \cup Manual

Outcomes == {"synced", "offline", "conflict", "blocked-by-secrets", "local-only"}
Healths == {"ok", "offline", "conflict", "blocked-by-secrets", "pending"}
LocalStates == [requested : BOOLEAN, health : Healths]

VARIABLES
  local,       \* the machine-local state file
  lock,        \* the holder of the sync lock
  posted,      \* records in the profile directory, named by their writer
  committed,   \* records in the local branch
  sent,        \* records in the remote branch
  wpc,         \* where each writer is
  rpc,         \* where each runner is
  pass,        \* passes a runner has completed, counted up to MaxPasses
  ended,       \* the result of a runner's last sync
  wcopy,       \* the local state as a writer's update read it
  rcopy,       \* the local state as a runner's update read it
  crashes,     \* processes that died
  lastHealth,  \* history: what the last recorded outcome stands for ("ok" once overlapped)
  missed,      \* history: undelivered records a sync may count as sent
  overlapped   \* history: an outcome was recorded in the middle of a request

writerVars == <<wpc, wcopy>>
runnerVars == <<rpc, pass, ended, rcopy>>
dataVars == <<posted, committed, sent>>
historyVars == <<lastHealth, missed, overlapped>>
syncVars == <<local, lock, dataVars, writerVars, runnerVars, crashes, historyVars>>

\* A record has got where this machine's settings want it.
Delivered == IF AutoPush THEN sent ELSE committed

WriterLabels == {"new", "schedule", "request", "spawn", "done", "dead"}
RunnerLabels == {"none", "spawned", "before", "fetch", "push", "record", "write",
                 "after", "done", "dead"}

SyncTypeOK ==
  /\ local \in LocalStates
  /\ lock \in Runners \cup {NoRunner}
  /\ posted \subseteq Writers
  /\ committed \subseteq posted
  /\ sent \subseteq committed
  /\ wpc \in [Writers -> WriterLabels]
  /\ rpc \in [Runners -> RunnerLabels]
  /\ pass \in [Runners -> 0..MaxPasses]
  /\ ended \in [Runners -> Outcomes]
  /\ wcopy \in [Writers -> LocalStates]
  /\ rcopy \in [Runners -> LocalStates]
  /\ crashes \in 0..MaxCrashes
  /\ lastHealth \in Healths
  /\ missed \subseteq posted
  /\ overlapped \in BOOLEAN

Quiet == [requested |-> FALSE, health |-> "ok"]

SyncInit ==
  /\ local = Quiet
  /\ lock = NoRunner
  /\ posted = {} /\ committed = {} /\ sent = {}
  /\ wpc = [w \in Writers |-> "new"]
  /\ rpc = [r \in Runners |-> "none"]
  /\ pass = [r \in Runners |-> 0]
  /\ ended = [r \in Runners |-> "synced"]
  /\ wcopy = [w \in Writers |-> Quiet]
  /\ rcopy = [r \in Runners |-> Quiet]
  /\ crashes = 0
  /\ lastHealth = "ok" /\ missed = {} /\ overlapped = FALSE

WriterAt(w, from, to) == wpc[w] = from /\ wpc' = [wpc EXCEPT ![w] = to]
RunnerGoes(r, to) == rpc' = [rpc EXCEPT ![r] = to]

(***************************************************************************)
(* Asking for a sync: scheduleAutoSync and requestSync                     *)
(***************************************************************************)

\* A sync that has captured what it will send and not yet recorded how it went.
InFlight(r) == rpc[r] \in {"push", "record", "write"}

\* The record lands in the profile directory.
WriteRecord(w) ==
  /\ WriterAt(w, "new", "schedule")
  /\ posted' = posted \cup {w}
  /\ missed' = IF \E r \in Runners : InFlight(r) THEN missed \cup {w} ELSE missed
  /\ UNCHANGED <<local, lock, committed, sent, wcopy, runnerVars, crashes,
                 lastHealth, overlapped>>

ReadForRequest(w) ==
  /\ WriterAt(w, "schedule", "request")
  /\ wcopy' = [wcopy EXCEPT ![w] = local]
  /\ UNCHANGED <<local, lock, dataVars, runnerVars, crashes, historyVars>>

Requested(state) == [state EXCEPT !.requested = TRUE]

WriteRequest(w) ==
  /\ WriterAt(w, "request", "spawn")
  /\ local' = Requested(wcopy[w])
  /\ missed' = IF w \notin Delivered /\ \E r \in Runners : rpc[r] = "write"
                 THEN missed \cup {w} ELSE missed
  /\ wcopy' = [wcopy EXCEPT ![w] = Quiet]  \* no longer needed
  /\ UNCHANGED <<lock, dataVars, runnerVars, crashes, lastHealth, overlapped>>

\* The detached child is started, or cannot be and nobody is told.
Spawn(w) ==
  /\ WriterAt(w, "spawn", "done")
  /\ \/ RunnerGoes(w, "spawned")
     \/ UNCHANGED rpc
  /\ UNCHANGED <<local, lock, dataVars, wcopy, pass, ended, rcopy, crashes, historyVars>>

(***************************************************************************)
(* Running it: performAutoSync and drain                                   *)
(***************************************************************************)

\* A process ends, and what it knew is gone.
Ends(r, label) ==
  /\ RunnerGoes(r, label)
  /\ ended' = [ended EXCEPT ![r] = "synced"]
  /\ pass' = [pass EXCEPT ![r] = 0]
  /\ rcopy' = [rcopy EXCEPT ![r] = Quiet]

\* The runner returns, and releases the lock if it held it.
Finish(r) ==
  /\ Ends(r, "done")
  /\ lock' = IF lock = r THEN NoRunner ELSE lock

\* withExclusiveFileLock: skipped, not queued.
TakeLock(r) ==
  /\ rpc[r] = "spawned"
  /\ \/ lock = NoRunner /\ lock' = r /\ RunnerGoes(r, "before")
        /\ UNCHANGED <<pass, ended, rcopy>>
     \/ lock # NoRunner /\ Finish(r)
  /\ UNCHANGED <<local, dataVars, writerVars, crashes, historyVars>>

\* After the debounce: is a sync wanted?
Wanted(r) == local.requested \/ (r \in Forced /\ pass[r] = 0)

LookBefore(r) ==
  /\ rpc[r] = "before"
  /\ \/ Wanted(r) /\ RunnerGoes(r, "fetch") /\ UNCHANGED <<lock, pass, ended, rcopy>>
     \/ ~Wanted(r) /\ Finish(r)
  /\ UNCHANGED <<local, dataVars, writerVars, crashes, historyVars>>

\* `statenest sync`: no lock, no request needed.
StartManual(m) ==
  /\ m \in Manual
  /\ rpc[m] = "none"
  /\ RunnerGoes(m, "fetch")
  /\ UNCHANGED <<local, lock, dataVars, writerVars, pass, ended, rcopy, crashes, historyVars>>

Outcome(r, result) ==
  /\ ended' = [ended EXCEPT ![r] = result]
  /\ RunnerGoes(r, "record")

\* sync, up to the commit.  The audit may block it, the fetch may find nobody,
\* git may refuse to commit; otherwise `git add --all` captures every record.
Commit(r) ==
  /\ rpc[r] = "fetch"
  /\ UNCHANGED sent
  /\ \/ /\ committed' = posted
        /\ missed' = missed \ Delivered'
        /\ RunnerGoes(r, "push") /\ UNCHANGED ended
     \/ /\ \E result \in {"blocked-by-secrets", "offline", "local-only"} : Outcome(r, result)
        /\ UNCHANGED <<committed, missed>>
  /\ UNCHANGED <<local, lock, posted, writerVars, pass, rcopy, crashes,
                 lastHealth, overlapped>>

\* The rebase and the push, which sends the whole branch.  A runner pushes when
\* auto_push says so, `statenest sync` unless it was given --no-push; a sync that
\* does not push is `synced` all the same.
Push(r) ==
  /\ rpc[r] = "push"
  /\ UNCHANGED committed
  /\ \/ /\ Outcome(r, "synced")
        /\ sent' = IF r \in Manual \/ AutoPush THEN committed ELSE sent
        /\ missed' = missed \ Delivered'
     \/ /\ r \in Manual
        /\ Outcome(r, "synced")
        /\ missed' = missed \cup (committed \ Delivered)
        /\ UNCHANGED sent
     \/ /\ \E result \in {"conflict", "offline", "local-only"} : Outcome(r, result)
        /\ UNCHANGED <<sent, missed>>
  /\ UNCHANGED <<local, lock, posted, writerVars, pass, rcopy, crashes,
                 lastHealth, overlapped>>

(***************************************************************************)
(* recordOutcome: recordSyncCompleted or recordSyncHealth                  *)
(***************************************************************************)

HealthOf(result) ==
  CASE result = "synced" -> "ok"
    [] result = "local-only" -> "pending"
    [] OTHER -> result

\* Faulty: a failed attempt counts as having served the request.
RecordedAlways(state, result) == [requested |-> FALSE, health |-> HealthOf(result)]

Recorded(state, result) ==
  [requested |-> IF result = "synced" THEN FALSE ELSE state.requested,
   health |-> HealthOf(result)]

ReadForOutcome(r) ==
  /\ rpc[r] = "record"
  /\ rcopy' = [rcopy EXCEPT ![r] = local]
  /\ RunnerGoes(r, "write")
  /\ UNCHANGED <<local, lock, dataVars, writerVars, pass, ended, crashes, historyVars>>

\* The outcome is written.  `statenest sync` ends here; a runner's pass is over.
WriteOutcome(r) ==
  /\ rpc[r] = "write"
  /\ local' = Recorded(rcopy[r], ended[r])
  /\ overlapped' = (overlapped \/ \E w \in Writers : wpc[w] = "request")
  /\ lastHealth' = IF overlapped' THEN "ok" ELSE HealthOf(ended[r])
  /\ IF r \in Manual THEN Finish(r)
     ELSE /\ RunnerGoes(r, "after")
          /\ pass' = [pass EXCEPT ![r] = IF @ < MaxPasses THEN @ + 1 ELSE @]
          /\ rcopy' = [rcopy EXCEPT ![r] = Quiet]  \* no longer needed
          /\ UNCHANGED <<lock, ended>>
  /\ UNCHANGED <<dataVars, writerVars, crashes, missed>>

\* Faulty: a runner goes round for as long as a request is there.
NoPassLimit(r) == FALSE

LastPass(r) == pass[r] >= MaxPasses

\* Another pass for a request that is still there, unless this one failed in a
\* way another attempt would not mend.
Again(r) ==
  /\ local.requested
  /\ ended[r] \notin {"offline", "conflict", "blocked-by-secrets"}
  /\ ~LastPass(r)

LookAfter(r) ==
  /\ rpc[r] = "after"
  /\ \/ Again(r) /\ RunnerGoes(r, "before") /\ UNCHANGED <<lock, pass, ended, rcopy>>
     \/ ~Again(r) /\ Finish(r)
  /\ UNCHANGED <<local, dataVars, writerVars, crashes, historyVars>>

(***************************************************************************)
(* Crashes                                                                 *)
(***************************************************************************)

\* A hook cut off between its write and its request.
WriterDies(w) ==
  /\ wpc[w] \in {"schedule", "request"}
  /\ crashes < MaxCrashes
  /\ wpc' = [wpc EXCEPT ![w] = "dead"]
  /\ wcopy' = [wcopy EXCEPT ![w] = Quiet]
  /\ crashes' = crashes + 1
  /\ UNCHANGED <<local, lock, dataVars, runnerVars, historyVars>>

\* A runner dies where it stands; its lock file stays.
RunnerDies(r) ==
  /\ rpc[r] \notin {"none", "done", "dead"}
  /\ crashes < MaxCrashes
  /\ Ends(r, "dead")
  /\ crashes' = crashes + 1
  /\ UNCHANGED <<local, lock, dataVars, writerVars, historyVars>>

\* The lock of a dead runner has become stale and the next runner removes it.
BreakStaleLock ==
  /\ lock # NoRunner
  /\ rpc[lock] = "dead"
  /\ lock' = NoRunner
  /\ UNCHANGED <<local, dataVars, writerVars, runnerVars, crashes, historyVars>>

(***************************************************************************)
(* Specification                                                           *)
(***************************************************************************)

WriterStep(w) ==
  WriteRecord(w) \/ ReadForRequest(w) \/ WriteRequest(w) \/ Spawn(w)

RunnerStep(r) ==
  \/ TakeLock(r) \/ LookBefore(r)
  \/ Commit(r) \/ Push(r)
  \/ ReadForOutcome(r) \/ WriteOutcome(r) \/ LookAfter(r)

SyncNext ==
  \/ \E w \in Writers : WriterStep(w) \/ WriterDies(w)
  \/ \E r \in Runners : RunnerStep(r) \/ StartManual(r) \/ RunnerDies(r)
  \/ BreakStaleLock

\* A process that has started keeps running; whether a record is written or
\* `statenest sync` is typed is the user's choice.
SyncFairness == \A r \in Runners : WF_syncVars(RunnerStep(r))

SyncSpec == SyncInit /\ [][SyncNext]_syncVars /\ SyncFairness

(***************************************************************************)
(* Properties                                                              *)
(***************************************************************************)

HasRequested(w) == wpc[w] \in {"spawn", "done"}

\* auto-sync.ts:34-36: no failure "loses a local write".  Once its writer has
\* asked for a sync, a record that has not been delivered has an outstanding
\* request, whatever failed, crashed or ran twice since - except when the record
\* was written while a sync was in flight, or the request was written between a
\* runner's read and its write of the local state, or the user withheld the
\* record with --no-push.
RequestKept ==
  \A w \in Writers \ (Delivered \cup missed) : HasRequested(w) => local.requested

\* The recorded health is that of the last sync to finish, unless a request read
\* the state before that outcome was written and wrote it back after: a stale
\* health hides a conflict from `statenest sync repair`.
HealthIsLastOutcome == ~overlapped => local.health = lastHealth

\* A background runner ends after a bounded number of passes, however its syncs
\* go and however many writes keep arriving.
BackgroundSyncEnds ==
  \A r \in Runners : rpc[r] # "none" ~> rpc[r] \in {"done", "dead"}
=============================================================================
