# A TLA+ model of StateNest

StateNest keeps small records of a developer's projects (projects, tasks,
decisions, checkpoints) as files under a home directory, and shares them between
machines through a git repository. It has no daemon. Its state is changed by
many short-lived processes: commands typed in a terminal, Claude Code hooks, the
tool calls of an MCP server, and detached background syncs. Nothing but the file
system and git orders them. That is what these modules are about: what such
processes do to each other's files, in every order, with any of them killed at
any point.

The modules are translated from the TypeScript source under `src/src/`. Line
numbers in comments refer to it.

## 1. Inventory

### 1.1 Components

| Component | Source | State it keeps | Operations | Correct when |
|---|---|---|---|---|
| File lock | `util/file-lock.ts` | a lock file; the in-memory `inFlight` map of each process | `withFileLock`, `withExclusiveFileLock` | two callers believe they hold it only for a known reason; calls of one process are serial; everybody is served; no lock is left behind |
| Session hooks | `integrations/claude/handlers.ts`, `session.ts`, `hook.ts` | one JSON record per session: project, turns, `checkpointed`, digest of the last compaction | SessionStart, Stop, PreCompact, PostCompact, SessionEnd, pruning | turns are counted; a compaction is recorded, once; a session is checkpointed at most once and not never |
| Checkpoint creation | `checkpoints/create.ts` | checkpoint files | `createCheckpoint`, `isCheckpointWorthwhile` | a checkpoint is made when something happened |
| Machine-local state | `core/machine-local.ts` | `sync_requested_at`, `sync_health`, project roots, notices | read, update, `requestSync`, `recordSyncHealth`, `recordSyncCompleted` | a request is cleared only when what asked for it was sent; the health is that of the last sync |
| Automatic sync | `sync/auto-sync.ts` | the sync lock | schedule, spawn a runner, `performAutoSync`, `drain`, `recordOutcome` | one sync at a time; bounded work; no failure loses a write |
| Git sync, first join, repair | `sync/git-sync.ts`, `core/adoption.ts` | the profile's repository and its remote | `sync`, `adoptRemoteHistory`, `repair` | nothing local lost, nobody's records silently overwritten, machines converge |
| Project registry | `core/registry.ts` | project records: identity, locations, activity | `identify`, `register`, `adoptDerivedId`, `reconcile`, `touchActivity` | one id per project, no location of another machine lost |
| Record store | `storage/*` | project, task, decision, checkpoint and archive files | save, delete, append, list, render and parse | an append or a save loses no other; listings are newest first and miss nothing; a document is read back as it was written |
| File writes | `util/fs-atomic.ts` | the temporary file of a write | replace, append | a reader finds a whole value somebody wrote; a write that fails has changed nothing |
| Workspace, profiles | `core/workspace.ts`, `paths.ts`, `metadata.ts`, `schema.ts` | home, machine id, configuration, profiles, git attributes | initialise, open, touch the machine, `profile create` and `use`, turn sync on | one machine id; a profile's record is kept; what is synced has its attributes, whoever dies when |
| Backup and restore | `cli/commands/export.ts` | an archive | `export`, `import` | a restored home is this machine's, not the other one's |
| Migrations | `core/migrations.ts`, `cli/commands/migrate.ts` | the schema version of each file, a backup | plan, confirm, back up, apply | what is replaced is in the backup; newer records are left alone |
| MCP server | `mcp/tools.ts` | none of its own | tool calls on the store, served in parallel | what a call said it recorded is there |
| Resolution, search, brief, lists | `core/resolve.ts`, `search/search.ts`, `core/context.ts`, `cli/commands/{projects,recent,status,search}.ts` | none | answer a question from the records | asks rather than guesses; order, limits and filters hide nothing |
| Remote URLs | `git/remote-url.ts` | none | normalise a URL | one identity per repository |
| Git reading | `git/repo.ts` | none | read branch, commit, remote and working tree from git's files | what git itself would say |
| Discovery | `discovery/*` | none | walk directories | every repository within the limits is found, once |
| Dashboard | `dashboard/server.ts` | none | pages over one or several profiles | totals agree with lists; profiles are not mixed up |
| Servers and deployments | `remotes/ssh-config.ts`, `cli/commands/remote.ts` | server records, deployments of projects | add, import, remove, deploy | imported as the configuration says; one deployment per target |
| Plugin installer | `integrations/claude/install.ts`, `cli/commands/{integrate,uninstall,doctor}.ts` | Claude Code's settings, through its own command line | install, repair, upgrade, remove, check | what is reported is so; following the advice ends |
| Secret audit | `security/*` | none | scan, redact | a pattern engine over text |
| CLI, machine identity, path guards | `cli/*`, `machines/*`, `util/*` | none | parsing, printing, prompts | thin over the components above |

### 1.2 How they interact

* A command, hook or MCP tool changes a record through the store, then calls
  `scheduleAutoSync`: it sets `sync_requested_at` in the machine-local state and
  spawns a detached `statenest` process that runs `performAutoSync`.
* `performAutoSync` holds the sync lock (`withExclusiveFileLock`) around `drain`;
  `drain` calls `ProfileSync.sync` and writes the outcome into the machine-local
  state. `statenest sync` and `statenest sync repair` call `ProfileSync` without
  that lock.
* `ProfileSync` runs git commands in the profile directory, the very directory
  the other processes are writing records into, and talks to one remote that
  all machines share.
* Each Claude Code event starts a hook process. Hooks of one session share a
  record file that they change under `withFileLock`, an advisory lock: a process
  that cannot have it in two seconds goes ahead without it. A hook is cut off
  when its own deadline or Claude Code's passes.
* The machine-local state, project records and task files are read and written
  back with no lock at all. A single write is atomic (write, flush, rename); `AtomicFile`
  shows what that comes to, and every other module takes it as one step.
* decisions.md is only appended to, and git merges it by lines (`merge=union`), so that
  what one machine appends meets what the others did wherever they next sync.
* The MCP server opens the workspace anew for every tool call and serves calls
  side by side; commands in a terminal run next to it on the same files.
* `init`, `profile create`, `sync init` and `import` write the files of a home one
  after another, and any of them may meet a home that another left half made.
* The plugin installer keeps no state: it runs `claude plugin ...` commands and
  reads the files Claude Code writes. The user, other terminals and upgrades of
  the package change the same things.
* Everything that only reads (search, lists, brief, dashboard, scan, `git` reading)
  is a function of the files at one moment.

### 1.3 What is hard

Every item, with the line where it bites and the properties aimed at it, is in
`PROJECT.json` under `hazards`. In groups:

* *check, then act, on the file system*: the lock's open / stat / rm; pruning's
  stat / rm; the read of a session record before its lock is taken;
* *read-modify-write without a lock*: machine-local state, project records;
* *death between two steps*: a hook between its claim and its checkpoint, a
  runner with the lock, a first join between `git reset` and `git checkout`;
* *two machines and one remote*: races between fetch and push, a push accepted
  whose answer is lost, two machines changing one record;
* *at-least-once delivery*: the same compaction or session end delivered twice;
* *half a setup*: a home, a profile, a restore or a migration cut off between two
  files, and the command that runs next;
* *a question answered from stale data*: prompts that wait (import of servers,
  migration plans, deployments) while other commands write;
* *structure inside text*: documents and logs that users and agents write Markdown
  into, that git merges by lines, and that the code parses back;
* *order and limits*: answers that are cut at a limit, merged from several sources,
  or skipped by date before they are read;
* *another program's state*: the plugin's copy, marketplace and settings, changed
  through commands that can fail or be killed after they did their work;
* *bounded effort*: retries, passes, and loops that must end.

## 2. Modules

    FileLock                                SharedHistory
       |  (its promise is assumed by)            ^  implemented by
       +--> SessionHooks -- SessionHooksProofs   GitSync -- GitSyncProofs
       +--> AutoSync  <-- (outcomes of a sync)

    AtomicFile --implements--> DurableFile     (what a write of a record is)

    FileLock, AtomicFile, AutoSync -- LocalProofs

    Registry -- RegistryProofs     Records -- RecordsProofs
    Workspace -- WorkspaceProofs               (no lock at all)

    Recall <---- Dashboard <--+
    Discovery <---------------+-- Reading -- ReadingProofs   (what only reads)
    Documents <---------------+

    Decisions                                  (decisions.md and its merges)

    Plugin, Servers -- OutsideProofs           (other programs' files and settings)

A module of proofs about several components extends them all; that is why `AtomicFile`,
`AutoSync`, `Decisions`, `Plugin` and `Servers` name their specifications `WriteSpec`,
`SyncSpec`, `DecisionsSpec`, `PluginSpec` and `ServersSpec`, and their initial states, steps and
types likewise. A run may be about several components too: `MCHome`, `MCStore` and `MCAnswers`
extend the instances of parts that do not touch each other's state, and the variable `about`,
chosen at the start and never changed, says which of them a behaviour is about.

Each component is modelled at the grain at which its processes interleave, and
sees the ones below it through what they promise. `SessionHooks` and `AutoSync`
use the lock as one variable, `lock`, with the ways in which `FileLock` lets a
caller go ahead without it. `AutoSync` sees a sync as a commit followed by a push
with an outcome; `GitSync` opens up that sync, and abstracts the machine-local
state to the conflict recorded in it.

### FileLock: `src/src/util/file-lock.ts`

Every file-system call is a step, because every `await` lets another process
in. A caller's `pc` follows `acquire`: `open`, `stamp` (the file exists, its
contents are not yet written), `stat`, `break` (about to remove a lock judged
stale), then `work` and `release`. `queue` is the `inFlight` chain of each
process, in which the head is the call whose predecessor has settled. `late[c]`
says that `Date.now() >= deadline`; the age of the lock file is one of three
classes, since the code compares it with one second and with `staleMs` only.
`thefts` and `leaked` are history: how a live owner's file came to be removed by
another, and which callers failed to stamp or to remove their file.

Any step of `open` may fail in each way the code distinguishes (`EEXIST`,
`EPERM`/`EBUSY`, `ENOENT`, anything else), `rm` may fail in `Break` and in
`Release` (both swallow the error), a process may die, the file may age and the
directory be swept away at any time.

### SessionHooks: `integrations/claude/handlers.ts`, `session.ts`, `checkpoints/create.ts`

One project, one session, one process per event. `ReadLocked` (or
`ReadUnlocked`, when the lock timed out), then `WriteRecord` or `ClaimSession`,
are the two halves of `updateSessionRecord`; `ChangeOf` is the change each
handler passes to it. What a handler does before its update is an action per
handler (`StartSession`, `StartUpdate`, `StartPostCompact`, `StartSessionEnd`,
`AssessSession`), and what it does after, or instead, is `CreateFromCompaction`
and `CreateFromSessionEnd`. `Verdict` is `isCheckpointWorthwhile`. The repository
is a number that grows when it changes, and a git read returns the current one or
`Slow`. `Kill` cuts a handler off between any two steps, with the lock held if
it held it; `BreakLock` is the removal of that lock once it is stale. A session has
a `story`, chosen at its start from `Stories` and never changed: which events it may
see, and what else may happen in it. Stories let one run cover handlers that interleave
with each other, without the product of handlers that have nothing to do with each
other.

### AutoSync: `sync/auto-sync.ts`, `core/machine-local.ts`, `cli/commands/sync.ts`

Writers write a record and ask for a sync; a runner is the detached process one
of them started, or a manual `statenest sync`. All updates of the machine-local
state are two steps, a read into a copy and a write of the changed copy, because
that is what `updateMachineLocalState` does. `posted`, `committed` and `sent`
are the sets of records in the profile directory, the local branch and the
remote, each record named by its writer.

`missed` is history. It holds the undelivered records that a sync may count as
sent: written while a sync was past its commit, requested while a runner was
between its read and its write of the state, or committed by a manual sync with
`--no-push`. `Delivered` is what `auto_push` makes of delivery. With the code as
it is, records in `missed` can be forgotten until the next write.

### GitSync and SharedHistory: `sync/git-sync.ts`, `core/adoption.ts`

A commit is a tree, a branch the sequence of its trees. A tree maps each record
file to a version or to `Absent`. Two changes of one file conflict when they
differ. A sync is one step per git command: `Fetch`, for a machine without
commits `AdoptHistory`, `AdoptFiles` and `AdoptLocations`, then `Commit`,
`Rebase`, `Abort` if the rebase stopped at a conflict, and `Push`. Records may be
written or deleted, and the sync may be cut off, between any two. `Repair` is
`statenest sync repair` with any choice of sides for the paths the recorded conflict
names; `Resolve` is a pass of its loop, `Continue` the `rebase --continue` after it.

`rebase[m]` is git's own state of a rebase that has stopped: the local branch, the
commit it stopped at, the unmerged paths and the index. Meanwhile `branch[m]` is the
detached HEAD, and a file both sides changed has the version `Marked`. The state
outlives the process: the next sync finds "HEAD" for its branch, stages and commits
what is there, and cannot push; the next repair cannot start a rebase, and goes on with
the one it finds. Git itself is the operators `Common`, `Merged`, `Replay`,
`Writes`, `RebaseBlocked`, `CheckedOut`, `RunRebase`, `AbortRebase` and `FastForward`; what git
keeps, resets and refuses in a stopped rebase was compared with git 2.39.

`SharedHistory` is the abstract specification: a history that only grows, and to
which a machine adds only when it has all of it. `GitSync` implements it with
`history` as the remote branch and `known` as the length of what a machine's own
branch, which a rebase under way has not moved yet, has in common with it (property
`OnlyEverAddsToHistory`).

### Registry: `core/registry.ts` over `storage/store.ts`

The profile of one machine: `project[d]`, `taskFile[d]` and `checkpoints[d]` are
project.yaml, tasks.yaml and the checkpoint directory under the name `d`. The id a
remote implies is the remote itself, the random id of a project without one is the
process that made it. A process is `statenest add`, a SessionStart hook, a
checkpoint, a `task add` or a `remove`; what it has in memory is `knows[c]`: the
remote it saw, the record it goes on with (`rec`), whether it has the cached list
of projects, the tasks it read.

`Identify`, `Scan` and `IdentifyAgain` are the reads of `identify` (the file of the
derived id first, then all projects; a hook that registers identifies twice, the
second time over its cached list). `Create` and `Merge` are the two outcomes of
`register`. `CheckDerived`, `MoveHistory`, `MoveDir` and `SaveRenamed` are
`adoptDerivedId`, each a file-system step that may fail (`Fails`: the error is
caught and the old record kept) or be the last. Every later write (`Touch`,
`SaveCheckpointed`) writes back the whole record as the process had it, so a
record that was renamed or removed meanwhile comes back.

Three variables are history: `owed`, the checkpoints that no user has deleted;
`halfMoved`, directories renamed by a process that then failed or died before it
wrote the record; and `blurred`, which is set when an identity changes, a project
is adopted or removed while another process overlaps with the one that does it,
or an adoption stops half-way. `knows[c].met` is that overlap.

### Workspace: `core/workspace.ts`, `cli/commands/init.ts`, `profile.ts`, `export.ts`

One home with its profiles: config.yaml, and for each profile its profile.yaml, its .gitattributes
and the records of the machines that use it; machine.json with the id of this machine. A file is
missing, readable or not; what it says is reduced to what commands decide by (`default`, `by`,
`sync`, `id`). A command is `init`, `profile create`, `profile use`, `machine rename`, `sync init`
or `import`; each read and each write is a step, and what it has read is `knows[c]`: a command
goes on with the configuration it read (`opens` is the profile it named), whatever becomes of the
file. `Workspace.initialize` takes a file it cannot read for one that is missing (`Readable`), the
cause of every exception the properties make. `import` copies the files of an archive over the
home, in any order, each removed before it is copied (`MakeWay`, `CopyFile`: `cp` with `force`).
`Elsewhere` is the machine whose home was archived. `displaced` is history: ids that became
unreadable or were written over.

### Records: `storage/store.ts`, `mcp/tools.ts`, `cli/commands/{task,decision,migrate}.ts`

The files of one project. A record is its schema version and the set of calls whose
change it holds, so that a lost update is a missing member. A call opens the
workspace, reads, and writes back what it read with its change (`Open`, `WriteBack`,
`WriteCheckpoint`); `decision` is two steps, a header if there is no file, and an
append. `migrate` plans over what it reads, waits for the user, copies everything
aside and writes the records as planned; there may be several, each with a backup of its
own. `met` is, for each call, the calls that it
ran beside on the same record; `late` and `unread` name changes that were made after
a migration made its copy, and changes in a file that could not be read and was taken
for empty.

### AtomicFile and DurableFile: `util/fs-atomic.ts`

One file and its writers, one step per call of `writeFileAtomic`: `Open`, `Write` (in
parts), `Flush`, the rename with its three outcomes (`RenameHeld`, tried again;
`RenameFails`; `Rename`), `FlushDirectory`, `CleanUp`. An inode is what a writer opened
under a random name; `target` is the one under the name of the file. `flushed` and
`entries` are what the disk keeps: a loss of power (`LosePower`) may tear what was not
flushed, and takes the name back to any entry since the directory was last flushed.
`outcome` is history: what came of each write.

`DurableFile` is the abstract specification: a value that is replaced as a whole, a set
of earlier values the power may take it back to, and writes that replace the file or
are refused, never both. `AtomicFile` implements it with `value` as what a reader finds
in `target`.

### Decisions: `storage/store.ts`, `core/workspace.ts`

decisions.md on each machine as a sequence of lines (heading, the marker that holds the
fields, text), whether the last one ends in a newline included. `RecordDecision`
renders and appends; `Note` is the user, who adds a line of his own; `Sync` merges
with the union driver, the external operator `Union`: common lines at both ends are
taken once, and what is left of theirs follows what is left of ours. `ParseDecisions`
reads: one decision per block from heading to heading, of its first marker. The
interleaving of appends on one machine is in `Records`.

### Recall, Discovery, Dashboard and Documents; Reading

What only reads is written as operators, not actions. `Recall` has the resolution of
a term, the newest checkpoints, the brief, the feed, the search with its printed
hits and the lists; `Dashboard` the pages over several profiles; `Discovery` the scan,
the identity of a remote URL and the reading of a checkout; `Documents` the Markdown of
a checkpoint, how create.ts renders it and frontmatter.ts takes it apart, over lines
whose kind (text, heading, bullet, fence, rule) is what the parsers look at. Recursion is written as
recursive functions, sorting and filtering as ranks: the place of an element is the
number of elements that go before it (`InOrder`, `Those`, `Sorted`), a sum as a number of pairs
(`Total`). `Reading` asks: one action per command, tool or page,
which takes any question of the sets given by the configuration and records
question and answer. The properties compare answers with references of their own,
written as sets and quantifiers rather than as the algorithm: that a list is the
newest n, that what a walk finds is what is reachable, that two URLs have one
identity exactly if they serve one repository.

A text is what questions tell apart of it: for a term how it lies in a name (`Near`,
`Extra`), in a brief a key that ignores case and space, in a search its letters.
A URL is its form (with a scheme or as scp has it), host and path segments; `Decoded` is what
percent-decoding makes of a segment, and `DecodedPath` is applied where remote-url.ts does it.

### Plugin: `integrations/claude/install.ts`, `integrate.ts`, `uninstall.ts`, `doctor.ts`

`claude` is Claude Code's state: whether the program is on the PATH, from where the
marketplace is registered, which version it copied, whether the plugin is enabled.
Its four commands are the external operators `MarketplaceRemove`, `MarketplaceAdd`,
`PluginInstall` and `PluginUninstall`, modelled from what install.ts expects of them.
`RunClaude` lets each of them fail, or be killed after it did its work. A terminal's
command is a step per check, call or question. `ClaudeChecks` is what doctor finds,
named by the fix it prints; `FollowAdvice` and `Reinstall` are the user who runs it.
`Meddle` is the user at work elsewhere: an upgrade, a plugin disabled or removed, a
marketplace from another directory.

### Servers: `cli/commands/remote.ts`, `remotes/ssh-config.ts`

Server records, and the deployments of projects. `ReadConfigFile` is the parser with
its includes, its depth limit and its set of files already read; `UsableHosts` and
`GuessEnvironment` are what an import makes of it. `StartImport`, `Choose` and
`SaveImported`, and `StartDeploy` and `SaveDeployments`, are the halves between which
the user is asked or other commands write. `overlapped` is history: aliases that
were registered while an import held them for new.

## 3. What the runs check

| Run | Instance | Properties |
|---|---|---|
| FileLock | two advisory calls in one process, one exclusive call in another, three sweeps, one retry of a missing directory | `OverlapHasRootCause`, `SameProcessExclusion`, `LockFileHasOwner`, `CallerServed` |
| SessionHooks | two stories: a Stop, a compaction delivered twice, a SessionEnd delivered twice and one change of the repository; or SessionStart, PreCompact and two Stops at once with pruning, lock timeouts and the project added and removed; one kill in either | `CompactionNeverLost`, `CompactionOnce`, `SessionEndAfterClaim`, `FlagMeansCheckpoint`, `TurnsCounted` |
| AutoSync | two writers with their runners (one forced), one manual sync, two passes, one death | `RequestKept`, `BackgroundSyncEnds` |
| GitSync | two machines, two records, one and two edits, one network failure, one interruption | `NoSilentLoss`, `NothingLocalLost`, `OnlyEverAddsToHistory`, `Convergence` |
| Registry | two clones, two remotes, two `add`s of one clone beside two processes of any kind, one change of a remote, one failure or death | `IdRemembersIdentity`, `DirMatchesId`, `HistoryKept`, `OneRecordPerIdentity` |
| Home | an `init`, a `profile create` or `sync init`, and a third command, two profiles, one death or damaged file, repairs; or two commands on servers at a time, two servers, one project, three configurations of up to two files | `SyncedHasAttributes`, `KnownOnce`, `ProfileKept`; `ImportedAsWritten`, `OneDeploymentPerTarget` |
| Store | a migration and three calls of every kind, one of them at times a second migration, one death, damaged file or newer record; or two writers of one file, three writes, two deaths or losses of power; or two machines, three decisions, a line of the user's on each | `AnsweredIsKept`, `DecisionsGrow`, `BackupHoldsReplaced`; `ImplementsDurableFile`; `DecisionsReadBack` |
| Answers | one question of every kind over the small collections of MCReading; or two terminals, two versions, one failure or interruption, two commands or changes of the user's own | `AsksRatherThanGuesses`, `NewestFirst`, `BriefInOrder`, `ListingsAgree`, `SearchMeansAll`, `ScanFindsAll`, `OneIdentityPerRepository`, `ReadAsGitWould`, `CheckpointsReadBack`; `ReportIsTrue`, `AdviceEnds` |
| GitSyncJoin, HomeUnread, StoreUnread, UrlForms | MCGitSync, MCWorkspace, MCRecords and MCReading, each with what a comment says and the code does not keep | `RemoteRecordsSurvive`, `UnreadProfileKept`, `UnreadRecordKept`, `OneIdentityInAnyForm` |

`TypeOK` (`SyncTypeOK`, `WriteTypeOK`) states, in each module that has one, the types that
proofs about it start from, and is proved; `OutsideProofs` has those of `Servers` and
`Plugin`. The runs spend their properties on behaviour.

What they show:

* **FileLock.** Two callers can believe they hold the lock only after one of
  three events: a lock judged too old, a lock that vanished between `EEXIST` and
  `stat`, or a swept directory. The unconditional `rm` of the `finally` block
  never starts an overlap; it can only continue one. The in-memory queue keeps
  the calls of a process serial even when none of them gets the file. Everyone
  is served unless removals of a lock file fail for ever.
* **SessionHooks.** Cutting a hook off anywhere never loses a compaction: the
  digest is written after the checkpoint, so the redelivery either finds it or
  writes again. The flag means a checkpoint, one about to be written, or a hook that
  was cut off in that gap. No finished Stop is lost while updates run under the lock.
* **AutoSync.** No failure, crash or repetition loses the request for a record
  outside the windows `missed` names. A runner ends.
* **GitSync.** No race, failure or interruption makes a record disappear that
  nobody changed, deleted or decided against, except a first join cut off
  half-way. A version written on a machine is somewhere, except where a first
  join, an abort or a repair wrote over it, until a machine is left in the middle of
  a rebase. Even then no conflict markers take the place of a published record. If conflicts eventually
  stay away and no machine is left so, all end with the records of the remote.
* **Registry.** A project whose id came from a remote can always be found by that
  remote, whatever old copy is written back. A directory holds the record of its
  own id unless an adoption stopped between its last two steps. No checkpoint is
  lost on disk, not even by an adoption that fails or meets a directory in its
  way; but one that stops after its first step leaves checkpoints under an id no
  project has, which the comment at registry.ts:138-140 denies. Processes that
  register one repository at once make one record, because the id is derived;
  two can appear only if an identity changes or a project is removed beside
  another process (`blurred`).
* **Home**, on the home. Whatever first commands run side by side and wherever they die, the
  command that turns sync on has written the attributes before; only an import
  under way or cut off leaves a synced profile without them. The machine is known
  by one id, unless its file was lost or two first commands each minted one (the
  check and the creation of machine.json are two steps); a restore never makes it
  another machine. A profile's record is lost only to a command that could not
  read it (the loss that HomeUnread shows) or read it earlier, and to an import.
* **Store**, on calls. What a call said it recorded is there, or in the backup, unless it ran
  beside another call on the same record: reading anew for every call is what
  makes that so. It is lost, too, with a task file that could not be read and was taken for an
  empty one (StoreUnread). A decision disappears only under a header that was due before it
  was written. A migration takes nothing that its backup does not hold, except
  what was written after the copy.
* **Answers**, on questions. A term that fits two projects equally well is asked about, and what is
  offered instead tells projects apart whose repositories have different paths, of one path on
  two hosts it does not. The newest checkpoints, the feed
  and its page are the newest, up to as many unreadable files as are read in
  spare. The brief keeps the order of intents before tasks, newest first, and
  repeats nothing. The lists of the command, the tool, `status` and the overview
  agree where they mean to. A search finds what holds every term and highlights
  whole occurrences, also in a text cut short. The scan finds every repository
  within its depth, whatever links there are. Two ordinary URLs
  of one repository have one identity, those of two repositories have two; which URLs are not
  ordinary is said below. Checkouts are read as git would.
  What an agent gives for a checkpoint is read back from its Markdown, headings and
  bullets of code included, as long as the code is closed.
* **Answers**, on the plugin. A report is true if no call failed and nobody interfered. A user who
  follows doctor's advice comes to an end, whatever state failures, upgrades and
  other programs left behind, as long as `claude` is on the PATH.
* **Home**, on servers. What is imported is what the block of the configuration says, whatever
  includes and blocks stand around it, and no alias is imported twice except by
  two commands at once. No overlap of commands gives a target two deployments.
* **Store**, on files. Whatever fails, dies or loses power, a reader of a replaced file finds a
  whole value somebody wrote, only a value the directory's flush has not settled can be
  taken back, and a caller who gets an error has not replaced the file. A decision is
  read, under its title and with its own reason, on every machine it has come to,
  unless it shares its title with another or was appended to a line without a newline.

Four runs show behaviour that comments of the repository deny. `findings` in `PROJECT.json`
quotes the lines.

* **GitSyncJoin** checks `RemoteRecordsSurvive`. TLC's trace is a first join cut off between the
  reset and the checkout, after which the next sync publishes the deletion of all the
  remote's records.
* **HomeUnread** checks `UnreadProfileKept`. An `init` meets a profile.yaml that cannot be read
  (one with conflict markers, say), takes it for missing and writes a fresh one over it
  (workspace.ts:169-178), where store.ts:44-45 says that nothing deletes data it could not
  parse, and workspace.ts:139-142 that `init` may be run again without losing anything.
* **StoreUnread** checks `UnreadRecordKept`. A task is added while tasks.yaml cannot be read; the
  call takes it for empty (store.ts:148-152) and writes the one task over it, against
  store.ts:44-45 and what `doctor` tells its user (doctor.ts:179).
* **UrlForms** checks `OneIdentityInAnyForm`. The path of a URL is decoded (remote-url.ts:169),
  the path of `host:path` is not (:196): a repository with a percent-encoded character in its
  path has two identities, against remote-url.ts:4-6, "no matter which URL form".

`ProfileKept`, `AnsweredIsKept` and `OneIdentityPerRepository`, which the passing runs check, have
these cases as their exceptions, so that they say what holds besides.

Other disagreements between code and comments are visible in the models as the
exceptions that the passing properties make:

* A lock that vanished before `stat` counts as stale, and the lock another process
  has created since is removed (file-lock.ts:217, against auto-sync.ts:26-28; the
  cause "vanished" of `OverlapHasRootCause`). A stale lock whose removal keeps failing
  sends `acquire` round for ever (file-lock.ts:188-191 against :47-48; the hypothesis
  of `CallerServed`).
* Two SessionEnds that read the record before either claims it both write a
  checkpoint (handlers.ts:577 against :568-570; `SessionEndAfterClaim` speaks of one
  that reads after). A git read that overruns its 500 ms gets the verdict "nothing
  happened" (handlers.ts:566 against :532-534).
* A request made during the push is cleared by the outcome of that push
  (machine-local.ts:216 against :214-215; `missed` in `RequestKept`).
* `git rebase --abort` is a hard reset: a tracked record written after the rebase
  stopped is lost, with no death or failure (git-sync.ts:369 against :366, "Aborting
  loses nothing"; `swept`). So is one that a repair meets with (git-sync.ts:546).
* A sync that dies before its abort, or whose abort git refuses, leaves markers in the
  records, and no later sync takes them out (docs/multi-machine.md:367, "Local data
  stays readable"). HEAD is then the other machine's history, which a repair pins as
  its own side: "keep this machine" keeps the other's, and finishes the stopped rebase
  (git-sync.ts:504 against :480-481; `stranded`).
* A repair of two commits that conflict on different records asks about one, the
  other, and the first again (git-sync.ts:523 against :475; the hypothesis of
  `Convergence`).
* A project that adopts the id of a new remote keeps a tasks.yaml with the old id,
  and later tasks go to the old id's directory (store.ts:155 against
  registry.ts:290-293). Its checkpoints may stay under the old id
  (registry.ts:138-140).
* Two machines that record decisions of one title write one heading; the merge takes it
  once, the second marker falls into the first one's block, and the second decision is
  neither read nor reported (store.ts:428, 452 against docs/architecture/sync.md:35,
  "`merge=union` keeps both sides", and docs/data-model.md:171-172; `SharesTitle` in
  `DecisionsAreRead`). A heading in a reason that reads like a decision's title does the
  same (`Repeats`). Of two reasons that end alike one may lose its end.
* `appendDecision` does not look whether the file ends in a newline: after an edit that
  leaves the last line without one, the next heading goes on on that line and the
  decision is not read (store.ts:189 against :412, "everything else is yours to edit";
  `glued`).
* A block of code that a summary opens and does not close swallows the lists that follow
  (frontmatter.ts:96-98 against create.ts:129-131; `AllClose` in `CheckpointsReadBack`).
* A header of decisions.md is written over entries appended since it was found
  missing (store.ts:183-190 against "only ever appended"; `DecisionsGrow`).
* Within one block of an ssh configuration the last HostName wins, while the comment
  at ssh-config.ts:172 says that the first definition wins, as ssh has it; that
  holds between blocks only (`ImportedAsWritten` has the code's rule).
* A project's offer leaves the host out (resolve.ts:175-177), so that two projects of one path on
  two hosts, github.com/me/threads and gitlab.com/me/threads, are offered as the same text, where
  the comment above (164-169) wants them told apart (`TermAsks` compares offers of different
  paths only).
* A leading `scm` is stripped from paths on every host, not only on Bitbucket Server
  (remote-url.ts:253-256): on GitLab, `scm/tools/build` is taken for `tools/build`. And
  `org.visualstudio.com` over https stays a host of its own (:67, :246) while the same repository
  over ssh is one of dev.azure.com. Both are against remote-url.ts:4-13, and exceptions of
  `Ordinary` in `OneIdentityPerRepository`.
* A local path, offered to tell two projects of one name apart, does not resolve
  when typed back (`AsksRatherThanGuesses` compares what is offered, no more).
* A rename in the working tree only is counted, but its second field is taken for
  an entry (repo.ts:389; the exception of `ReadAsGitWould`).

Three more were met in code that the models abstract. `export` leaves out cache, logs,
backups and machine.json but not `local/`, so that a restored home inherits another
machine's sync state (export.ts:53-54). `task done`, `start`, `block` and `cancel` never
schedule a sync. A failed `marketplace add` after a removal leaves no marketplace
registered; the report says "failed", and running the command again mends it.

### Bounds

The rest of the state is finite by itself; these constants bound what is not:

* `MaxSweeps = 3`, `MaxMissingRetries = 1` (the code has 10): one sweep more than
  the retries a single caller has, so that the limit is reached, and one of them
  may hit another caller. The limit is only compared, so its value does not
  matter beyond being reached.
* `MaxPasses = 2` is the code's value. Two writers are enough for a request that
  lands in another's sync, and the manual sync adds a second sync that is not
  kept out by the lock. One death reaches every place a process can die in.
* SessionHooks: every event fires at most once, with one kill, and the two stories of
  MCSessionHooks are chosen for the hazards: two deliveries of each of two events while
  the repository changes; and every handler that updates the record without creating a
  checkpoint, with lock timeouts, pruning and registration. One move lets the repository
  differ from the last checkpoint or not, all that `Verdict` compares. The first story
  has no lock timeouts, pruning or registration: its properties are about orders and
  kills. The two deliveries of an event are alike, and the run uses that symmetry.
* GitSync: two machines, as every race is between one that pushes and one that
  has fetched; two records, as conflicts and adoption go by file and "another
  file" matters for a partial repair. `MaxEdits` is one for one machine and two
  for the other, including the write that `AdoptLocations` makes. One network failure
  before or after the remote accepted, and one interruption, each anywhere.
* Registry: `MaxMoves = 1` (a remote appears, disappears or is replaced once; all
  initial remotes of both clones are tried) and `MaxDeaths = 1` (one failure of a
  rename or one death, at any step). Two `add`s of one clone are the least an
  adoption needs, one before and one after the remote appears; the two other
  processes may be anything at any time. A project removed earlier may have left
  its checkpoints under either remote's id. The two `add`s, and the two remotes,
  are interchangeable, and the run uses that symmetry.

* Home, on profiles (`MCWorkspace`): three commands, one of which is an `init` (without it no home
  is made), one `profile create` or `sync init` and one of the other kinds, so that every pair
  that touches the same file occurs, and a third command meets what a pair left. Two profiles,
  because a config names one and a command another; they are interchangeable. One death or one
  damaged file; what is damaged can be mended. The archive of an import holds one synced profile,
  the case its attributes matter for.
* Store, on calls (`MCRecords`): a migration, a call that writes tasks or the project, one of any
  kind and one that writes the status or a decision or is another migration: every two kinds of
  calls occur together beside a migration, and two migrations beside a call. Records begin at
  either of the two versions the code knows; `MaxFaults` is one death, one spoilt file or one pull
  of a newer record.
* Answers, on questions: the sets in `MCReading` are chosen per question and named there. Lists have two
  projects, of every combination of names, aliases and repositories, or three without
  aliases; six moments are the corners of year, month, day and second at which comparison by path
  and by time can differ; limits go from zero to two with two spare files; texts have
  up to five letters of three kinds, a width of four cuts the longest; one task may be
  spaces alone; trees have four
  directories, one link, any repositories; listings of git up to three changes of
  seven kinds. Questions are independent of each other, so one question a behaviour
  loses nothing.
* Answers, on the plugin (`MCPlugin`): two versions (an upgrade), one failed, killed or
  interrupted command at any place, two changes or commands of the user's own in any order.
  Following doctor's advice is not bounded, or the question whether it ends would be empty.
* Home, on servers (`MCServers`): two ids, so that an alias can be registered twice;
  `MaxDeployments = 2` is one more than a target may have; `MaxIncludeDepth = 3` is the least with
  which a file can include one that includes it. The configurations hold what the parser tells
  apart: aliases twice in one file and in two, patterns, a Match, a bad port, settings before any
  Host, files that include each other; or there is none. The two commands are alike, and the run
  uses that symmetry.
* Store, on files (`MCStore`): three writes let a writer that was slow replace what two others wrote;
  two troubles are a death and a loss of power, or two losses. The rename is tried twice
  where the code tries eight times: the number is only compared. Three decisions: two of one
  title, two with reasons that end alike, one with a heading in its reason; with these
  reasons `Union` is what git makes of the file, which also takes longer common runs
  in the middle once.
* Answers, on documents: summaries of up to three lines of seven kinds, two lists with items
  of one line, of several, empty, with closed and unclosed code and with headings.

`CHECK_DEADLOCK FALSE` stands where every event, call or write happens once and
the system really comes to rest; a behaviour about a question rests after its one answer.

### Fairness

* `FileLock`: each caller keeps taking steps (`WF` of `CallerStep`: the event
  loop runs a continuation that is ready), and the clock reaches its deadline
  (`WF` of `DeadlinePasses`). Calls, crashes, sweeps and ageing are not promised.
  That removals of a lock file do not fail for ever is a hypothesis of
  `CallerServed`, not fairness: `acquire` has no exit from such a loop.
* `AutoSync`: a runner that has been started keeps running; that a record is
  written, a runner starts or `statenest sync` is typed is not promised.
* `GitSync`: a machine keeps being used, and every use ends in a sync (`WF` of
  `SyncStep`). A user who is told of a conflict repairs it sooner or later;
  between his attempts, syncs of the machine may take the conflict away for a
  while (an offline sync records no conflict), hence strong fairness of
  `RepairStep`. `Convergence` is stated for behaviours in which conflicts
  eventually stay away, since a repair of two conflicting commits need not end.
* `Plugin`: a command runs on, since each of its calls ends by its timeout. That the
  user runs the command doctor names whenever it names one is the hypothesis of the
  question asked, written as weak fairness of `FollowAdvice` and `Reinstall`; what the
  user does besides is not promised, and bounded. In `MCAnswers` the same fairness is stated for
  the behaviours about the plugin (`MayGo`).
* The other modules state no fairness and no liveness property: a hook or command may
  always be cut off, and a read is one step.

## 4. What is proved

Theorems hold for all values of the constants that satisfy the named assumption of each module
(`FileLockAssumption`, `AutoSyncAssumption`, `SessionHooksAssumption`, `RegistryAssumption`,
`WorkspaceAssumption`, `RecordsAssumption`, `FileAssumption`, `GitSyncAssumption`,
`BoundsAssumption`, `ServersAssumption`, `DecisionsAssumption`, `ReadingAssumption`, and those
that a value standing for "no file" or "nothing" is none of the things it is told apart from).
Most say which sets are disjoint or contained in which, and which bounds are natural numbers.
`ServersAssumption` says that a file is a finite sequence of lines, and a line one of words;
`DecisionsAssumption`, that a decision's reason is whole lines, of which none is a marker.
`ReadingAssumption` has a part for each kind of question, and each theorem names the part it
needs: a disk is finite, and a checkout as git leaves one (`ReadsOfDisks`); a project is listed
once, a profile has a name of its own (`AsksOfRecords`); a repository has a host and a path that
has been decoded, and its URL a form, some host and that path with what the host puts around it
(`UrlsOfRepositories`); the checkpoints of a project are finite, each with a moment of its own,
since the moment is the name of the file (`FilesOfProjects`); what a checkpoint names are lists,
and a task has a time (`BriefsOfProjects`); a list of projects is finite, and so is what the
dashboard counts of a profile (`CountsOfRecords`); and letters are no marks, a term has some, as
`tokenize` sees to, the width is not nothing, and a checkpoint has an age (`SearchesOfTexts`).

**LocalProofs**, on what the processes of one machine share. On the lock, for any number of
callers and processes:
`TypeCorrect`, `OverlapNeedsCause` (`OverlapHasRootCause`), `QueueSerialises`
(`SameProcessExclusion`) and `NoOrphanedLock` (`LockFileHasOwner`). The inductive
invariant `IInv` adds to `TypeOK`:

* `AtHead`: an advisory caller that runs is the head of its process's queue.
  Exclusion within a process follows, because a queue has one head;
* `OwnsFile`: until the first theft, the file exists and names whoever owns it.
  Two owners would both be its creator. It is conditional on `thefts`, since
  after a theft nothing of the kind holds;
* `ReleaseIsSecond`: a release robs somebody only when `OwnsFile` has already
  failed;
* `AcquiringOK`: retries are within their limit while a caller is retrying, and a
  caller about to remove the file has a verdict on it (both for types).

`LockFileHasOwner` is inductive given `TypeOK` and is proved beside it.

On the replacement of a file, for any number of writers, tries, writes, failures and losses of power:
`AtomicTypeCorrect`, and `Durable`, that `AtomicFile` implements `DurableFile`. Each writer has an
inode of its own (`OwnInode`, `NextIsFresh`) which is under no name before the rename
(`NotYetReplaced`) and is flushed before that (`WrittenThenFlushed`); so every entry the disk may
have for the name is whole (`EntriesWhole`), and a step of `AtomicFile` is a step of
`DurableFile` under the mapping or changes nothing it speaks of.

On automatic sync, for any set of writers, runners and manual syncs, any
`MaxPasses`, `MaxCrashes` and either value of `auto_push`: `SyncTypeCorrect`,
`RequestsSurvive` (`RequestKept`) and `HealthFollows` (`HealthIsLastOutcome`). The argument
for the second follows a sync. A record is in the
directory before it is asked for (`WroteFirst`). A runner past its commit has all
of them but those in `missed` (`CommitCaptured`). When its outcome is `synced`
every record is delivered or missed (`SyncedSettled`). A copy of the state
without a request, about to be written back, was read when nobody outside those
had asked (`CopyCurrent`). So the write that clears the flag clears it for nobody
else. All of these are needed because the flag, the copy and the three sets of
records are changed by different processes at different times. `HealthFollows` needs
only `CopyHealthy`: a request about to be written back carries the health of the last
outcome, because an outcome recorded meanwhile sets `overlapped`.

**SessionHooksProofs**, for any events of any kinds (so any number of deliveries of each),
any stories and any number of kills: `TypeCorrect`, `NoCompactionLost`, `FlagTrue`, `NoTurnLost`,
`ClaimHolds` and `RedeliveryIgnored`, one for each property of the run. `Paths` says what
a handler has at each of its steps. `SawUnclaimed`, that a SessionEnd past its first look saw a record
nobody had claimed. `RecordTrue` says of the record and of every copy of it that a flag or a
digest in it has its checkpoint, or its claimant. `CopyCurrent` is the heart of the rest: while
the lock is respected, a copy about to be written back is the record as it still is, because
whoever reads under the lock keeps it until it writes. From there `RecordRemembers` (an update
leaves its trace in the record: a record, a claim, the digest of some compaction that updated
it), `EndedFirst` (a SessionEnd that goes on came before every claim) and `CompactedAnew` (a
compaction that goes on though its digest had been recorded before it came found that another
had taken its place) carry the orders of deliveries the properties speak of.

**RegistryProofs**, for any clones, remotes and processes of any kinds, any number of
changes of remotes, failures and deaths: `TypeCorrect`, `IdsRemembered`, `DirsMatch`,
`NoHistoryLost` and `OneRecord`. That an id remembers its remote is not inductive on the
disk alone: `AllRemember` says it of every record in a process's memory and in its cached
list too, since any of them may be written back. `OneRecord` needs most. While nothing is
blurred, what a process has in memory is still on the disk under its id and with its
identity (`MemoryCurrent`); the random id it has yet to take is free (`IdFresh`); what
it did not see in the list of projects was created since, under the id its remote implies
(`SinceListed`), so that a process about to create the project of a remote finds it or is
first (`NoneMissed`); and a process that changes an identity, moves or removes a project is
alone (`Meet`: processes that overlap have met, and `blurred` is set otherwise), so that
nobody has the identity it takes (`NoneTaken`).

**WorkspaceProofs**, for any commands of any kinds on any profiles, with any number of deaths
and damaged files: `TypeCorrect`, `AttributesHold`, `OneMachine` and `ProfilesSafe`.
`AttributesFirst` says that a profile with sync on, or about to be saved or restored with it on,
has its .gitattributes, or an import that has yet to restore them or was cut off before.
`IdCurrent` says that the id a command is about to touch its machine with is the one in
machine.json, unless an id was displaced; `Touched`, that a command past its touch has left a
record of this machine; and `OneId`, that these records are all under that one id.

**RecordsProofs**, for any calls of any kinds and any number of migrations and faults:
`TypeCorrect`, `AnswersKept`, `DecisionsSafe` and `BackupSafe`. `Kept` says, of each call that
has answered and met no rival, that its change is in the file and in every copy about to be
written over it (`Held`), or in what a migration saved, or that the file was unreadable. It
is inductive because calls that rewrite the same record at the same time have met
(`RivalsMet`), so that an old copy can only lose the changes of calls that did meet; and
because a file a migration has yet to write holds nothing that is neither in its
backup nor `late` (`BackupCovers`).

`DecisionsRead`, in the same module, is the first half of `DecisionsReadBack`, `DecisionsAreRead`,
for any number of machines, decisions and lines of the user's. `Tidy` says of each file, and of
the shared one, that the marker of every decision recorded in it is there, that a heading is that of
such a decision or one that it repeats, and that a decision whose heading nothing repeats has its
marker on the next line, unless it was appended to a line without a newline. A block that begins so is
read (`TidyIsRead`). What is appended is tidy by itself (`RenderTidy`, `GluedTidy`, `NoteTidy`), and so
are two tidy files put together (`TidyJoined`). A merge cannot part a heading from its marker
(`MergePairs`): the lines both sides begin with would go on past the heading, since the marker
follows it in both, and the lines both end with would begin one earlier. `UnionIs` says where each line of a
merge comes from, `CommonHeadIs` and `CommonTailIs` what is taken once.

**GitSyncProofs**, for any number of machines, records, edits, network failures and cut-off syncs:
`TypeCorrect`, `NoSilentWinner` (`NoSilentLoss`), `LocalKept` (`NothingLocalLost`) and
`AddsToHistory`, that `GitSync` implements `SharedHistory`. It begins with what `Common` and
`Replay` compute on histories of any length: a replay begins with what it is replayed on
(`ReplayExtends`), comes to the branch itself when nothing is new (`ReplayInPlace`), and drops no
record that neither side had dropped (`ReplaySteady`). These are inductions over commits; the
library's induction theorems being out of reach, they are done by contradiction, from the least
number at which the claim fails (`Least`, `ReplayKeeps`). The invariant then says, of each
machine: no commit in its history is empty, and a rebase under way has put HEAD ahead, of what is
published, of the branch it replays (`InPlace`); nothing has left its branch, its files or a
rebase that may go on, unless somebody replaced it or a first join was cut off (`DropsNothing`,
`Gone`); and where a rebase has stopped, what HEAD has at an unmerged path is the other machine's
version or this one's (`Between`), the two a repair chooses from, so that the choice replaces all
that it drops.

`LocalKept` needs the other half: what a replay keeps of what people wrote. A replay carries
every version of the commits it replays (`ReplayCarries`), makes none up (`ReplayBrings`), and
leaves alone an untracked file that none of them writes (`ReplayLeaves`). `KeptInv` accounts for
every version ever made, and `MidRebase` says what HEAD and the index hold of them while a rebase
is stopped, so that `Continue` and `Abort` lose none; each action has a lemma that it keeps
them (`EditKeeps` to `ResolveKeeps`).

**OutsideProofs**, on other programs' files and settings: `ReportsAreTrue` (`ReportIsTrue`),
for any number of terminals, versions, failures and changes of the user's own; `OneDeployment`
(`OneDeploymentPerTarget`) and `Imported` (`ImportedAsWritten`), for any number of commands and
any configurations. `Known` says what is so of an undisturbed command at each of its steps: what
it saw of the plugin is still so, a marketplace about to be added is not there, a copy about to
be installed is not there either and will be this package's. That a removal of the marketplace
takes the copy with it (`NoCopyAlone`) holds of every state. `DeployInv` and `ImportInv` say of
the records what the properties say, and of each command that waits for the user that what it
has in hand came from the configuration, or is what it read. Most of `Imported` is about the parser: a
file is read line by line with a list of the hosts so far, and files include each other to a
depth. The library's induction theorems being out of reach, repetition is done once
(`Least`, `Counted`, `Iterated`, `Joined`): what each step keeps is kept to the end. A file then
yields, for the first block that names an alias, the last host name and port in it, and the file
ssh starts from comes before those it includes.

**ReadingProofs**, on what is only read: `ScanFinds` (`ScanFindsAll`), for any finite disk, with
links that loop or not; `ReadsTruly` (`ReadAsGitWould`), for any checkout and any list of changes;
`IdentitiesTell` (`OneIdentityPerRepository`), for any two ordinary URLs of any repositories;
`TermsAsk` (`AsksRatherThanGuesses`), for any projects, terms, profiles and pages;
`ListsTheNewest` (`NewestFirst`), for any histories, dates, limits, feeds and profiles;
`BriefsInOrder` (`BriefInOrder`), for any checkpoints and tasks of a project; `ListingsMatch`
(`ListingsAgree`), for any projects, filters and profiles; and `SearchFindsAll`
(`SearchMeansAll`), for any texts, terms, records and width of the terminal. The answer is
computed by an algorithm and the property says what it should be, so there is nothing inductive
about the states; what is inductive is inside the answer. The scan walks level by level, and after
each level has read exactly the directories that can be reached in so many steps, each once; the
reference is the set of reachable directories. The working tree is parsed with an index that skips
a field after a rename, and after each entry the counts are those of the changes so far. What
Azure and Bitbucket put around the path of a URL comes off in one way only (`PathIsRead`,
`IdentityIs`), also where the path was percent-encoded in a URL that is decoded; the URLs of which
this is false are named by `Ordinary`, and one of them is the counterexample of UrlForms. The
project a term gets is the one of the least rank (`RankMatches`, a tier and a distance in it); the
reference goes by what of a project the term names, and the proof shows that the ranks come in
that order.

The proofs about order rest on what ranks do: a finite set that is ordered is listed once and
from first to last (`InOrderIs`), and places of a sequence keep their order (`ThoseAre`,
`SortedIs`). Moments are such an order (`LaterOrders`), and a directory the walk does not enter is
older than what is asked for (`SkippedIsOlder`). If a list is short of its limit and still leaves a
file out, then more of the files that the walk took cannot be read than are taken in spare
(`CheckpointsAre`). A feed that is full and lacks a project has only rows as new as its newest
checkpoint (`RowsCrowd`); on the dashboard's page a row may have been cut from its
profile's feed or from the joined one, and both times what remains is as new (`RecentPageIs`). In a brief,
what `dedupe` keeps of a text is its first occurrence (`DedupeIs`), and of tasks sorted newest first
that is the newest one that says it (`FirstIsNewest`).

The proof about counts takes a sum of numbers for a number of pairs, which is how `Total` defines it
(`TotalIs`), so that two sums are equal when their pairs correspond one to one: a sum of sums is one
over pairs (`TotalOfTotals`), a set is as large as its parts by status together (`Parted`), and a
sum does not change when its values move to other places (`TotalMoved`). The rows of all profiles,
joined, have each project of each profile in one place of its own (`ProjectsPaged`), whatever the
profiles share; so the counts the overview adds up (`OverviewIs`) are those of the lists.

The search is proved part by part. The occurrences found of a term are apart from one another and
include one whenever the text has any (`OccurrencesAre`). Ranges, taken in order, are merged into
ranges that stay apart and cover the same letters (`Merges`, which every step of the loop keeps:
`MoreMerged`, `MergedAre`). Marks are put in from the last range back. What every step of that
keeps (`Spread`, `MoreSpread`) is that each letter has a place, that the places are in order, that
the letters before the ranges marked so far have not moved, and that a letter is bold exactly if
its range is done. A hit's score is that of the text times a factor of its record, so that of two
records with the same text the open task or the later checkpoint comes first (`OutranksByScore`,
`ByScoreIs`).

Every one of these invariants was checked by TLC on the component's run before it was
proved. Proving them showed places where the model was wrong: `OpenProfile` read
the configuration a second time, where the code keeps what it had read (`opens`); a
second migration beside the first had no backup of its own; a rebase went ahead over an
untracked file that only a replayed commit writes, which git refuses (`Writes`, compared with
git 2.39); a `BriefInOrder` that asked a brief to show a task of spaces alone, which tasks.yaml
may hold (schema.ts:238) and `dedupe` drops; and a reference that compared the starts of two
ids of different lengths as alike. (Ids of projects without a remote have ten letters after
their prefix, those derived from one have twelve, registry.ts:33-42; a start that fits one of
each is answered with the shorter, and `Alike` says so.) In each of these modules an
operator per action (`Stays`, `Saves`, `Turns` and the like) says once what the action does, from
its definition and the types; the invariant's parts are proved from those.

Only model-checked, and why:

* liveness (`CallerServed`, `BackgroundSyncEnds`, `Convergence`, `AdviceEnds`), which is out of the
  prover's reach;
* `CheckpointsReadBack`: what a parser reads of any text a writer renders is an induction over
  both;
* `ReasonsNotMixed`, the other half of `DecisionsReadBack`. `Union` compares the two sides and
  looks at their base only as a whole, where git compares each with the base line by line. The
  difference shows from four decisions on: `Union` can then repeat the end of a reason, which
  `git merge-file --union` takes once, and the property would be false of it. With the three
  decisions of the run it holds. `DecisionsRead`, too, is about merges as `Union` has them.

## 5. What is not modelled

* A git command is atomic: a process dies before or after it. A stopped rebase has no
  `origin/HEAD`, as in a repository made by `git init` and `git remote add` with git up
  to 2.47. A rebase, or `rebase --continue`, with an untracked file in its way is refused
  at once, not at the commit that writes the file. A sync that ends as `local-only` because a
  reset, a checkout, a staging or a commit failed (git-sync.ts:289-295, 309, 325) is not told
  apart from one cut off at that step: neither runs the rest, and both leave the same files
  and branches.
* In `FileLock`: any error of `stat` counts as stale in the code (file-lock.ts:217), in `Judge`
  only that of a file that is gone; and its `stat` and the reading of the stamp are one step.
  `SessionHooks` and `AutoSync` assume of the lock what `FileLock` shows of it, less the thefts
  of a live holder's lock (file-lock.ts:188-219): there `BreakLock` takes the lock of a holder that was
  cut off only. What such a theft allows, two updates at once, is what a lock timeout allows too
  (`ReadUnlocked`).
* The credential audit is a nondeterministic outcome of a sync. That it reads
  files before `git add` stages them is listed as a hazard without a property.
* `repair` gives up after `MAX_REPAIR_PASSES` commits. In the model there are
  fewer commits than that.
* `decisions.md` and `state.md` are not among the paths of `GitSync`, in which a record
  is one file and two changes of it conflict; the merges of decisions.md are in
  `Decisions`, where a sync is one step. Left out there are edits that change lines, rather than
  add one, a line of the user's that reads like the title of a decision, and a reason with a
  marker in it; and state.md altogether.
* In `Workspace`: the checks of an archive before it is unpacked, archives of one profile
  (`--profile-only`), and what a profile says besides its creator and its sync. A config.yaml
  that vanishes between `pathExists` and the read (workspace.ts:236), which no command but an import
  under way does, is there for both or neither.
* In `Records`: a record that parses as YAML but fails its schema, which the code migrates
  (migrate.ts:199-224) and the model leaves as unreadable; sync; the fields of a record; two
  migrations that begin in the same second, whose backups would go to one directory. In
  `AtomicFile`: the modes of files, and temporary files left behind by a death or a failed
  removal, which nothing reads.
* In `Recall`, `Dashboard` and `Discovery`: redaction, rendering, the HTTP checks of the
  dashboard, the lists of excluded names, what detect.ts makes of a directory.
* In `Discovery`: a percent-encoded slash, which would part a segment; the rule for the tilde of
  sr.ht.
* In `Recall`: two checkpoints of one project in one second, which the id at the end of the file's
  name puts in order. A project exactly as old as the limit of staleness, which `projects` lists
  (projects.ts:126) and `status` does not count (status.ts:36). In a brief the limits of the
  single lists (six, five and four; eight and six) are `CollectSlots` and `BriefMax`. In a search:
  how many checkpoints it reads of a project; that hits of one score are put newest first
  (search.ts:236), of which `ByScore` takes any order; and that of a decision the title is printed
  (search.ts:192-193), also where its reason matched, where `HitAt` has the text that matched.
* In `Plugin`: Claude Code itself is what install.ts expects of it. What is missing of the
  package is one thing, `files`: hook.js (install.ts:132), server.js (doctor.ts:300-304),
  hooks.json and .mcp.json (doctor.ts:345-356); the advice for each is a build or an installation
  of the package, which `Reinstall` makes of it. The recursive `rm` of
  `uninstall` (uninstall.ts:84) is one step.
* In `Servers`: globs in an Include, and the printing of hosts. An Include is read after the rest
  of its file, also where a Host follows it, so that what ssh would take from the included file
  first comes second; that is the code's rule, and `ImportedAsWritten` has it too.
  `deploy` reads the project and then the servers (remote.ts:245-246), in `StartDeploy` both at once.
* In `Registry`: other machines (their records arrive through git), linked
  worktrees, remotes without a stable identity, and the fields of a record other
  than its id, identities and locations. Sessions that still hold the id a project
  had before an adoption are not composed with it.
* `SessionStart`'s polling for a background refresh writes nothing and is left out,
  with the resume brief it renders and the notices it shows.
* In `Documents`: YAML, and the escapes of text; a line has the kind the parsers see.
* The condensation of summaries, wording, labels and layout.
* The components with status `not_modelled` in `PROJECT.json`, each with its
  reason.

## 6. Plan

Everything the inventory names as state or as an algorithm is modelled, and every safety
property of a module with state is proved, of `Decisions` its first half. Left, in this order:

1. **Composition**: the hooks of `SessionHooks` over a project that `Registry` renames;
   records of `Registry` that arrive from another machine.
2. **A merge by base** in `Decisions`: `Union` line by line against the base, as git has it; then
   `ReasonsNotMixed` for any number of decisions.
3. **A proof about a parser**: `CheckpointsReadBack`, with what has been read of the lines written
   so far as the invariant of both loops.

## 7. Running it

    tlc -config MCFileLock.cfg MCFileLock
    tlapm LocalProofs.tla

An operator whose comment begins with "Faulty" is a plausible bug in the
definition that follows it. No specification uses it; `PROJECT.json` lists, under
`mutants`, which definition it stands in for and which property then fails.
