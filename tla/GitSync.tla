------------------------------ MODULE GitSync -------------------------------
(***************************************************************************)
(* Multi-machine sync of one profile through a git remote:                 *)
(* src/sync/git-sync.ts, with the adoption seam of src/core/adoption.ts    *)
(* and the conflict that recordOutcome leaves for `statenest sync repair`. *)
(*                                                                         *)
(* A profile is a set of record files.  A commit is the tree of all of     *)
(* them, a branch the sequence of its trees, oldest first.  A tree maps    *)
(* every path to the version of the record there, named by the machine     *)
(* that wrote it and a number, or to Absent.  Conflicts are found per      *)
(* file: two different changes of one record always conflict.              *)
(*                                                                         *)
(* Every git command of a sync or repair is a step; commands that write    *)
(* records run between any two of them, and a sync may be cut off between  *)
(* any two.  A rebase that has stopped at a conflict leaves HEAD detached, *)
(* on what it has replayed, until it is continued or aborted.              *)
(***************************************************************************)
EXTENDS Naturals, Sequences, FiniteSets

CONSTANTS
  Machines,
  Paths,        \* the record files
  Located,      \* the project records, which list where each machine holds them
  Absent,       \* the version of a file that does not exist
  Marked,       \* the version of a file that holds both sides and conflict markers
  NoRebase, NoAnswers,
  MaxEdits,     \* bound: how many times each machine changes a record
  MaxFailures,  \* bound: how many times the network fails
  MaxCuts       \* bound: how many syncs are cut off

ASSUME GitSyncAssumption ==
  /\ Located \subseteq Paths
  /\ MaxEdits \in [Machines -> Nat]
  /\ MaxFailures \in Nat /\ MaxCuts \in Nat

Versions == [by : Machines, at : Nat]
ASSUME AbsentAssumption == Absent \notin Versions /\ Marked \notin Versions \cup {Absent}

Trees == [Paths -> Versions \cup {Absent, Marked}]
EmptyTree == [p \in Paths |-> Absent]
Rebases == [mine : Seq(Trees), at : Nat, unmerged : SUBSET Paths, index : Trees]
Answers == [mine : Trees, theirs : SUBSET Paths]
ASSUME NothingAssumption == NoRebase \notin Rebases /\ NoAnswers \notin Answers

VARIABLES
  remote,      \* the remote branch
  branch,      \* the history of each machine's HEAD: its local branch, unless ...
  rebase,      \* ... a rebase has stopped: the local branch, the number of the commit
               \* it stopped at, the unmerged paths, the index
  work,        \* each machine's working tree: the profile directory
  fetched,     \* origin/<branch>, as a length of the remote branch; 0: no such ref
  pc,          \* where each machine's sync is
  reachable,   \* whether this sync's fetch succeeded
  held,        \* project records whose locations adoption.capture holds
  answers,     \* what a repair took for the two sides, and the paths to take theirs for
  conflictAt,  \* the recorded conflict: conflict_remote_sha (0: null) ...
  conflicts,   \* ... and the paths listed with it
  edits,       \* changes of a record each machine has made
  failures,    \* network failures so far
  cuts,        \* syncs cut off so far
  made,        \* history: versions of records ever written
  replaced,    \* history: versions someone changed, deleted or decided against
  overlaid,    \* history: local versions a first join wrote the remote's over
  adoptionCut, \* history: a first join was cut off half-way
  swept,       \* history: local versions that an abort or a repair wrote over
  stranded     \* history: a machine was left in the middle of a rebase

syncVars == <<pc, reachable, held, answers>>
conflictVars == <<conflictAt, conflicts>>
historyVars == <<made, replaced, overlaid, adoptionCut, swept, stranded>>
vars == <<remote, branch, rebase, work, fetched, syncVars, conflictVars, edits, failures, cuts,
          historyVars>>

Steps == {"idle", "fetch", "adopt", "checkout", "restore", "commit", "rebase", "abort", "push",
          "resolve", "continue"}

TypeOK ==
  /\ remote \in Seq(Trees)
  /\ branch \in [Machines -> Seq(Trees)]
  /\ rebase \in [Machines -> Rebases \cup {NoRebase}]
  /\ answers \in [Machines -> Answers \cup {NoAnswers}]
  /\ work \in [Machines -> Trees]
  /\ fetched \in [Machines -> 0..Len(remote)]
  /\ pc \in [Machines -> Steps]
  /\ reachable \in [Machines -> BOOLEAN]
  /\ held \in [Machines -> SUBSET Located]
  /\ conflictAt \in [Machines -> 0..Len(remote)]
  /\ conflicts \in [Machines -> SUBSET Paths]
  /\ edits \in [Machines -> Nat]
  /\ failures \in 0..MaxFailures
  /\ cuts \in 0..MaxCuts
  /\ made \subseteq Paths \X Versions
  /\ replaced \subseteq Paths \X Versions
  /\ overlaid \subseteq Paths \X Versions
  /\ swept \subseteq Paths \X Versions
  /\ adoptionCut \in BOOLEAN /\ stranded \in BOOLEAN

Init ==
  /\ remote = <<>>
  /\ branch = [m \in Machines |-> <<>>]
  /\ rebase = [m \in Machines |-> NoRebase]
  /\ answers = [m \in Machines |-> NoAnswers]
  /\ work = [m \in Machines |-> EmptyTree]
  /\ fetched = [m \in Machines |-> 0]
  /\ pc = [m \in Machines |-> "idle"]
  /\ reachable = [m \in Machines |-> FALSE]
  /\ held = [m \in Machines |-> {}]
  /\ conflictAt = [m \in Machines |-> 0]
  /\ conflicts = [m \in Machines |-> {}]
  /\ edits = [m \in Machines |-> 0]
  /\ failures = 0 /\ cuts = 0
  /\ made = {} /\ replaced = {} /\ overlaid = {} /\ swept = {}
  /\ adoptionCut = FALSE /\ stranded = FALSE

(***************************************************************************)
(* Git                                                                     *)
(***************************************************************************)

Tip(history) == IF history = <<>> THEN EmptyTree ELSE history[Len(history)]
Origin(m) == SubSeq(remote, 1, fetched[m])
HasCommits(m) == branch[m] # <<>>
Rebasing(m) == rebase[m] # NoRebase

\* How many commits two histories have in common.
Common(s, t) ==
  CHOOSE n \in 0..Len(s) :
    /\ n <= Len(t) /\ SubSeq(s, 1, n) = SubSeq(t, 1, n)
    /\ n < Len(s) /\ n < Len(t) => s[n + 1] # t[n + 1]

\* Faulty: the two ends of the range are swapped.
Ahead(m) == Len(branch[m]) - Common(branch[m], Origin(m))

\* git rev-list --count HEAD..origin/<branch>
Behind(m) == fetched[m] - Common(branch[m], Origin(m))

\* The versions in the files of a tree at some paths.
At(tree, S) == {<<p, tree[p]>> : p \in {q \in S : tree[q] \notin {Absent, Marked}}}

Clash(parent, mine, tip) ==
  {p \in Paths : mine[p] # parent[p] /\ tip[p] # parent[p] /\ tip[p] # mine[p]}

\* A commit of ours replayed on `tip`.  Where both changed a file, it holds both
\* with markers; where one side deleted it, what the other has.
Merged(parent, mine, tip) ==
  [p \in Paths |->
     IF p \notin Clash(parent, mine, tip) THEN (IF mine[p] # parent[p] THEN mine[p] ELSE tip[p])
     ELSE IF Absent \in {mine[p], tip[p]} THEN (CHOOSE v \in {mine[p], tip[p]} : v # Absent)
     ELSE Marked]

\* Commit number i of ours replayed on `last`, unless that has clashed: the history so
\* far, the number reached, its clash, and the tree it gives.  A commit left with nothing
\* to change is dropped.
ReplayCommit(mine, i, last) ==
  LET parent == Tip(SubSeq(mine, 1, i - 1))
      clash == Clash(parent, mine[i], Tip(last.to))
      tree == Merged(parent, mine[i], Tip(last.to))
  IN IF last.clash # {} THEN last
     ELSE [to |-> IF clash # {} \/ tree = Tip(last.to) THEN last.to ELSE Append(last.to, tree),
           at |-> i, clash |-> clash, tree |-> tree]

\* Our commits, after number `from`, replayed one by one on `onto` until one clashes.
Replay(mine, from, onto) ==
  LET replay[i \in from..Len(mine)] ==
        IF i = from THEN [to |-> onto, at |-> i, clash |-> {}, tree |-> Tip(onto)]
        ELSE ReplayCommit(mine, i, replay[i - 1])
  IN replay[Len(mine)]

\* Faulty: a clash is settled in favour of this machine.
RebaseMine(m, onto) ==
  LET result == Replay(branch[m], Common(branch[m], onto), onto)
  IN IF result.clash = {} THEN result
     ELSE [result EXCEPT !.to = Append(@, Tip(branch[m])), !.clash = {}, !.tree = Tip(branch[m])]

Rebased(m, onto) == Replay(branch[m], Common(branch[m], onto), onto)

\* Faulty: a rebase starts whatever the working tree holds.
NeverBlocked(m, onto) == FALSE

\* A commit of ours after number `from`, up to number `to`, writes the file at p.
Writes(mine, from, to, p) ==
  \E i \in from + 1..to : mine[i][p] \notin {Absent, Tip(SubSeq(mine, 1, i - 1))[p]}

\* git refuses to rebase over uncommitted changes of tracked files, and over
\* untracked files that would be overwritten.
RebaseBlocked(m, onto) ==
  LET from == Common(branch[m], onto)
  IN \E p \in Paths :
       /\ work[m][p] # Tip(branch[m])[p]
       /\ Tip(branch[m])[p] = Absent =>
            /\ from < Len(onto)
            /\ Tip(onto)[p] # Absent \/ Writes(branch[m], from, Rebased(m, onto).at, p)

\* The working tree after a checkout of `tree` over `tracked`: untracked files stay.
CheckedOut(m, tracked, tree) ==
  [p \in Paths |-> IF tracked[p] = Absent /\ tree[p] = Absent THEN work[m][p] ELSE tree[p]]

\* A rebase of `mine` ran to its end, or stopped at a clash.
RunRebase(m, mine, tracked, result) ==
  /\ branch' = [branch EXCEPT ![m] = result.to]
  /\ work' = [work EXCEPT ![m] = CheckedOut(m, tracked, result.tree)]
  /\ rebase' = [rebase EXCEPT ![m] =
       IF result.clash = {} THEN NoRebase
       ELSE [mine |-> mine, at |-> result.at, unmerged |-> result.clash, index |-> result.tree]]

\* The files of a stopped rebase that somebody has written since.
Unstaged(m) == {p \in Paths : work[m][p] # rebase[m].index[p]}

\* An untracked file is where `tree` has one: git refuses to abort.
InTheWay(m, tree) == \E p \in Unstaged(m) : rebase[m].index[p] = Absent /\ tree[p] # Absent

\* git rebase --abort, a hard reset to the local branch.
AbortRebase(m) ==
  IF ~Rebasing(m) \/ InTheWay(m, Tip(rebase[m].mine)) THEN UNCHANGED <<branch, work, rebase, swept>>
  ELSE /\ branch' = [branch EXCEPT ![m] = rebase[m].mine]
       /\ work' = [work EXCEPT ![m] = CheckedOut(m, rebase[m].index, Tip(rebase[m].mine))]
       /\ rebase' = [rebase EXCEPT ![m] = NoRebase]
       /\ swept' = swept \cup (At(work[m], Unstaged(m)) \ At(work'[m], Paths))

(***************************************************************************)
(* Commands that change records                                            *)
(***************************************************************************)

NextVersion(m) == [by |-> m, at |-> edits[m] + 1]

Edit(m, p, version) ==
  /\ edits[m] < MaxEdits[m]
  /\ work' = [work EXCEPT ![m][p] = version]
  /\ edits' = [edits EXCEPT ![m] = @ + 1]
  /\ made' = made \cup At(work[m]', {p})
  /\ replaced' = replaced \cup At(work[m], {p})
  /\ UNCHANGED <<remote, branch, rebase, fetched, syncVars, conflictVars, failures, cuts,
                 overlaid, adoptionCut, swept, stranded>>

WriteRecord(m, p) == Edit(m, p, NextVersion(m))

DeleteRecord(m, p) == work[m][p] # Absent /\ Edit(m, p, Absent)

(***************************************************************************)
(* sync                                                                    *)
(***************************************************************************)

Goto(m, step) == pc' = [pc EXCEPT ![m] = step]

\* What a sync or repair holds in memory ends with it.
ForgetLocals(m) ==
  /\ reachable' = [reachable EXCEPT ![m] = FALSE]
  /\ answers' = [answers EXCEPT ![m] = NoAnswers]

\* recordOutcome records how a sync or repair went: a conflict with the remote
\* commit it was against and the paths it names, or no conflict (0, no paths).
Return(m, at, paths) ==
  /\ Goto(m, "idle")
  /\ ForgetLocals(m)
  /\ conflictAt' = [conflictAt EXCEPT ![m] = at]
  /\ conflicts' = [conflicts EXCEPT ![m] = paths]

FetchFails == failures < MaxFailures /\ failures' = failures + 1

\* The fetch succeeds, and a machine without commits joins; or it finds nobody,
\* and sync returns `offline`; or it is refused (there is no branch yet, or any
\* other failure), and sync goes on without it.  In a stopped rebase the branch
\* asked for is "HEAD", and its fetch moves no origin/<branch>.
Fetch(m) ==
  /\ pc[m] \in {"idle", "fetch"}
  /\ answers' = [answers EXCEPT ![m] = NoAnswers]
  /\ \/ /\ remote # <<>>
        /\ fetched' = IF Rebasing(m) THEN fetched ELSE [fetched EXCEPT ![m] = Len(remote)]
        /\ reachable' = [reachable EXCEPT ![m] = TRUE]
        /\ Goto(m, IF HasCommits(m) THEN "commit" ELSE "adopt")
        /\ UNCHANGED <<failures, conflictVars>>
     \/ /\ IF remote = <<>> THEN UNCHANGED failures ELSE FetchFails
        /\ reachable' = [reachable EXCEPT ![m] = FALSE]
        /\ Goto(m, "commit")
        /\ UNCHANGED <<fetched, conflictVars>>
     \/ FetchFails /\ Return(m, 0, {}) /\ UNCHANGED fetched
  /\ UNCHANGED <<remote, branch, rebase, work, held, edits, cuts, historyVars>>

\* adoption.capture, then `git reset --mixed`: the branch is the remote's, the
\* working tree is left alone.
AdoptHistory(m) ==
  /\ pc[m] = "adopt"
  /\ held' = [held EXCEPT ![m] = {p \in Located : work[m][p] # Absent}]
  /\ branch' = [branch EXCEPT ![m] = Origin(m)]
  /\ Goto(m, "checkout")
  /\ UNCHANGED <<remote, rebase, work, fetched, reachable, answers, conflictVars, edits,
                 failures, cuts, historyVars>>

\* `git checkout origin/<branch> -- .`: the remote's files are written, files
\* that exist only here stay.
AdoptFiles(m) ==
  /\ pc[m] = "checkout"
  /\ work' = [work EXCEPT ![m] = CheckedOut(m, Tip(branch[m]), Tip(branch[m]))]
  /\ overlaid' = overlaid \cup
       {v \in At(work[m], Paths) : Tip(branch[m])[v[1]] \notin {Absent, v[2]}}
  /\ Goto(m, "restore")
  /\ UNCHANGED <<remote, branch, rebase, fetched, reachable, held, answers, conflictVars, edits,
                 failures, cuts, made, replaced, adoptionCut, swept, stranded>>

\* adoption.restore: this machine's locations go into the remote's version of
\* the project records it held.  A joining machine is not in them yet.
AdoptLocations(m) ==
  /\ pc[m] = "restore"
  /\ LET Here == {p \in held[m] : Tip(branch[m])[p] # Absent} IN
       /\ work' = [work EXCEPT ![m] =
            [p \in Paths |-> IF p \in Here THEN NextVersion(m) ELSE @[p]]]
       /\ edits' = IF Here = {} THEN edits ELSE [edits EXCEPT ![m] = @ + 1]
       /\ made' = made \cup {<<p, NextVersion(m)>> : p \in Here}
       /\ replaced' = replaced \cup At(work[m], Here)
  /\ held' = [held EXCEPT ![m] = {}]
  /\ Goto(m, "commit")
  /\ UNCHANGED <<remote, branch, rebase, fetched, reachable, answers, conflictVars, failures,
                 cuts, overlaid, adoptionCut, swept, stranded>>

\* `git add --all` and `git commit` of whatever the profile directory holds.  To
\* git, adding an unmerged file resolves it, and the commit goes to HEAD.
Commit(m) ==
  /\ pc[m] = "commit"
  /\ branch' = IF work[m] = Tip(branch[m]) THEN branch
               ELSE [branch EXCEPT ![m] = Append(@, work[m])]
  /\ rebase' = IF ~Rebasing(m) THEN rebase
               ELSE [rebase EXCEPT ![m].unmerged = {}, ![m].index = work[m]]
  /\ Goto(m, "rebase")
  /\ UNCHANGED <<remote, work, fetched, reachable, held, answers, conflictVars, edits, failures,
                 cuts, historyVars>>

\* The rebase.  One that git refuses to start is reported as a conflict with no
\* paths; with HEAD for a branch there is no origin/<branch> to replay on.
Rebase(m) ==
  /\ pc[m] = "rebase"
  /\ LET due == reachable[m] /\ ~Rebasing(m) /\ Behind(m) > 0
         result == Rebased(m, Origin(m)) IN
       \/ /\ ~due
          /\ Goto(m, "push")
          /\ UNCHANGED <<branch, work, rebase, reachable, answers, conflictVars>>
       \/ /\ due /\ RebaseBlocked(m, Origin(m))
          /\ Return(m, fetched[m], {})
          /\ UNCHANGED <<branch, work, rebase>>
       \/ /\ due /\ ~RebaseBlocked(m, Origin(m))
          /\ RunRebase(m, branch[m], Tip(branch[m]), result)
          /\ Goto(m, IF result.clash = {} THEN "push" ELSE "abort")
          /\ UNCHANGED <<reachable, answers, conflictVars>>
  /\ UNCHANGED <<remote, fetched, held, edits, failures, cuts, historyVars>>

\* A command ends; the machine may still be in the middle of a rebase.
NoteStranded(m) == stranded' = (stranded \/ rebase'[m] # NoRebase)

\* The abort, if git does not refuse it, and the conflict that is reported.
Abort(m) ==
  /\ pc[m] = "abort"
  /\ AbortRebase(m)
  /\ NoteStranded(m)
  /\ Return(m, fetched[m], rebase[m].unmerged)
  /\ UNCHANGED <<remote, fetched, held, edits, failures, cuts, made, replaced,
                 overlaid, adoptionCut>>

\* Faulty: the push is forced.
PushAnyway(m) == TRUE

\* The remote accepts a branch that begins with everything it has; git does not
\* push a HEAD that is on no branch.
FastForward(m) ==
  ~Rebasing(m) /\ HasCommits(m) /\ Common(branch[m], remote) = Len(remote)

\* The push is accepted, or refused because another machine was first; or the
\* network fails, before or after the remote has taken the commits.
Push(m) ==
  /\ pc[m] = "push"
  /\ \/ /\ FastForward(m)
        /\ remote' = branch[m]
        /\ fetched' = [fetched EXCEPT ![m] = Len(branch[m])]
        /\ UNCHANGED failures
     \/ /\ ~FastForward(m)
        /\ UNCHANGED <<remote, fetched, failures>>
     \/ /\ FetchFails
        /\ \/ FastForward(m) /\ remote' = branch[m]
           \/ UNCHANGED remote
        /\ UNCHANGED fetched
  /\ Return(m, 0, {})
  /\ UNCHANGED <<branch, rebase, work, held, edits, cuts, historyVars>>

(***************************************************************************)
(* repair                                                                  *)
(***************************************************************************)

\* `statenest sync repair`: the user decides for each path listed with the
\* recorded conflict, keeping the other machine's version of `theirs`.  This
\* machine's side is what HEAD has, pinned before the rebase starts.
Repair(m, theirs) ==
  /\ pc[m] = "idle"
  /\ conflictAt[m] # 0
  /\ HasCommits(m)
  /\ answers' = [answers EXCEPT ![m] = [mine |-> Tip(branch[m]), theirs |-> theirs]]
  /\ LET onto == SubSeq(remote, 1, conflictAt[m])
         result == Rebased(m, onto)
     IN \/ /\ Rebasing(m) \/ RebaseBlocked(m, onto)
           /\ Goto(m, "resolve")
           /\ UNCHANGED <<branch, work, rebase>>
        \/ /\ ~Rebasing(m) /\ ~RebaseBlocked(m, onto)
           /\ RunRebase(m, branch[m], Tip(branch[m]), result)
           /\ Goto(m, IF result.clash = {} THEN "fetch" ELSE "resolve")
  /\ UNCHANGED <<remote, fetched, reachable, held, conflictVars, edits, failures, cuts,
                 historyVars>>

Unmerged(m) == IF Rebasing(m) THEN rebase[m].unmerged ELSE {}

\* One pass over the unmerged paths.  With none, the rebase could not start or
\* continue: it is aborted, and the recorded commit is lost.  A path without a
\* decision aborts it too, and replaces the list.  Otherwise every path gets the
\* version decided on.
Resolve(m) ==
  LET theirTree == remote[conflictAt[m]]
      Theirs == Unmerged(m) \cap answers[m].theirs
      decided(tree) == [p \in Paths |-> IF p \notin Unmerged(m) THEN tree[p]
                                        ELSE IF p \in Theirs THEN theirTree[p] ELSE answers[m].mine[p]]
  IN /\ pc[m] = "resolve"
     /\ \/ /\ Unmerged(m) = {} \/ ~(Unmerged(m) \subseteq conflicts[m])
           /\ AbortRebase(m)
           /\ NoteStranded(m)
           /\ Return(m, IF Unmerged(m) = {} THEN 0 ELSE conflictAt[m], Unmerged(m) \ conflicts[m])
           /\ UNCHANGED replaced
        \/ /\ Unmerged(m) # {} /\ Unmerged(m) \subseteq conflicts[m]
           /\ work' = [work EXCEPT ![m] = decided(work[m])]
           /\ rebase' = [rebase EXCEPT ![m].unmerged = {}, ![m].index = decided(rebase[m].index)]
           /\ replaced' = replaced \cup At(answers[m].mine, Theirs)
                                   \cup At(theirTree, Unmerged(m) \ Theirs)
           /\ swept' = swept \cup At(work[m], Unstaged(m) \cap Unmerged(m))
           /\ Goto(m, "continue")
           /\ UNCHANGED <<branch, reachable, answers, conflictVars, stranded>>
     /\ UNCHANGED <<remote, fetched, held, edits, failures, cuts,
                    made, overlaid, adoptionCut>>

\* git rebase --continue, which tracked files written in the meantime prevent, and
\* untracked ones that would be overwritten.
\* A repair that goes through continues with a sync.
Continue(m) ==
  LET head == IF rebase[m].index = Tip(branch[m]) THEN branch[m]
              ELSE Append(branch[m], rebase[m].index)
      result == Replay(rebase[m].mine, rebase[m].at, head)
      blocked == \E p \in Unstaged(m) :
                   rebase[m].index[p] # Absent \/ Writes(rebase[m].mine, rebase[m].at, result.at, p)
  IN /\ pc[m] = "continue"
     /\ \/ /\ blocked
           /\ Goto(m, "resolve")
           /\ UNCHANGED <<branch, work, rebase>>
        \/ /\ ~blocked
           /\ RunRebase(m, rebase[m].mine, rebase[m].index, result)
           /\ Goto(m, IF result.clash = {} THEN "fetch" ELSE "resolve")
     /\ UNCHANGED <<remote, fetched, reachable, held, answers, conflictVars, edits, failures,
                    cuts, historyVars>>

(***************************************************************************)
(* Specification                                                           *)
(***************************************************************************)

\* The process dies between two git commands.
CutOff(m) ==
  /\ pc[m] # "idle"
  /\ cuts < MaxCuts
  /\ cuts' = cuts + 1
  /\ Goto(m, "idle")
  /\ held' = [held EXCEPT ![m] = {}]
  /\ ForgetLocals(m)
  /\ adoptionCut' = (adoptionCut \/ pc[m] = "checkout")
  /\ stranded' = (stranded \/ Rebasing(m))
  /\ UNCHANGED <<remote, branch, rebase, work, fetched, conflictVars, edits, failures,
                 made, replaced, overlaid, swept>>

SyncStep(m) ==
  \/ Fetch(m)
  \/ AdoptHistory(m) \/ AdoptFiles(m) \/ AdoptLocations(m)
  \/ Commit(m) \/ Rebase(m) \/ Abort(m) \/ Push(m)
  \/ Resolve(m) \/ Continue(m)

RepairStep(m) == \E theirs \in SUBSET conflicts[m] : Repair(m, theirs)

Next ==
  \E m \in Machines :
    \/ SyncStep(m) \/ RepairStep(m) \/ CutOff(m)
    \/ \E p \in Paths : WriteRecord(m, p) \/ DeleteRecord(m, p)

\* Every machine keeps being used, and every use ends in a sync; a user told
\* of a conflict sooner or later repairs it.
Fairness ==
  \A m \in Machines : WF_vars(SyncStep(m)) /\ SF_vars(RepairStep(m))

Spec == Init /\ [][Next]_vars /\ Fairness

(***************************************************************************)
(* Properties                                                              *)
(***************************************************************************)

TreesOf(histories) == UNION {{h[i] : i \in 1..Len(h)} : h \in histories}

\* The versions of records in some trees.
In(trees) == UNION {At(tree, Paths) : tree \in trees}

\* What the remote once had at its tip, has no more, and nobody replaced.
Lost == In(TreesOf({remote})) \ (At(Tip(remote), Paths) \cup replaced)

\* A record that reached the remote leaves it only when someone who had it
\* changed it, deleted it, or decided against it in a repair.  No race between
\* machines, no failure and no interruption makes a "silent winner"
\* (docs/multi-machine.md:373), a first join cut off half-way excepted.  Nor do
\* the conflict markers of a rebase left half-way ever take the place of a record,
\* whatever a later sync stages and commits.
NoSilentLoss == ~adoptionCut => Lost = {}

\* Each machine's own branch, which a rebase under way has not moved yet.
OwnBranch(m) == IF Rebasing(m) THEN rebase[m].mine ELSE branch[m]

Histories == {remote} \cup {branch[m] : m \in Machines} \cup {OwnBranch(m) : m \in Machines}

\* git-sync.ts:265, 394: "Everything local is unaffected", "Nothing was lost".  A version written on a machine has been replaced deliberately, or it
\* is in a working tree, a branch or the remote, except where a first join put
\* the remote's version over it, where an abort or a repair wrote over it, or where a machine was
\* left in the middle of a rebase.
NothingLocalLost ==
  ~stranded =>
    made \subseteq replaced \cup overlaid \cup swept \cup
      In({work[m] : m \in Machines} \cup TreesOf(Histories))

\* The remote is a history that only grows, and a machine publishes only on top
\* of everything published before: a push never discards what another pushed.
Shared == INSTANCE SharedHistory WITH
  Entries <- Trees,
  history <- remote,
  known <- [m \in Machines |-> Common(OwnBranch(m), remote)]

OnlyEverAddsToHistory == Shared!Spec

\* If every conflict is eventually out of the way, and no machine is left in the
\* middle of a rebase, all machines end up with the records of the remote.
Convergence ==
  <>[](\A m \in Machines : conflictAt[m] = 0 /\ ~Rebasing(m)) =>
  <>[](\A m \in Machines : work[m] = Tip(remote))

\* git-sync.ts:280-282: a first join must not present "every remote project as a
\* local deletion" that the next commit makes "for every machine".
RemoteRecordsSurvive == Lost = {}
=============================================================================
