------------------------------- MODULE Plugin -------------------------------
(***************************************************************************)
(* Connecting StateNest to Claude Code (integrations/claude/install.ts)    *)
(* and taking it away again: `statenest integrate claude`, `integrate      *)
(* remove`, `uninstall` with its question about the data, and the checks   *)
(* of `statenest doctor` that name the command to run.                     *)
(*                                                                         *)
(* Claude Code owns the plugin: StateNest only calls its command line, one *)
(* call after another, and reads its files.  The plugin's marketplace is   *)
(* registered from this package ("here"), from another directory           *)
(* ("elsewhere") or not at all.  A call may fail, or be killed at its      *)
(* timeout after it did its work; a command may die between two calls;     *)
(* several commands may run at once.                                       *)
(***************************************************************************)
EXTENDS Naturals, FiniteSets

CONSTANTS
  Gone, Unknown, \* in place of a version: no copy of the plugin, a copy without a version
  Terminals,     \* where the user runs commands
  MaxVersion,    \* versions of the package: 1..MaxVersion
  MaxTrouble,    \* bound on calls that fail and commands that die
  MaxChanges     \* bound on what the user does of his own accord

ASSUME BoundsAssumption == MaxVersion \in Nat \ {0} /\ MaxTrouble \in Nat /\ MaxChanges \in Nat

OtherVersion == 0        \* what a marketplace elsewhere serves

VARIABLES
  package,       \* [files, version]: the package StateNest runs from
  claude,        \* [onPath, market, copy, enabled]: Claude Code's own records
  data,          \* is StateNest's home there?
  does,          \* what each terminal's command does next
  job,           \* the options of the command
  seen,          \* [enabled, outdated, home]: what the command read before it acted
  status,        \* what the command reports in the end
  undisturbed,   \* no call of the command failed, nothing else changed meanwhile
  trouble, changes

pluginVars == <<package, claude, data, does, job, seen, status, undisturbed, trouble, changes>>

\* The options of a command: of integrate (repair), of remove (purge), of
\* uninstall (integrationsOnly, all, yes), and whether it runs at a terminal.
NoJob == [kind |-> "none", repair |-> FALSE, purge |-> FALSE, only |-> FALSE,
          all |-> FALSE, yes |-> FALSE, interactive |-> FALSE]
Integrate(repair) == [NoJob EXCEPT !.kind = "integrate", !.repair = repair]
RemovePlugin(purge) == [NoJob EXCEPT !.kind = "remove", !.purge = purge]
Uninstalls == [kind : {"uninstall"}, repair : {FALSE}, purge : {TRUE}, only : BOOLEAN,
               all : BOOLEAN, yes : BOOLEAN, interactive : BOOLEAN]
UserCommands == {Integrate(TRUE), Integrate(FALSE), RemovePlugin(TRUE), RemovePlugin(FALSE)} \cup Uninstalls

NothingSeen == [enabled |-> FALSE, outdated |-> FALSE, home |-> FALSE]

PluginInit ==
  /\ package \in [files : {"missing", "unbuilt", "built"}, version : {1}]
  /\ claude = [onPath |-> TRUE, market |-> "none", copy |-> Gone, enabled |-> "absent"]
  /\ data = TRUE
  /\ does = [t \in Terminals |-> "idle"]
  /\ job = [t \in Terminals |-> NoJob]
  /\ seen = [t \in Terminals |-> NothingSeen]
  /\ status = [t \in Terminals |-> "none"]
  /\ undisturbed = [t \in Terminals |-> TRUE]
  /\ trouble = 0 /\ changes = 0

(***************************************************************************)
(* What is read: settings.json, installed_plugins.json and the manifest.   *)
(***************************************************************************)
IsPluginEnabled == claude.enabled = "yes"

\* A version that cannot be read is no version, never a wrong one.
Outdated == /\ claude.copy \notin {Gone, Unknown}
            /\ package.files # "missing"
            /\ claude.copy # package.version

\* Why an installation is not even begun, in the order of the checks.
Refusal ==
  CASE package.files = "missing" -> "plugin-dir-not-found"
    [] package.files = "unbuilt" -> "build-missing"
    [] package.files = "built" /\ ~claude.onPath -> "claude-not-found"
    [] OTHER -> "none"

\* Faulty variant of AlreadyInstalled: enabled is taken for up to date.
EnabledSuffices(s, j) == s.enabled /\ ~j.repair

AlreadyInstalled(s, j) == s.enabled /\ ~j.repair /\ ~s.outdated

\* Faulty variant of Reregisters: an upgrade keeps the registration.
ReregistersOnRepair(s, j) == j.repair

\* A repair or an upgrade takes the directory of this package.
Reregisters(s, j) == j.repair \/ s.outdated

(***************************************************************************)
(* The calls of Claude Code's command line.  Each gives what becomes of    *)
(* its records, and its answer; "already" counts as done.                  *)
(***************************************************************************)
Served == IF claude.market = "here" THEN package.version ELSE OtherVersion

MarketplaceRemove ==
  IF claude.market = "none" THEN [claude |-> claude, answer |-> "failed"]
  ELSE [claude |-> [claude EXCEPT !.market = "none", !.copy = Gone, !.enabled = "absent"],
        answer |-> "ok"]

MarketplaceAdd ==
  IF claude.market = "none" THEN [claude |-> [claude EXCEPT !.market = "here"], answer |-> "ok"]
  ELSE [claude |-> claude, answer |-> "already"]

PluginInstall ==
  IF claude.market = "none" THEN [claude |-> claude, answer |-> "failed"]
  ELSE IF claude.copy # Gone
       THEN [claude |-> [claude EXCEPT !.enabled = "yes"], answer |-> "already"]
  ELSE [claude |-> [claude EXCEPT !.copy = Served, !.enabled = "yes"], answer |-> "ok"]

PluginUninstall ==
  IF claude.copy = Gone THEN [claude |-> claude, answer |-> "failed"]
  ELSE [claude |-> [claude EXCEPT !.copy = Gone, !.enabled = "absent"], answer |-> "ok"]

\* A call goes as it should, or there is trouble: it fails with nothing done, or
\* is killed after 120 seconds with the work done.
RunClaude(call) ==
  {IF claude.onPath THEN [claude |-> call.claude, answer |-> call.answer, trouble |-> FALSE]
                    ELSE [claude |-> claude, answer |-> "failed", trouble |-> FALSE]}
  \cup (IF trouble < MaxTrouble /\ claude.onPath
        THEN {[claude |-> cl, answer |-> "failed", trouble |-> TRUE] : cl \in {claude, call.claude}}
        ELSE {})

(***************************************************************************)
(* The steps of the commands.                                              *)
(***************************************************************************)
\* Terminal t ends its command with a report, or goes on.
End(t, report) == does' = [does EXCEPT ![t] = "done"] /\ status' = [status EXCEPT ![t] = report]
GoOn(t, next) == does' = [does EXCEPT ![t] = next] /\ UNCHANGED status

\* What the commands of the others report may no longer be so.
DisturbOthers(t) == undisturbed' = [u \in Terminals |-> u = t /\ undisturbed[u]]

\* One call; `then` says how the command goes on after an answer.
Call(t, call, Then(_)) ==
  \E r \in RunClaude(call) :
    /\ claude' = r.claude
    /\ trouble' = IF r.trouble THEN trouble + 1 ELSE trouble
    /\ undisturbed' = [u \in Terminals |-> IF u = t THEN undisturbed[u] /\ ~r.trouble
                                           ELSE undisturbed[u] /\ r.claude = claude]
    /\ Then(r.answer)
    /\ UNCHANGED <<package, data, job, seen, changes>>

Start(t, command, at) ==
  /\ does[t] \in {"idle", "done"}
  /\ job' = [job EXCEPT ![t] = command]
  /\ does' = [does EXCEPT ![t] = at]
  /\ seen' = [seen EXCEPT ![t] = [NothingSeen EXCEPT !.home = data]]
  /\ status' = [status EXCEPT ![t] = "none"]
  /\ undisturbed' = [undisturbed EXCEPT ![t] = TRUE]

\* The user runs a command.
Run(t) ==
  /\ changes < MaxChanges /\ changes' = changes + 1
  /\ \E command \in UserCommands :
       Start(t, command, IF command.kind = "integrate" THEN "check" ELSE "removing")
  /\ UNCHANGED <<package, claude, data, trouble>>

CheckPackage(t) ==
  /\ does[t] = "check"
  /\ IF Refusal = "none" THEN GoOn(t, "look") ELSE End(t, Refusal)
  /\ UNCHANGED <<package, claude, data, job, seen, undisturbed, trouble, changes>>

\* isPluginEnabled, then both versions.
LookEnabled(t) ==
  /\ does[t] = "look"
  /\ seen' = [seen EXCEPT ![t].enabled = IsPluginEnabled]
  /\ GoOn(t, "compare")
  /\ UNCHANGED <<package, claude, data, job, undisturbed, trouble, changes>>

CompareVersions(t) ==
  LET s == [seen[t] EXCEPT !.outdated = Outdated]
  IN /\ does[t] = "compare"
     /\ seen' = [seen EXCEPT ![t] = s]
     /\ IF AlreadyInstalled(s, job[t]) THEN End(t, "already-installed")
        ELSE GoOn(t, IF Reregisters(s, job[t]) THEN "deregister" ELSE "register")
     /\ UNCHANGED <<package, claude, data, job, undisturbed, trouble, changes>>

\* The answer is ignored: there may be nothing to remove.
Deregister(t) ==
  /\ does[t] = "deregister"
  /\ Call(t, MarketplaceRemove, LAMBDA answer : GoOn(t, "register"))

Register(t) ==
  /\ does[t] = "register"
  /\ Call(t, MarketplaceAdd,
          LAMBDA answer : IF answer = "failed" THEN End(t, "failed") ELSE GoOn(t, "install"))

Install(t) ==
  /\ does[t] = "install"
  /\ Call(t, PluginInstall,
          LAMBDA answer : End(t, IF answer = "failed" THEN "failed"
                                 ELSE IF seen[t].enabled THEN "updated" ELSE "installed"))

\* What remove and uninstall have done to the plugin is kept until the end.
AfterPlugin(t, report) ==
  IF job[t].kind = "uninstall" /\ seen[t].home /\ ~job[t].only
  THEN does' = [does EXCEPT ![t] = "data"] /\ status' = [status EXCEPT ![t] = report]
  ELSE End(t, report)

UninstallPlugin(t) ==
  /\ does[t] = "removing"
  /\ IF ~claude.onPath
     THEN AfterPlugin(t, "nothing-to-remove")
          /\ UNCHANGED <<package, claude, data, job, seen, undisturbed, trouble, changes>>
     ELSE Call(t, PluginUninstall,
            LAMBDA answer :
              LET report == IF answer = "ok" THEN "removed" ELSE "not-removed"
              IN IF job[t].purge
                 THEN does' = [does EXCEPT ![t] = "purge"] /\ status' = [status EXCEPT ![t] = report]
                 ELSE AfterPlugin(t, report))

Purge(t) ==
  /\ does[t] = "purge"
  /\ Call(t, MarketplaceRemove, LAMBDA answer : AfterPlugin(t, status[t]))

\* The prompts: without a terminal, or without an answer, the default.
Select(j, answer) == IF j.yes \/ ~j.interactive THEN "keep" ELSE answer
Confirm(j, assumeYes, answer) ==
  IF assumeYes THEN TRUE ELSE IF ~j.interactive THEN FALSE ELSE answer

\* --all chooses to delete, --yes does not confirm it.
MayDelete(j, choice, answer) ==
  /\ j.all \/ Select(j, choice) = "delete"
  /\ Confirm(j, FALSE, answer)

AskAboutData(t) ==
  /\ does[t] = "data"
  /\ \E choice \in {"keep", "delete"}, answer \in BOOLEAN :
       /\ data' = (data /\ ~MayDelete(job[t], choice, answer))
       /\ IF data' = data THEN UNCHANGED undisturbed ELSE DisturbOthers(t)
       /\ End(t, status[t])
  /\ UNCHANGED <<package, claude, job, seen, trouble, changes>>

TerminalStep(t) ==
  \/ CheckPackage(t) \/ LookEnabled(t) \/ CompareVersions(t)
  \/ Deregister(t) \/ Register(t) \/ Install(t)
  \/ UninstallPlugin(t) \/ Purge(t) \/ AskAboutData(t)

\* A command is interrupted between two of its steps.
Interrupt(t) ==
  /\ trouble < MaxTrouble /\ trouble' = trouble + 1
  /\ does[t] \notin {"idle", "done"}
  /\ does' = [does EXCEPT ![t] = "idle"]
  /\ UNCHANGED <<package, claude, data, job, seen, status, undisturbed, changes>>

(***************************************************************************)
(* `statenest doctor`: the checks of the plugin that are not in order, by  *)
(* the command each names.  Without claude on the PATH there is a warning  *)
(* that names none.                                                        *)
(***************************************************************************)
ClaudeChecks ==
  IF package.files = "missing" THEN {"reinstall"}
  ELSE {fix \in {"build", "enable", "update"} :
          \/ fix = "build" /\ package.files = "unbuilt"
          \/ fix = "enable" /\ ~IsPluginEnabled
          \/ fix = "update" /\ IsPluginEnabled /\ Outdated}

\* The user runs what doctor names first: npm, or `statenest integrate claude`.
Reinstall(t) ==
  /\ does[t] \in {"idle", "done"} /\ ClaudeChecks \cap {"reinstall", "build"} # {}
  /\ package' = [package EXCEPT !.files = "built"]
  /\ DisturbOthers(t)
  /\ UNCHANGED <<claude, data, does, job, seen, status, trouble, changes>>

FollowAdvice(t) ==
  /\ ClaudeChecks # {} /\ ClaudeChecks \subseteq {"enable", "update"}
  /\ Start(t, Integrate(FALSE), "check")
  /\ UNCHANGED <<package, claude, data, trouble, changes>>

(***************************************************************************)
(* What the user does in Claude Code, to the package or to the data.       *)
(***************************************************************************)
Meddle ==
  /\ changes < MaxChanges /\ changes' = changes + 1
  /\ undisturbed' = [t \in Terminals |-> FALSE]
  /\ \/ claude.copy # Gone
        /\ claude' \in {[claude EXCEPT !.enabled = "no"], [claude EXCEPT !.copy = Unknown],
                       [claude EXCEPT !.copy = Gone, !.enabled = "absent"]}
        /\ UNCHANGED <<package, data>>
     \/ claude.market # "elsewhere"
        /\ claude' = [claude EXCEPT !.market = "elsewhere"] /\ UNCHANGED <<package, data>>
     \/ claude' = [claude EXCEPT !.onPath = ~claude.onPath] /\ UNCHANGED <<package, data>>
     \/ package.version < MaxVersion
        /\ package' \in [files : {"unbuilt", "built"}, version : {package.version + 1}]
        /\ UNCHANGED <<claude, data>>
     \/ data' = TRUE /\ ~data /\ UNCHANGED <<package, claude>>
  /\ UNCHANGED <<does, job, seen, status, trouble>>

PluginNext ==
  \/ Meddle
  \/ \E t \in Terminals : TerminalStep(t) \/ Run(t) \/ Interrupt(t)
                           \/ Reinstall(t) \/ FollowAdvice(t)

PluginSpec == PluginInit /\ [][PluginNext]_pluginVars

\* A command runs on: each of its calls ends by its timeout.  The second half is
\* no promise of the code but the question asked of doctor: what if the user runs
\* the command it names whenever it names one.
Fairness == \A t \in Terminals : WF_pluginVars(TerminalStep(t))
                                /\ WF_pluginVars(Reinstall(t)) /\ WF_pluginVars(FollowAdvice(t))
FairSpec == PluginSpec /\ Fairness

-----------------------------------------------------------------------------
(***************************************************************************)
(* The properties.                                                         *)
(***************************************************************************)
\* install.ts: what a command reports about the plugin is so, unless one of its
\* calls failed or somebody else changed something since it began.  Installed and
\* updated mean enabled; after an upgrade or a repair, with the version of this
\* package and registered from its directory; removed means no copy is left; and
\* StateNest's data is untouched but by an uninstall at a terminal.
ReportIsTrue ==
  \A t \in Terminals : does[t] = "done" /\ undisturbed[t] =>
    /\ status[t] \in {"installed", "updated", "already-installed"} =>
         /\ IsPluginEnabled
         /\ job[t].repair \/ seen[t].outdated =>
              claude.copy = package.version /\ claude.market = "here"
    /\ status[t] \in {"removed", "not-removed"} =>
         claude.copy = Gone /\ (job[t].purge => claude.market = "none")
    /\ seen[t].home /\ ~data => job[t].kind = "uninstall" /\ job[t].interactive

\* doctor.ts:36-40: doctor turns "it isn't working" into a command to run.  If the
\* user runs the commands it names, it comes to an end: as long as claude is on
\* the PATH, doctor has nothing more to say about the plugin.
AdviceEnds == <>[](claude.onPath => ClaudeChecks = {})
=============================================================================
