------------------------------ MODULE Servers -------------------------------
(***************************************************************************)
(* The servers a user deploys to and which project is deployed where:      *)
(* `statenest remote` and `statenest deploy` (cli/commands/remote.ts), and *)
(* the reading of ~/.ssh/config they import from (remotes/ssh-config.ts).  *)
(*                                                                         *)
(* A configuration file is a sequence of lines [key, words]; an alias with *)
(* a wildcard is a member of Patterns.  Commands overlap: each reads what  *)
(* it needs, may wait for the user, and then writes whole records.         *)
(***************************************************************************)
EXTENDS Naturals, SequencesExt, FiniteSetsExt

CONSTANTS
  Commands,            \* the commands that run, each for itself
  Projects, Environments,
  Terms, Inside(_, _), \* what users type for a server; is a term part of a name?
  SshConfigs, Main,    \* the files there may be, by path, and the first one read
  Patterns, BadPorts,  \* aliases with * ? or !, ports that are no port
  ByHand,              \* what `remote add` may be given: sets of [name, alias]
  ProdWords, FromProd, ToProd, StageWords, DevWords,  \* words of an alias, see below
  WordsOf(_),          \* the words of an alias, between its dashes
  None,
  MaxIncludeDepth,     \* how deep Include is followed
  Ids,                 \* random ids; as many servers can be registered
  MaxDeployments       \* bound on the deployments of a project

\* A file is a sequence of lines, and a line has a sequence of words.
ConfigsAreFiles ==
  /\ MaxIncludeDepth \in Nat
  /\ \A all \in SshConfigs : \A path \in DOMAIN all :
       /\ all[path] \in Seq(Range(all[path]))
       /\ \A line \in Range(all[path]) : line.words \in Seq(Range(line.words))

ASSUME ServersAssumption == ConfigsAreFiles

VARIABLES
  sshFiles,      \* the ssh configuration: path -> lines
  remotes,       \* the servers registered
  projects,      \* each project's deployments
  doing, local,  \* what each command does next, and what it has read
  ids,           \* the ids not handed out yet
  overlapped     \* aliases registered while an import held them for unregistered

serversVars == <<sshFiles, remotes, projects, doing, local, ids, overlapped>>

Nothing == [kind |-> "nothing"]
ServersInit ==
  /\ sshFiles \in SshConfigs
  /\ remotes = {} /\ ids = Ids /\ overlapped = {}
  /\ projects = [p \in Projects |-> <<>>]
  /\ doing = [c \in Commands |-> "idle"]
  /\ local = [c \in Commands |-> Nothing]

(***************************************************************************)
(* Reading the configuration.                                              *)
(***************************************************************************)
CredentialKeys == {"identityfile", "proxycommand"}

Candidate(alias, path) ==
  [alias |-> alias, hostname |-> None, user |-> None, port |-> None, source |-> path,
   isPattern |-> alias \in Patterns, usesIdentityFile |-> FALSE]

Flush(parsed) == [candidates |-> parsed.candidates \o parsed.current, current |-> <<>>]

Under(parsed, Set(_)) ==
  [parsed EXCEPT !.current = [i \in DOMAIN @ |-> Set(@[i])]]

\* Faulty variant of EndsBlock: what stands under a Match goes to the Host before.
HostEndsBlock(line) == line.key = "host"

\* Match blocks are conditional: nothing under one belongs to a host.
EndsBlock(line) == line.key \in {"host", "match"}

ParseLine(parsed, line, path) ==
  LET before == IF EndsBlock(line) THEN Flush(parsed) ELSE parsed
      word == line.words[1]
  IN CASE line.key = "host" ->
            [before EXCEPT !.current = [i \in DOMAIN line.words |-> Candidate(line.words[i], path)]]
       [] line.key \in CredentialKeys ->
            Under(before, LAMBDA c : [c EXCEPT !.usesIdentityFile = TRUE])
       [] line.key = "hostname" -> Under(before, LAMBDA c : [c EXCEPT !.hostname = word])
       [] line.key = "user" -> Under(before, LAMBDA c : [c EXCEPT !.user = word])
       [] line.key = "port" /\ word \notin BadPorts ->
            Under(before, LAMBDA c : [c EXCEPT !.port = word])
       [] OTHER -> before

ParseSshConfig(lines, path) ==
  LET parsed[i \in 0..Len(lines)] ==
        IF i = 0 THEN [candidates |-> <<>>, current |-> <<>>]
        ELSE ParseLine(parsed[i - 1], lines[i], path)
  IN Flush(parsed[Len(lines)]).candidates

\* A sequence without the elements in a set.
Without(s, set) == FlattenSeq([i \in DOMAIN s |-> IF s[i] \in set THEN <<>> ELSE <<s[i]>>])

\* The files named by Include, globs left alone.
ExtractIncludes(lines) ==
  Without(FlattenSeq([i \in DOMAIN lines |->
                        IF lines[i].key = "include" THEN lines[i].words ELSE <<>>]),
          Patterns)

\* What was read before and the file an Include names, if there is one; read is what
\* each file gives after those that were seen.
WithIncluded(all, before, include, read) ==
  IF include \notin DOMAIN all THEN before
  ELSE LET inner == read[include][before.seen]
       IN [candidates |-> before.candidates \o inner.candidates, seen |-> inner.seen]

WithIncludes(all, alone, includes, read) ==
  LET sofar[n \in 0..Len(includes)] ==
        IF n = 0 THEN alone ELSE WithIncluded(all, sofar[n - 1], includes[n], read)
  IN sofar[Len(includes)]

\* No file is read twice, whatever includes it.
ReadFiles(all, follow, read) ==
  [path \in DOMAIN all |-> [seen \in SUBSET DOMAIN all |->
     IF path \in seen THEN [candidates |-> <<>>, seen |-> seen]
     ELSE LET alone == [candidates |-> ParseSshConfig(all[path], path), seen |-> seen \cup {path}]
          IN IF follow THEN WithIncludes(all, alone, ExtractIncludes(all[path]), read) ELSE alone]]

\* What the files give from a path on, in the order they are read; left is how deep
\* Include is still followed.
ReadConfigFile(all, path, follow) ==
  LET read[left \in 0..MaxIncludeDepth] ==
        IF left = 0 THEN ReadFiles(all, FALSE, <<>>) ELSE ReadFiles(all, follow, read[left - 1])
  IN IF path \in DOMAIN all THEN read[MaxIncludeDepth][path][{}].candidates ELSE <<>>

\* The hosts worth offering: no patterns, the first definition of each alias.
UsableHosts(candidates) ==
  {candidates[i] : i \in {j \in DOMAIN candidates :
     /\ ~candidates[j].isPattern
     /\ \A k \in 1..(j - 1) : candidates[k].isPattern \/ candidates[k].alias # candidates[j].alias}}

\* The environment an alias suggests, production before anything else: a word for
\* it, or a word that begins or ends with "prod" next to a dash.
GuessEnvironment(alias) ==
  LET words == WordsOf(alias)
      has(set) == Range(words) \cap set # {}
  IN IF \/ has(ProdWords)
        \/ \E i \in DOMAIN words : i > 1 /\ words[i] \in FromProd
        \/ \E i \in DOMAIN words : i < Len(words) /\ words[i] \in ToProd THEN "production"
     ELSE IF has(StageWords) THEN "staging"
     ELSE IF has(DevWords) THEN "development" ELSE "other"

(***************************************************************************)
(* The server a term means.                                                *)
(***************************************************************************)
Exact(term) == {r \in remotes : term \in {r.id, r.name, r.alias}}
Partial(term) == {r \in remotes : Inside(term, r.name) \/ Inside(term, r.alias)}

\* One that is named exactly, or else the only one the term is part of.
ResolveRemote(term) ==
  IF Cardinality(Exact(term)) = 1 THEN Exact(term)
  ELSE IF Cardinality(Partial(term)) = 1 THEN Partial(term) ELSE {}

(***************************************************************************)
(* statenest remote.                                                       *)
(***************************************************************************)
Turn(c, next, read) == doing' = [doing EXCEPT ![c] = next] /\ local' = [local EXCEPT ![c] = read]
Idle(c) == doing[c] = "idle"
Ends(c) == Turn(c, "idle", Nothing)

\* The aliases command c is to choose from or to save.
Pending(c) == IF doing[c] \in {"choosing", "saving"}
              THEN {h.alias : h \in local[c].hosts} ELSE {}

SaveRemote(c, remote) ==
  /\ remotes' = remotes \cup {remote}
  /\ ids' = ids \ {remote.id}
  /\ overlapped' = overlapped \cup
       ({remote.alias} \cap UNION {Pending(d) : d \in Commands \ {c}})

AddRemote(c) ==
  /\ Idle(c)
  /\ \E given \in ByHand, id \in ids :
       /\ given.alias # None \/ given.host # None
       /\ SaveRemote(c, [id |-> id, name |-> given.name, alias |-> given.alias,
                         host |-> given.host, port |-> None,
                         environment |-> "production", source |-> None])
  /\ UNCHANGED <<sshFiles, projects, doing, local>>

StartRemove(c) ==
  /\ Idle(c)
  /\ \E term \in Terms : \E r \in ResolveRemote(term) :
       Turn(c, "removing", [kind |-> "remove", remote |-> r.id])
  /\ UNCHANGED <<sshFiles, remotes, projects, ids, overlapped>>

\* The deployments that name it stay.
DeleteRemote(c) ==
  /\ doing[c] = "removing" /\ Ends(c)
  /\ remotes' = {r \in remotes : r.id # local[c].remote}
  /\ UNCHANGED <<sshFiles, projects, ids, overlapped>>

FreshHosts(hosts) == {h \in hosts : h.alias \notin {r.alias : r \in remotes}}

StartImport(c) ==
  /\ Idle(c)
  /\ \E follow \in BOOLEAN :
       LET fresh == FreshHosts(UsableHosts(ReadConfigFile(sshFiles, Main, follow)))
       IN fresh # {} /\ Turn(c, "choosing", [kind |-> "import", hosts |-> fresh])
  /\ UNCHANGED <<sshFiles, remotes, projects, ids, overlapped>>

\* Nothing is ticked beforehand; --yes takes them all.
Choose(c) ==
  /\ doing[c] = "choosing"
  /\ \E chosen \in SUBSET local[c].hosts :
       IF chosen = {} THEN Ends(c) ELSE Turn(c, "saving", [local[c] EXCEPT !.hosts = chosen])
  /\ UNCHANGED <<sshFiles, remotes, projects, ids, overlapped>>

\* One file after another, in any order here.
SaveImported(c) ==
  /\ doing[c] = "saving"
  /\ \E h \in local[c].hosts, id \in ids :
       /\ SaveRemote(c, [id |-> id, name |-> h.alias, alias |-> h.alias, host |-> h.hostname,
                         port |-> h.port, environment |-> GuessEnvironment(h.alias),
                         source |-> h.source])
       /\ IF local[c].hosts = {h} THEN Ends(c)
          ELSE Turn(c, "saving", [local[c] EXCEPT !.hosts = @ \ {h}])
  /\ UNCHANGED <<sshFiles, projects>>

(***************************************************************************)
(* statenest deploy.                                                       *)
(***************************************************************************)
StartDeploy(c) ==
  /\ Idle(c)
  /\ \E p \in Projects, term \in Terms, environment \in Environments \cup {None},
       kind \in {"add", "remove"} :
       \E r \in ResolveRemote(term) :
         /\ kind = "add" => environment # None /\ Len(projects[p]) < MaxDeployments
         /\ Turn(c, "deploying", [kind |-> kind, project |-> p, deployments |-> projects[p],
                                  remote |-> r.id, environment |-> environment])
  /\ UNCHANGED <<sshFiles, remotes, projects, ids, overlapped>>

\* Faulty variant of Others: recorded twice, a target stands twice.
OthersAll(deployments, remote, environment) == deployments

Others(deployments, remote, environment) ==
  Without(deployments, {[remote |-> remote, environment |-> environment]})

\* Removed from one environment, or from the server altogether.
Remaining(deployments, remote, environment) ==
  Without(deployments, {d \in Range(deployments) :
                          d.remote = remote /\ environment \in {None, d.environment}})

\* The whole record is saved, from the copy that was read.
SaveDeployments(c) ==
  LET l == local[c]
      target == [remote |-> l.remote, environment |-> l.environment]
  IN /\ doing[c] = "deploying" /\ Ends(c)
     /\ projects' = [projects EXCEPT ![l.project] =
          IF l.kind = "add"
          THEN Append(Others(l.deployments, l.remote, l.environment), target)
          ELSE LET left == Remaining(l.deployments, l.remote, l.environment)
               IN IF left = l.deployments THEN @ ELSE left]
     /\ UNCHANGED <<sshFiles, remotes, ids, overlapped>>

CommandDies(c) ==
  /\ ~Idle(c) /\ Ends(c)
  /\ UNCHANGED <<sshFiles, remotes, projects, ids, overlapped>>

ServersStep(c) ==
  \/ AddRemote(c) \/ StartRemove(c) \/ DeleteRemote(c)
  \/ StartImport(c) \/ Choose(c) \/ SaveImported(c)
  \/ StartDeploy(c) \/ SaveDeployments(c) \/ CommandDies(c)

ServersNext == \E c \in Commands : ServersStep(c)
ServersSpec == ServersInit /\ [][ServersNext]_serversVars

-----------------------------------------------------------------------------
(***************************************************************************)
(* The properties.                                                         *)
(***************************************************************************)
\* The Host lines of a file that name an alias; the lines of its block, which is the
\* first of them's; what the block says of a key, which its last line of that key says.
Named(lines, alias) ==
  {i \in DOMAIN lines : lines[i].key = "host" /\ alias \in Range(lines[i].words)}

Block(lines, alias) ==
  {i \in DOMAIN lines : LET first == Min(Named(lines, alias))
                        IN first < i /\ \A j \in first + 1..i : lines[j].key \notin {"host", "match"}}

Saying(lines, alias, key) ==
  {i \in Block(lines, alias) :
     lines[i].key = key /\ (key = "port" => lines[i].words[1] \notin BadPorts)}

Given(lines, alias, key) ==
  LET at == Saying(lines, alias, key) IN IF at = {} THEN None ELSE lines[Max(at)].words[1]

\* ssh-config.ts: what is registered of an imported host is what its block says.
\* The block is the first of its file that names the alias and goes on to the next
\* Host or Match; the last line of a key counts; the file is the one ssh starts
\* from if that has the alias.  No pattern is registered, and an alias is imported
\* a second time only if it was registered while an import was under way.
ImportedAsWritten ==
  LET imported == {r \in remotes : r.source # None}
  IN /\ \A r \in imported :
          /\ r.alias \notin Patterns
          /\ Named(sshFiles[Main], r.alias) # {} => r.source = Main
          /\ r.host = Given(sshFiles[r.source], r.alias, "hostname")
          /\ r.port = Given(sshFiles[r.source], r.alias, "port")
     /\ \A r, q \in imported : r.alias = q.alias => r = q \/ r.alias \in overlapped

\* remote.ts:247-248: "One deployment per (server, environment) pair", and none on
\* a server that was never registered, whatever commands overlap.
OneDeploymentPerTarget ==
  \A p \in Projects : /\ IsInjective(projects[p])
                      /\ \A d \in Range(projects[p]) : d.remote \notin ids
=============================================================================
