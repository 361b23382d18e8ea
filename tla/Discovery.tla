----------------------------- MODULE Discovery -----------------------------
(***************************************************************************)
(* How StateNest finds repositories and reads them, as functions of what   *)
(* is on the disk: the scan of a directory tree (discovery/scanner.ts),    *)
(* the identity of a remote URL (git/remote-url.ts), and the branch,       *)
(* commit, remote and working tree of a checkout (git/repo.ts).            *)
(*                                                                         *)
(* A directory is a node of a tree with links; a path is the sequence of   *)
(* its segments; a URL is the parts the parser takes it apart into.        *)
(***************************************************************************)
EXTENDS Naturals, SequencesExt, FiniteSetsExt

CONSTANTS
  Absent,       \* no value
  HostAliases,  \* the other names of a host
  AzureHosts,   \* the hosts with the path rules of Azure
  Decoded       \* what the segments with percent-encoded characters mean

(***************************************************************************)
(* The scan.  disk is [dirs, inside, links, excluded, repos, marked,       *)
(* closed]: the directories, what each lies inside of, the links to        *)
(* directories as pairs, the directories of an excluded name, those with a *)
(* .git, those with a project file, and those that cannot be read.         *)
(* options is [maxDepth, nested, includeNonGit].                           *)
(***************************************************************************)
\* A link is followed whatever the directory it leads to is called.
Entries(disk, d) ==
  {e \in disk.dirs : disk.inside[e] = d \/ <<d, e>> \in disk.links}
Pruned(disk, d) ==
  {e \in disk.dirs : disk.inside[e] = d /\ e \in disk.excluded /\ <<d, e>> \notin disk.links}

IsCandidate(disk, d, options) ==
  /\ d \notin disk.closed
  /\ d \in disk.repos \/ (options.includeNonGit /\ d \in disk.marked)

Children(disk, d, depth, options) ==
  IF \/ d \in disk.closed \/ depth >= options.maxDepth
     \/ d \in disk.repos /\ ~options.nested
  THEN {} ELSE Entries(disk, d) \ Pruned(disk, d)

\* Faulty variant of Claimed: a directory counts as seen before its name is looked at.
ClaimedEarly(disk, frontier, children) == UNION {Entries(disk, d) : d \in frontier}

\* The directories a level claims, by their real path.
Claimed(disk, frontier, children) == children

\* The walk, level by level: the directories of a level, all claimed so far, and how
\* many have been visited.
ScanLevels(disk, roots, options) ==
  LET level[depth \in 0..(options.maxDepth + 1)] ==
        IF depth = 0
        THEN [frontier |-> roots, claimed |-> roots, visited |-> Cardinality(roots)]
        ELSE LET above == level[depth - 1]
                 children == UNION {Children(disk, d, depth - 1, options) : d \in above.frontier}
                 frontier == children \ above.claimed
             IN [frontier |-> frontier,
                 claimed |-> above.claimed \cup Claimed(disk, above.frontier, children),
                 visited |-> above.visited + Cardinality(frontier)]
  IN level

ScanForProjects(disk, roots, options) ==
  LET levels == ScanLevels(disk, roots, options)
      visited == UNION {levels[depth].frontier : depth \in DOMAIN levels}
  IN [candidates |-> {d \in visited : IsCandidate(disk, d, options)},
      directoriesVisited |-> levels[options.maxDepth + 1].visited,
      permissionErrors |-> Cardinality(visited \cap disk.closed)]

(***************************************************************************)
(* The identity of a remote.  url is [form, scheme, host, path]: a URL     *)
(* with a scheme, host:path as scp has it, or a path of the disk; and the  *)
(* segments of its path.  User, password, port, letter case, a suffix .git *)
(* and needless slashes are dropped by the parser.                         *)
(***************************************************************************)
NormalizeScheme(scheme) ==
  CASE scheme \in {"ssh", "git+ssh", "ssh+git"} -> "ssh"
    [] scheme \in {"https", "git+https"} -> "https"
    [] scheme \in {"http", "git+http"} -> "http"
    [] scheme \in {"git", "file"} -> scheme
    [] OTHER -> "unknown"

DecodedPath(path) ==
  [i \in DOMAIN path |-> IF path[i] \in DOMAIN Decoded THEN Decoded[path[i]] ELSE path[i]]

\* Only a URL with a scheme is decoded.
ParseRemote(url) ==
  [scheme |-> CASE url.form = "scheme" -> NormalizeScheme(url.scheme)
                [] url.form = "scp" -> "ssh"
                [] url.form = "path" -> "local",
   host |-> url.host,
   path |-> IF url.form = "scheme" THEN DecodedPath(url.path) ELSE url.path]

CanonicalHost(host) == IF host \in DOMAIN HostAliases THEN HostAliases[host] ELSE host

WithoutFirst(path, segment) ==
  IF Len(path) > 1 /\ path[1] = segment THEN Tail(path) ELSE path

WithoutInner(path, segment) ==
  LET inner == {i \in 2..(Len(path) - 1) : path[i] = segment}
  IN IF inner = {} THEN path ELSE RemoveAt(path, Min(inner))

\* Faulty variant of CanonicalPath: the rules of Azure are left out.
CanonicalPathPlain(host, path) == WithoutFirst(path, "scm")

CanonicalPath(host, path) ==
  LET azure == WithoutInner(WithoutInner(WithoutFirst(path, "v3"), "_git"), "_optimized")
  IN WithoutFirst(IF host \in AzureHosts THEN azure ELSE path, "scm")

NormalizeRemoteUrl(url) ==
  LET parsed == ParseRemote(url)
      host == CanonicalHost(parsed.host)
      path == CanonicalPath(host, parsed.path)
  IN IF parsed.scheme \in {"local", "file"}
     THEN [identity |-> <<"local:">> \o parsed.path, stableAcrossMachines |-> FALSE]
     ELSE IF host = Absent \/ path = <<>> THEN Absent
     ELSE [identity |-> <<host>> \o path, stableAcrossMachines |-> TRUE]

RemoteIdentity(url) ==
  IF NormalizeRemoteUrl(url) = Absent THEN Absent ELSE NormalizeRemoteUrl(url).identity
SameRepository(a, b) ==
  RemoteIdentity(a) # Absent /\ RemoteIdentity(a) = RemoteIdentity(b)

(***************************************************************************)
(* The branch, commit and remote of a checkout, read from its files.       *)
(* A checkout is [kind, head, own, common]: the repository itself, a       *)
(* linked worktree or a submodule; what its HEAD says, [ref] or [sha]; its *)
(* own git directory and the one it shares, each [loose, packed, remotes]. *)
(***************************************************************************)
\* A .git file points at <common>/worktrees/<name> or <parent>/modules/<name>.
IsWorktree(checkout) == checkout.kind = "worktree"
CommonGitDir(checkout) == IF IsWorktree(checkout) THEN checkout.common ELSE checkout.own

\* Faulty variant of FirstFound: a packed ref is preferred to a newer loose one.
PackedFound(loose, packed) == IF packed # Absent THEN packed ELSE loose

FirstFound(loose, packed) == IF loose # Absent THEN loose ELSE packed

ResolveHead(checkout) ==
  LET common == CommonGitDir(checkout)
      ref == checkout.head.ref
      loose == FirstFound(checkout.own.loose[ref], common.loose[ref])
  IN CASE checkout.head = Absent -> [branch |-> Absent, head |-> Absent]
       [] checkout.head # Absent /\ checkout.head.ref = Absent ->
            [branch |-> Absent, head |-> checkout.head.sha]
       [] OTHER -> [branch |-> ref, head |-> FirstFound(loose, common.packed[ref])]

\* remotes are [name, url] in the order of the config, each name once.
PrimaryRemote(remotes) ==
  LET known == {i \in DOMAIN remotes : RemoteIdentity(remotes[i].url) # Absent}
      origins == {i \in known : remotes[i].name = "origin"}
  IN IF known = {} THEN Absent
     ELSE RemoteIdentity(remotes[Min(IF origins # {} THEN origins ELSE known)].url)

ReadRepoFast(checkout) ==
  [isWorktree |-> IsWorktree(checkout), branch |-> ResolveHead(checkout).branch,
   head |-> ResolveHead(checkout).head,
   primaryRemote |-> PrimaryRemote(CommonGitDir(checkout).remotes)]

(***************************************************************************)
(* The working tree.  The output of git status -z is a sequence of fields: *)
(* [x, y, path], and after a rename the original path, a field of its own. *)
(* Read as a status such a path has letters for x and y.                   *)
(***************************************************************************)
Renames == {"R", "C"}
Unchanged == {" ", "?"}

Step(field) == IF field.x \in Renames THEN 2 ELSE 1

\* What has been read of the fields, and which of them is a status next.
ParsePorcelainStatus(fields, limit) ==
  LET parsed[i \in 0..Len(fields)] ==
        IF i = 0 THEN [entries |-> <<>>, due |-> 1]
        ELSE LET before == parsed[i - 1]
             IN IF i # before.due THEN before
                ELSE [entries |-> Append(before.entries, fields[i]), due |-> i + Step(fields[i])]
      entries == parsed[Len(fields)].entries
      counted(P(_)) == Cardinality({i \in DOMAIN entries : P(entries[i])})
      untracked(e) == e.x = "?" /\ e.y = "?"
  IN [dirty |-> entries # <<>>,
      stagedCount |-> counted(LAMBDA e : ~untracked(e) /\ e.x \notin Unchanged),
      modifiedCount |-> counted(LAMBDA e : ~untracked(e) /\ e.y \notin Unchanged),
      untrackedCount |-> counted(untracked),
      changedFiles |-> [i \in 1..Min({limit, Len(entries)}) |-> entries[i].path]]
=============================================================================
