------------------------------ MODULE Reading ------------------------------
(***************************************************************************)
(* The commands, tools and pages that only read: each asks one question of *)
(* the records or of the disk and gets the answer that Recall, Dashboard,  *)
(* Discovery and Documents define.  A property compares the answer with a  *)
(* reference of its own, for every question of the given sets.             *)
(***************************************************************************)
EXTENDS Dashboard, Discovery, Documents

CONSTANTS
  ProjectLists, Terms,              \* for a term: lists of projects, and the terms
  Histories, Sinces, Limits,        \* for the newest checkpoints: files, moments, limits
  Briefs,                           \* for a brief: project, files and tasks
  Feeds,                            \* for the feed: sets of projects
  ViewLists, Requests,              \* for the dashboard: the profiles shown, the requests
  Portfolios, Filters,              \* for the lists of projects
  SearchTexts, Queries, Collections,     \* for a search: texts, terms, items
  Width,                            \* how much of a text is printed
  Disks, RootSets, ScanOptions,     \* for a scan
  Repositories, Forms, Url(_, _),   \* the URL a repository is served at in each form
  Checkouts,                        \* for the state of a repository
  Trees,                            \* for a working tree: the changes git reports
  Contents                          \* for a checkpoint: what an agent gives

\* What is on a disk is finite; git keeps the branches of a worktree in the directory it
\* shares, a config as it was parsed has each remote once, and "??" is one status.
ReadsOfDisks ==
  /\ \A disk \in Disks : IsFiniteSet(disk.dirs)
  /\ \A roots \in RootSets : IsFiniteSet(roots)
  /\ \A options \in ScanOptions : options.maxDepth \in Nat
  /\ \A c \in Checkouts :
       /\ c.head # Absent
       /\ c.kind = "worktree" /\ c.head.ref # Absent => c.own.loose[c.head.ref] = Absent
       /\ \A dir \in {c.own, c.common} :
            /\ dir.remotes \in Seq(Range(dir.remotes))
            /\ \A i, j \in DOMAIN dir.remotes : dir.remotes[i].name = dir.remotes[j].name => i = j
  /\ \A changes \in Trees : /\ changes \in Seq(Range(changes))
                            /\ \A c \in Range(changes) : (c.x = "?") = (c.y = "?")

\* Every project is listed once, and a profile has a name of its own.  The start of an id
\* leaves something out; and what else a project is told apart by is no repository's path.
AsksOfRecords ==
  /\ \A projects \in ProjectLists : projects \in Seq(Range(projects)) /\ IsInjective(projects)
  /\ \A projects \in ProjectLists, term \in Terms : \A p \in Range(projects) :
       /\ \A text \in {p.id, p.name} \cup p.aliases \cup RepoTexts(p) : Near(text, term) \in 0..Equal
       /\ Extra(p.id, term) \in Nat \ {0} /\ Extra(p.name, term) \in Nat
       /\ \A q \in Range(projects) : p.repo # None /\ q.repo = None => ProjectQualifier(q) # p.repo.path
  /\ \A views \in ViewLists :
       /\ views \in Seq(Range(views))
       /\ \A i, j \in DOMAIN views : views[i].name = views[j].name => i = j

\* A repository is a host and a path; Azure has an organisation, a project and a repository,
\* whose names do not begin with an underscore.  A URL under a name of the host has the path
\* with what the host puts around it, percent-encoded or not.
IdentityOf(r) == <<r.host>> \o r.path
NamesOf(host) == {host} \cup {name \in DOMAIN HostAliases : HostAliases[name] = host}
PathsOf(r) ==
  IF r.host \in AzureHosts
  THEN {r.path, <<"v3">> \o r.path, <<r.path[1], r.path[2], "_git", r.path[3]>>}
  ELSE {r.path, <<"scm">> \o r.path}
UrlsOfRepositories ==
  \A r \in Repositories :
    /\ r = [host |-> r.host, path |-> r.path]
    /\ r.path \in Seq(Range(r.path)) /\ Len(r.path) > 0
    /\ r.host \in AzureHosts => Len(r.path) = 3 /\ r.path[2] \notin {"_git", "_optimized"}
    /\ r.host \notin DOMAIN HostAliases
    /\ Absent \notin {r.host, IdentityOf(r), [identity |-> IdentityOf(r), stableAcrossMachines |-> TRUE]}
    /\ \A form \in Forms :
         LET url == Url(r, form)
         IN /\ url.form \in {"scheme", "scp"} /\ ParseRemote(url).scheme \notin {"local", "file"}
            /\ url.path \in Seq(Range(url.path))
            /\ url.host \in NamesOf(r.host) => DecodedPath(url.path) \in PathsOf(r)

\* The checkpoints of a project are finite, and each file has a moment of its own; so are
\* the projects of a profile and of a feed.
Dated(files) ==
  /\ IsFiniteSet(files)
  /\ \A f \in files : f.at \in Moment
  /\ \A f, g \in files : f.at = g.at => f = g
Followed(projects) ==
  /\ IsFiniteSet(projects)
  /\ \A p \in projects : Dated(p.files) /\ p.active \in Moment \cup {None}
FilesOfProjects ==
  /\ Spare \in Nat /\ RecentPageSize \in Nat /\ Limits \subseteq Nat
  /\ None \notin Moment /\ Sinces \subseteq Moment \cup {None}
  /\ \A files \in Histories : Dated(files)
  /\ \A projects \in Feeds : Followed(projects)
  /\ \A views \in ViewLists : /\ views \in Seq(Range(views))
                              /\ \A v \in Range(views) : Followed(v.projects)

\* What a checkpoint and a project name are lists, and a task was last changed at a time.
BriefsOfProjects ==
  /\ CollectSlots \in Nat /\ BriefMax \in Nat
  /\ \A b \in Briefs :
       /\ Dated(b.files)
       /\ b.project.blockers \in Seq(Range(b.project.blockers))
       /\ \A f \in b.files : f.next \in Seq(Range(f.next)) /\ f.blockers \in Seq(Range(f.blockers))
       /\ b.tasks \in Seq(Range(b.tasks)) /\ \A t \in Range(b.tasks) : t.updated \in Nat

\* A list of projects is finite, and so is what the dashboard counts of a profile; a filter
\* has at most one status, and a request says what it is for.
CountsOfRecords ==
  /\ \A projects \in Portfolios :
       /\ IsFiniteSet(projects)
       /\ \A p \in projects : {p.active, p.checkpointed, p.seen} \subseteq Moment \cup {None}
  /\ \A filter \in Filters : /\ filter.stale \in Moment \cup {None} /\ None \notin filter.statuses
                            /\ \A s, t \in filter.statuses : s = t
  /\ \A request \in Requests : {"method", "path"} \subseteq DOMAIN request
  /\ \A views \in ViewLists : \A v \in Range(views) :
       /\ IsFiniteSet(v.machines) /\ IsFiniteSet(v.servers)
       /\ \A p \in v.projects : IsFiniteSet(p.deployments)

\* A text is of letters, a term has some, and a checkpoint has an age; a match and a hit
\* are something.
SearchedTexts == SearchTexts \cup UNION {UNION {Range(item.texts) : item \in items} : items \in Collections}
SearchesOfTexts ==
  /\ Width \in Nat \ {0}
  /\ \A text \in SearchedTexts : text \in Seq(Range(text)) /\ Range(text) \cap {Bold, Plain} = {}
  /\ \A terms \in Queries :
       /\ terms \in Seq(Range(terms))
       /\ \A term \in Range(terms) : term \in Seq(Range(term)) /\ term # <<>>
  /\ \A items \in Collections :
       /\ IsFiniteSet(items) /\ None \notin [item : items, text : SearchedTexts, score : Nat]
       /\ \A item \in items :
            /\ item.texts \in Seq(Range(item.texts))
            /\ item.scope \in {"project", "state", "task", "decision", "remote", "checkpoint"}
            /\ item.scope = "checkpoint" => item.age \in 1..4
  /\ None \notin [score : Nat, highlights : Seq(Nat \X Nat)]

ASSUME ReadingAssumption ==
  /\ ReadsOfDisks /\ AsksOfRecords /\ UrlsOfRepositories
  /\ FilesOfProjects /\ BriefsOfProjects /\ CountsOfRecords /\ SearchesOfTexts

VARIABLES asked, answer
vars == <<asked, answer>>

Nothing == [kind |-> "nothing"]
Init == asked = Nothing /\ answer = Nothing

Idle == asked = Nothing
Ask(question, reply) == asked' = question /\ answer' = reply

AskProject ==
  Idle /\ \E projects \in ProjectLists, term \in Terms :
            Ask([kind |-> "project", projects |-> projects, term |-> term],
                ResolveOrThrow(projects, term))

AskCheckpoints ==
  Idle /\ \E files \in Histories, since \in Sinces, limit \in Limits :
            Ask([kind |-> "checkpoints", files |-> files, since |-> since, limit |-> limit],
                ListCheckpoints(files, since, limit))

AskRecent ==
  Idle /\ \E projects \in Feeds, since \in Sinces, limit \in Limits \ {0} :
            Ask([kind |-> "recent", projects |-> projects, since |-> since, limit |-> limit],
                BuildRecent(projects, since, limit))

AskBrief ==
  Idle /\ \E b \in Briefs, limit \in Limits :
            Ask([kind |-> "brief", of |-> b, limit |-> limit],
                BuildResumeBrief(b.project, b.files, b.tasks, limit))

\* The tool is asked for one status, or for none.
StatusOf(filter) == IF filter.statuses = {} THEN None ELSE CHOOSE s \in filter.statuses : TRUE

AskProjects ==
  Idle /\ \E projects \in Portfolios, filter \in Filters :
            Ask([kind |-> "projects", projects |-> projects, filter |-> filter],
                [command |-> FilterProjects(projects, filter),
                 tool |-> ToolListProjects(projects, StatusOf(filter), filter.stale)])

AskStatus ==
  Idle /\ \E projects \in Portfolios, before \in {f.stale : f \in Filters} \ {None} :
            Ask([kind |-> "status", projects |-> projects, stale |-> before],
                [report |-> StatusReport(projects, before),
                 review |-> FilterProjects(projects, [statuses |-> {}, all |-> FALSE, stale |-> before,
                                                      deployed |-> FALSE, dirty |-> FALSE])])

AskText ==
  Idle /\ \E text \in SearchTexts, terms \in Queries \ {<<>>} :
            Ask([kind |-> "text", text |-> text, terms |-> terms], MatchText(text, terms))

\* A hit as the command prints it.
AskPrinted ==
  Idle /\ \E text \in SearchTexts, terms \in Queries \ {<<>>} :
            /\ MatchText(text, terms) # None
            /\ LET ranges == MatchText(text, terms).highlights
               IN Ask([kind |-> "printed", text |-> text, ranges |-> ranges],
                      Highlight(text, ranges, Width))

AskSearch ==
  Idle /\ \E items \in Collections, terms \in Queries, limit \in Limits \ {0} :
            Ask([kind |-> "search", items |-> items, terms |-> terms, limit |-> limit],
                Search(items, terms, limit))

AskScan ==
  Idle /\ \E disk \in Disks, roots \in RootSets, options \in ScanOptions :
            Ask([kind |-> "scan", disk |-> disk, roots |-> roots, options |-> options],
                ScanForProjects(disk, roots, options))

AskSame ==
  Idle /\ \E a, b \in Repositories, f, g \in Forms :
            Ask([kind |-> "same", repositories |-> <<a, b>>, urls |-> <<Url(a, f), Url(b, g)>>],
                SameRepository(Url(a, f), Url(b, g)))

AskCheckout ==
  Idle /\ \E checkout \in Checkouts :
            Ask([kind |-> "checkout", of |-> checkout], ReadRepoFast(checkout))

AskPage ==
  Idle /\ \E views \in ViewLists, request \in Requests :
            Ask([kind |-> "page", views |-> views, request |-> request, path |-> request.path],
                Handle(views, request))

\* A path that was a field of its own: git prints one after each rename.
Original == [x |-> "o", y |-> "l", path |-> "original"]
PorcelainOf(changes) ==
  FlattenSeq([i \in DOMAIN changes |->
                IF {changes[i].x, changes[i].y} \cap Renames # {}
                THEN <<changes[i], Original>> ELSE <<changes[i]>>])

AskTree ==
  Idle /\ \E changes \in Trees, limit \in Limits :
            Ask([kind |-> "tree", changes |-> changes, limit |-> limit],
                ParsePorcelainStatus(PorcelainOf(changes), limit))

\* A checkpoint as it was written; the fields above its body are lines of their own.
AskDocument ==
  Idle /\ \E content \in Contents :
            Ask([kind |-> "document", content |-> content],
                ReadCheckpointFile(SerializeFrontmatter(RenderCheckpointBody(content))))

Next == \/ AskProject \/ AskCheckpoints \/ AskRecent \/ AskBrief \/ AskProjects \/ AskStatus \/ AskText
        \/ AskPrinted \/ AskSearch \/ AskScan \/ AskSame \/ AskCheckout \/ AskTree \/ AskPage
        \/ AskDocument

Spec == Init /\ [][Next]_vars

-----------------------------------------------------------------------------
(***************************************************************************)
(* The properties.                                                         *)
(***************************************************************************)
\* How exactly a term names a project: by its id, the start of its id, its name, an alias
\* or its repository.
NamedBy(p, term, i) ==
  \/ i = 1 /\ Near(p.id, term) = Equal
  \/ i = 2 /\ Near(p.id, term) = StartsText /\ term \in LongTerms
  \/ i = 3 /\ Near(p.name, term) = Equal
  \/ i = 4 /\ Closest(p.aliases, term) = Equal
  \/ i = 5 /\ Closest(RepoTexts(p), term) = Equal
Exactness(p, term) == Min({6} \cup {i \in 1..5 : NamedBy(p, term, i)})

\* Whether two projects lie alike to it.  An id whose start is given has as many letters
\* more as the other: those of local projects are two letters shorter than the others.
Alike(p, q, term) ==
  /\ Near(p.id, term) = Near(q.id, term)
  /\ Near(p.id, term) = StartsText => Extra(p.id, term) = Extra(q.id, term)
  /\ Near(p.name, term) = Near(q.name, term) /\ Near(p.name, term) # Scattered
  /\ Closest(p.aliases, term) = Closest(q.aliases, term)
  /\ Closest(RepoName(p), term) = Closest(RepoName(q), term)
  /\ Closest(RepoPath(p), term) = Closest(RepoPath(q), term)

\* On the dashboard (server.ts:202-204) an id two profiles have is never answered "from
\* whichever happened to be searched first".
PageAsks ==
  asked.kind = "page" /\ answer.status \in {200, 404, 409} /\ asked.path = "project" =>
    LET having == {v \in Range(asked.views) : \E p \in v.projects : p.id = asked.request.id}
        asking == IF asked.request.profile = None THEN having
                  ELSE {v \in having : v.name = asked.request.profile}
    IN IF Cardinality(asking) = 1
       THEN /\ answer.status = 200 /\ answer.body.project.id = asked.request.id
            /\ \E v \in asking : v.name = answer.body.profile /\ answer.body.project \in v.projects
       ELSE answer.status # 200

\* A project is only answered with when no other is named as exactly and none lies alike
\* to the term; one that alone is named most exactly is never asked about; and what is
\* offered instead of an ambiguous term tells projects apart whose repositories have
\* different paths.  It does not tell apart two of one path on two hosts: the host is left
\* out of what is offered (resolve.ts:175-177), and the user has "no way to act" (:164-169).
TermAsks ==
  asked.kind = "project" =>
    LET term == asked.term
        others(p) == Range(asked.projects) \ {p}
    IN /\ answer.status = "found" => \A p \in answer.projects : \A q \in others(p) :
            Exactness(p, term) <= Exactness(q, term) /\ ~Alike(p, q, term)
       /\ \A p \in Range(asked.projects) :
            /\ Exactness(p, term) < 6
            /\ \A q \in others(p) : Exactness(p, term) < Exactness(q, term)
            => answer.status = "found" /\ answer.projects = {p}
       /\ \A p, q \in DOMAIN answer.offers :
            RepoPath(p) # RepoPath(q) => answer.offers[p] # answer.offers[q]

\* resolve.ts:7-10: "when a term is genuinely ambiguous, StateNest asks instead
\* of guessing".
AsksRatherThanGuesses == TermAsks /\ PageAsks

\* What is left out of a list of checkpoints is older than what is listed or than asked
\* for, or cannot be read; the limit is reached unless more files than the spare ones
\* cannot be read.
CheckpointsNewestFirst ==
  LET wanted == {f \in asked.files : f.ok /\ (asked.since = None \/ ~Later(asked.since, f.at))}
  IN asked.kind = "checkpoints" =>
       /\ \A i, j \in DOMAIN answer : i < j => Later(answer[i].at, answer[j].at)
       /\ Range(answer) \subseteq wanted
       /\ \A f \in wanted \ Range(answer) :
            /\ \A i \in DOMAIN answer : Later(answer[i].at, f.at)
            /\ asked.limit = 0 \/ Len(answer) < asked.limit =>
                 Cardinality({g \in asked.files : ~g.ok}) > Spare

Falling(s) == \A i, j \in DOMAIN s : i < j => ~Later(s[j].at, s[i].at)

\* The feed s shows the newest checkpoint of a project, in one of its own rows, or is full
\* of others that are no older.
Shows(s, own, p, since, limit) ==
  LET newest == Latest({f.at : f \in {g \in p.files : g.ok}})
  IN /\ newest # None
     /\ since = None \/ ~Later(since, newest)
     /\ Cardinality({f \in p.files : ~f.ok}) <= Spare
     => \/ \E i \in own : s[i].project = p /\ s[i].at = newest
        \/ Len(s) = limit /\ \A i \in DOMAIN s : ~Later(newest, s[i].at)

FeedNewestFirst ==
  asked.kind = "recent" =>
    /\ Falling(answer)
    /\ \A p \in asked.projects : Shows(answer, DOMAIN answer, p, asked.since, asked.limit)

PageNewestFirst ==
  asked.kind = "page" /\ answer.status = 200 /\ asked.path = "recent" =>
    LET s == answer.body
    IN /\ Falling(s)
       /\ \A v \in Range(asked.views) : \A p \in v.projects : p.status # "archived" =>
            Shows(s, {i \in DOMAIN s : s[i].profile = v.name}, p, None, RecentPageSize)

\* store.ts:211-216: "Read checkpoints for a project, newest first", from directories by
\* date that are left out as soon as possible.  The feed has the newest checkpoint of
\* every project, as far as its limit goes, and so has the dashboard's for the projects
\* of all profiles.
NewestFirst == CheckpointsNewestFirst /\ FeedNewestFirst /\ PageNewestFirst

ToldInOrder(of, brief) ==
  LET tasks == Range(of.tasks)
      keys(s) == [i \in DOMAIN s |-> s[i].key]
      next == keys(brief.nextActions)
      lists == [i \in DOMAIN brief.checkpoints |-> brief.checkpoints[i].next]
      intents == Range(keys(Firsts(FlattenSeq(lists), CollectSlots)))
      todo(k) == {t \in tasks : t.text.key = k /\ t.status \in {"todo", "in_progress"}}
      newest(k) == Max({t.updated : t \in todo(k)})
      missing(list, k) == k \notin Range(keys(list)) /\ Len(list) < BriefMax
  IN /\ IsInjective(next) /\ IsInjective(keys(brief.blockers)) /\ None \notin Range(next)
     /\ \A i, j \in DOMAIN next : i < j /\ next[i] \notin intents =>
          next[j] \notin intents /\ newest(next[i]) >= newest(next[j])
     /\ \A t \in tasks : t.text.key # None =>
          /\ t.status \in {"todo", "in_progress"} => ~missing(brief.nextActions, t.text.key)
          /\ t.status = "blocked" => ~missing(brief.blockers, t.text.key)

\* context.ts:180-183: the next actions begin with what the checkpoints say, then
\* the open tasks, newest first ("insertion-ordered tasks pushed the urgent next
\* step below aspirational ideas").  Nothing is said twice, and a task that is
\* open or blocked, and not of spaces alone, is only missing when the list is full.
BriefInOrder == asked.kind = "brief" => ToldInOrder(asked.of, answer)

\* What status calls untouched are the projects listed by the command it names "to
\* review them" (status.ts:114-124), and its counts are of all projects.
StatusAgrees ==
  asked.kind = "status" =>
    /\ answer.report.stale = answer.review
    /\ Total(answer.report.byStatus) = Cardinality(asked.projects)

\* The totals of the dashboard's overview are those of its lists, whatever the profiles share.
Sums(overview, views, projects, machines, remotes) ==
  /\ overview.projects = Len(projects)
  /\ overview.projects = Total(overview.by_status)
  /\ overview.machines = Len(machines)
  /\ overview.remotes = Len(remotes)
  /\ overview.deployments = Total([i \in DOMAIN projects |-> Cardinality(projects[i].project.deployments)])
  /\ \A i \in DOMAIN projects : \E v \in Range(views) :
       v.name = projects[i].profile /\ projects[i].project \in v.projects

OverviewAgrees ==
  asked.kind = "page" /\ answer.status = 200 /\ asked.path = "overview" =>
    LET rows(path) == Handle(asked.views, [asked.request EXCEPT !.path = path]).body
    IN Sums(answer.body, asked.views, rows("projects"), rows("machines"), rows("remotes"))

\* The command and the tool list the same projects of a status; among those, what the
\* command calls stale the tool calls stale too.
ListsAgree ==
  asked.kind = "projects" =>
    LET filter == asked.filter
    IN /\ ~filter.all => answer.command \subseteq answer.tool
       /\ answer.tool \subseteq answer.command \cup
            {p \in asked.projects : \/ filter.deployed /\ ~p.deployed
                                    \/ filter.dirty /\ ~p.dirty
                                    \/ filter.stale # None /\ {p.checkpointed, p.seen} # {None}}

\* projects.ts:109-110: archived projects "must never vanish", one asks for them by their
\* status.  The command, the tool, `statenest status` and the dashboard, which each go
\* through the projects in a way of their own, list and count the same ones where they
\* mean to.
ListingsAgree == StatusAgrees /\ OverviewAgrees /\ ListsAgree

\* Where a term lies in a text.
OccursAt(term, text, i) ==
  \A k \in DOMAIN term : i + k - 1 \in DOMAIN text /\ text[i + k - 1] = term[k]
Holds(text, term) == \E i \in DOMAIN text : OccursAt(term, text, i)
HoldsAll(text, terms) == \A k \in DOMAIN terms : Holds(text, terms[k])
In(range, i) == range[1] <= i /\ i < range[2]

Highlights(text, terms, ranges) ==
  /\ \A i, j \in DOMAIN ranges : i < j => ranges[i][2] < ranges[j][1]
  /\ \A k \in DOMAIN terms : \E r \in Range(ranges), i \in DOMAIN text :
       OccursAt(terms[k], text, i) /\ In(r, i) /\ In(r, i + Len(terms[k]) - 1)
  /\ \A r \in Range(ranges), i \in DOMAIN text : In(r, i) =>
       \E term \in Range(terms), s \in DOMAIN text :
         OccursAt(term, text, s) /\ In(<<s, s + Len(term)>>, i)

\* A text is found when it holds every term; what is highlighted are whole occurrences,
\* without overlap.
TextsMatch ==
  asked.kind = "text" =>
    /\ (answer # None) = HoldsAll(asked.text, asked.terms)
    /\ answer # None => Highlights(asked.text, asked.terms, answer.highlights)

\* What is printed of a text are its letters, the last one given for all that is cut, and
\* bold are those of the ranges.
Printed(s, text, ranges) ==
  LET marks == {Bold, Plain}
      at(i) == Cardinality({j \in 1..i : s[j] \notin marks})
      bold(i) == \E j \in 1..i : s[j] = Bold /\ \A k \in j..i : s[k] # Plain
  IN /\ at(Len(s)) = Min({Width, Len(text)})
     /\ \A i \in DOMAIN s : s[i] \notin marks =>
          /\ s[i] = IF Len(text) > Width /\ at(i) = Width THEN Ellipsis ELSE text[at(i)]
          /\ bold(i) <=> \E r \in Range(ranges) : In(r, at(i))
TextsPrinted == asked.kind = "printed" => Printed(answer, asked.text, asked.ranges)

\* A record is found by one of its texts, and left out only for a full page; an open task
\* stands above a done one of the same text, and a checkpoint above an older one.
Outranks(a, b) ==
  /\ a.scope = b.scope /\ a.texts = b.texts
  /\ \/ a.scope = "task" /\ ~a.done /\ b.done
     \/ a.scope = "checkpoint" /\ a.age < b.age
Hits(s, items, terms, limit) ==
  LET found(item) == \E h \in Range(s) : h.item = item
      matches(item) == \E text \in Range(item.texts) : HoldsAll(text, terms)
  IN /\ \A item \in items : found(item) => matches(item)
     /\ \A item \in items : ~found(item) /\ terms # <<>> /\ Len(s) < limit => ~matches(item)
     /\ \A a, b \in items : Outranks(a, b) /\ found(b) =>
          \E i, j \in DOMAIN s : i < j /\ s[i].item = a /\ s[j].item = b
HitsRanked == asked.kind = "search" => Hits(answer, asked.items, asked.terms, asked.limit)

\* search.ts:281-284: "All terms must appear - an AND search".  A record is found by a text
\* that holds every term, it is shown above those a reader needs less, and what is printed
\* of it is the text, with the terms in bold.
SearchMeansAll == TextsMatch /\ TextsPrinted /\ HitsRanked

\* The directories some way leads to, in at most n steps.
Reach(disk, roots, options) ==
  LET entered(d) == d \notin disk.closed /\ (options.nested \/ d \notin disk.repos)
      reach[n \in 0..options.maxDepth] ==
        IF n = 0 THEN roots
        ELSE reach[n - 1] \cup UNION {Entries(disk, d) \ Pruned(disk, d) :
                                        d \in {e \in reach[n - 1] : entered(e)}}
  IN reach

\* scanner.ts:59-67, 85-87: the walk follows links, "once", and stops at
\* repositories.  Whatever way there is to a repository within the depth, it is
\* found, and no directory is read twice, links back up the tree or not.
ScanFindsAll ==
  asked.kind = "scan" =>
    LET reached == Reach(asked.disk, asked.roots, asked.options)[asked.options.maxDepth]
    IN /\ answer.candidates = {d \in reached : IsCandidate(asked.disk, d, asked.options)}
       /\ answer.directoriesVisited = Cardinality(reached)

\* The URLs whose identity is the host and the path of the repository.  Not so: a host under
\* a name remote-url.ts:60-71 does not have (org.visualstudio.com); a path without a scheme
\* that is percent-encoded, since only a URL is decoded (:169, not :196); a path that itself
\* begins with "scm", which is cut off on every host (:253-256), or on Azure with "v3".
Ordinary(r, url) ==
  /\ url.host \in NamesOf(r.host)
  /\ url.form = "scp" => Range(url.path) \cap DOMAIN Decoded = {}
  /\ Len(r.path) > 1 => r.path[1] # "scm"
  /\ r.host \in AzureHosts => r.path[1] # "v3"

Identified == LET r == asked.repositories IN answer <=> r[1] = r[2]

\* remote-url.ts: the identity of a project comes from its remote.  Two ordinary URLs have
\* one identity exactly if they serve one repository, over ssh or https, as a URL or as scp
\* has it, under any name of the host and with whatever the host puts around the path.
OneIdentityPerRepository ==
  asked.kind = "same" /\ (\A i \in 1..2 : Ordinary(asked.repositories[i], asked.urls[i])) => Identified

\* remote-url.ts:4-6: "Two machines that have never communicated must derive the same project
\* id from the same repository, no matter which URL form each of them cloned with".
OneIdentityInAnyForm == asked.kind = "same" => Identified

\* The repository whose branches and remotes a checkout has: a linked worktree shares
\* refs and remotes with its repository, a submodule has its own.
SharedBy(c) == IF c.kind = "worktree" THEN c.common ELSE c.own

HeadAsGitWould ==
  asked.kind = "checkout" =>
    LET c == asked.of
        shared == SharedBy(c)
        tip(ref) == IF shared.loose[ref] # Absent THEN shared.loose[ref] ELSE shared.packed[ref]
    IN /\ answer.branch = c.head.ref
       /\ answer.head = IF c.head.ref = Absent THEN c.head.sha ELSE tip(c.head.ref)

RemoteAsGitWould ==
  asked.kind = "checkout" =>
    LET remotes == SharedBy(asked.of).remotes
    IN /\ \A i \in DOMAIN remotes :
            remotes[i].name = "origin" /\ RemoteIdentity(remotes[i].url) # Absent =>
            answer.primaryRemote = RemoteIdentity(remotes[i].url)
       /\ remotes = <<>> => answer.primaryRemote = Absent

TreeAsGitWould ==
  asked.kind = "tree" =>
    LET changes == asked.changes
    IN (\A i \in DOMAIN changes : changes[i].y \notin Renames) =>
       /\ answer.dirty = (changes # <<>>)
       /\ answer.stagedCount = Cardinality({i \in DOMAIN changes : changes[i].x \notin Unchanged})
       /\ answer.modifiedCount = Cardinality({i \in DOMAIN changes : changes[i].y \notin Unchanged})
       /\ answer.untrackedCount = Cardinality({i \in DOMAIN changes : changes[i].x = "?"})
       /\ \A i \in DOMAIN answer.changedFiles : answer.changedFiles[i] = changes[i].path

\* repo.ts reads the files of git instead of asking git, and parses its status.
\* Branch, commit and remote are those git sees in that checkout: a linked
\* worktree shares refs and remotes with its repository, a submodule has its own,
\* and a loose ref hides the packed one.  A changed path counts once in each of
\* the totals it belongs to, unless a file was renamed in the working tree only.
ReadAsGitWould == HeadAsGitWould /\ RemoteAsGitWould /\ TreeAsGitWould

\* create.ts:129-131, "Section headings are fixed so they can be parsed back out".  An
\* agent's Markdown may hold what the document's structure is made of.  The body is
\* read back as it was written; the first line of every item that is not empty, in
\* its list and in order; and nothing else in the lists: not a heading in code, not a
\* bullet of the summary.  Of the summary, all up to the first heading in it.
\* Code must be closed, items must not hold headings or bullets of their own, and the
\* summary none with the name of a list that is left out.
CheckpointsReadBack ==
  asked.kind = "document" =>
    LET c == asked.content
        given(l) == [i \in DOMAIN c.lists[l] |-> c.lists[l][i][1].text]
        whole == Trim(c.summary)
        until == IF Standing(whole) = {} THEN Len(whole) ELSE Min(Standing(whole)) - 1
        inItems == UNION {Headlines(Tail(item)) : item \in UNION {Range(c.lists[l]) : l \in Lists}}
    IN /\ answer.body = Trim(RenderCheckpointBody(c))
       /\ AllClose(c) /\ (\A l \in Lists : \A i \in DOMAIN c.lists[l] : KeepsToItself(c.lists[l][i])) =>
            \A l \in Lists :
              \/ c.lists[l] = <<>> /\ l \in Headlines(c.summary)
              \/ answer.lists[l] = SelectSeq(given(l), LAMBDA text : text # "")
       /\ Closes(c.summary) /\ whole # <<>> /\ "summary" \notin Headlines(whole) \cup inItems =>
            answer.summary = Trim(SubSeq(whole, 1, until))
=============================================================================
