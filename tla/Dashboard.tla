------------------------------ MODULE Dashboard -----------------------------
(***************************************************************************)
(* The pages of `statenest dashboard` (dashboard/server.ts), as functions  *)
(* of the profiles shown: a read-only join in memory of stores that stay   *)
(* separate.  A view is one profile: its name, its projects, what a search *)
(* of it looks through, its machines and its servers.                      *)
(***************************************************************************)
EXTENDS Recall

CONSTANTS
  RecentPageSize, SearchPageSize,   \* rows of the combined feed and search
  BriefPageSize,                    \* checkpoints of a project's page
  StaleBefore                       \* thirty days ago

\* acrossProfiles: the rows of every profile, each with the profile it came from.
OfProfile(row, name) ==
  [field \in DOMAIN row \cup {"profile"} |-> IF field = "profile" THEN name ELSE row[field]]

Tagged(views, rows) ==
  FlattenSeq([i \in DOMAIN views |->
                [k \in DOMAIN rows[i] |-> OfProfile(rows[i][k], views[i].name)]])

Reply(status, body) == [status |-> status, body |-> body]

(***************************************************************************)
(* The overview: counts of each profile, added up when there are several.  *)
(***************************************************************************)
Blocked(view) == {p \in view.projects : p.blockers # <<>>}
Stale(view) ==
  {p \in view.projects : p.status # "archived" /\ (p.active = None \/ Later(StaleBefore, p.active))}
Statuses(view) == {p.status : p \in view.projects}

BuildOverview(view) ==
  [projects |-> Cardinality(view.projects),
   by_status |-> [s \in Statuses(view) |-> Cardinality({p \in view.projects : p.status = s})],
   stale |-> Cardinality(Stale(view)),
   blocked |-> Cardinality(Blocked(view)),
   deployments |-> Total([p \in view.projects |-> Cardinality(p.deployments)]),
   machines |-> Cardinality(view.machines),
   remotes |-> Cardinality(view.servers)]

MergeOverviews(parts) ==
  LET of(part, s) == IF s \in DOMAIN part.by_status THEN part.by_status[s] ELSE 0
  IN [projects |-> Total([i \in DOMAIN parts |-> parts[i].projects]),
      by_status |-> [s \in UNION {DOMAIN parts[i].by_status : i \in DOMAIN parts} |->
                       Total([i \in DOMAIN parts |-> of(parts[i], s)])],
      stale |-> Total([i \in DOMAIN parts |-> parts[i].stale]),
      blocked |-> Total([i \in DOMAIN parts |-> parts[i].blocked]),
      deployments |-> Total([i \in DOMAIN parts |-> parts[i].deployments]),
      machines |-> Total([i \in DOMAIN parts |-> parts[i].machines]),
      remotes |-> Total([i \in DOMAIN parts |-> parts[i].remotes])]

OverviewPage(views) ==
  LET parts == [i \in DOMAIN views |-> BuildOverview(views[i])]
  IN IF Len(parts) = 1 THEN parts[1] ELSE MergeOverviews(parts)

(***************************************************************************)
(* The lists.                                                              *)
(***************************************************************************)
\* A project that was never active sorts as the empty string, last.
ProjectSummaries(view) ==
  LET before(p, q) == p.active # None /\ (q.active = None \/ Later(p.active, q.active))
      listed == SetToSeq(view.projects)
      sorted == Sorted(listed, [i \in DOMAIN listed |-> {j \in DOMAIN listed : before(listed[i], listed[j])}])
  IN [i \in DOMAIN sorted |-> [project |-> sorted[i],
                               environments |-> {d.environment : d \in sorted[i].deployments}]]

\* Each profile gives its newest, the page is the newest of them all.
RecentPage(views) ==
  LET rows == [i \in DOMAIN views |->
                 BuildRecent({p \in views[i].projects : p.status # "archived"}, None, RecentPageSize)]
  IN Firsts(ByTime(Tagged(views, rows)), RecentPageSize)

\* The hits of each profile in turn, not ranked against each other.
SearchPage(views, terms) ==
  IF terms = <<>> THEN <<>>
  ELSE Firsts(Tagged(views, [i \in DOMAIN views |-> Search(views[i].items, terms, SearchPageSize)]),
              SearchPageSize)

MachineRows(view) ==
  SetToSeq({[machine |-> m, current |-> m = view.current,
             projects |-> Cardinality({p \in view.projects : m \in p.locations})] : m \in view.machines})

\* Servers stay with the profile that registered them.
RemoteRows(view) ==
  SetToSeq({[server |-> r, projects |-> {p \in view.projects : \E d \in p.deployments : d.remote = r}]
            : r \in view.servers})

(***************************************************************************)
(* The page of one project.                                                *)
(***************************************************************************)
\* Where the project is: in the profile asked for, or in any.
Candidates(views, id, wanted) ==
  {i \in DOMAIN views : /\ wanted \in {None, views[i].name}
                        /\ \E p \in views[i].projects : p.id = id}

ProjectPage(views, id, wanted) ==
  LET candidates == Candidates(views, id, wanted)
      owner == views[Min(candidates)]
      project == CHOOSE p \in owner.projects : p.id = id
  IN IF candidates = {} THEN Reply(404, None)
     ELSE IF Cardinality(candidates) > 1 THEN Reply(409, {views[i].name : i \in candidates})
     ELSE Reply(200, [profile |-> owner.name, project |-> project,
                      brief |-> BuildResumeBrief(project, project.files, project.tasks, BriefPageSize)])

\* A request: only reads are answered, whatever the path.
Handle(views, request) ==
  IF request.method \notin {"GET", "HEAD"} THEN Reply(405, None)
  ELSE CASE request.path = "overview" -> Reply(200, OverviewPage(views))
         [] request.path = "projects" -> Reply(200, Tagged(views, [i \in DOMAIN views |-> ProjectSummaries(views[i])]))
         [] request.path = "recent" -> Reply(200, RecentPage(views))
         [] request.path = "project" -> ProjectPage(views, request.id, request.profile)
         [] request.path = "search" -> Reply(200, SearchPage(views, request.terms))
         [] request.path = "machines" -> Reply(200, Tagged(views, [i \in DOMAIN views |-> MachineRows(views[i])]))
         [] request.path = "remotes" -> Reply(200, Tagged(views, [i \in DOMAIN views |-> RemoteRows(views[i])]))
         [] OTHER -> Reply(404, None)
=============================================================================
