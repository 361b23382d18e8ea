------------------------------- MODULE Recall -------------------------------
(***************************************************************************)
(* What StateNest answers from its records, as functions of the records:   *)
(* which project a term means (core/resolve.ts), the newest checkpoints    *)
(* (storage/store.ts), the brief and the feed (core/context.ts), the       *)
(* search (search/search.ts), and the lists of the commands and tools.     *)
(*                                                                         *)
(* A text is what the questions tell apart of it: for a term, how close it *)
(* comes to the text (Near, Extra); in a brief, a key that ignores case    *)
(* and space; in a search, its letters.  Moments are <<year, month, day,   *)
(* second>>.  Redaction, wording and layout are left out.                  *)
(***************************************************************************)
EXTENDS Naturals, SequencesExt, FiniteSetsExt

CONSTANTS
  None,          \* an absent value
  Near(_, _),    \* how a term lies in a text: one of the closenesses below
  Extra(_, _),   \* the letters of a text a term leaves out, gaps counting tenfold
  LongTerms,     \* the terms of six characters and more
  CollectSlots,  \* how many items of the checkpoints a brief collects
  BriefMax,      \* how many items a list of a brief holds
  Spare          \* files listed beyond the limit, for those that cannot be read

Scattered == 1
Inside == 2
StartsWord == 3
StartsText == 4
Equal == 5

Firsts(s, n) == SubSeq(s, 1, IF n < Len(s) THEN n ELSE Len(s))

\* The members of a finite set, each after those that R puts before it.
InOrder(S, R) ==
  [n \in 1..Cardinality(S) |-> CHOOSE x \in S : Cardinality({y \in S : <<y, x>> \in R}) = n - 1]

Picked(s, order) == [n \in DOMAIN order |-> s[order[n]]]

\* The elements of a sequence at some places, as they stand.
Those(s, places) == Picked(s, InOrder(places, {e \in places \X places : e[1] < e[2]}))

\* A sequence sorted: after the element at i go those at B[i], and elements none of which
\* goes after the other stay as they are.
Sorted(s, B) ==
  LET after(i, j) == j \in B[i] \/ (i \notin B[j] /\ i < j)
  IN Picked(s, InOrder(DOMAIN s, {e \in (1..Len(s)) \X (1..Len(s)) : after(e[1], e[2])}))

\* The sum of the values of a function, each as so many pairs.
Total(f) == Cardinality(UNION {{i} \X (1..f[i]) : i \in DOMAIN f})

(***************************************************************************)
(* The project a term means.                                               *)
(***************************************************************************)
TierOrder == <<"id", "name", "alias", "repository", "prefix", "substring", "fuzzy">>

Closest(texts, term) == Max({0} \cup {Near(t, term) : t \in texts})
RepoTexts(p) == IF p.repo = None THEN {} ELSE {p.repo.name, p.repo.path}
RepoName(p) == IF p.repo = None THEN {} ELSE {p.repo.name}
RepoPath(p) == IF p.repo = None THEN {} ELSE {p.repo.path}

Test(holds, kind, distance) == [holds |-> holds, kind |-> kind, distance |-> distance]

\* Faulty variant of InsideName: an earlier match counts as a closer one.
InsideNameByOffset(name, term) == Extra(name, term)

\* How far a match in the middle of a word is: the field counts, not the offset.
InsideName(name, term) == 100

\* The ways a project can match, the first that holds decides.
Tests(p, term) ==
  << Test(Near(p.id, term) = Equal, "id", 0),
     Test(Near(p.id, term) = StartsText /\ term \in LongTerms, "id", Extra(p.id, term)),
     Test(Near(p.name, term) = Equal, "name", 0),
     Test(Closest(p.aliases, term) = Equal, "alias", 0),
     Test(Closest(RepoTexts(p), term) = Equal, "repository", 0),
     Test(Near(p.name, term) = StartsText, "prefix", 0),
     Test(Closest(p.aliases, term) = StartsText, "prefix", 1),
     Test(Closest(RepoName(p), term) = StartsText, "prefix", 2),
     Test(Near(p.name, term) = StartsWord, "substring", 0),
     Test(Near(p.name, term) = Inside, "substring", InsideName(p.name, term)),
     Test(Closest(p.aliases \cup RepoPath(p), term) >= Inside, "substring", 200),
     Test(Near(p.name, term) = Scattered, "fuzzy", Extra(p.name, term)) >>

Holding(p, term) == {i \in DOMAIN Tests(p, term) : Tests(p, term)[i].holds}
MatchOne(p, term) == Tests(p, term)[Min(Holding(p, term))]
Tier(match) == CHOOSE k \in DOMAIN TierOrder : TierOrder[k] = match.kind

\* The projects that match, and what ranks them.
RankMatches(projects, term) ==
  {[at |-> i, tier |-> Tier(MatchOne(projects[i], term)),
    distance |-> MatchOne(projects[i], term).distance] :
     i \in {j \in DOMAIN projects : Holding(projects[j], term) # {}}}

ResolveProject(projects, term) ==
  LET matches == RankMatches(projects, term)
      inTier == {m \in matches : \A n \in matches : m.tier <= n.tier}
      contenders == {m \in inTier : \A n \in inTier : m.distance <= n.distance}
      those(some) == {projects[m.at] : m \in some}
  IN IF matches = {} THEN [status |-> "not-found", projects |-> {}]
     ELSE IF Cardinality(contenders) = 1 THEN [status |-> "found", projects |-> those(contenders)]
     ELSE [status |-> "ambiguous", projects |-> those(inTier)]

\* What tells two projects of one name apart, and what the error offers to type.
ProjectQualifier(p) ==
  IF p.repo # None THEN p.repo.path ELSE IF p.location # None THEN p.location ELSE p.id

\* What an ambiguous term is answered with: the candidates, and what to type instead.
ResolveOrThrow(projects, term) ==
  LET answer == ResolveProject(projects, term)
      asking == IF answer.status = "ambiguous" THEN answer.projects ELSE {}
  IN [status |-> answer.status, projects |-> answer.projects,
      offers |-> [p \in asking |-> ProjectQualifier(p)]]

(***************************************************************************)
(* The newest checkpoints.  A file is [at, ok, ...]: its moment, and       *)
(* whether its frontmatter can be read.                                    *)
(***************************************************************************)
Moment == [1..4 -> Nat]

Later(a, b) ==
  \E i \in DOMAIN a : a[i] > b[i] /\ \A j \in 1..(i - 1) : a[j] = b[j]

Latest(moments) ==
  IF moments \ {None} = {} THEN None
  ELSE CHOOSE a \in moments \ {None} : \A b \in moments \ {None, a} : Later(a, b)

\* Faulty variant of Skipped: the month is compared whatever the year.
SkippedByMonth(at, since) ==
  since # None /\ (at[1] < since[1] \/ at[2] < since[2])

\* The directories of years, months and days that the walk does not enter.
Skipped(at, since) ==
  /\ since # None
  /\ \/ at[1] < since[1]
     \/ at[1] = since[1] /\ at[2] < since[2]
     \/ at[1] = since[1] /\ at[2] = since[2] /\ at[3] < since[3]

\* A limit of 0 is no limit.
Limited(s, limit) == IF limit = 0 THEN s ELSE Firsts(s, limit)

ListCheckpointFiles(files, since, limit) ==
  LET entered == {f \in files : ~Skipped(f.at, since)}
      walked == InOrder(entered, {e \in entered \X entered : Later(e[1].at, e[2].at)})
  IN Limited(walked, limit)

ReadSince(listed, since) ==
  Those(listed, {i \in DOMAIN listed : listed[i].ok /\ (since = None \/ ~Later(since, listed[i].at))})

ListCheckpoints(files, since, limit) ==
  LET listed == ListCheckpointFiles(files, since, IF limit = 0 THEN 0 ELSE limit + Spare)
  IN Limited(ReadSince(listed, since), limit)

(***************************************************************************)
(* The brief of one project, and the feed of all.                          *)
(***************************************************************************)
Dedupe(items) ==
  Those(items, {i \in DOMAIN items : /\ items[i].key # None
                                     /\ \A j \in 1..(i - 1) : items[j].key # items[i].key})

CollectRecent(lists) == Dedupe(Firsts(FlattenSeq(lists), CollectSlots))

OpenTasks(tasks) ==
  Those(tasks, {i \in DOMAIN tasks : tasks[i].status \in {"todo", "in_progress", "blocked"}})
Blockers(tasks) == Those(tasks, {i \in DOMAIN tasks : tasks[i].status = "blocked"})
Texts(tasks) == [i \in DOMAIN tasks |-> tasks[i].text]

Unblocked(tasks) ==
  LET s == OpenTasks(tasks) IN Those(s, {i \in DOMAIN s : s[i].status # "blocked"})

\* Faulty variant of NextTasks: in the order they were added.
NextTasksAsAdded(tasks) == Unblocked(tasks)

NextTasks(tasks) ==
  LET s == Unblocked(tasks)
  IN Sorted(s, [i \in DOMAIN s |-> {j \in DOMAIN s : s[i].updated > s[j].updated}])

BuildResumeBrief(project, files, tasks, limit) ==
  LET checkpoints == ListCheckpoints(files, None, limit)
  IN [checkpoints |-> checkpoints,
      lastActivityAt |-> Latest({project.active} \cup {checkpoints[i].at : i \in DOMAIN checkpoints}),
      lastSummary |-> IF checkpoints = <<>> THEN None ELSE checkpoints[1].at,
      blockers |-> Firsts(Dedupe(project.blockers
                     \o CollectRecent([i \in DOMAIN checkpoints |-> checkpoints[i].blockers])
                     \o Texts(Blockers(tasks))), BriefMax),
      nextActions |-> Firsts(Dedupe(
                        CollectRecent([i \in DOMAIN checkpoints |-> checkpoints[i].next])
                        \o Texts(NextTasks(tasks))), BriefMax)]

ByTime(s) == Sorted(s, [i \in DOMAIN s |-> {j \in DOMAIN s : Later(s[i].at, s[j].at)}])

\* The feed: the newest checkpoint of each project, or its recorded activity.
BuildRecent(projects, since, limit) ==
  LET newest(p) == ListCheckpoints(p.files, None, 1)
      at(p) == IF newest(p) # <<>> THEN newest(p)[1].at ELSE p.active
      shown == SetToSeq({p \in projects : at(p) # None /\ (since = None \/ ~Later(since, at(p)))})
  IN Firsts(ByTime([i \in DOMAIN shown |-> [project |-> shown[i], at |-> at(shown[i])]]), limit)

(***************************************************************************)
(* The lists of projects.  filter is [statuses, all, stale, dirty,         *)
(* deployed], stale the moment before which a project counts as stale.     *)
(***************************************************************************)
EffectiveActivity(p) == Latest({p.active, p.checkpointed, p.seen})

\* Faulty variant of FilterProjects: a status does not bring archived projects back.
FilterProjectsHidden(projects, filter) ==
  {p \in projects : (filter.statuses # {} => p.status \in filter.statuses)
                    /\ (p.status = "archived" => filter.all)}

FilterProjects(projects, filter) ==
  {p \in projects :
     /\ filter.statuses # {} => p.status \in filter.statuses
     /\ p.status = "archived" => filter.all \/ filter.statuses # {}
     /\ filter.deployed => p.deployed
     /\ filter.dirty => p.dirty
     /\ filter.stale # None =>
          EffectiveActivity(p) = None \/ Later(filter.stale, EffectiveActivity(p))}

\* The list of the tool: one status or all but the archived ones.
ToolListProjects(projects, status, stale) ==
  {p \in projects :
     /\ IF status = None THEN p.status # "archived" ELSE p.status = status
     /\ stale # None => p.active = None \/ Later(stale, p.active)}

\* What `statenest status` counts, and calls untouched since a moment.
StatusReport(projects, before) ==
  [byStatus |-> [s \in {p.status : p \in projects} |->
                   Cardinality({p \in projects : p.status = s})],
   stale |-> {p \in projects :
                /\ p.status # "archived"
                /\ EffectiveActivity(p) = None \/ Later(before, EffectiveActivity(p))}]

(***************************************************************************)
(* The search.  A text and a term are sequences of letters and "-".        *)
(***************************************************************************)
LetterAt(text, i) == i \in DOMAIN text /\ text[i] # "-"

\* Where a term begins in a text, whatever it shares with another occurrence.
Starts(text, term) ==
  {i \in 1..(Len(text) + 1 - Len(term)) : SubSeq(text, i, i + Len(term) - 1) = term}

\* The occurrences found, each search going on after the occurrence before.
Occurrences(text, term) ==
  LET indexOf(i) == Min({Len(text) + 1} \cup {s \in Starts(text, term) : s >= i})
      index[k \in 0..Len(text)] == IF k = 0 THEN indexOf(1) ELSE indexOf(index[k - 1] + Len(term))
  IN {index[k] : k \in 0..Len(text)} \cap Starts(text, term)

WordScore(text, start, length) ==
  IF LetterAt(text, start - 1) THEN 1 ELSE IF LetterAt(text, start + length) THEN 2 ELSE 3

\* A range touches the last one and widens it, or is the next one.
WithRange(merged, range) ==
  IF merged # <<>> /\ range[1] <= merged[Len(merged)][2]
  THEN [merged EXCEPT ![Len(merged)][2] = Max({@, range[2]})]
  ELSE Append(merged, range)

StartsBefore(r, q) == r[1] < q[1] \/ (r[1] = q[1] /\ r[2] < q[2])

MergeRanges(ranges) ==
  LET sorted == InOrder(ranges, {e \in ranges \X ranges : StartsBefore(e[1], e[2])})
      merged[k \in 0..Cardinality(ranges)] ==
        IF k = 0 THEN <<>> ELSE WithRange(merged[k - 1], sorted[k])
  IN merged[Cardinality(ranges)]

\* Faulty variant of AllFound: a text need only hold one of the terms.
SomeFound(text, terms) == \E i \in DOMAIN terms : Occurrences(text, terms[i]) # {}

AllFound(text, terms) == \A i \in DOMAIN terms : Occurrences(text, terms[i]) # {}

\* The best score of a term is that of its best occurrence.
Best(text, term) == Max({0} \cup {WordScore(text, s, Len(term)) : s \in Occurrences(text, term)})

RangesOf(text, terms) ==
  UNION {{<<s, s + Len(terms[i])>> : s \in Occurrences(text, terms[i])} : i \in DOMAIN terms}

MatchText(text, terms) ==
  IF text = <<>> \/ ~AllFound(text, terms) THEN None
  ELSE [score |-> Total([i \in DOMAIN terms |-> Best(text, terms[i])]),
        highlights |-> MergeRanges(RangesOf(text, terms))]

ScopeWeight(scope) ==
  CASE scope = "project" -> 10 [] scope = "state" -> 8 [] scope = "task" -> 6
    [] scope = "decision" -> 5 [] scope = "remote" -> 4 [] scope = "checkpoint" -> 3

\* In tenths: a done task counts 0.4, a checkpoint by the age of its week.
Factor(item) ==
  CASE item.scope = "task" /\ item.done -> 4
    [] item.scope = "checkpoint" -> <<16, 13, 10, 8>>[item.age]
    [] OTHER -> 10

\* The text an item is shown by, of those that match: the best field of a project, the
\* first line of a checkpoint, the one text of anything else.
Shown(item, matches, found) ==
  IF item.scope = "project"
  THEN Min({i \in found : \A j \in found : matches[j].score <= matches[i].score})
  ELSE Min(found)

HitAt(item, matches, i) ==
  [item |-> item, text |-> item.texts[i],
   score |-> matches[i].score * ScopeWeight(item.scope) * Factor(item)]

HitFrom(item, matches, found) ==
  IF found = {} THEN None ELSE HitAt(item, matches, Shown(item, matches, found))
HitIn(item, matches) == HitFrom(item, matches, {i \in DOMAIN matches : matches[i] # None})

HitOf(item, terms) == HitIn(item, [i \in DOMAIN item.texts |-> MatchText(item.texts[i], terms)])

ByScore(hits) ==
  Sorted(hits, [i \in DOMAIN hits |-> {j \in DOMAIN hits : hits[i].score > hits[j].score}])

Search(items, terms, limit) ==
  IF terms = <<>> THEN <<>>
  ELSE Firsts(ByScore(SetToSeq({HitOf(item, terms) : item \in items} \ {None})), limit)

\* How a text is printed: cut to the width, with marks around the ranges.  The
\* last range is marked first, so that its marks do not shift the others.
Ellipsis == "..."
Bold == "<"
Plain == ">"
\* A text cut to the width.
Trimmed(text, width) == IF Len(text) > width THEN Append(Firsts(text, width - 1), Ellipsis) ELSE text

\* s with marks around a range, length being that of the text without marks.
Marked(s, range, length) ==
  LET end == Min({range[2], length + 1})
  IN SubSeq(s, 1, range[1] - 1) \o <<Bold>> \o SubSeq(s, range[1], end - 1) \o <<Plain>>
     \o SubSeq(s, end, Len(s))

Highlight(text, ranges, width) ==
  LET trimmed == Trimmed(text, width)
      sorted == Sorted(ranges, [i \in DOMAIN ranges |-> {j \in DOMAIN ranges : ranges[i][1] > ranges[j][1]}])
      result[k \in 0..Len(ranges)] ==
        IF k = 0 THEN trimmed
        ELSE IF sorted[k][1] > Len(trimmed) THEN result[k - 1]
        ELSE Marked(result[k - 1], sorted[k], Len(trimmed))
  IN result[Len(ranges)]
=============================================================================
