------------------------------ MODULE MCReading ------------------------------
(***************************************************************************)
(* The questions of a small instance.                                      *)
(***************************************************************************)
EXTENDS Reading, TLC

\* For a term: two projects, each of one of these names and with what it names, or
\* three without aliases.
MCLongTerms == {"p_long"}
Closeness ==
  << <<"p_long_1", "p_long", StartsText>>, <<"p_long_2", "p_long", StartsText>>,
     <<"p_long_33", "p_long", StartsText>>,
     <<"old-api", "api", StartsWord>>, <<"rapid", "api", Inside>>, <<"therapist", "api", Inside>>,
     <<"acme/api", "api", StartsWord>>, <<"corp/api", "api", StartsWord>>,
     <<"api", "ap", StartsText>>, <<"old-api", "ap", StartsWord>>, <<"rapid", "ap", Inside>>,
     <<"therapist", "ap", Inside>>, <<"acme/api", "ap", StartsWord>>,
     <<"corp/api", "ap", StartsWord>>,
     <<"rapid", "rd", Scattered>>, <<"old-api", "oa", Scattered>>, <<"therapist", "rt", Scattered>> >>
MCNear(text, term) ==
  IF text = term THEN Equal
  ELSE IF \E i \in DOMAIN Closeness : Closeness[i][1] = text /\ Closeness[i][2] = term
       THEN (CHOOSE c \in Range(Closeness) : c[1] = text /\ c[2] = term)[3] ELSE 0
MCExtra(text, term) ==
  CASE text = "therapist" -> 4 [] text = "p_long_33" -> 3 [] OTHER -> 2

MCProject(i, name, aliases, repo, location) ==
  [id |-> <<"p_long_1", "p_long_2", "p_long_33">>[i], name |-> name, aliases |-> aliases,
   repo |-> repo, location |-> location]
Repo(host, path) == [name |-> "api", host |-> host, path |-> path]
Shapes ==
  ({"api", "old-api", "rapid", "therapist"} \X {{}, {"api"}}
     \X {None, Repo("github.com", "acme/api")} \X {None})
  \cup {<<"api", {}, Repo("github.com", "corp/api"), None>>,
        <<"api", {}, Repo("gitlab.com", "acme/api"), None>>, <<"api", {}, None, "~/api">>}
Unaliased == {s \in Shapes : s[2] = {}}
MCProjectLists ==
  {[i \in DOMAIN s |-> MCProject(i, s[i][1], s[i][2], s[i][3], s[i][4])] :
     s \in [1..1 -> Shapes] \cup [1..2 -> Shapes] \cup [1..3 -> Unaliased]}
MCTerms == {"api", "ap", "p_long", "p_long_33", "rd", "rt", "acme/api", "none"}

\* For the newest checkpoints: each of six moments has no file, one, or a broken one.
Moments == {<<1, 2, 2, 1>>, <<2, 1, 1, 1>>, <<2, 1, 2, 1>>, <<2, 1, 2, 2>>, <<2, 2, 1, 1>>,
            <<3, 1, 1, 1>>}
FilesOf(kept) == {[at |-> m, ok |-> kept[m] = "good"] : m \in {n \in DOMAIN kept : kept[n] # "no"}}
MCHistories == {FilesOf(kept) : kept \in [Moments -> {"no", "good", "bad"}]}
MCSinces == {None, <<1, 2, 2, 1>>, <<2, 1, 2, 2>>, <<2, 2, 1, 1>>, <<2, 2, 2, 1>>}
MCLimits == 0..2

Early == <<1, 2, 2, 1>>
Late == <<2, 2, 1, 1>>
MCFeeds ==
  {{[name |-> n, files |-> f[n], active |-> a] : n \in 1..2} :
     f \in [1..2 -> {FilesOf(kept) : kept \in [{Early, <<2, 1, 2, 2>>, Late} -> {"no", "good", "bad"}]}],
     a \in {None, <<2, 2, 2, 1>>}}

\* For the dashboard: one or two profiles that may share a project, a machine and
\* the id of a server.
Active(i, status, active, files, on) ==
  [id |-> i, status |-> status, active |-> active, files |-> files, blockers |-> <<>>, tasks |-> <<>>,
   deployments |-> {[remote |-> r, environment |-> "production"] : r \in on}, locations |-> {1}]
File(at) == [at |-> at, ok |-> TRUE, next |-> <<>>, blockers |-> <<>>]
PageProjects(i) ==
  {Active(i, s, a, f, d) : s \in {"active", "archived"}, a \in {None, Early},
                           f \in {{}, {File(Late)}, {File(Early), File(<<2, 1, 2, 2>>)}}, d \in {{}, {1, 2}}}
MCView(name, projects) ==
  [name |-> name, projects |-> projects, machines |-> {1, 2}, current |-> 1, servers |-> {1},
   items |-> {[scope |-> "task", texts |-> <<<<"a">>>>, done |-> FALSE, age |-> 1]}]
MCViewLists ==
  {<<MCView("personal", {p})>> : p \in PageProjects(1)}
  \cup {<<MCView("personal", {p}), MCView("work", {q})>> :
           p \in PageProjects(1), q \in PageProjects(1) \cup PageProjects(2)}
  \cup {<<MCView("personal", {p, Active(2, "active", Early, {File(Early)}, {1})}), MCView("work", {})>> :
           p \in PageProjects(1)}
MCStaleBefore == <<2, 1, 1, 1>>
MCRequests ==
  {[method |-> "GET", path |-> path, id |-> 1, profile |-> None, terms |-> <<<<"a">>>>] :
     path \in {"overview", "recent", "search", "other"}}
  \cup {[method |-> method, path |-> "project", id |-> 1, profile |-> p, terms |-> <<>>] :
           method \in {"GET", "POST"}, p \in {None, "work"}}

\* For a brief: two checkpoints and two tasks.
Item(key, spelling) == [key |-> key, spelling |-> spelling]
Items == {Item("a", 1), Item("a", 2), Item("b", 1), Item(None, 1)}
ItemLists(n) == UNION {[1..k -> Items] : k \in 0..n}
MCTasks ==
  {t \in UNION {[1..k -> [text : {Item("a", 1), Item("c", 1), Item(None, 1)},
                          status : {"todo", "blocked", "done"}, updated : 1..2]] : k \in 0..2} :
     Len(t) = 2 => t[1].text # t[2].text /\ None \notin {t[1].text.key, t[2].text.key}}
MCBriefs ==
  [project : {[active |-> None, blockers |-> b] : b \in {<<>>, <<Item("a", 1)>>}},
   files : {{[at |-> Early, ok |-> TRUE, next |-> n[1], blockers |-> <<Item("b", 1)>>],
             [at |-> Late, ok |-> ok, next |-> n[2], blockers |-> <<Item("a", 2)>>]} :
              n \in ItemLists(1) \X ItemLists(2), ok \in BOOLEAN},
   tasks : MCTasks]

\* For the lists of projects.
Listed == [name : {1}, status : {"active", "archived"}, active : {None, Early, Late},
           checkpointed : {None, Late}, seen : {None}, deployed : BOOLEAN, dirty : BOOLEAN]
MCPortfolios == {{p} : p \in Listed} \cup {{p, [q EXCEPT !.name = 2]} : p, q \in {l \in Listed : ~l.dirty}}
MCFilters == [statuses : {{}, {"active"}, {"archived"}}, all : BOOLEAN, stale : {None, <<2, 1, 1, 1>>},
              deployed : BOOLEAN, dirty : BOOLEAN]

\* For a search.
Letters == {"a", "b", "-"}
MCTexts == UNION {[1..n -> Letters] : n \in 1..5}
MCQueries == {<<>>, <<<<"a">>>>, <<<<"a", "b">>>>, <<<<"a">>, <<"b">>>>, <<<<"a", "a">>, <<"a", "b">>>>,
              <<<<"b", "-", "b">>, <<"b", "a">>>>}
Lines == {<<"a">>, <<"a", "b">>, <<"b", "-", "a">>, <<"-">>}
SearchItems == [scope : {"task", "checkpoint", "project"}, texts : {<<l>> : l \in Lines}
                \cup {<<k, l>> : k, l \in Lines}, done : BOOLEAN, age : {1, 4}]
Sensible == {i \in SearchItems : /\ i.scope = "task" => i.age = 1 /\ Len(i.texts) = 1
                                 /\ i.scope # "task" => ~i.done
                                 /\ i.scope = "project" => i.age = 1}
MCCollections == {{i, j} : i, j \in Sensible}

\* For a scan: four directories, at most one link, one that cannot be read and
\* one of an excluded name.
Dirs == 1..4
Trees4 == {inside \in [Dirs -> 0..3] : \A d \in Dirs : inside[d] < d /\ (inside[d] = 0 => d = 1)}
MCDisks ==
  [dirs : {Dirs}, inside : Trees4, links : {{}} \cup {{<<d, e>>} : d, e \in Dirs},
   excluded : {{}, {2}, {3}}, repos : SUBSET (Dirs \ {1}), marked : {{3}},
   closed : {{}, {2}}]
MCRootSets == {{1}, {1, 3}}
MCScanOptions == [maxDepth : {1, 3}, nested : BOOLEAN, includeNonGit : {FALSE}]
                 \cup {[maxDepth |-> 2, nested |-> FALSE, includeNonGit |-> TRUE]}

\* For remotes: what each host serves, and the forms of its URLs.
MCHostAliases == "www.github.com" :> "github.com" @@ "ssh.github.com" :> "github.com"
                 @@ "ssh.dev.azure.com" :> "dev.azure.com" @@ "vs-ssh.visualstudio.com" :> "dev.azure.com"
MCAzureHosts == {"dev.azure.com", "acme.visualstudio.com"}
MCDecoded == "my%20shop" :> "my shop"
Encoded(path) == [i \in DOMAIN path |-> IF path[i] = "my shop" THEN "my%20shop" ELSE path[i]]
Spaced == [host |-> "dev.azure.com", path |-> <<"acme", "my shop", "api">>]
MCRepositories ==
  {[host |-> "github.com", path |-> <<"acme", "api">>], [host |-> "github.com", path |-> <<"acme", "web">>],
   [host |-> "github.com", path |-> <<"corp", "api">>], [host |-> "gitlab.com", path |-> <<"acme", "api">>],
   [host |-> "gitlab.com", path |-> <<"acme", "team", "api">>],
   [host |-> "gitlab.com", path |-> <<"scm", "acme", "api">>], Spaced,
   [host |-> "dev.azure.com", path |-> <<"acme", "shop", "api">>],
   [host |-> "dev.azure.com", path |-> <<"acme", "shop", "web">>],
   [host |-> "bitbucket.corp", path |-> <<"acme", "api">>]}
MCForms == {"https", "scp", "ssh", "other host", "old https"}
MCUrl(r, form) ==
  LET azure == r.host = "dev.azure.com"
      host == CASE azure /\ form \in {"scp", "ssh"} -> "ssh.dev.azure.com"
                [] azure /\ form = "other host" -> "vs-ssh.visualstudio.com"
                [] azure /\ form = "old https" -> "acme.visualstudio.com"
                [] r.host = "github.com" /\ form = "other host" -> "ssh.github.com"
                [] OTHER -> r.host
      path == CASE azure /\ form = "https" -> <<r.path[1], r.path[2], "_git", r.path[3]>>
                [] azure /\ form = "old https" -> <<r.path[2], "_git", r.path[3]>>
                [] azure /\ form \notin {"https", "old https"} -> <<"v3">> \o r.path
                [] r.host = "bitbucket.corp" /\ form = "https" -> <<"scm">> \o r.path
                [] OTHER -> r.path
  IN [form |-> IF form = "scp" THEN "scp" ELSE "scheme",
      scheme |-> IF form \in {"https", "old https"} THEN "https" ELSE "git+ssh",
      host |-> host, path |-> Encoded(path)]

\* One repository whose project has a space in its name, with the two URLs Azure shows.
MCNone == {}
MCSpaced == {Spaced}
MCShown == {"https", "scp"}

\* For a checkout: two branches, two commits.
Refs == {"main", "topic"}
Values == [Refs -> {Absent, 1, 2}]
Empty == [r \in Refs |-> Absent]
Remote(name) == [name |-> name, url |-> MCUrl([host |-> "github.com", path |-> <<"acme", name>>], "scp")]
GitDir(loose, packed, remotes) == [loose |-> loose, packed |-> packed, remotes |-> remotes]
MCCheckouts ==
  {[kind |-> kind, head |-> head,
    own |-> IF kind = "worktree" THEN GitDir(Empty, Empty, <<>>) ELSE GitDir(loose, packed, remotes),
    common |-> IF kind = "submodule" THEN GitDir(Empty, Empty, <<Remote("parent")>>)
               ELSE GitDir(loose, packed, remotes)] :
     kind \in {"repository", "worktree", "submodule"}, loose \in Values, packed \in Values,
     head \in {[ref |-> r, sha |-> Absent] : r \in Refs} \cup {[ref |-> Absent, sha |-> 2]},
     remotes \in {<<>>, <<Remote("origin")>>, <<Remote("upstream"), Remote("origin")>>}}

\* For a working tree: up to three changes, renames of both kinds among them.
Change(x, y, path) == [x |-> x, y |-> y, path |-> path]
Changes == {Change("M", " ", 1), Change(" ", "M", 2), Change("R", " ", 3), Change("R", "M", 4),
            Change(" ", "R", 5), Change("?", "?", 6), Change("A", "M", 7)}
MCTrees == UNION {[1..n -> Changes] : n \in 0..3}

\* For a checkpoint: summaries of at most three lines, and two lists with items of
\* one line or of several.
Fence == Line("fence", "")
SummaryLines == {Line("text", "t"), Blank, Rule, Fence, Line("bullet", "s"),
                 Heading("next"), Heading("notes")}
Short(text) == <<Line("text", text)>>
GivenLists ==
  {<<>>, <<Short("a"), <<[Line("text", "b") EXCEPT !.box = TRUE], Line("text", "t")>>>>,
   <<Short(""), <<Line("text", "c"), Fence, Heading("next"), Line("bullet", "x"), Fence>>, Short("a")>>,
   <<<<Line("text", "d"), Fence>>, Short("a")>>,
   <<<<Line("text", "e"), Heading("completed")>>>>}
MCContents ==
  {[summary |-> s, lists |-> [l \in Lists |-> CASE l = "completed" -> c [] l = "next" -> n
                                             [] OTHER -> <<>>]] :
     s \in SeqOf(SummaryLines, 3), c \in GivenLists, n \in GivenLists}
=============================================================================
