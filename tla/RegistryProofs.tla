--------------------------- MODULE RegistryProofs ---------------------------
(***************************************************************************)
(* What the registry of a profile keeps, for any number of clones, remotes *)
(* and processes of any kinds, however often remotes change, renames fail  *)
(* and processes die.                                                      *)
(***************************************************************************)
EXTENDS Registry, TLAPS

\* Where a process works on a project it has found or made.
Holding == {"merge", "check", "moveHistory", "moveDir", "rename", "touch", "touched",
            "checkpoint", "save", "readTasks", "writeTasks", "delete", "purge"}

\* Where a process adopts the id of the remote it saw.
Adopting == {"check", "moveHistory", "moveDir", "rename"}

Remembers(p) == p.id \in Remotes => p.id \in {p.identity} \cup p.previous

\* What a process has in memory remembers it.
RecallsOf(c) ==
  /\ rec(c) # NoProject => Remembers(rec(c))
  /\ \A p \in knows[c].cache : Remembers(p)

\* Every record, on disk or in memory, remembers the remote its id is from.
AllRemember ==
  /\ \A d \in Ids : project[d] # NoProject => Remembers(project[d])
  /\ \A c \in Callers : RecallsOf(c)

PathOf(c) ==
  /\ pc[c] \in Holding => rec(c) # NoProject
  /\ pc[c] \in Adopting => saw(c) \in Remotes /\ rec(c).identity = saw(c)

Paths == \A c \in Callers : PathOf(c)

\* Processes that run at the same time have met.
Meet == \A c, d \in Callers : c # d /\ Midway(c) /\ Midway(d) => knows[c].met

\* What is in memory is on disk, under its id and with its identity.
OnDisk(p) == project[p.id] # NoProject /\ project[p.id].identity = p.identity

\* What a process knows, unless something was blurred:
\* it is alone if it is about to write the id of a project it moved;
RenamesAlone(c) ==
  pc[c] = "rename" => /\ ~knows[c].met
                      /\ project[saw(c)] # NoProject /\ project[saw(c)].identity = saw(c)

\* what it has in memory is still on disk;
MemoryCurrent(c) ==
  /\ pc[c] \in Holding \ {"rename", "purge"} => OnDisk(rec(c))
  /\ pc[c] = "again" => \A p \in knows[c].cache : OnDisk(p)

\* nobody has the random id it has yet to take;
IdFresh(c) == pc[c] \in {"new", "scan", "again", "create"} => project[c] = NoProject

\* what it did not see when it looked at the list of projects was created since,
\* under the id its remote implies;
SinceListed(c) ==
  pc[c] = "again" => \A d \in Ids : project[d] # NoProject =>
    \/ \E p \in knows[c].cache : p.id = d
    \/ knows[c].met /\ project[d].identity = IF d \in Remotes THEN d ELSE NoRemote

\* about to create the project of a remote, it did not miss one;
NoneMissed(c) ==
  pc[c] = "create" /\ saw(c) # NoRemote =>
    \A d \in Ids : project[d] # NoProject => (project[d].identity = saw(c) <=> d = saw(c))

\* nor did it, if alone, when about to change the identity of a project.
NoneTaken(c) ==
  pc[c] = "merge" /\ ~knows[c].met /\ saw(c) # NoRemote /\ rec(c).identity # saw(c) =>
    \A d \in Ids : project[d] # NoProject => project[d].identity # saw(c)

ClearOf(c) ==
  /\ RenamesAlone(c) /\ MemoryCurrent(c) /\ IdFresh(c) /\ SinceListed(c) /\ NoneMissed(c)
  /\ NoneTaken(c)

\* No two directories have a project of the same remote.
OneDirPerIdentity ==
  \A d, e \in Ids :
    /\ project[d] # NoProject /\ project[e] # NoProject
    /\ project[d].identity = project[e].identity /\ project[d].identity # NoRemote
    => d = e

Clear == halfMoved = {} /\ OneDirPerIdentity /\ \A c \in Callers : ClearOf(c)

\* The inductive invariant.
IInv ==
  /\ TypeOK /\ Paths /\ AllRemember /\ DirMatchesId /\ HistoryKept /\ Meet
  /\ ~blurred => Clear

LEMMA Constants ==
  /\ KindsOf \in [Callers -> SUBSET Kinds] /\ DirOf \in [Callers -> Clones]
  /\ MaxMoves \in Nat /\ MaxDeaths \in Nat
  /\ NoRemote \notin Remotes /\ NoProject \notin Projects /\ Remotes \cap Callers = {}
  BY RegistryAssumption

\* What a process knows with one thing changed.
WithRec(k, p) == [k EXCEPT !.rec = p]
Listing(k) == [k EXCEPT !.listed = TRUE]
WithCache(k, ps) == [k EXCEPT !.cache = ps]
WithSaw(k, r) == [k EXCEPT !.saw = r, !.cache = {}]
Met(k) == [k EXCEPT !.met = TRUE]
Same(k, l) == k.kind = l.kind /\ k.met = l.met

LEMMA Fields ==
  ASSUME NEW k \in Knowledge
  PROVE /\ k.rec \in Projects \cup {NoProject} /\ k.cache \subseteq Projects /\ k.kind \in Kinds
        /\ k.saw \in Remotes \cup {NoRemote} /\ k.owner \in Ids /\ k.tasks \subseteq Callers
        /\ \A q \in Projects \cup {NoProject} :
             /\ WithRec(k, q) \in Knowledge /\ WithRec(k, q).rec = q
             /\ WithRec(k, q).cache = k.cache /\ WithRec(k, q).saw = k.saw /\ Same(WithRec(k, q), k)
        /\ \A ps \in SUBSET Projects :
             /\ WithCache(k, ps) \in Knowledge /\ WithCache(k, ps).cache = ps
             /\ WithCache(k, ps).rec = k.rec /\ WithCache(k, ps).saw = k.saw /\ Same(WithCache(k, ps), k)
        /\ \A r \in Remotes \cup {NoRemote} :
             /\ WithSaw(k, r) \in Knowledge /\ WithSaw(k, r).cache = {}
             /\ WithSaw(k, r).rec = k.rec /\ WithSaw(k, r).saw = r /\ Same(WithSaw(k, r), k)
        /\ Listing(k) \in Knowledge /\ Listing(k).cache = k.cache /\ Listing(k).rec = k.rec
        /\ Listing(k).saw = k.saw /\ Same(Listing(k), k)
        /\ Met(k) \in Knowledge /\ Met(k).cache = k.cache /\ Met(k).rec = k.rec /\ Met(k).saw = k.saw
        /\ Met(k).kind = k.kind /\ Met(k).met
  <1> USE DEF Knowledge
  <1>1. \A q \in Projects \cup {NoProject} :
             /\ WithRec(k, q) \in Knowledge /\ WithRec(k, q).rec = q
             /\ WithRec(k, q).cache = k.cache /\ WithRec(k, q).saw = k.saw /\ Same(WithRec(k, q), k)
    BY DEF WithRec, Same
  <1>2. \A ps \in SUBSET Projects :
             /\ WithCache(k, ps) \in Knowledge /\ WithCache(k, ps).cache = ps
             /\ WithCache(k, ps).rec = k.rec /\ WithCache(k, ps).saw = k.saw /\ Same(WithCache(k, ps), k)
    BY DEF WithCache, Same
  <1>3. \A r \in Remotes \cup {NoRemote} :
             /\ WithSaw(k, r) \in Knowledge /\ WithSaw(k, r).cache = {}
             /\ WithSaw(k, r).rec = k.rec /\ WithSaw(k, r).saw = r /\ Same(WithSaw(k, r), k)
    BY DEF WithSaw, Same
  <1>4. Listing(k) \in Knowledge /\ Listing(k).cache = k.cache /\ Listing(k).rec = k.rec
        /\ Listing(k).saw = k.saw /\ Same(Listing(k), k)
    BY DEF Listing, Same
  <1>5. Met(k) \in Knowledge /\ Met(k).cache = k.cache /\ Met(k).rec = k.rec /\ Met(k).saw = k.saw
        /\ Met(k).kind = k.kind /\ Met(k).met
    BY DEF Met
  <1>6. k.rec \in Projects \cup {NoProject} /\ k.cache \subseteq Projects /\ k.kind \in Kinds
        /\ k.saw \in Remotes \cup {NoRemote} /\ k.owner \in Ids /\ k.tasks \subseteq Callers
    OBVIOUS
  <1>7. QED
    BY <1>1, <1>2, <1>3, <1>4, <1>5, <1>6

LEMMA NothingMeans ==
  ASSUME NEW c \in Callers
  PROVE /\ Nothing(c) \in Knowledge /\ Nothing(c).rec = NoProject /\ Nothing(c).cache = {}
        /\ ~Nothing(c).met /\ Nothing(c).saw = NoRemote
  BY DEF Nothing, Knowledge, Kinds, Ids

\* Process c goes on at a label with what it knows, or ends; the others stay as they are.
Moves(c, label, known) ==
  /\ pc' \in [Callers -> Labels] /\ knows' \in [Callers -> Knowledge]
  /\ pc'[c] = label
  /\ label \in {"done", "dead"} => knows'[c] = Nothing(c)
  /\ label \notin {"done", "dead"} => knows'[c] = known
  /\ \A d \in Callers : d # c => pc'[d] = pc[d] /\ knows'[d] = knows[d]

LEMMA Proceeds ==
  ASSUME TypeOK, NEW c \in Callers, NEW label \in Labels, NEW known \in Knowledge, Proceed(c, label, known)
  PROVE Moves(c, label, known)
  BY NothingMeans DEF TypeOK, Proceed, Moves

\* The same, as far as the properties tell.
Turns(c, label, p, ps, r) ==
  /\ pc'[c] = label
  /\ label \in {"done", "dead"} => knows'[c].rec = NoProject /\ knows'[c].cache = {} /\ ~knows'[c].met
  /\ label \notin {"done", "dead"} =>
       /\ knows'[c].rec = p /\ knows'[c].cache = ps /\ knows'[c].saw = r
       /\ knows'[c].met = knows[c].met
  /\ \A d \in Callers : d # c => pc'[d] = pc[d] /\ knows'[d] = knows[d]

LEMMA MovesTurn ==
  ASSUME NEW c \in Callers, NEW label \in Labels, NEW known, Moves(c, label, known), known.met = knows[c].met
  PROVE Turns(c, label, known.rec, known.cache, known.saw)
  BY NothingMeans DEF Moves, Turns

LEMMA GoesTo ==
  ASSUME TypeOK, NEW c \in Callers, NEW label \in Labels, Goto(c, label)
  PROVE Moves(c, label, knows[c]) /\ knows[c] \in Knowledge
  BY Proceeds DEF TypeOK, Goto

LEMMA WorksOn ==
  ASSUME TypeOK, NEW c \in Callers, NEW label \in Labels, NEW p \in Projects \cup {NoProject}, Works(c, label, p)
  PROVE /\ Moves(c, label, WithRec(knows[c], p)) /\ WithRec(knows[c], p) \in Knowledge
        /\ Turns(c, label, p, knows[c].cache, saw(c))
  <1>1. WithRec(knows[c], p) \in Knowledge
    BY Fields DEF TypeOK
  <1>2. Proceed(c, label, WithRec(knows[c], p))
    BY DEF Works, WithRec
  <1>3. Moves(c, label, WithRec(knows[c], p))
    BY <1>1, <1>2, Proceeds
  <1>4. /\ WithRec(knows[c], p).rec = p /\ WithRec(knows[c], p).cache = knows[c].cache
        /\ WithRec(knows[c], p).saw = saw(c) /\ WithRec(knows[c], p).met = knows[c].met
    <2>1. knows[c] \in Knowledge
      BY DEF TypeOK
    <2>2. QED
      BY <2>1, Fields DEF Same, saw
  <1>5. QED
    BY <1>1, <1>3, <1>4, MovesTurn

\* What a record becomes.
LEMMA Records ==
  /\ \A p \in Projects : \A d \in Clones :
       /\ Located(p, d) \in Projects /\ Located(p, d).id = p.id /\ Located(p, d).identity = p.identity
       /\ Located(p, d).previous = p.previous
  /\ \A p \in Projects : \A r \in Remotes \cup {NoRemote} :
       /\ Reconciled(p, r) \in Projects /\ Reconciled(p, r).id = p.id
       /\ r = NoRemote => Reconciled(p, r).identity = p.identity
       /\ r # NoRemote => Reconciled(p, r).identity = r
       /\ Remembers(p) => Remembers(Reconciled(p, r))
  <1>1. \A p \in Projects : \A d \in Clones :
       /\ Located(p, d) \in Projects /\ Located(p, d).id = p.id /\ Located(p, d).identity = p.identity
       /\ Located(p, d).previous = p.previous
    BY DEF Located, Projects
  <1>2. ASSUME NEW p \in Projects, NEW r \in Remotes \cup {NoRemote}
        PROVE /\ Reconciled(p, r) \in Projects /\ Reconciled(p, r).id = p.id
              /\ r = NoRemote => Reconciled(p, r).identity = p.identity
              /\ r # NoRemote => Reconciled(p, r).identity = r
              /\ Remembers(p) => Remembers(Reconciled(p, r))
    <2>1. CASE r = NoRemote
      BY <2>1 DEF Reconciled
    <2>2. CASE r # NoRemote /\ p.identity \in {r, NoRemote}
      BY <2>2, Constants DEF Reconciled, Projects, Remembers
    <2>3. CASE r # NoRemote /\ p.identity \notin {r, NoRemote}
      BY <2>3, Constants DEF Reconciled, Projects, Remembers
    <2>4. QED
      BY <2>1, <2>2, <2>3
  <1>3. QED
    BY <1>1, <1>2

LEMMA Candidates ==
  ASSUME TypeOK, NEW c \in Callers
  PROVE /\ Candidate(c) \in Projects /\ Candidate(c).identity = saw(c) /\ Remembers(Candidate(c))
        /\ saw(c) = NoRemote => Candidate(c).id = c
        /\ saw(c) # NoRemote => Candidate(c).id = saw(c) /\ saw(c) \in Remotes
  BY Constants DEF TypeOK, Knowledge, Candidate, Projects, Ids, saw, Remembers

LEMMA Renames ==
  ASSUME TypeOK, NEW c \in Callers, rec(c) # NoProject, saw(c) \in Remotes
  PROVE /\ Renamed(c) \in Projects /\ Renamed(c).id = saw(c) /\ Renamed(c).identity = rec(c).identity
        /\ Renamed(c).previous = rec(c).previous
  BY DEF TypeOK, Knowledge, Renamed, Projects, Ids, saw, rec

\* Which label a process goes on to.
LEMMA Labelled ==
  ASSUME TypeOK, NEW c \in Callers
  PROVE /\ AfterFound(kind(c)) \in {"merge", "touch", "checkpoint", "readTasks", "delete"}
        /\ AfterFound(kind(c)) = "delete" <=> kind(c) = "remove"
        /\ AfterMissed(c) \in {"create", "again", "done"}
        /\ AfterMissed(c) = "again" => saw(c) # NoRemote
        /\ AfterMissed(c) # "done" => kind(c) # "remove"
        /\ AfterRegister(c) \in {"touch", "done"}
  BY DEF TypeOK, Knowledge, Kinds, kind, AfterFound, AfterMissed, AfterRegister

LEMMA Listings ==
  ASSUME TypeOK
  PROVE /\ All \subseteq Projects
        /\ \A p \in All : \E d \in Ids : project[d] = p /\ p # NoProject
        /\ \A d \in Ids : project[d] # NoProject => project[d] \in All
  BY DEF TypeOK, All

-----------------------------------------------------------------------------
(* What each operation does.                                               *)

Identified(c) ==
  /\ pc[c] = "new"
  /\ pc' \in [Callers -> Labels] /\ knows' \in [Callers -> Knowledge]
  /\ pc'[c] \in {"scan", "merge", "touch", "checkpoint", "readTasks"}
  /\ knows'[c].cache = knows[c].cache
  /\ pc'[c] = "scan" => knows'[c].rec = NoProject
  /\ pc'[c] # "scan" =>
       /\ knows'[c].saw \in Remotes /\ project[knows'[c].saw] # NoProject
       /\ knows'[c].rec = project[knows'[c].saw] /\ knows'[c].rec.identity = knows'[c].saw
  /\ (\E d \in Callers : d # c /\ Midway(d)) => knows'[c].met
  /\ \A d \in Callers : d # c =>
       /\ pc'[d] = pc[d]
       /\ Midway(d) => knows'[d] = Met(knows[d])
       /\ ~Midway(d) => knows'[d] = knows[d]
  /\ (~blurred') => ~blurred /\ \A d \in Callers : pc[d] # "rename"
  /\ blurred' \in BOOLEAN
  /\ UNCHANGED <<remote, diskVars, boundVars, owed, halfMoved>>

LEMMA Identifies == ASSUME TypeOK, NEW c \in Callers, Identify(c) PROVE Identified(c)
  <1> DEFINE r == remote[DirOf[c]]
             direct(k) == IF k = "remove" THEN {} ELSE Direct({}, r)
             others == {d \in Callers \ {c} : Midway(d)}
             known(k) == [knows[c] EXCEPT !.kind = k, !.saw = r, !.met = others # {},
                        !.rec = IF direct(k) = {} THEN NoProject ELSE CHOOSE p \in direct(k) : TRUE]
  <1>1. PICK k \in KindsOf[c] :
          /\ pc' = [pc EXCEPT ![c] = IF direct(k) = {} THEN "scan" ELSE AfterFound(k)]
          /\ knows' = [d \in Callers |->
               IF d = c THEN known(k)
               ELSE IF d \in others THEN [knows[d] EXCEPT !.met = TRUE] ELSE knows[d]]
    BY DEF Identify
  <1>2. r \in Remotes \cup {NoRemote} /\ k \in Kinds
    BY Constants DEF TypeOK
  <1>3. Direct({}, r) \subseteq {p \in Projects : r \in Remotes /\ p = project[r] /\ p # NoProject /\ p.identity = r}
    BY <1>2, Constants DEF Direct, ById, TypeOK, Ids
  <1>4. direct(k) # {} =>
          /\ k # "remove" /\ r \in Remotes /\ project[r] # NoProject /\ project[r].identity = r
          /\ (CHOOSE p \in direct(k) : TRUE) = project[r] /\ project[r] \in Projects
    BY <1>3
  <1> DEFINE found == IF direct(k) = {} THEN NoProject ELSE CHOOSE p \in direct(k) : TRUE
             label == IF direct(k) = {} THEN "scan" ELSE AfterFound(k)
             met == others # {}
  <1>5. found \in Projects \cup {NoProject}
    BY <1>4
  <1>6. label \in {"scan", "merge", "touch", "checkpoint", "readTasks"} /\ (label = "scan" <=> direct(k) = {})
    BY <1>2, <1>4 DEF AfterFound, Kinds
  <1>7. met \in BOOLEAN /\ (met <=> \E d \in Callers : d # c /\ Midway(d))
    BY Zenon
  <1>8. /\ known(k) \in Knowledge /\ known(k).cache = knows[c].cache /\ known(k).saw = r
        /\ known(k).rec = found /\ known(k).met = met
    <2> HIDE DEF found, met, r, direct, others
    <2>1. knows[c] \in Knowledge
      BY DEF TypeOK
    <2>2. known(k) = [knows[c] EXCEPT !.kind = k, !.saw = r, !.met = met, !.rec = found]
      BY DEF known, found, met
    <2> HIDE DEF known
    <2>3. QED
      BY <2>1, <2>2, <1>2, <1>5, <1>7 DEF Knowledge
  <1>9. \A d \in others : [knows[d] EXCEPT !.met = TRUE] = Met(knows[d]) /\ Met(knows[d]) \in Knowledge
    BY Fields DEF TypeOK, Met
  <1> HIDE DEF found, label, met, r, known
  <1>10. knows' = [d \in Callers |->
               IF d = c THEN known(k) ELSE IF d \in others THEN Met(knows[d]) ELSE knows[d]]
    BY <1>1, <1>9
  <1>11. knows' \in [Callers -> Knowledge]
    BY <1>8, <1>9, <1>10 DEF TypeOK
  <1>12. pc' = [pc EXCEPT ![c] = label]
    BY <1>1 DEF label
  <1>13. pc[c] = "new" /\ blurred' = (blurred \/ \E d \in Callers : pc[d] = "rename")
         /\ UNCHANGED <<remote, diskVars, boundVars, owed, halfMoved>>
    BY DEF Identify
  <1>14. /\ blurred' \in BOOLEAN
         /\ (~blurred') => ~blurred /\ \A d \in Callers : pc[d] # "rename"
    BY <1>13, Zenon DEF TypeOK
  <1>15. \A d \in Callers : d # c =>
           /\ pc'[d] = pc[d]
           /\ Midway(d) => knows'[d] = Met(knows[d])
           /\ ~Midway(d) => knows'[d] = knows[d]
    BY <1>10, <1>12 DEF TypeOK
  <1>16. knows'[c] = known(k) /\ pc'[c] = label
    BY <1>10, <1>12 DEF TypeOK
  <1>17. (\E d \in Callers : d # c /\ Midway(d)) => knows'[c].met
    BY <1>7, <1>8, <1>16, Zenon
  <1>18. pc' \in [Callers -> Labels]
    BY <1>6, <1>12 DEF TypeOK, Labels
  <1>19. pc'[c] # "scan" =>
       /\ knows'[c].saw \in Remotes /\ project[knows'[c].saw] # NoProject
       /\ knows'[c].rec = project[knows'[c].saw] /\ knows'[c].rec.identity = knows'[c].saw
    BY <1>4, <1>6, <1>8, <1>16 DEF found
  <1>20. pc'[c] = "scan" => knows'[c].rec = NoProject
    BY <1>6, <1>8, <1>16 DEF found
  <1>21. QED
    BY <1>6, <1>8, <1>11, <1>13, <1>14, <1>15, <1>16, <1>17, <1>18, <1>19, <1>20 DEF Identified

\* Where a process writes.
LEMMA Places ==
  ASSUME TypeOK, NEW c \in Callers
  PROVE /\ rec(c) # NoProject => rec(c) \in Projects /\ rec(c).id \in Ids
        /\ saw(c) \in Remotes => saw(c) \in Ids
        /\ \A d \in Ids : NoTasks(d) \in TaskFiles
        /\ \A p \in Projects : p.id \in Ids
  BY Fields DEF TypeOK, rec, saw, Ids, NoTasks, TaskFiles, Projects

LEMMA MatchesMean ==
  ASSUME NEW c \in Callers, NEW ps \in SUBSET Projects, NEW r \in Remotes \cup {NoRemote}
  PROVE /\ Matches(c, r, ps) \subseteq ps
        /\ Matches(c, r, ps) = {} /\ r # NoRemote => \A p \in ps : p.identity # r /\ r \notin p.previous
        /\ \A p \in Matches(c, r, ps) : r # NoRemote /\ p.identity # r => \A q \in ps : q.identity # r
  <1> DEFINE current == {p \in ps : p.identity = r}
             transferred == {p \in ps : r \in p.previous}
             here == {p \in ps : DirOf[c] \in p.at}
  <1>1. CASE r # NoRemote /\ current # {}
    <2>1. Matches(c, r, ps) = current
      BY <1>1 DEF Matches
    <2>2. QED
      BY <1>1, <2>1
  <1>2. CASE r # NoRemote /\ current = {} /\ transferred # {}
    <2>1. Matches(c, r, ps) = transferred
      BY <1>2 DEF Matches
    <2>2. QED
      BY <1>2, <2>1
  <1>3. CASE r # NoRemote /\ current = {} /\ transferred = {}
    <2>1. Matches(c, r, ps) = here
      BY <1>3 DEF Matches
    <2>2. QED
      BY <1>3, <2>1
  <1>4. CASE r = NoRemote
    <2>1. Matches(c, r, ps) = here
      BY <1>4 DEF Matches
    <2>2. QED
      BY <1>4, <2>1
  <1>5. QED
    BY <1>1, <1>2, <1>3, <1>4

\* What a process found when it looked at the list of projects, or that it found nothing.
ScansTo(c, label, known) ==
  /\ pc[c] = "scan" /\ label \in Labels /\ known \in Knowledge /\ Moves(c, label, known)
  /\ known.saw = saw(c) /\ Same(known, knows[c])
  /\ Turns(c, label, known.rec, known.cache, saw(c))
  /\ \/ /\ label = AfterFound(kind(c))
        /\ known.rec \in All /\ known.cache = knows[c].cache
        /\ label # "delete" => known.rec \in Matches(c, saw(c), All)
     \/ /\ label \in {"create", "again", "done"} /\ known.rec = rec(c)
        /\ label # "done" => Matches(c, saw(c), All) = {}
        /\ label = "again" => known.cache = All
        /\ label # "again" => known.cache = {}
  /\ UNCHANGED <<remote, diskVars, boundVars, historyVars>>

LEMMA Scans ==
  ASSUME TypeOK, NEW c \in Callers, Scan(c)
  PROVE \E label \in Labels, known \in Knowledge : ScansTo(c, label, known)
  <1> DEFINE found == IF kind(c) = "remove" THEN All ELSE Matches(c, saw(c), All)
             listed == Listing(knows[c])
  <1>1. /\ listed \in Knowledge /\ listed.cache = knows[c].cache /\ listed.rec = rec(c)
        /\ listed.saw = saw(c) /\ Same(listed, knows[c])
    BY Fields DEF TypeOK, rec, saw
  <1>2. All \subseteq Projects /\ saw(c) \in Remotes \cup {NoRemote}
    BY Listings, Fields DEF TypeOK, saw
  <1>3. found \subseteq All
    BY <1>2, MatchesMean
  <1>4. /\ AfterFound(kind(c)) \in Labels /\ AfterMissed(c) \in Labels
        /\ AfterMissed(c) \in {"create", "again", "done"}
        /\ AfterFound(kind(c)) = "delete" <=> kind(c) = "remove"
        /\ AfterMissed(c) # "done" => kind(c) # "remove"
    BY Labelled DEF Labels
  <1> DEFINE ps == IF AfterMissed(c) = "again" THEN All ELSE {}
  <1>5. \/ \E p \in found : Proceed(c, AfterFound(kind(c)), WithRec(listed, p))
        \/ found = {} /\ Proceed(c, AfterMissed(c), WithCache(listed, ps))
    BY DEF Scan, WithRec, WithCache, Listing
  <1>6. pc[c] = "scan" /\ UNCHANGED <<remote, diskVars, boundVars, historyVars>>
    BY DEF Scan
  <1>7. ASSUME NEW p \in found, Proceed(c, AfterFound(kind(c)), WithRec(listed, p))
        PROVE \E label \in Labels, known \in Knowledge : ScansTo(c, label, known)
    <2> HIDE DEF listed
    <2>1. /\ WithRec(listed, p) \in Knowledge /\ WithRec(listed, p).rec = p
          /\ WithRec(listed, p).cache = knows[c].cache /\ WithRec(listed, p).saw = saw(c)
          /\ Same(WithRec(listed, p), knows[c])
      <3>1. p \in Projects \cup {NoProject} /\ listed \in Knowledge
        BY <1>1, <1>2, <1>3
      <3>2. /\ WithRec(listed, p) \in Knowledge /\ WithRec(listed, p).saw = listed.saw
            /\ WithRec(listed, p).rec = p
            /\ WithRec(listed, p).cache = listed.cache
            /\ Same(WithRec(listed, p), listed)
        BY <3>1, Fields
      <3>3. QED
        BY <3>2, <1>1, <1>2 DEF Same
    <2>2. Moves(c, AfterFound(kind(c)), WithRec(listed, p))
      BY <1>4, <1>7, <2>1, Proceeds
    <2>3. ScansTo(c, AfterFound(kind(c)), WithRec(listed, p))
      BY <1>3, <1>4, <1>6, <2>1, <2>2, MovesTurn DEF ScansTo, Same
    <2>4. QED
      BY <1>4, <2>1, <2>3
  <1>8. ASSUME found = {}, Proceed(c, AfterMissed(c), WithCache(listed, ps))
        PROVE \E label \in Labels, known \in Knowledge : ScansTo(c, label, known)
    <2>1. ps \in SUBSET Projects
      BY <1>2
    <2>2. AfterMissed(c) # "done" => Matches(c, saw(c), All) = {}
      BY <1>4, <1>8
    <2>3. (AfterMissed(c) = "again" => ps = All) /\ (AfterMissed(c) # "again" => ps = {})
      OBVIOUS
    <2> HIDE DEF listed, ps
    <2>4. /\ WithCache(listed, ps) \in Knowledge /\ WithCache(listed, ps).rec = rec(c)
          /\ WithCache(listed, ps).cache = ps /\ WithCache(listed, ps).saw = saw(c)
          /\ Same(WithCache(listed, ps), knows[c])
      <3>1. ps \in SUBSET Projects /\ listed \in Knowledge
        BY <1>1, <2>1
      <3>2. /\ WithCache(listed, ps) \in Knowledge /\ WithCache(listed, ps).saw = listed.saw
            /\ WithCache(listed, ps).rec = listed.rec
            /\ WithCache(listed, ps).cache = ps
            /\ Same(WithCache(listed, ps), listed)
        BY <3>1, Fields
      <3>3. QED
        BY <3>2, <1>1, <1>2 DEF Same
    <2>5. Moves(c, AfterMissed(c), WithCache(listed, ps))
      BY <1>4, <1>8, <2>4, Proceeds
    <2>6. ScansTo(c, AfterMissed(c), WithCache(listed, ps))
      BY <1>4, <1>6, <2>2, <2>3, <2>4, <2>5, MovesTurn DEF ScansTo, Same
    <2>7. QED
      BY <1>4, <2>4, <2>6
  <1>9. QED
    BY <1>5, <1>7, <1>8

ScansAgainTo(c, label, known) ==
  /\ pc[c] = "again" /\ Moves(c, label, known)
  /\ known.saw \in Remotes \cup {NoRemote} /\ Same(known, knows[c]) /\ known.cache = {}
  /\ Turns(c, label, known.rec, {}, known.saw)
  /\ \/ /\ label = "merge"
        /\ \/ known.rec \in knows[c].cache
           \/ /\ known.saw \in Remotes /\ known.rec = project[known.saw]
              /\ known.rec # NoProject /\ known.rec.identity = known.saw
        /\ known.saw # NoRemote /\ known.rec.identity # known.saw =>
             \A p \in knows[c].cache : p.identity # known.saw
     \/ /\ label = "create" /\ known.rec = rec(c)
        /\ known.saw # NoRemote =>
             \A p \in knows[c].cache : p.identity # known.saw /\ known.saw \notin p.previous
  /\ UNCHANGED <<remote, diskVars, boundVars, historyVars>>

LEMMA ScansAgain ==
  ASSUME TypeOK, NEW c \in Callers, IdentifyAgain(c)
  PROVE \E label \in {"merge", "create"}, known \in Knowledge : ScansAgainTo(c, label, known)
  <1> DEFINE r == remote[DirOf[c]]
             cache == knows[c].cache
             direct == Direct(cache, r)
             found == IF direct # {} THEN direct ELSE Matches(c, r, cache)
             known == WithSaw(knows[c], r)
  <1>1. r \in Remotes \cup {NoRemote} /\ knows[c] \in Knowledge /\ cache \subseteq Projects
    BY Constants, Fields DEF TypeOK
  <1>2. /\ known \in Knowledge /\ known.cache = {} /\ known.saw = r /\ known.rec = rec(c)
        /\ Same(known, knows[c])
    BY <1>1, Fields DEF rec
  <1>3. direct \subseteq {p \in Projects : /\ p \in cache \/ (r \in Remotes /\ p = project[r] /\ p # NoProject)
                                           /\ p.identity = r}
    BY <1>1, Constants DEF Direct, ById, TypeOK, Ids
  <1>4. \A p \in found : /\ p \in Projects
                         /\ \/ p \in cache
                            \/ r \in Remotes /\ p = project[r] /\ p # NoProject /\ p.identity = r
                         /\ r # NoRemote /\ p.identity # r => \A q \in cache : q.identity # r
    BY <1>1, <1>3, MatchesMean
  <1>5. found = {} /\ r # NoRemote => \A q \in cache : q.identity # r /\ r \notin q.previous
    BY <1>1, MatchesMean
  <1>6. \/ \E p \in found : Proceed(c, "merge", WithRec(known, p))
        \/ found = {} /\ Proceed(c, "create", known)
    BY DEF IdentifyAgain, WithRec, WithSaw
  <1>7. pc[c] = "again" /\ UNCHANGED <<remote, diskVars, boundVars, historyVars>>
    BY DEF IdentifyAgain
  <1> HIDE DEF r, direct, found, known
  <1>8. ASSUME NEW p \in found, Proceed(c, "merge", WithRec(known, p))
        PROVE \E label \in {"merge", "create"}, k \in Knowledge : ScansAgainTo(c, label, k)
    <2>1. /\ WithRec(known, p) \in Knowledge /\ WithRec(known, p).rec = p
          /\ WithRec(known, p).cache = {} /\ WithRec(known, p).saw = r
          /\ Same(WithRec(known, p), knows[c])
      <3>1. p \in Projects \cup {NoProject} /\ known \in Knowledge
        BY <1>2, <1>4
      <3>2. /\ WithRec(known, p) \in Knowledge /\ WithRec(known, p).saw = known.saw
            /\ WithRec(known, p).rec = p
            /\ WithRec(known, p).cache = known.cache
            /\ Same(WithRec(known, p), known)
        BY <3>1, Fields
      <3>3. QED
        BY <3>2, <1>1, <1>2 DEF Same
    <2>2. Moves(c, "merge", WithRec(known, p))
      BY <1>8, <2>1, Proceeds DEF Labels
    <2>3. ScansAgainTo(c, "merge", WithRec(known, p))
      BY <1>1, <1>4, <1>7, <2>1, <2>2, MovesTurn DEF ScansAgainTo, Same, Labels
    <2>4. QED
      BY <2>1, <2>3
  <1>9. ASSUME found = {}, Proceed(c, "create", known)
        PROVE \E label \in {"merge", "create"}, k \in Knowledge : ScansAgainTo(c, label, k)
    <2>1. Moves(c, "create", known)
      BY <1>2, <1>9, Proceeds DEF Labels
    <2>2. ScansAgainTo(c, "create", known)
      BY <1>1, <1>2, <1>5, <1>7, <1>9, <2>1, MovesTurn DEF ScansAgainTo, Same, Labels
    <2>3. QED
      BY <1>2, <2>2
  <1>10. QED
    BY <1>6, <1>8, <1>9

\* The record a process writes, where, and where it goes on with which record in memory.
Saves(c, p, label) ==
  /\ p \in Projects
  /\ project' = [project EXCEPT ![p.id] = p]
  /\ Moves(c, label, WithRec(knows[c], p)) /\ WithRec(knows[c], p) \in Knowledge
  /\ Turns(c, label, p, knows[c].cache, saw(c))

Creates(c) ==
  /\ pc[c] = "create"
  /\ Saves(c, Candidate(c), AfterRegister(c))
  /\ UNCHANGED <<remote, taskFile, checkpoints, boundVars, historyVars>>

LEMMA CreateMeans == ASSUME TypeOK, NEW c \in Callers, Create(c) PROVE Creates(c)
  <1>1. Candidate(c) \in Projects /\ AfterRegister(c) \in Labels
    BY Candidates, Labelled DEF Labels
  <1>2. /\ Moves(c, AfterRegister(c), WithRec(knows[c], Candidate(c))) /\ WithRec(knows[c], Candidate(c)) \in Knowledge
        /\ Turns(c, AfterRegister(c), Candidate(c), knows[c].cache, saw(c))
    BY <1>1, WorksOn DEF Create
  <1>3. QED
    BY <1>1, <1>2 DEF Create, Save, Creates, Saves

MergedRec(c) == Reconciled(Located(rec(c), DirOf[c]), saw(c))

Merges(c) ==
  /\ pc[c] = "merge"
  /\ Saves(c, MergedRec(c), IF GainsRemote(rec(c), saw(c)) THEN "check" ELSE AfterRegister(c))
  /\ blurred' = (blurred \/ (MergedRec(c).identity # rec(c).identity /\ knows[c].met))
  /\ MergedRec(c).id = rec(c).id
  /\ saw(c) = NoRemote => MergedRec(c).identity = rec(c).identity
  /\ saw(c) # NoRemote => MergedRec(c).identity = saw(c) /\ saw(c) \in Remotes
  /\ Remembers(rec(c)) => Remembers(MergedRec(c))
  /\ UNCHANGED <<remote, taskFile, checkpoints, boundVars, owed, halfMoved>>

LEMMA MergeMeans == ASSUME TypeOK, Paths, NEW c \in Callers, Merge(c) PROVE Merges(c)
  <1>1. rec(c) \in Projects /\ saw(c) \in Remotes \cup {NoRemote} /\ DirOf[c] \in Clones
    BY Constants, Fields DEF Merge, TypeOK, Paths, PathOf, Holding, rec, saw
  <1>2. Located(rec(c), DirOf[c]) \in Projects
    BY <1>1, Records
  <1>3. /\ MergedRec(c) \in Projects
        /\ MergedRec(c).id = rec(c).id
        /\ saw(c) = NoRemote => MergedRec(c).identity = rec(c).identity
        /\ saw(c) # NoRemote => MergedRec(c).identity = saw(c) /\ saw(c) \in Remotes
        /\ Remembers(rec(c)) => Remembers(MergedRec(c))
    BY <1>1, <1>2, Records DEF MergedRec, Remembers
  <1>4. (IF GainsRemote(rec(c), saw(c)) THEN "check" ELSE AfterRegister(c)) \in Labels
    BY Labelled DEF Labels
  <1>5. /\ pc[c] = "merge" /\ Save(MergedRec(c))
        /\ Works(c, IF GainsRemote(rec(c), saw(c)) THEN "check" ELSE AfterRegister(c), MergedRec(c))
        /\ blurred' = (blurred \/ (MergedRec(c).identity # rec(c).identity /\ knows[c].met))
        /\ UNCHANGED <<remote, taskFile, checkpoints, boundVars, owed, halfMoved>>
    BY DEF Merge, MergedRec
  <1> HIDE DEF MergedRec
  <1>6. /\ Moves(c, IF GainsRemote(rec(c), saw(c)) THEN "check" ELSE AfterRegister(c), WithRec(knows[c], MergedRec(c)))
        /\ WithRec(knows[c], MergedRec(c)) \in Knowledge
        /\ Turns(c, IF GainsRemote(rec(c), saw(c)) THEN "check" ELSE AfterRegister(c), MergedRec(c),
                 knows[c].cache, saw(c))
    BY <1>3, <1>4, <1>5, WorksOn
  <1>7. QED
    BY <1>3, <1>5, <1>6 DEF Merges, Saves, Save

\* A step that changes no project, and goes on at one of these labels.
Stays(c, label) ==
  /\ Moves(c, label, knows[c]) /\ knows[c] \in Knowledge
  /\ Turns(c, label, rec(c), knows[c].cache, saw(c))

LEMMA Goes ==
  ASSUME TypeOK, NEW c \in Callers, NEW label \in Labels, Goto(c, label)
  PROVE Stays(c, label)
  BY GoesTo, MovesTurn DEF Stays, rec, saw

Checks(c) ==
  /\ pc[c] = "check" /\ \E label \in {"moveHistory", "touch", "done"} : Stays(c, label)
  /\ UNCHANGED <<remote, diskVars, boundVars, historyVars>>

LEMMA CheckMeans == ASSUME TypeOK, NEW c \in Callers, CheckDerived(c) PROVE Checks(c)
  <1>1. CASE project[saw(c)] # NoProject
    BY <1>1, Goes, Labelled DEF CheckDerived, Checks, Labels
  <1>2. CASE project[saw(c)] = NoProject
    BY <1>2, Goes DEF CheckDerived, Checks, Labels
  <1>3. QED
    BY <1>1, <1>2

MovesHistory(c) ==
  /\ pc[c] = "moveHistory" /\ \E label \in {"moveDir", "touch", "done"} : Stays(c, label)
  /\ \/ checkpoints' = checkpoints
     \/ /\ checkpoints[rec(c).id] # {} /\ checkpoints[saw(c)] = {}
        /\ checkpoints' = [checkpoints EXCEPT ![saw(c)] = checkpoints[rec(c).id], ![rec(c).id] = {}]
  /\ deaths' \in 0..MaxDeaths
  /\ UNCHANGED <<remote, project, taskFile, moves, historyVars>>

LEMMA FailMeans ==
  ASSUME TypeOK, NEW c \in Callers, Fails(c)
  PROVE deaths' \in 0..MaxDeaths /\ \E label \in {"touch", "done"} : Stays(c, label)
  <1>1. deaths' \in 0..MaxDeaths
    BY Constants DEF Fails, TypeOK
  <1>2. AfterRegister(c) \in {"touch", "done"} /\ Stays(c, AfterRegister(c))
    BY Goes, Labelled DEF Fails, Labels
  <1>3. QED
    BY <1>1, <1>2

LEMMA MoveHistoryMeans == ASSUME TypeOK, NEW c \in Callers, MoveHistory(c) PROVE MovesHistory(c)
  <1>1. pc[c] = "moveHistory" /\ UNCHANGED <<remote, project, taskFile, moves, historyVars>> /\ deaths \in 0..MaxDeaths
    BY DEF MoveHistory, TypeOK
  <1>2. CASE /\ Movable(rec(c).id, saw(c))
             /\ checkpoints' = IF checkpoints[rec(c).id] = {} THEN checkpoints
                ELSE [checkpoints EXCEPT ![saw(c)] = checkpoints[rec(c).id], ![rec(c).id] = {}]
             /\ Goto(c, "moveDir")
             /\ UNCHANGED deaths
    <2>1. Stays(c, "moveDir")
      BY <1>2, Goes DEF Labels
    <2>2. QED
      BY <1>1, <1>2, <2>1 DEF Movable, MovesHistory
  <1>3. CASE Goto(c, AfterRegister(c)) /\ UNCHANGED <<checkpoints, deaths>>
    BY <1>1, <1>3, Goes, Labelled DEF Labels, MovesHistory
  <1>4. CASE Fails(c) /\ UNCHANGED checkpoints
    BY <1>1, <1>4, FailMeans DEF MovesHistory
  <1>5. QED
    BY <1>2, <1>3, <1>4 DEF MoveHistory

MovesDir(c) ==
  /\ pc[c] = "moveDir"
  /\ \/ /\ Stays(c, "rename") /\ project[saw(c)] = NoProject
        /\ project' = [project EXCEPT ![saw(c)] = project[rec(c).id], ![rec(c).id] = NoProject]
        /\ taskFile' = [taskFile EXCEPT ![saw(c)] = taskFile[rec(c).id], ![rec(c).id] = NoTasks(rec(c).id)]
        /\ blurred' = (blurred \/ knows[c].met)
     \/ /\ Stays(c, "rename") /\ project[rec(c).id] = NoProject
        /\ UNCHANGED <<project, taskFile, blurred>>
     \/ (\E label \in {"touch", "done"} : Stays(c, label)) /\ UNCHANGED <<project, taskFile, blurred>>
  /\ deaths' \in 0..MaxDeaths
  /\ UNCHANGED <<remote, checkpoints, moves, owed, halfMoved>>

LEMMA MoveDirMeans == ASSUME TypeOK, NEW c \in Callers, MoveDir(c) PROVE MovesDir(c)
  <1>1. pc[c] = "moveDir" /\ UNCHANGED <<remote, checkpoints, moves, owed, halfMoved>> /\ deaths \in 0..MaxDeaths
    BY DEF MoveDir, TypeOK
  <1>2. CASE /\ HasFiles(rec(c).id) /\ ~HasFiles(saw(c))
             /\ project' = [project EXCEPT ![saw(c)] = project[rec(c).id], ![rec(c).id] = NoProject]
             /\ taskFile' = [taskFile EXCEPT ![saw(c)] = taskFile[rec(c).id], ![rec(c).id] = NoTasks(rec(c).id)]
             /\ blurred' = (blurred \/ knows[c].met)
             /\ Goto(c, "rename") /\ UNCHANGED deaths
    <2>1. Stays(c, "rename")
      BY <1>2, Goes DEF Labels
    <2>2. QED
      BY <1>1, <1>2, <2>1 DEF HasFiles, MovesDir
  <1>3. CASE /\ ~HasFiles(rec(c).id) /\ Goto(c, "rename") /\ UNCHANGED <<project, taskFile, blurred, deaths>>
    <2>1. Stays(c, "rename")
      BY <1>3, Goes DEF Labels
    <2>2. QED
      BY <1>1, <1>3, <2>1 DEF HasFiles, MovesDir
  <1>4. CASE Goto(c, AfterRegister(c)) /\ UNCHANGED <<project, taskFile, blurred, deaths>>
    BY <1>1, <1>4, Goes, Labelled DEF Labels, MovesDir
  <1>5. CASE Fails(c) /\ UNCHANGED <<project, taskFile, blurred>>
    BY <1>1, <1>5, FailMeans DEF MovesDir
  <1>6. QED
    BY <1>2, <1>3, <1>4, <1>5 DEF MoveDir

SavesRenamed(c) ==
  /\ pc[c] = "rename"
  /\ \/ /\ \E label \in {"touch", "done"} : Saves(c, Renamed(c), label)
        /\ blurred' = (blurred \/ knows[c].met)
        /\ UNCHANGED <<deaths, halfMoved>>
     \/ /\ \E label \in {"touch", "done"} : Stays(c, label)
        /\ halfMoved' = halfMoved \cup {saw(c)} /\ blurred' = TRUE
        /\ UNCHANGED project /\ deaths' \in 0..MaxDeaths
  /\ UNCHANGED <<remote, taskFile, checkpoints, moves, owed>>

LEMMA SaveRenamedMeans ==
  ASSUME TypeOK, Paths, NEW c \in Callers, SaveRenamed(c)
  PROVE SavesRenamed(c)
  <1>1. pc[c] = "rename" /\ UNCHANGED <<remote, taskFile, checkpoints, moves, owed>>
    BY DEF SaveRenamed
  <1>2. rec(c) # NoProject /\ saw(c) \in Remotes
    BY <1>1 DEF Paths, PathOf, Holding, Adopting
  <1>3. Renamed(c) \in Projects
    BY <1>2, Renames
  <1>4. CASE /\ Save(Renamed(c)) /\ Works(c, AfterRegister(c), Renamed(c))
             /\ blurred' = (blurred \/ knows[c].met) /\ UNCHANGED <<deaths, halfMoved>>
    <2>1. AfterRegister(c) \in {"touch", "done"} /\ AfterRegister(c) \in Labels
      BY Labelled DEF Labels
    <2>2. /\ Moves(c, AfterRegister(c), WithRec(knows[c], Renamed(c))) /\ WithRec(knows[c], Renamed(c)) \in Knowledge
          /\ Turns(c, AfterRegister(c), Renamed(c), knows[c].cache, saw(c))
      BY <1>3, <1>4, <2>1, WorksOn
    <2>3. Saves(c, Renamed(c), AfterRegister(c))
      BY <1>3, <1>4, <2>2 DEF Saves, Save
    <2>4. QED
      BY <1>1, <1>4, <2>1, <2>3 DEF SavesRenamed
  <1>5. CASE /\ Fails(c) /\ halfMoved' = halfMoved \cup {saw(c)} /\ blurred' = TRUE /\ UNCHANGED project
    BY <1>1, <1>5, FailMeans DEF SavesRenamed
  <1>6. QED
    BY <1>4, <1>5 DEF SaveRenamed

ReadsForTouch(c) ==
  /\ pc[c] = "touch"
  /\ \E p \in Projects \cup {NoProject}, label \in {"done", "touched"} :
       /\ p \in {rec(c), project[rec(c).id]} /\ (p = NoProject => label = "done")
       /\ Moves(c, label, WithRec(knows[c], p)) /\ WithRec(knows[c], p) \in Knowledge
       /\ Turns(c, label, p, knows[c].cache, saw(c))
  /\ UNCHANGED <<remote, diskVars, boundVars, historyVars>>

LEMMA ReadForTouchMeans ==
  ASSUME TypeOK, Paths, NEW c \in Callers, ReadForTouch(c)
  PROVE ReadsForTouch(c)
  <1> DEFINE p == IF knows[c].listed THEN rec(c) ELSE project[rec(c).id]
             label == IF p = NoProject THEN "done" ELSE "touched"
  <1>1. rec(c) \in Projects /\ rec(c).id \in Ids
    BY Fields DEF ReadForTouch, TypeOK, Paths, PathOf, Holding, rec, Projects
  <1>2. p \in Projects \cup {NoProject} /\ p \in {rec(c), project[rec(c).id]}
    BY <1>1 DEF TypeOK
  <1>3. label \in {"done", "touched"} /\ label \in Labels /\ (p = NoProject => label = "done")
    BY DEF Labels
  <1>4. Works(c, label, p) /\ pc[c] = "touch" /\ UNCHANGED <<remote, diskVars, boundVars, historyVars>>
    BY DEF ReadForTouch
  <1> HIDE DEF p, label
  <1>5. /\ Moves(c, label, WithRec(knows[c], p)) /\ WithRec(knows[c], p) \in Knowledge
        /\ Turns(c, label, p, knows[c].cache, saw(c))
    BY <1>2, <1>3, <1>4, WorksOn
  <1>6. QED
    BY <1>2, <1>3, <1>4, <1>5 DEF ReadsForTouch

\* Touch and checkpoint write back what was read.
WritesBack(c, p) ==
  /\ p \in Projects /\ p.id = rec(c).id /\ p.identity = rec(c).identity
  /\ Remembers(rec(c)) => Remembers(p)
  /\ project' = [project EXCEPT ![p.id] = p]
  /\ Stays(c, "done")
  /\ UNCHANGED <<remote, taskFile, checkpoints, boundVars, historyVars>>

LEMMA TouchMeans ==
  ASSUME TypeOK, Paths, NEW c \in Callers, Touch(c)
  PROVE pc[c] = "touched" /\ WritesBack(c, Located(rec(c), DirOf[c]))
  <1>1. rec(c) \in Projects /\ DirOf[c] \in Clones
    BY Fields, Constants DEF Touch, TypeOK, Paths, PathOf, Holding, rec
  <1>2. Stays(c, "done")
    BY Goes DEF Touch, Labels
  <1>3. QED
    BY <1>1, <1>2, Records DEF Touch, Save, WritesBack, Remembers

LEMMA SaveCheckpointedMeans ==
  ASSUME TypeOK, Paths, NEW c \in Callers, SaveCheckpointed(c)
  PROVE pc[c] = "save" /\ WritesBack(c, rec(c))
  <1>1. rec(c) \in Projects
    BY Fields DEF SaveCheckpointed, TypeOK, Paths, PathOf, Holding, rec
  <1>2. Stays(c, "done")
    BY Goes DEF SaveCheckpointed, Labels
  <1>3. QED
    BY <1>1, <1>2 DEF SaveCheckpointed, Save, WritesBack

WritesCheckpoint(c) ==
  /\ pc[c] = "checkpoint" /\ Stays(c, "save") /\ rec(c) \in Projects
  /\ checkpoints' = [checkpoints EXCEPT ![rec(c).id] = @ \cup {c}]
  /\ owed' = owed \cup {c}
  /\ UNCHANGED <<remote, project, taskFile, boundVars, halfMoved, blurred>>

LEMMA WriteCheckpointMeans ==
  ASSUME TypeOK, Paths, NEW c \in Callers, WriteCheckpoint(c)
  PROVE WritesCheckpoint(c)
  <1>1. rec(c) \in Projects
    BY Fields DEF WriteCheckpoint, TypeOK, Paths, PathOf, Holding, rec
  <1>2. QED
    BY <1>1, Goes DEF WriteCheckpoint, WritesCheckpoint, Labels

ReadsTasks(c) ==
  /\ pc[c] = "readTasks"
  /\ \E known \in Knowledge : Moves(c, "writeTasks", known)
  /\ Turns(c, "writeTasks", rec(c), knows[c].cache, saw(c))
  /\ UNCHANGED <<remote, diskVars, boundVars, historyVars>>

LEMMA ReadTasksMeans == ASSUME TypeOK, Paths, NEW c \in Callers, ReadTasks(c) PROVE ReadsTasks(c)
  <1>1. rec(c) \in Projects /\ rec(c).id \in Ids /\ knows[c] \in Knowledge
    BY Fields DEF ReadTasks, TypeOK, Paths, PathOf, Holding, rec, Projects
  <1> DEFINE file == taskFile[rec(c).id]
             owner == IF file.tasks = {} THEN rec(c).id ELSE file.owner
             known == [knows[c] EXCEPT !.tasks = file.tasks, !.owner = owner]
  <1>2. file.tasks \in SUBSET Callers /\ owner \in Ids
    BY <1>1 DEF TypeOK, TaskFiles
  <1>3. /\ known \in Knowledge /\ known.rec = rec(c) /\ known.cache = knows[c].cache
        /\ known.saw = saw(c) /\ known.met = knows[c].met
    <2> HIDE DEF owner, file
    <2>1. QED
      BY <1>1, <1>2 DEF Knowledge, rec, saw
  <1>4. Proceed(c, "writeTasks", known) /\ pc[c] = "readTasks" /\ UNCHANGED <<remote, diskVars, boundVars, historyVars>>
    BY DEF ReadTasks
  <1> HIDE DEF known
  <1>5. Moves(c, "writeTasks", known)
    BY <1>3, <1>4, Proceeds DEF Labels
  <1>6. QED
    BY <1>3, <1>4, <1>5, MovesTurn DEF ReadsTasks, Labels

WritesTasks(c) ==
  /\ pc[c] = "writeTasks" /\ Stays(c, "done")
  /\ taskFile' \in [Ids -> TaskFiles]
  /\ UNCHANGED <<remote, project, checkpoints, boundVars, historyVars>>

LEMMA WriteTasksMeans == ASSUME TypeOK, NEW c \in Callers, WriteTasks(c) PROVE WritesTasks(c)
  <1>1. knows[c].owner \in Ids /\ knows[c].tasks \cup {c} \in SUBSET Callers
    BY Fields DEF TypeOK
  <1>2. [owner |-> knows[c].owner, tasks |-> knows[c].tasks \cup {c}] \in TaskFiles
    BY <1>1 DEF TaskFiles
  <1>3. taskFile' \in [Ids -> TaskFiles]
    BY <1>2 DEF WriteTasks, TypeOK
  <1>4. QED
    BY <1>3, Goes DEF WriteTasks, WritesTasks, Labels

Deletes(c) ==
  /\ pc[c] = "delete" /\ rec(c) \in Projects
  /\ \E label \in {"purge", "done"} : Stays(c, label)
  /\ project' = [project EXCEPT ![rec(c).id] = NoProject]
  /\ taskFile' = [taskFile EXCEPT ![rec(c).id] = NoTasks(rec(c).id)]
  /\ blurred' = (blurred \/ knows[c].met)
  /\ UNCHANGED <<remote, checkpoints, boundVars, owed, halfMoved>>

LEMMA DeleteMeans == ASSUME TypeOK, Paths, NEW c \in Callers, DeleteProject(c) PROVE Deletes(c)
  <1>1. rec(c) \in Projects
    BY Fields DEF DeleteProject, TypeOK, Paths, PathOf, Holding, rec
  <1>2. \E label \in {"purge", "done"} : Stays(c, label)
    BY Goes DEF DeleteProject, Labels
  <1>3. QED
    BY <1>1, <1>2 DEF DeleteProject, Deletes

Purges(c) ==
  /\ pc[c] = "purge" /\ rec(c) \in Projects /\ Stays(c, "done")
  /\ checkpoints' = [checkpoints EXCEPT ![rec(c).id] = {}]
  /\ owed' = owed \ checkpoints[rec(c).id]
  /\ UNCHANGED <<remote, project, taskFile, boundVars, halfMoved, blurred>>

LEMMA PurgeMeans == ASSUME TypeOK, Paths, NEW c \in Callers, PurgeHistory(c) PROVE Purges(c)
  <1>1. rec(c) \in Projects
    BY Fields DEF PurgeHistory, TypeOK, Paths, PathOf, Holding, rec
  <1>2. QED
    BY <1>1, Goes DEF PurgeHistory, Purges, Labels

Dies(c) ==
  /\ Midway(c) /\ Stays(c, "dead") /\ deaths' \in 0..MaxDeaths
  /\ pc[c] = "rename" => halfMoved' = halfMoved \cup {saw(c)} /\ blurred' = TRUE
  /\ pc[c] # "rename" => UNCHANGED <<halfMoved, blurred>>
  /\ UNCHANGED <<remote, diskVars, moves, owed>>

LEMMA DieMeans == ASSUME TypeOK, NEW c \in Callers, Die(c) PROVE Dies(c)
  <1>1. Stays(c, "dead") /\ deaths' \in 0..MaxDeaths
    BY Constants, Goes DEF Die, TypeOK, Labels
  <1>2. QED
    BY <1>1 DEF Die, Dies

Rewires ==
  /\ remote' \in [Clones -> Remotes \cup {NoRemote}] /\ moves' \in 0..MaxMoves
  /\ UNCHANGED <<diskVars, pc, knows, deaths, historyVars>>

LEMMA ChangeRemoteMeans == ASSUME TypeOK, NEW d \in Clones, ChangeRemote(d) PROVE Rewires
  BY Constants DEF TypeOK, ChangeRemote, Rewires

-----------------------------------------------------------------------------
(* The invariant.                                                          *)

\* A process that starts only tells the others that it is there.
LEMMA OthersMeet ==
  ASSUME TypeOK, NEW c \in Callers, Identified(c), NEW d \in Callers, d # c
  PROVE /\ pc'[d] = pc[d] /\ knows'[d].rec = knows[d].rec /\ knows'[d].saw = knows[d].saw
        /\ knows'[d].cache = knows[d].cache
        /\ knows[d].met => knows'[d].met
        /\ Midway(d) => knows'[d].met
  <1>1. knows[d] \in Knowledge
    BY DEF TypeOK
  <1>2. CASE Midway(d)
    <2>1. pc'[d] = pc[d] /\ knows'[d] = Met(knows[d])
      BY <1>2 DEF Identified
    <2>2. /\ Met(knows[d]).rec = knows[d].rec /\ Met(knows[d]).saw = knows[d].saw
          /\ Met(knows[d]).cache = knows[d].cache /\ Met(knows[d]).met
      BY <1>1, Fields
    <2>3. QED
      BY <2>1, <2>2
  <1>3. CASE ~Midway(d)
    BY <1>3 DEF Identified
  <1>4. QED
    BY <1>2, <1>3

LEMMA TypeKept == ASSUME TypeOK, Paths, [Next]_vars PROVE TypeOK'
  <1>1. ASSUME NEW c \in Callers, Identify(c) PROVE TypeOK'
    <2>1. Identified(c)
      BY <1>1, Identifies
    <2>2. QED
      BY <2>1, Places
      DEF Identified, Stays, Saves, Moves, TypeOK, Labels, Checkpoints, diskVars, boundVars,
        historyVars
  <1>2. ASSUME NEW c \in Callers, Scan(c) PROVE TypeOK'
    <2>1. PICK label \in Labels, known \in Knowledge : ScansTo(c, label, known)
      BY <1>2, Scans
    <2>2. QED
      BY <2>1, Places
      DEF ScansTo, Stays, Saves, Moves, TypeOK, Labels, Checkpoints, diskVars, boundVars,
        historyVars
  <1>3. ASSUME NEW c \in Callers, IdentifyAgain(c) PROVE TypeOK'
    <2>1. PICK label \in {"merge", "create"}, known \in Knowledge : ScansAgainTo(c, label, known)
      BY <1>3, ScansAgain
    <2>2. QED
      BY <2>1, Places
      DEF ScansAgainTo, Stays, Saves, Moves, TypeOK, Labels, Checkpoints, diskVars, boundVars,
        historyVars
  <1>4. ASSUME NEW c \in Callers, Create(c) PROVE TypeOK'
    <2>1. Creates(c)
      BY <1>4, CreateMeans
    <2>2. QED
      BY <2>1, Places
      DEF Creates, Stays, Saves, Moves, TypeOK, Labels, Checkpoints, diskVars, boundVars,
        historyVars
  <1>5. ASSUME NEW c \in Callers, Merge(c) PROVE TypeOK'
    <2>1. Merges(c)
      BY <1>5, MergeMeans
    <2>2. QED
      BY <2>1, Places
      DEF Merges, Stays, Saves, Moves, TypeOK, Labels, Checkpoints, diskVars, boundVars,
        historyVars
  <1>6. ASSUME NEW c \in Callers, CheckDerived(c) PROVE TypeOK'
    <2>1. Checks(c)
      BY <1>6, CheckMeans
    <2>2. QED
      BY <2>1, Places
      DEF Checks, Stays, Saves, Moves, TypeOK, Labels, Checkpoints, diskVars, boundVars,
        historyVars
  <1>7. ASSUME NEW c \in Callers, MoveHistory(c) PROVE TypeOK'
    <2>1. MovesHistory(c)
      BY <1>7, MoveHistoryMeans
    <2>2. pc' \in [Callers -> Labels] /\ knows' \in [Callers -> Knowledge]
      BY <2>1 DEF MovesHistory, Stays, Moves
    <2>3. rec(c).id \in Ids /\ saw(c) \in Ids
      BY <2>1, Places DEF MovesHistory, Paths, PathOf, Holding, Adopting
    <2>4. checkpoints' \in [Ids -> SUBSET Checkpoints]
      BY <2>1, <2>3 DEF MovesHistory, TypeOK
    <2>5. QED
      BY <2>1, <2>2, <2>4 DEF MovesHistory, TypeOK, historyVars
  <1>8. ASSUME NEW c \in Callers, MoveDir(c) PROVE TypeOK'
    <2>1. MovesDir(c)
      BY <1>8, MoveDirMeans
    <2>2. rec(c) \in Projects /\ rec(c).id \in Ids /\ saw(c) \in Ids
      BY <2>1, Places DEF MovesDir, Paths, PathOf, Holding, Adopting
    <2>3. NoTasks(rec(c).id) \in TaskFiles /\ project[rec(c).id] \in Projects \cup {NoProject}
          /\ taskFile[rec(c).id] \in TaskFiles
      BY <2>2, Places DEF TypeOK
    <2>4. project' \in [Ids -> Projects \cup {NoProject}] /\ taskFile' \in [Ids -> TaskFiles]
      BY <2>1, <2>2, <2>3 DEF MovesDir, TypeOK
    <2>5. pc' \in [Callers -> Labels] /\ knows' \in [Callers -> Knowledge]
      BY <2>1 DEF MovesDir, Stays, Moves
    <2>6. blurred' \in BOOLEAN
      BY <2>1 DEF MovesDir, TypeOK
    <2>7. QED
      BY <2>1, <2>4, <2>5, <2>6 DEF MovesDir, TypeOK
  <1>9. ASSUME NEW c \in Callers, SaveRenamed(c) PROVE TypeOK'
    <2>1. SavesRenamed(c)
      BY <1>9, SaveRenamedMeans
    <2>2. pc' \in [Callers -> Labels] /\ knows' \in [Callers -> Knowledge] /\ saw(c) \in Ids
      BY <2>1, Places DEF SavesRenamed, Saves, Stays, Moves, Paths, PathOf, Adopting
    <2>3. project' \in [Ids -> Projects \cup {NoProject}]
      BY <2>1, Places DEF SavesRenamed, Saves, TypeOK
    <2>4. halfMoved' \subseteq Ids /\ blurred' \in BOOLEAN /\ deaths' \in 0..MaxDeaths
      BY <2>1, <2>2 DEF SavesRenamed, TypeOK
    <2>5. QED
      BY <2>1, <2>2, <2>3, <2>4 DEF SavesRenamed, TypeOK
  <1>10. ASSUME NEW c \in Callers, ReadForTouch(c) PROVE TypeOK'
    <2>1. ReadsForTouch(c)
      BY <1>10, ReadForTouchMeans
    <2>2. QED
      BY <2>1, Places
      DEF ReadsForTouch, Stays, Saves, Moves, TypeOK, Labels, Checkpoints, diskVars, boundVars,
        historyVars
  <1>11. ASSUME NEW c \in Callers, Touch(c) PROVE TypeOK'
    <2>1. pc[c] = "touched" /\ WritesBack(c, Located(rec(c), DirOf[c]))
      BY <1>11, TouchMeans
    <2>2. QED
      BY <2>1, Places
      DEF WritesBack, Stays, Saves, Moves, TypeOK, Labels, Checkpoints, diskVars, boundVars,
        historyVars
  <1>12. ASSUME NEW c \in Callers, WriteCheckpoint(c) PROVE TypeOK'
    <2>1. WritesCheckpoint(c)
      BY <1>12, WriteCheckpointMeans
    <2>2. QED
      BY <2>1, Places
      DEF WritesCheckpoint, Stays, Saves, Moves, TypeOK, Labels, Checkpoints, diskVars, boundVars,
        historyVars
  <1>13. ASSUME NEW c \in Callers, SaveCheckpointed(c) PROVE TypeOK'
    <2>1. pc[c] = "save" /\ WritesBack(c, rec(c))
      BY <1>13, SaveCheckpointedMeans
    <2>2. QED
      BY <2>1, Places
      DEF WritesBack, Stays, Saves, Moves, TypeOK, Labels, Checkpoints, diskVars, boundVars,
        historyVars
  <1>14. ASSUME NEW c \in Callers, ReadTasks(c) PROVE TypeOK'
    <2>1. ReadsTasks(c)
      BY <1>14, ReadTasksMeans
    <2>2. QED
      BY <2>1, Places
      DEF ReadsTasks, Stays, Saves, Moves, TypeOK, Labels, Checkpoints, diskVars, boundVars,
        historyVars
  <1>15. ASSUME NEW c \in Callers, WriteTasks(c) PROVE TypeOK'
    <2>1. WritesTasks(c)
      BY <1>15, WriteTasksMeans
    <2>2. QED
      BY <2>1, Places
      DEF WritesTasks, Stays, Saves, Moves, TypeOK, Labels, Checkpoints, diskVars, boundVars,
        historyVars
  <1>16. ASSUME NEW c \in Callers, DeleteProject(c) PROVE TypeOK'
    <2>1. Deletes(c)
      BY <1>16, DeleteMeans
    <2>2. QED
      BY <2>1, Places
      DEF Deletes, Stays, Saves, Moves, TypeOK, Labels, Checkpoints, diskVars, boundVars,
        historyVars
  <1>17. ASSUME NEW c \in Callers, PurgeHistory(c) PROVE TypeOK'
    <2>1. Purges(c)
      BY <1>17, PurgeMeans
    <2>2. QED
      BY <2>1, Places
      DEF Purges, Stays, Saves, Moves, TypeOK, Labels, Checkpoints, diskVars, boundVars,
        historyVars
  <1>18. ASSUME NEW c \in Callers, Die(c) PROVE TypeOK'
    <2>1. Dies(c)
      BY <1>18, DieMeans
    <2>2. pc' \in [Callers -> Labels] /\ knows' \in [Callers -> Knowledge]
      BY <2>1 DEF Dies, Stays, Moves
    <2>3. halfMoved' \subseteq Ids /\ blurred' \in BOOLEAN
      <3>1. CASE pc[c] = "rename"
        BY <2>1, <3>1, Places DEF Dies, TypeOK, Paths, PathOf, Adopting
      <3>2. CASE pc[c] # "rename"
        BY <2>1, <3>2 DEF Dies, TypeOK
      <3>3. QED
        BY <3>1, <3>2
    <2>4. QED
      BY <2>1, <2>2, <2>3 DEF Dies, TypeOK, diskVars
  <1>19. ASSUME NEW d \in Clones, ChangeRemote(d) PROVE TypeOK'
    BY <1>19, ChangeRemoteMeans DEF Rewires, TypeOK, diskVars, boundVars, historyVars
  <1>20. CASE UNCHANGED vars
    BY <1>20 DEF vars, TypeOK, diskVars, boundVars, historyVars
  <1>21. QED
    BY <1>1, <1>2, <1>3, <1>4, <1>5, <1>6, <1>7, <1>8, <1>9, <1>10, <1>11,
       <1>12, <1>13, <1>14, <1>15, <1>16, <1>17, <1>18, <1>19, <1>20
    DEF Next, CallerStep

LEMMA TurnsPath ==
  ASSUME Paths, NEW c \in Callers, NEW label, NEW p, NEW ps, NEW r, Turns(c, label, p, ps, r),
         label \in Holding => p # NoProject,
         label \in Adopting => r \in Remotes /\ p.identity = r
  PROVE Paths'
  BY DEF Paths, PathOf, Turns, Holding, Adopting, rec, saw

LEMMA PathsKept == ASSUME TypeOK, Paths, [Next]_vars PROVE Paths'
  <1>1. ASSUME NEW c \in Callers, Identify(c) PROVE Paths'
    <2>1. Identified(c)
      BY <1>1, Identifies
    <2>2. PathOf(c)'
      BY <2>1 DEF Identified, PathOf, Holding, Adopting, rec, saw
    <2>3. ASSUME NEW d \in Callers, d # c PROVE PathOf(d)'
      <3>1. knows'[d].rec = knows[d].rec /\ knows'[d].saw = knows[d].saw /\ pc'[d] = pc[d]
        BY <2>1, <2>3, OthersMeet
      <3>2. QED
        BY <3>1 DEF Paths, PathOf, rec, saw
    <2>4. QED
      BY <2>2, <2>3 DEF Paths
  <1>2. ASSUME NEW c \in Callers, Scan(c) PROVE Paths'
    <2>1. PICK label \in Labels, known \in Knowledge : ScansTo(c, label, known)
      BY <1>2, Scans
    <2>2. QED
      BY <2>1, TurnsPath, Labelled, Listings
      DEF ScansTo, Stays, Saves, Paths, PathOf, Holding, Adopting
  <1>3. ASSUME NEW c \in Callers, IdentifyAgain(c) PROVE Paths'
    <2>1. PICK label \in {"merge", "create"}, known \in Knowledge : ScansAgainTo(c, label, known)
      BY <1>3, ScansAgain
    <2>2. knows[c].cache \subseteq Projects
      BY Fields DEF TypeOK
    <2>3. label = "merge" => known.rec # NoProject
      BY <2>1, <2>2, Constants DEF ScansAgainTo
    <2>4. label \in {"merge", "create"} /\ Turns(c, label, known.rec, {}, known.saw)
      BY <2>1 DEF ScansAgainTo
    <2>5. QED
      BY <2>3, <2>4, TurnsPath DEF Holding, Adopting
  <1>4. ASSUME NEW c \in Callers, Create(c) PROVE Paths'
    <2>1. Creates(c)
      BY <1>4, CreateMeans
    <2>2. QED
      BY <2>1, TurnsPath, Candidates, Labelled, Constants
      DEF Creates, Stays, Saves, Paths, PathOf, Holding, Adopting
  <1>5. ASSUME NEW c \in Callers, Merge(c) PROVE Paths'
    <2>1. Merges(c)
      BY <1>5, MergeMeans
    <2>2. PICK label \in {"check", "touch", "done"} :
            /\ Turns(c, label, MergedRec(c), knows[c].cache, saw(c)) /\ MergedRec(c) \in Projects
            /\ label = "check" => saw(c) # NoRemote
      BY <2>1, Labelled DEF Merges, Saves, GainsRemote
    <2>3. label = "check" => saw(c) \in Remotes /\ MergedRec(c).identity = saw(c)
      BY <2>1, <2>2 DEF Merges
    <2>4. MergedRec(c) # NoProject
      BY <2>2, Constants
    <2> HIDE DEF MergedRec
    <2>5. (label \in Holding => MergedRec(c) # NoProject)
          /\ (label \in Adopting => saw(c) \in Remotes /\ MergedRec(c).identity = saw(c))
      BY <2>2, <2>3, <2>4 DEF Adopting
    <2>6. QED
      BY <2>2, <2>5, TurnsPath
  <1>6. ASSUME NEW c \in Callers, CheckDerived(c) PROVE Paths'
    <2>1. Checks(c)
      BY <1>6, CheckMeans
    <2>2. QED
      BY <2>1, TurnsPath DEF Checks, Stays, Saves, Paths, PathOf, Holding, Adopting
  <1>7. ASSUME NEW c \in Callers, MoveHistory(c) PROVE Paths'
    <2>1. MovesHistory(c)
      BY <1>7, MoveHistoryMeans
    <2>2. QED
      BY <2>1, TurnsPath DEF MovesHistory, Stays, Saves, Paths, PathOf, Holding, Adopting
  <1>8. ASSUME NEW c \in Callers, MoveDir(c) PROVE Paths'
    <2>1. MovesDir(c)
      BY <1>8, MoveDirMeans
    <2>2. QED
      BY <2>1, TurnsPath DEF MovesDir, Stays, Saves, Paths, PathOf, Holding, Adopting
  <1>9. ASSUME NEW c \in Callers, SaveRenamed(c) PROVE Paths'
    <2>1. SavesRenamed(c)
      BY <1>9, SaveRenamedMeans
    <2>2. QED
      BY <2>1, TurnsPath, Constants DEF SavesRenamed, Stays, Saves, Paths, PathOf, Holding, Adopting
  <1>10. ASSUME NEW c \in Callers, ReadForTouch(c) PROVE Paths'
    <2>1. ReadsForTouch(c)
      BY <1>10, ReadForTouchMeans
    <2>2. QED
      BY <2>1, TurnsPath DEF ReadsForTouch, Stays, Saves, Paths, PathOf, Holding, Adopting
  <1>11. ASSUME NEW c \in Callers, Touch(c) PROVE Paths'
    <2>1. pc[c] = "touched" /\ WritesBack(c, Located(rec(c), DirOf[c]))
      BY <1>11, TouchMeans
    <2>2. QED
      BY <2>1, TurnsPath DEF WritesBack, Stays, Saves, Paths, PathOf, Holding, Adopting
  <1>12. ASSUME NEW c \in Callers, WriteCheckpoint(c) PROVE Paths'
    <2>1. WritesCheckpoint(c)
      BY <1>12, WriteCheckpointMeans
    <2>2. QED
      BY <2>1, TurnsPath DEF WritesCheckpoint, Stays, Saves, Paths, PathOf, Holding, Adopting
  <1>13. ASSUME NEW c \in Callers, SaveCheckpointed(c) PROVE Paths'
    <2>1. pc[c] = "save" /\ WritesBack(c, rec(c))
      BY <1>13, SaveCheckpointedMeans
    <2>2. QED
      BY <2>1, TurnsPath DEF WritesBack, Stays, Saves, Paths, PathOf, Holding, Adopting
  <1>14. ASSUME NEW c \in Callers, ReadTasks(c) PROVE Paths'
    <2>1. ReadsTasks(c)
      BY <1>14, ReadTasksMeans
    <2>2. QED
      BY <2>1, TurnsPath DEF ReadsTasks, Stays, Saves, Paths, PathOf, Holding, Adopting
  <1>15. ASSUME NEW c \in Callers, WriteTasks(c) PROVE Paths'
    <2>1. WritesTasks(c)
      BY <1>15, WriteTasksMeans
    <2>2. QED
      BY <2>1, TurnsPath DEF WritesTasks, Stays, Saves, Paths, PathOf, Holding, Adopting
  <1>16. ASSUME NEW c \in Callers, DeleteProject(c) PROVE Paths'
    <2>1. Deletes(c)
      BY <1>16, DeleteMeans
    <2>2. QED
      BY <2>1, TurnsPath DEF Deletes, Stays, Saves, Paths, PathOf, Holding, Adopting
  <1>17. ASSUME NEW c \in Callers, PurgeHistory(c) PROVE Paths'
    <2>1. Purges(c)
      BY <1>17, PurgeMeans
    <2>2. QED
      BY <2>1, TurnsPath DEF Purges, Stays, Saves, Paths, PathOf, Holding, Adopting
  <1>18. ASSUME NEW c \in Callers, Die(c) PROVE Paths'
    <2>1. Dies(c)
      BY <1>18, DieMeans
    <2>2. QED
      BY <2>1, TurnsPath DEF Dies, Stays, Saves, Paths, PathOf, Holding, Adopting
  <1>19. ASSUME NEW d \in Clones, ChangeRemote(d) PROVE Paths'
    BY <1>19, ChangeRemoteMeans
    DEF Rewires, Paths, PathOf, rec, saw, diskVars, boundVars, historyVars
  <1>20. CASE UNCHANGED vars
    BY <1>20 DEF vars, Paths, PathOf, rec, saw
  <1>21. QED
    BY <1>1, <1>2, <1>3, <1>4, <1>5, <1>6, <1>7, <1>8, <1>9, <1>10, <1>11,
       <1>12, <1>13, <1>14, <1>15, <1>16, <1>17, <1>18, <1>19, <1>20
    DEF Next, CallerStep

LEMMA TurnsRecall ==
  ASSUME AllRemember, NEW c \in Callers, NEW label, NEW p, NEW ps, NEW r, Turns(c, label, p, ps, r),
         p # NoProject => Remembers(p), \A q \in ps : Remembers(q)
  PROVE \A d \in Callers : RecallsOf(d)'
  BY DEF AllRemember, RecallsOf, Turns, rec

LEMMA AllRememberKept == ASSUME TypeOK, Paths, AllRemember, [Next]_vars PROVE AllRemember'
  <1>1. ASSUME NEW c \in Callers, Identify(c) PROVE AllRemember'
    <2>1. Identified(c)
      BY <1>1, Identifies
    <2>2. RecallsOf(c)'
      BY <2>1 DEF Identified, AllRemember, RecallsOf, Ids, rec
    <2>3. ASSUME NEW d \in Callers, d # c PROVE RecallsOf(d)'
      <3>1. knows'[d].rec = knows[d].rec /\ knows'[d].cache = knows[d].cache
        BY <2>1, <2>3, OthersMeet
      <3>2. QED
        BY <3>1 DEF AllRemember, RecallsOf, rec
    <2>4. QED
      BY <2>1, <2>2, <2>3 DEF Identified, AllRemember, diskVars
  <1>2. ASSUME NEW c \in Callers, Scan(c) PROVE AllRemember'
    <2>1. PICK label \in Labels, known \in Knowledge : ScansTo(c, label, known)
      BY <1>2, Scans
    <2>2. \A p \in All : Remembers(p)
      BY Listings DEF AllRemember
    <2>3. (known.rec # NoProject => Remembers(known.rec)) /\ \A q \in known.cache : Remembers(q)
      BY <2>1, <2>2 DEF ScansTo, AllRemember, RecallsOf
    <2>4. \A d \in Callers : RecallsOf(d)'
      BY <2>1, <2>3, TurnsRecall DEF ScansTo
    <2>5. QED
      BY <2>1, <2>4 DEF ScansTo, AllRemember, diskVars
  <1>3. ASSUME NEW c \in Callers, IdentifyAgain(c) PROVE AllRemember'
    <2>1. PICK label \in {"merge", "create"}, known \in Knowledge : ScansAgainTo(c, label, known)
      BY <1>3, ScansAgain
    <2>2. known.rec # NoProject => Remembers(known.rec)
      BY <2>1 DEF ScansAgainTo, AllRemember, RecallsOf, Ids
    <2>3. \A d \in Callers : RecallsOf(d)'
      BY <2>1, <2>2, TurnsRecall DEF ScansAgainTo
    <2>4. QED
      BY <2>1, <2>3 DEF ScansAgainTo, AllRemember, diskVars
  <1>4. ASSUME NEW c \in Callers, Create(c) PROVE AllRemember'
    <2>1. Creates(c)
      BY <1>4, CreateMeans
    <2>2. \A d \in Callers : RecallsOf(d)'
      BY <2>1, TurnsRecall, Candidates DEF Creates, Stays, Saves, AllRemember, RecallsOf
    <2>3. \A d \in Ids : project'[d] # NoProject => Remembers(project'[d])
      BY <2>1, Candidates
      DEF Creates, Stays, Saves, AllRemember, RecallsOf, TypeOK, diskVars, Adopting
    <2>4. QED
      BY <2>2, <2>3 DEF AllRemember
  <1>5. ASSUME NEW c \in Callers, Merge(c) PROVE AllRemember'
    <2>1. Merges(c)
      BY <1>5, MergeMeans
    <2>2. \A d \in Callers : RecallsOf(d)'
      BY <2>1, TurnsRecall DEF Merges, Stays, Saves, AllRemember, RecallsOf, Paths, PathOf, Holding
    <2>3. \A d \in Ids : project'[d] # NoProject => Remembers(project'[d])
      BY <2>1
      DEF Merges, Stays, Saves, AllRemember, RecallsOf, Paths, PathOf, Holding, TypeOK, diskVars,
        Adopting
    <2>4. QED
      BY <2>2, <2>3 DEF AllRemember
  <1>6. ASSUME NEW c \in Callers, CheckDerived(c) PROVE AllRemember'
    <2>1. Checks(c)
      BY <1>6, CheckMeans
    <2>2. \A d \in Callers : RecallsOf(d)'
      BY <2>1, TurnsRecall DEF Checks, Stays, Saves, AllRemember, RecallsOf, Paths, PathOf, Holding
    <2>3. \A d \in Ids : project'[d] # NoProject => Remembers(project'[d])
      BY <2>1
      DEF Checks, Stays, Saves, AllRemember, RecallsOf, Paths, PathOf, Holding, TypeOK, diskVars,
        Adopting
    <2>4. QED
      BY <2>2, <2>3 DEF AllRemember
  <1>7. ASSUME NEW c \in Callers, MoveHistory(c) PROVE AllRemember'
    <2>1. MovesHistory(c)
      BY <1>7, MoveHistoryMeans
    <2>2. \A d \in Callers : RecallsOf(d)'
      BY <2>1, TurnsRecall
      DEF MovesHistory, Stays, Saves, AllRemember, RecallsOf, Paths, PathOf, Holding
    <2>3. \A d \in Ids : project'[d] # NoProject => Remembers(project'[d])
      BY <2>1
      DEF MovesHistory, Stays, Saves, AllRemember, RecallsOf, Paths, PathOf, Holding, TypeOK,
        diskVars, Adopting
    <2>4. QED
      BY <2>2, <2>3 DEF AllRemember
  <1>8. ASSUME NEW c \in Callers, MoveDir(c) PROVE AllRemember'
    <2>1. MovesDir(c)
      BY <1>8, MoveDirMeans
    <2>2. \A d \in Callers : RecallsOf(d)'
      BY <2>1, TurnsRecall, Places
      DEF MovesDir, Stays, Saves, AllRemember, RecallsOf, Paths, PathOf, Holding
    <2>3. \A d \in Ids : project'[d] # NoProject => Remembers(project'[d])
      BY <2>1, Places
      DEF MovesDir, Stays, Saves, AllRemember, RecallsOf, Paths, PathOf, Holding, TypeOK, diskVars,
        Adopting
    <2>4. QED
      BY <2>2, <2>3 DEF AllRemember
  <1>9. ASSUME NEW c \in Callers, SaveRenamed(c) PROVE AllRemember'
    <2>1. SavesRenamed(c)
      BY <1>9, SaveRenamedMeans
    <2>2. \A d \in Callers : RecallsOf(d)'
      BY <2>1, TurnsRecall, Renames, Places
      DEF SavesRenamed, Stays, Saves, AllRemember, RecallsOf, Remembers, Paths, PathOf, Holding,
        Adopting
    <2>3. \A d \in Ids : project'[d] # NoProject => Remembers(project'[d])
      BY <2>1, Renames, Places
      DEF SavesRenamed, Stays, Saves, AllRemember, RecallsOf, Remembers, Paths, PathOf, Holding,
        Adopting, TypeOK, diskVars, Adopting
    <2>4. QED
      BY <2>2, <2>3 DEF AllRemember
  <1>10. ASSUME NEW c \in Callers, ReadForTouch(c) PROVE AllRemember'
    <2>1. ReadsForTouch(c)
      BY <1>10, ReadForTouchMeans
    <2>2. \A d \in Callers : RecallsOf(d)'
      BY <2>1, TurnsRecall, Places
      DEF ReadsForTouch, Stays, Saves, AllRemember, RecallsOf, Paths, PathOf, Holding
    <2>3. \A d \in Ids : project'[d] # NoProject => Remembers(project'[d])
      BY <2>1, Places
      DEF ReadsForTouch, Stays, Saves, AllRemember, RecallsOf, Paths, PathOf, Holding, TypeOK,
        diskVars, Adopting
    <2>4. QED
      BY <2>2, <2>3 DEF AllRemember
  <1>11. ASSUME NEW c \in Callers, Touch(c) PROVE AllRemember'
    <2>1. pc[c] = "touched" /\ WritesBack(c, Located(rec(c), DirOf[c]))
      BY <1>11, TouchMeans
    <2>2. \A d \in Callers : RecallsOf(d)'
      BY <2>1, TurnsRecall
      DEF WritesBack, Stays, Saves, AllRemember, RecallsOf, Paths, PathOf, Holding
    <2>3. \A d \in Ids : project'[d] # NoProject => Remembers(project'[d])
      BY <2>1
      DEF WritesBack, Stays, Saves, AllRemember, RecallsOf, Paths, PathOf, Holding, TypeOK,
        diskVars, Adopting
    <2>4. QED
      BY <2>2, <2>3 DEF AllRemember
  <1>12. ASSUME NEW c \in Callers, WriteCheckpoint(c) PROVE AllRemember'
    <2>1. WritesCheckpoint(c)
      BY <1>12, WriteCheckpointMeans
    <2>2. \A d \in Callers : RecallsOf(d)'
      BY <2>1, TurnsRecall
      DEF WritesCheckpoint, Stays, Saves, AllRemember, RecallsOf, Paths, PathOf, Holding
    <2>3. \A d \in Ids : project'[d] # NoProject => Remembers(project'[d])
      BY <2>1
      DEF WritesCheckpoint, Stays, Saves, AllRemember, RecallsOf, Paths, PathOf, Holding, TypeOK,
        diskVars, Adopting
    <2>4. QED
      BY <2>2, <2>3 DEF AllRemember
  <1>13. ASSUME NEW c \in Callers, SaveCheckpointed(c) PROVE AllRemember'
    <2>1. pc[c] = "save" /\ WritesBack(c, rec(c))
      BY <1>13, SaveCheckpointedMeans
    <2>2. \A d \in Callers : RecallsOf(d)'
      BY <2>1, TurnsRecall
      DEF WritesBack, Stays, Saves, AllRemember, RecallsOf, Paths, PathOf, Holding
    <2>3. \A d \in Ids : project'[d] # NoProject => Remembers(project'[d])
      BY <2>1
      DEF WritesBack, Stays, Saves, AllRemember, RecallsOf, Paths, PathOf, Holding, TypeOK,
        diskVars, Adopting
    <2>4. QED
      BY <2>2, <2>3 DEF AllRemember
  <1>14. ASSUME NEW c \in Callers, ReadTasks(c) PROVE AllRemember'
    <2>1. ReadsTasks(c)
      BY <1>14, ReadTasksMeans
    <2>2. \A d \in Callers : RecallsOf(d)'
      BY <2>1, TurnsRecall
      DEF ReadsTasks, Stays, Saves, AllRemember, RecallsOf, Paths, PathOf, Holding
    <2>3. \A d \in Ids : project'[d] # NoProject => Remembers(project'[d])
      BY <2>1
      DEF ReadsTasks, Stays, Saves, AllRemember, RecallsOf, Paths, PathOf, Holding, TypeOK,
        diskVars, Adopting
    <2>4. QED
      BY <2>2, <2>3 DEF AllRemember
  <1>15. ASSUME NEW c \in Callers, WriteTasks(c) PROVE AllRemember'
    <2>1. WritesTasks(c)
      BY <1>15, WriteTasksMeans
    <2>2. \A d \in Callers : RecallsOf(d)'
      BY <2>1, TurnsRecall
      DEF WritesTasks, Stays, Saves, AllRemember, RecallsOf, Paths, PathOf, Holding
    <2>3. \A d \in Ids : project'[d] # NoProject => Remembers(project'[d])
      BY <2>1
      DEF WritesTasks, Stays, Saves, AllRemember, RecallsOf, Paths, PathOf, Holding, TypeOK,
        diskVars, Adopting
    <2>4. QED
      BY <2>2, <2>3 DEF AllRemember
  <1>16. ASSUME NEW c \in Callers, DeleteProject(c) PROVE AllRemember'
    <2>1. Deletes(c)
      BY <1>16, DeleteMeans
    <2>2. \A d \in Callers : RecallsOf(d)'
      BY <2>1, TurnsRecall DEF Deletes, Stays, Saves, AllRemember, RecallsOf, Paths, PathOf, Holding
    <2>3. \A d \in Ids : project'[d] # NoProject => Remembers(project'[d])
      BY <2>1
      DEF Deletes, Stays, Saves, AllRemember, RecallsOf, Paths, PathOf, Holding, TypeOK, diskVars,
        Adopting
    <2>4. QED
      BY <2>2, <2>3 DEF AllRemember
  <1>17. ASSUME NEW c \in Callers, PurgeHistory(c) PROVE AllRemember'
    <2>1. Purges(c)
      BY <1>17, PurgeMeans
    <2>2. \A d \in Callers : RecallsOf(d)'
      BY <2>1, TurnsRecall DEF Purges, Stays, Saves, AllRemember, RecallsOf, Paths, PathOf, Holding
    <2>3. \A d \in Ids : project'[d] # NoProject => Remembers(project'[d])
      BY <2>1
      DEF Purges, Stays, Saves, AllRemember, RecallsOf, Paths, PathOf, Holding, TypeOK, diskVars,
        Adopting
    <2>4. QED
      BY <2>2, <2>3 DEF AllRemember
  <1>18. ASSUME NEW c \in Callers, Die(c) PROVE AllRemember'
    <2>1. Dies(c)
      BY <1>18, DieMeans
    <2>2. \A d \in Callers : RecallsOf(d)'
      BY <2>1, TurnsRecall DEF Dies, Stays, Saves, AllRemember, RecallsOf, Paths, PathOf, Holding
    <2>3. \A d \in Ids : project'[d] # NoProject => Remembers(project'[d])
      BY <2>1
      DEF Dies, Stays, Saves, AllRemember, RecallsOf, Paths, PathOf, Holding, TypeOK, diskVars,
        Adopting
    <2>4. QED
      BY <2>2, <2>3 DEF AllRemember
  <1>19. ASSUME NEW d \in Clones, ChangeRemote(d) PROVE AllRemember'
    BY <1>19, ChangeRemoteMeans
    DEF Rewires, AllRemember, RecallsOf, rec, diskVars, boundVars, historyVars
  <1>20. CASE UNCHANGED vars
    BY <1>20 DEF vars, AllRemember, RecallsOf, rec, diskVars, boundVars, historyVars
  <1>21. QED
    BY <1>1, <1>2, <1>3, <1>4, <1>5, <1>6, <1>7, <1>8, <1>9, <1>10, <1>11,
       <1>12, <1>13, <1>14, <1>15, <1>16, <1>17, <1>18, <1>19, <1>20
    DEF Next, CallerStep

LEMMA DirsKept == ASSUME TypeOK, Paths, DirMatchesId, [Next]_vars PROVE DirMatchesId'
  <1>1. ASSUME NEW c \in Callers, Identify(c) PROVE DirMatchesId'
    <2>1. Identified(c)
      BY <1>1, Identifies
    <2>2. \A d \in Callers : pc[d] = "rename" => pc'[d] = "rename" /\ knows'[d].saw = knows[d].saw
      BY <2>1, OthersMeet DEF Identified
    <2>3. QED
      BY <2>1, <2>2 DEF Identified, DirMatchesId, saw, diskVars
  <1>2. ASSUME NEW c \in Callers, Scan(c) PROVE DirMatchesId'
    <2>1. PICK label \in Labels, known \in Knowledge : ScansTo(c, label, known)
      BY <1>2, Scans
    <2>2. QED
      BY <2>1
      DEF ScansTo, Stays, Saves, Turns, DirMatchesId, rec, saw, diskVars, historyVars, TypeOK,
        Paths, PathOf, Holding, Adopting
  <1>3. ASSUME NEW c \in Callers, IdentifyAgain(c) PROVE DirMatchesId'
    <2>1. PICK label \in {"merge", "create"}, known \in Knowledge : ScansAgainTo(c, label, known)
      BY <1>3, ScansAgain
    <2>2. QED
      BY <2>1
      DEF ScansAgainTo, Stays, Saves, Turns, DirMatchesId, rec, saw, diskVars, historyVars, TypeOK,
        Paths, PathOf, Holding, Adopting
  <1>4. ASSUME NEW c \in Callers, Create(c) PROVE DirMatchesId'
    <2>1. Creates(c)
      BY <1>4, CreateMeans
    <2>2. QED
      BY <2>1
      DEF Creates, Stays, Saves, Turns, DirMatchesId, rec, saw, diskVars, historyVars, TypeOK,
        Paths, PathOf, Holding, Adopting
  <1>5. ASSUME NEW c \in Callers, Merge(c) PROVE DirMatchesId'
    <2>1. Merges(c)
      BY <1>5, MergeMeans
    <2>2. QED
      BY <2>1
      DEF Merges, Stays, Saves, Turns, DirMatchesId, rec, saw, diskVars, historyVars, TypeOK,
        Paths, PathOf, Holding, Adopting
  <1>6. ASSUME NEW c \in Callers, CheckDerived(c) PROVE DirMatchesId'
    <2>1. Checks(c)
      BY <1>6, CheckMeans
    <2>2. QED
      BY <2>1
      DEF Checks, Stays, Saves, Turns, DirMatchesId, rec, saw, diskVars, historyVars, TypeOK,
        Paths, PathOf, Holding, Adopting
  <1>7. ASSUME NEW c \in Callers, MoveHistory(c) PROVE DirMatchesId'
    <2>1. MovesHistory(c)
      BY <1>7, MoveHistoryMeans
    <2>2. QED
      BY <2>1
      DEF MovesHistory, Stays, Saves, Turns, DirMatchesId, rec, saw, diskVars, historyVars, TypeOK,
        Paths, PathOf, Holding, Adopting
  <1>8. ASSUME NEW c \in Callers, MoveDir(c) PROVE DirMatchesId'
    <2>1. MovesDir(c)
      BY <1>8, MoveDirMeans
    <2>2. QED
      BY <2>1
      DEF MovesDir, Stays, Saves, Turns, DirMatchesId, rec, saw, diskVars, historyVars, TypeOK,
        Paths, PathOf, Holding, Adopting
  <1>9. ASSUME NEW c \in Callers, SaveRenamed(c) PROVE DirMatchesId'
    <2>1. SavesRenamed(c)
      BY <1>9, SaveRenamedMeans
    <2>2. saw(c) \in Ids /\ rec(c) # NoProject /\ saw(c) \in Remotes
      BY <2>1, Places DEF SavesRenamed, Paths, PathOf, Holding, Adopting
    <2>3. Renamed(c).id = saw(c)
      BY <2>2, Renames
    <2>4. \A d \in Callers : d # c => pc'[d] = pc[d] /\ knows'[d] = knows[d]
      BY <2>1 DEF SavesRenamed, Saves, Stays, Turns
    <2>5. halfMoved \subseteq halfMoved'
      BY <2>1 DEF SavesRenamed
    <2>6. ASSUME NEW e \in Ids, project'[e] # NoProject, project'[e].id # e
          PROVE e \in halfMoved' \/ \E d \in Callers : pc'[d] = "rename" /\ knows'[d].saw = e
      <3>1. CASE e # saw(c)
        <4>1. project'[e] = project[e]
          BY <2>1, <2>2, <2>3, <3>1 DEF SavesRenamed, Saves, TypeOK
        <4>2. e \in halfMoved \/ \E d \in Callers : pc[d] = "rename" /\ saw(d) = e
          BY <2>6, <4>1 DEF DirMatchesId
        <4>3. QED
          BY <2>4, <2>5, <3>1, <4>2 DEF saw
      <3>2. CASE e = saw(c)
        BY <2>1, <2>2, <2>3, <2>6, <3>2 DEF SavesRenamed, Saves, TypeOK
      <3>3. QED
        BY <3>1, <3>2
    <2>7. QED
      BY <2>6 DEF DirMatchesId, saw
  <1>10. ASSUME NEW c \in Callers, ReadForTouch(c) PROVE DirMatchesId'
    <2>1. ReadsForTouch(c)
      BY <1>10, ReadForTouchMeans
    <2>2. QED
      BY <2>1
      DEF ReadsForTouch, Stays, Saves, Turns, DirMatchesId, rec, saw, diskVars, historyVars,
        TypeOK, Paths, PathOf, Holding, Adopting
  <1>11. ASSUME NEW c \in Callers, Touch(c) PROVE DirMatchesId'
    <2>1. pc[c] = "touched" /\ WritesBack(c, Located(rec(c), DirOf[c]))
      BY <1>11, TouchMeans
    <2>2. QED
      BY <2>1
      DEF WritesBack, Stays, Saves, Turns, DirMatchesId, rec, saw, diskVars, historyVars, TypeOK,
        Paths, PathOf, Holding, Adopting
  <1>12. ASSUME NEW c \in Callers, WriteCheckpoint(c) PROVE DirMatchesId'
    <2>1. WritesCheckpoint(c)
      BY <1>12, WriteCheckpointMeans
    <2>2. QED
      BY <2>1
      DEF WritesCheckpoint, Stays, Saves, Turns, DirMatchesId, rec, saw, diskVars, historyVars,
        TypeOK, Paths, PathOf, Holding, Adopting
  <1>13. ASSUME NEW c \in Callers, SaveCheckpointed(c) PROVE DirMatchesId'
    <2>1. pc[c] = "save" /\ WritesBack(c, rec(c))
      BY <1>13, SaveCheckpointedMeans
    <2>2. QED
      BY <2>1
      DEF WritesBack, Stays, Saves, Turns, DirMatchesId, rec, saw, diskVars, historyVars, TypeOK,
        Paths, PathOf, Holding, Adopting
  <1>14. ASSUME NEW c \in Callers, ReadTasks(c) PROVE DirMatchesId'
    <2>1. ReadsTasks(c)
      BY <1>14, ReadTasksMeans
    <2>2. QED
      BY <2>1
      DEF ReadsTasks, Stays, Saves, Turns, DirMatchesId, rec, saw, diskVars, historyVars, TypeOK,
        Paths, PathOf, Holding, Adopting
  <1>15. ASSUME NEW c \in Callers, WriteTasks(c) PROVE DirMatchesId'
    <2>1. WritesTasks(c)
      BY <1>15, WriteTasksMeans
    <2>2. QED
      BY <2>1
      DEF WritesTasks, Stays, Saves, Turns, DirMatchesId, rec, saw, diskVars, historyVars, TypeOK,
        Paths, PathOf, Holding, Adopting
  <1>16. ASSUME NEW c \in Callers, DeleteProject(c) PROVE DirMatchesId'
    <2>1. Deletes(c)
      BY <1>16, DeleteMeans
    <2>2. QED
      BY <2>1
      DEF Deletes, Stays, Saves, Turns, DirMatchesId, rec, saw, diskVars, historyVars, TypeOK,
        Paths, PathOf, Holding, Adopting
  <1>17. ASSUME NEW c \in Callers, PurgeHistory(c) PROVE DirMatchesId'
    <2>1. Purges(c)
      BY <1>17, PurgeMeans
    <2>2. QED
      BY <2>1
      DEF Purges, Stays, Saves, Turns, DirMatchesId, rec, saw, diskVars, historyVars, TypeOK,
        Paths, PathOf, Holding, Adopting
  <1>18. ASSUME NEW c \in Callers, Die(c) PROVE DirMatchesId'
    <2>1. Dies(c)
      BY <1>18, DieMeans
    <2>2. QED
      BY <2>1
      DEF Dies, Stays, Saves, Turns, DirMatchesId, rec, saw, diskVars, historyVars, TypeOK, Paths,
        PathOf, Holding, Adopting
  <1>19. ASSUME NEW d \in Clones, ChangeRemote(d) PROVE DirMatchesId'
    BY <1>19, ChangeRemoteMeans DEF Rewires, DirMatchesId, saw, diskVars, boundVars, historyVars
  <1>20. CASE UNCHANGED vars
    BY <1>20 DEF vars, DirMatchesId, saw, diskVars, boundVars, historyVars
  <1>21. QED
    BY <1>1, <1>2, <1>3, <1>4, <1>5, <1>6, <1>7, <1>8, <1>9, <1>10, <1>11,
       <1>12, <1>13, <1>14, <1>15, <1>16, <1>17, <1>18, <1>19, <1>20
    DEF Next, CallerStep

LEMMA HistoryStays == ASSUME TypeOK, Paths, HistoryKept, [Next]_vars PROVE HistoryKept'
  <1>1. ASSUME NEW c \in Callers, Identify(c) PROVE HistoryKept'
    <2>1. Identified(c)
      BY <1>1, Identifies
    <2>2. QED
      BY <2>1
      DEF Identified, HistoryKept, Stays, Saves, rec, saw, TypeOK, Paths, PathOf, Holding,
        diskVars, boundVars, historyVars
  <1>2. ASSUME NEW c \in Callers, Scan(c) PROVE HistoryKept'
    <2>1. PICK label \in Labels, known \in Knowledge : ScansTo(c, label, known)
      BY <1>2, Scans
    <2>2. QED
      BY <2>1
      DEF ScansTo, HistoryKept, Stays, Saves, rec, saw, TypeOK, Paths, PathOf, Holding, diskVars,
        boundVars, historyVars
  <1>3. ASSUME NEW c \in Callers, IdentifyAgain(c) PROVE HistoryKept'
    <2>1. PICK label \in {"merge", "create"}, known \in Knowledge : ScansAgainTo(c, label, known)
      BY <1>3, ScansAgain
    <2>2. QED
      BY <2>1
      DEF ScansAgainTo, HistoryKept, Stays, Saves, rec, saw, TypeOK, Paths, PathOf, Holding,
        diskVars, boundVars, historyVars
  <1>4. ASSUME NEW c \in Callers, Create(c) PROVE HistoryKept'
    <2>1. Creates(c)
      BY <1>4, CreateMeans
    <2>2. QED
      BY <2>1
      DEF Creates, HistoryKept, Stays, Saves, rec, saw, TypeOK, Paths, PathOf, Holding, diskVars,
        boundVars, historyVars
  <1>5. ASSUME NEW c \in Callers, Merge(c) PROVE HistoryKept'
    <2>1. Merges(c)
      BY <1>5, MergeMeans
    <2>2. QED
      BY <2>1
      DEF Merges, HistoryKept, Stays, Saves, rec, saw, TypeOK, Paths, PathOf, Holding, diskVars,
        boundVars, historyVars
  <1>6. ASSUME NEW c \in Callers, CheckDerived(c) PROVE HistoryKept'
    <2>1. Checks(c)
      BY <1>6, CheckMeans
    <2>2. QED
      BY <2>1
      DEF Checks, HistoryKept, Stays, Saves, rec, saw, TypeOK, Paths, PathOf, Holding, diskVars,
        boundVars, historyVars
  <1>7. ASSUME NEW c \in Callers, MoveHistory(c) PROVE HistoryKept'
    <2>1. MovesHistory(c)
      BY <1>7, MoveHistoryMeans
    <2>2. rec(c).id \in Ids /\ saw(c) \in Ids
      BY <2>1, Places DEF MovesHistory, Paths, PathOf, Holding, Adopting
    <2>3. UNION {checkpoints[d] : d \in Ids} \subseteq UNION {checkpoints'[d] : d \in Ids}
      <3>1. ASSUME NEW d \in Ids, NEW x \in checkpoints[d]
            PROVE \E e \in Ids : x \in checkpoints'[e]
        BY <2>1, <2>2 DEF MovesHistory, TypeOK
      <3>2. QED
        BY <3>1
    <2>4. QED
      BY <2>1, <2>3 DEF MovesHistory, HistoryKept, historyVars
  <1>8. ASSUME NEW c \in Callers, MoveDir(c) PROVE HistoryKept'
    <2>1. MovesDir(c)
      BY <1>8, MoveDirMeans
    <2>2. QED
      BY <2>1
      DEF MovesDir, HistoryKept, Stays, Saves, rec, saw, TypeOK, Paths, PathOf, Holding, diskVars,
        boundVars, historyVars
  <1>9. ASSUME NEW c \in Callers, SaveRenamed(c) PROVE HistoryKept'
    <2>1. SavesRenamed(c)
      BY <1>9, SaveRenamedMeans
    <2>2. QED
      BY <2>1
      DEF SavesRenamed, HistoryKept, Stays, Saves, rec, saw, TypeOK, Paths, PathOf, Holding,
        diskVars, boundVars, historyVars
  <1>10. ASSUME NEW c \in Callers, ReadForTouch(c) PROVE HistoryKept'
    <2>1. ReadsForTouch(c)
      BY <1>10, ReadForTouchMeans
    <2>2. QED
      BY <2>1
      DEF ReadsForTouch, HistoryKept, Stays, Saves, rec, saw, TypeOK, Paths, PathOf, Holding,
        diskVars, boundVars, historyVars
  <1>11. ASSUME NEW c \in Callers, Touch(c) PROVE HistoryKept'
    <2>1. pc[c] = "touched" /\ WritesBack(c, Located(rec(c), DirOf[c]))
      BY <1>11, TouchMeans
    <2>2. QED
      BY <2>1
      DEF WritesBack, HistoryKept, Stays, Saves, rec, saw, TypeOK, Paths, PathOf, Holding,
        diskVars, boundVars, historyVars
  <1>12. ASSUME NEW c \in Callers, WriteCheckpoint(c) PROVE HistoryKept'
    <2>1. WritesCheckpoint(c)
      BY <1>12, WriteCheckpointMeans
    <2>2. rec(c).id \in Ids
      BY <2>1, Places, Constants DEF WritesCheckpoint
    <2>3. \A d \in Ids : checkpoints[d] \subseteq checkpoints'[d]
      BY <2>1, <2>2 DEF WritesCheckpoint, TypeOK
    <2>4. c \in checkpoints'[rec(c).id]
      BY <2>1, <2>2 DEF WritesCheckpoint, TypeOK
    <2>5. QED
      BY <2>1, <2>2, <2>3, <2>4 DEF WritesCheckpoint, HistoryKept
  <1>13. ASSUME NEW c \in Callers, SaveCheckpointed(c) PROVE HistoryKept'
    <2>1. pc[c] = "save" /\ WritesBack(c, rec(c))
      BY <1>13, SaveCheckpointedMeans
    <2>2. QED
      BY <2>1
      DEF WritesBack, HistoryKept, Stays, Saves, rec, saw, TypeOK, Paths, PathOf, Holding,
        diskVars, boundVars, historyVars
  <1>14. ASSUME NEW c \in Callers, ReadTasks(c) PROVE HistoryKept'
    <2>1. ReadsTasks(c)
      BY <1>14, ReadTasksMeans
    <2>2. QED
      BY <2>1
      DEF ReadsTasks, HistoryKept, Stays, Saves, rec, saw, TypeOK, Paths, PathOf, Holding,
        diskVars, boundVars, historyVars
  <1>15. ASSUME NEW c \in Callers, WriteTasks(c) PROVE HistoryKept'
    <2>1. WritesTasks(c)
      BY <1>15, WriteTasksMeans
    <2>2. QED
      BY <2>1
      DEF WritesTasks, HistoryKept, Stays, Saves, rec, saw, TypeOK, Paths, PathOf, Holding,
        diskVars, boundVars, historyVars
  <1>16. ASSUME NEW c \in Callers, DeleteProject(c) PROVE HistoryKept'
    <2>1. Deletes(c)
      BY <1>16, DeleteMeans
    <2>2. QED
      BY <2>1
      DEF Deletes, HistoryKept, Stays, Saves, rec, saw, TypeOK, Paths, PathOf, Holding, diskVars,
        boundVars, historyVars
  <1>17. ASSUME NEW c \in Callers, PurgeHistory(c) PROVE HistoryKept'
    <2>1. Purges(c)
      BY <1>17, PurgeMeans
    <2>2. rec(c).id \in Ids
      BY <2>1, Places, Constants DEF Purges
    <2>3. \A d \in Ids : checkpoints[d] \ checkpoints[rec(c).id] \subseteq checkpoints'[d]
      BY <2>1, <2>2 DEF Purges, TypeOK
    <2>4. QED
      BY <2>1, <2>2, <2>3 DEF Purges, HistoryKept
  <1>18. ASSUME NEW c \in Callers, Die(c) PROVE HistoryKept'
    <2>1. Dies(c)
      BY <1>18, DieMeans
    <2>2. QED
      BY <2>1
      DEF Dies, HistoryKept, Stays, Saves, rec, saw, TypeOK, Paths, PathOf, Holding, diskVars,
        boundVars, historyVars
  <1>19. ASSUME NEW d \in Clones, ChangeRemote(d) PROVE HistoryKept'
    BY <1>19, ChangeRemoteMeans DEF Rewires, HistoryKept, diskVars, boundVars, historyVars
  <1>20. CASE UNCHANGED vars
    BY <1>20 DEF vars, HistoryKept, diskVars, boundVars, historyVars
  <1>21. QED
    BY <1>1, <1>2, <1>3, <1>4, <1>5, <1>6, <1>7, <1>8, <1>9, <1>10, <1>11,
       <1>12, <1>13, <1>14, <1>15, <1>16, <1>17, <1>18, <1>19, <1>20
    DEF Next, CallerStep

LEMMA MeetKept == ASSUME TypeOK, Paths, Meet, [Next]_vars PROVE Meet'
  <1>1. ASSUME NEW c \in Callers, Identify(c) PROVE Meet'
    <2>1. Identified(c)
      BY <1>1, Identifies
    <2>2. \A d \in Callers : d # c /\ Midway(d) => knows'[d].met
      BY <2>1, OthersMeet
    <2>3. \A d \in Callers : d # c => pc'[d] = pc[d]
      BY <2>1 DEF Identified
    <2>4. (\E d \in Callers : d # c /\ Midway(d)) => knows'[c].met
      BY <2>1 DEF Identified
    <2>5. QED
      BY <2>2, <2>3, <2>4 DEF Meet, Midway
  <1>2. ASSUME NEW c \in Callers, Scan(c) PROVE Meet'
    <2>1. PICK label \in Labels, known \in Knowledge : ScansTo(c, label, known)
      BY <1>2, Scans
    <2>2. QED
      BY <2>1, Labelled DEF ScansTo, Stays, Saves, Turns, TypeOK, Meet, Midway
  <1>3. ASSUME NEW c \in Callers, IdentifyAgain(c) PROVE Meet'
    <2>1. PICK label \in {"merge", "create"}, known \in Knowledge : ScansAgainTo(c, label, known)
      BY <1>3, ScansAgain
    <2>2. QED
      BY <2>1 DEF ScansAgainTo, Stays, Saves, Turns, TypeOK, Meet, Midway
  <1>4. ASSUME NEW c \in Callers, Create(c) PROVE Meet'
    <2>1. Creates(c)
      BY <1>4, CreateMeans
    <2>2. QED
      BY <2>1 DEF Creates, Stays, Saves, Turns, TypeOK, Meet, Midway
  <1>5. ASSUME NEW c \in Callers, Merge(c) PROVE Meet'
    <2>1. Merges(c)
      BY <1>5, MergeMeans
    <2>2. QED
      BY <2>1 DEF Merges, Stays, Saves, Turns, TypeOK, Meet, Midway
  <1>6. ASSUME NEW c \in Callers, CheckDerived(c) PROVE Meet'
    <2>1. Checks(c)
      BY <1>6, CheckMeans
    <2>2. QED
      BY <2>1 DEF Checks, Stays, Saves, Turns, TypeOK, Meet, Midway
  <1>7. ASSUME NEW c \in Callers, MoveHistory(c) PROVE Meet'
    <2>1. MovesHistory(c)
      BY <1>7, MoveHistoryMeans
    <2>2. QED
      BY <2>1 DEF MovesHistory, Stays, Saves, Turns, TypeOK, Meet, Midway
  <1>8. ASSUME NEW c \in Callers, MoveDir(c) PROVE Meet'
    <2>1. MovesDir(c)
      BY <1>8, MoveDirMeans
    <2>2. QED
      BY <2>1 DEF MovesDir, Stays, Saves, Turns, TypeOK, Meet, Midway
  <1>9. ASSUME NEW c \in Callers, SaveRenamed(c) PROVE Meet'
    <2>1. SavesRenamed(c)
      BY <1>9, SaveRenamedMeans
    <2>2. QED
      BY <2>1 DEF SavesRenamed, Stays, Saves, Turns, TypeOK, Meet, Midway
  <1>10. ASSUME NEW c \in Callers, ReadForTouch(c) PROVE Meet'
    <2>1. ReadsForTouch(c)
      BY <1>10, ReadForTouchMeans
    <2>2. QED
      BY <2>1 DEF ReadsForTouch, Stays, Saves, Turns, TypeOK, Meet, Midway
  <1>11. ASSUME NEW c \in Callers, Touch(c) PROVE Meet'
    <2>1. pc[c] = "touched" /\ WritesBack(c, Located(rec(c), DirOf[c]))
      BY <1>11, TouchMeans
    <2>2. QED
      BY <2>1 DEF WritesBack, Stays, Saves, Turns, TypeOK, Meet, Midway
  <1>12. ASSUME NEW c \in Callers, WriteCheckpoint(c) PROVE Meet'
    <2>1. WritesCheckpoint(c)
      BY <1>12, WriteCheckpointMeans
    <2>2. QED
      BY <2>1 DEF WritesCheckpoint, Stays, Saves, Turns, TypeOK, Meet, Midway
  <1>13. ASSUME NEW c \in Callers, SaveCheckpointed(c) PROVE Meet'
    <2>1. pc[c] = "save" /\ WritesBack(c, rec(c))
      BY <1>13, SaveCheckpointedMeans
    <2>2. QED
      BY <2>1 DEF WritesBack, Stays, Saves, Turns, TypeOK, Meet, Midway
  <1>14. ASSUME NEW c \in Callers, ReadTasks(c) PROVE Meet'
    <2>1. ReadsTasks(c)
      BY <1>14, ReadTasksMeans
    <2>2. QED
      BY <2>1 DEF ReadsTasks, Stays, Saves, Turns, TypeOK, Meet, Midway
  <1>15. ASSUME NEW c \in Callers, WriteTasks(c) PROVE Meet'
    <2>1. WritesTasks(c)
      BY <1>15, WriteTasksMeans
    <2>2. QED
      BY <2>1 DEF WritesTasks, Stays, Saves, Turns, TypeOK, Meet, Midway
  <1>16. ASSUME NEW c \in Callers, DeleteProject(c) PROVE Meet'
    <2>1. Deletes(c)
      BY <1>16, DeleteMeans
    <2>2. QED
      BY <2>1 DEF Deletes, Stays, Saves, Turns, TypeOK, Meet, Midway
  <1>17. ASSUME NEW c \in Callers, PurgeHistory(c) PROVE Meet'
    <2>1. Purges(c)
      BY <1>17, PurgeMeans
    <2>2. QED
      BY <2>1 DEF Purges, Stays, Saves, Turns, TypeOK, Meet, Midway
  <1>18. ASSUME NEW c \in Callers, Die(c) PROVE Meet'
    <2>1. Dies(c)
      BY <1>18, DieMeans
    <2>2. QED
      BY <2>1 DEF Dies, Stays, Saves, Turns, TypeOK, Meet, Midway
  <1>19. ASSUME NEW d \in Clones, ChangeRemote(d) PROVE Meet'
    BY <1>19, ChangeRemoteMeans DEF Rewires, Meet, Midway
  <1>20. CASE UNCHANGED vars
    BY <1>20 DEF vars, Meet, Midway
  <1>21. QED
    BY <1>1, <1>2, <1>3, <1>4, <1>5, <1>6, <1>7, <1>8, <1>9, <1>10, <1>11,
       <1>12, <1>13, <1>14, <1>15, <1>16, <1>17, <1>18, <1>19, <1>20
    DEF Next, CallerStep

-----------------------------------------------------------------------------
(* One record per identity.                                                *)

\* The same directories have a project, of the same identity.
SameIds ==
  \A d \in Ids : /\ project'[d] # NoProject <=> project[d] # NoProject
                 /\ project[d] # NoProject => project'[d].identity = project[d].identity

\* A process that does nothing, but may be told of another one.
Waits(d) ==
  /\ pc'[d] = pc[d] /\ knows'[d].rec = knows[d].rec /\ knows'[d].saw = knows[d].saw
  /\ knows'[d].cache = knows[d].cache
  /\ knows[d].met => knows'[d].met
  /\ pc[d] = "rename" => knows'[d].met = knows[d].met

LEMMA Memory ==
  ASSUME TypeOK, Paths, NEW d \in Callers
  PROVE /\ pc[d] \in Holding => rec(d) \in Projects /\ rec(d).id \in Ids
        /\ \A p \in knows[d].cache : p \in Projects /\ p.id \in Ids
  <1>1. knows[d] \in Knowledge
    BY DEF TypeOK
  <1>2. knows[d].cache \subseteq Projects
    BY <1>1, Fields
  <1>3. QED
    BY <1>2, Places DEF Paths, PathOf

LEMMA WaitingKept ==
  ASSUME TypeOK, Paths, SameIds, NEW d \in Callers, Waits(d), ClearOf(d)
  PROVE ClearOf(d)'
  <1>1. RenamesAlone(d)'
    <2>1. pc[d] = "rename" => saw(d) \in Ids
      BY Places DEF Paths, PathOf, Adopting
    <2>2. QED
      BY <2>1 DEF Waits, ClearOf, RenamesAlone, SameIds, saw
  <1>2. MemoryCurrent(d)'
    <2>1. \A p : p.id \in Ids /\ OnDisk(p) => project'[p.id] # NoProject /\ project'[p.id].identity = p.identity
      BY DEF OnDisk, SameIds
    <2>2. pc[d] \in Holding \ {"rename", "purge"} =>
            project'[rec(d).id] # NoProject /\ project'[rec(d).id].identity = rec(d).identity
      BY <2>1, Memory DEF ClearOf, MemoryCurrent
    <2>3. pc[d] = "again" => \A p \in knows[d].cache : project'[p.id] # NoProject /\ project'[p.id].identity = p.identity
      BY <2>1, Memory DEF ClearOf, MemoryCurrent
    <2>4. QED
      BY <2>2, <2>3 DEF Waits, MemoryCurrent, OnDisk, rec
  <1>3. IdFresh(d)'
    BY DEF Waits, ClearOf, IdFresh, SameIds, Ids
  <1>4. SinceListed(d)'
    BY DEF Waits, ClearOf, SinceListed, SameIds
  <1>5. NoneMissed(d)'
    BY DEF Waits, ClearOf, NoneMissed, SameIds, saw
  <1>6. NoneTaken(d)'
    BY DEF Waits, ClearOf, NoneTaken, SameIds, saw, rec
  <1>7. QED
    BY <1>1, <1>2, <1>3, <1>4, <1>5, <1>6 DEF ClearOf

\* A step that changes no identity is judged by the process that takes it.
LEMMA ClearStays ==
  ASSUME TypeOK, Paths, Clear, SameIds, halfMoved' = halfMoved, NEW c \in Callers,
         \A d \in Callers : d # c => Waits(d), ClearOf(c)'
  PROVE Clear'
  <1>1. OneDirPerIdentity'
    BY DEF SameIds, Clear, OneDirPerIdentity
  <1>2. \A d \in Callers : ClearOf(d)'
    BY WaitingKept DEF Clear
  <1>3. QED
    BY <1>1, <1>2 DEF Clear

\* Where a process only has to have on disk what it has in memory.
Plain == {"check", "moveHistory", "moveDir", "touch", "touched", "checkpoint", "save",
          "readTasks", "writeTasks", "delete", "purge", "done", "dead"}

LEMMA TurnsClear ==
  ASSUME NEW c \in Callers, NEW label \in Plain, NEW p, NEW ps, NEW r, Turns(c, label, p, ps, r),
         label \in {"purge", "done", "dead"} \/ (project'[p.id] # NoProject /\ project'[p.id].identity = p.identity)
  PROVE ClearOf(c)' /\ \A d \in Callers : d # c => Waits(d)
  <1>1. \A d \in Callers : d # c => Waits(d)
    BY DEF Turns, Waits
  <1>2. pc'[c] = label /\ (label \notin {"done", "dead"} => knows'[c].rec = p)
    BY DEF Turns
  <1>3. MemoryCurrent(c)'
    BY <1>2 DEF MemoryCurrent, OnDisk, Plain, Holding, rec
  <1>4. pc'[c] \notin {"rename", "new", "scan", "again", "create", "merge"}
    BY <1>2 DEF Plain
  <1>5. QED
    BY <1>1, <1>3, <1>4 DEF ClearOf, RenamesAlone, IdFresh, SinceListed, NoneMissed, NoneTaken

LEMMA TurnsOthers ==
  ASSUME NEW c \in Callers, NEW label, NEW p, NEW ps, NEW r, Turns(c, label, p, ps, r)
  PROVE \A d \in Callers : d # c => Waits(d)
  BY DEF Turns, Waits

\* While a process is on its way, no directory waits for its record, unless its own.
LEMMA InPlace ==
  ASSUME TypeOK, DirMatchesId, Meet, Clear, NEW c \in Callers, Midway(c), pc[c] # "rename"
  PROVE /\ \A d \in Callers : pc[d] # "rename"
        /\ \A e \in Ids : project[e] # NoProject => project[e].id = e
  <1>1. ASSUME NEW d \in Callers, pc[d] = "rename" PROVE FALSE
    <2>1. Midway(d) /\ d # c
      BY <1>1 DEF Midway
    <2>2. knows[d].met
      BY <2>1 DEF Meet
    <2>3. QED
      BY <1>1, <2>2 DEF Clear, ClearOf, RenamesAlone
  <1>2. QED
    BY <1>1 DEF DirMatchesId, Clear

\* A process that has met nobody is the only one on its way.
LEMMA Alone ==
  ASSUME Meet, NEW c \in Callers, Midway(c), ~knows[c].met
  PROVE \A d \in Callers : d # c => ~Midway(d)
  BY DEF Meet

\* The others then only need their random ids.
LEMMA IdleClear ==
  ASSUME NEW c \in Callers, NEW label, NEW p, NEW ps, NEW r, Turns(c, label, p, ps, r),
         Meet, Midway(c), ~knows[c].met, Clear,
         \A d \in Callers : d # c /\ project[d] = NoProject => project'[d] = NoProject
  PROVE \A d \in Callers : d # c => ClearOf(d)'
  <1>1. SUFFICES ASSUME NEW d \in Callers, d # c PROVE ClearOf(d)'
    OBVIOUS
  <1>2. pc[d] \in {"new", "done", "dead"}
    BY <1>1, Alone DEF Midway
  <1>3. pc'[d] = pc[d]
    BY <1>1 DEF Turns
  <1>4. IdFresh(d)'
    BY <1>1, <1>2, <1>3 DEF Clear, ClearOf, IdFresh
  <1>5. QED
    BY <1>2, <1>3, <1>4
    DEF ClearOf, RenamesAlone, MemoryCurrent, SinceListed, NoneMissed, NoneTaken, Holding

\* What is blurred stays blurred.
LEMMA BlurStays == ASSUME TypeOK, Paths, ~blurred', [Next]_vars PROVE ~blurred
  <1>1. ASSUME NEW c \in Callers, Identify(c) PROVE ~blurred
    <2>1. Identified(c)
      BY <1>1, Identifies
    <2>2. QED
      BY <2>1 DEF Identified
  <1>2. ASSUME NEW c \in Callers, Scan(c) PROVE ~blurred
    <2>1. PICK label \in Labels, known \in Knowledge : ScansTo(c, label, known)
      BY <1>2, Scans
    <2>2. QED
      BY <2>1 DEF ScansTo, Saves, Stays, historyVars
  <1>3. ASSUME NEW c \in Callers, IdentifyAgain(c) PROVE ~blurred
    <2>1. PICK label \in {"merge", "create"}, known \in Knowledge : ScansAgainTo(c, label, known)
      BY <1>3, ScansAgain
    <2>2. QED
      BY <2>1 DEF ScansAgainTo, Saves, Stays, historyVars
  <1>4. ASSUME NEW c \in Callers, Create(c) PROVE ~blurred
    <2>1. Creates(c)
      BY <1>4, CreateMeans
    <2>2. QED
      BY <2>1 DEF Creates, Saves, Stays, historyVars
  <1>5. ASSUME NEW c \in Callers, Merge(c) PROVE ~blurred
    <2>1. Merges(c)
      BY <1>5, MergeMeans
    <2>2. QED
      BY <2>1 DEF Merges, Saves, Stays, historyVars
  <1>6. ASSUME NEW c \in Callers, CheckDerived(c) PROVE ~blurred
    <2>1. Checks(c)
      BY <1>6, CheckMeans
    <2>2. QED
      BY <2>1 DEF Checks, Saves, Stays, historyVars
  <1>7. ASSUME NEW c \in Callers, MoveHistory(c) PROVE ~blurred
    <2>1. MovesHistory(c)
      BY <1>7, MoveHistoryMeans
    <2>2. QED
      BY <2>1 DEF MovesHistory, Saves, Stays, historyVars
  <1>8. ASSUME NEW c \in Callers, MoveDir(c) PROVE ~blurred
    <2>1. MovesDir(c)
      BY <1>8, MoveDirMeans
    <2>2. QED
      BY <2>1 DEF MovesDir, Saves, Stays, historyVars
  <1>9. ASSUME NEW c \in Callers, SaveRenamed(c) PROVE ~blurred
    <2>1. SavesRenamed(c)
      BY <1>9, SaveRenamedMeans
    <2>2. QED
      BY <2>1 DEF SavesRenamed, Saves, Stays, historyVars
  <1>10. ASSUME NEW c \in Callers, ReadForTouch(c) PROVE ~blurred
    <2>1. ReadsForTouch(c)
      BY <1>10, ReadForTouchMeans
    <2>2. QED
      BY <2>1 DEF ReadsForTouch, Saves, Stays, historyVars
  <1>11. ASSUME NEW c \in Callers, Touch(c) PROVE ~blurred
    <2>1. pc[c] = "touched" /\ WritesBack(c, Located(rec(c), DirOf[c]))
      BY <1>11, TouchMeans
    <2>2. QED
      BY <2>1 DEF WritesBack, Saves, Stays, historyVars
  <1>12. ASSUME NEW c \in Callers, WriteCheckpoint(c) PROVE ~blurred
    <2>1. WritesCheckpoint(c)
      BY <1>12, WriteCheckpointMeans
    <2>2. QED
      BY <2>1 DEF WritesCheckpoint, Saves, Stays, historyVars
  <1>13. ASSUME NEW c \in Callers, SaveCheckpointed(c) PROVE ~blurred
    <2>1. pc[c] = "save" /\ WritesBack(c, rec(c))
      BY <1>13, SaveCheckpointedMeans
    <2>2. QED
      BY <2>1 DEF WritesBack, Saves, Stays, historyVars
  <1>14. ASSUME NEW c \in Callers, ReadTasks(c) PROVE ~blurred
    <2>1. ReadsTasks(c)
      BY <1>14, ReadTasksMeans
    <2>2. QED
      BY <2>1 DEF ReadsTasks, Saves, Stays, historyVars
  <1>15. ASSUME NEW c \in Callers, WriteTasks(c) PROVE ~blurred
    <2>1. WritesTasks(c)
      BY <1>15, WriteTasksMeans
    <2>2. QED
      BY <2>1 DEF WritesTasks, Saves, Stays, historyVars
  <1>16. ASSUME NEW c \in Callers, DeleteProject(c) PROVE ~blurred
    <2>1. Deletes(c)
      BY <1>16, DeleteMeans
    <2>2. QED
      BY <2>1 DEF Deletes, Saves, Stays, historyVars
  <1>17. ASSUME NEW c \in Callers, PurgeHistory(c) PROVE ~blurred
    <2>1. Purges(c)
      BY <1>17, PurgeMeans
    <2>2. QED
      BY <2>1 DEF Purges, Saves, Stays, historyVars
  <1>18. ASSUME NEW c \in Callers, Die(c) PROVE ~blurred
    <2>1. Dies(c)
      BY <1>18, DieMeans
    <2>2. QED
      BY <2>1 DEF Dies, Saves, Stays, historyVars
  <1>19. ASSUME NEW d \in Clones, ChangeRemote(d) PROVE ~blurred
    BY <1>19, ChangeRemoteMeans DEF Rewires, historyVars
  <1>20. CASE UNCHANGED vars
    BY <1>20 DEF vars, historyVars
  <1>21. QED
    BY <1>1, <1>2, <1>3, <1>4, <1>5, <1>6, <1>7, <1>8, <1>9, <1>10, <1>11,
       <1>12, <1>13, <1>14, <1>15, <1>16, <1>17, <1>18, <1>19, <1>20
    DEF Next, CallerStep

LEMMA ClearKept ==
  ASSUME TypeOK, Paths, AllRemember, DirMatchesId, Meet, Clear, ~blurred', [Next]_vars
  PROVE Clear'
  <1>1. ASSUME NEW c \in Callers, Identify(c) PROVE Clear'
    <2>1. Identified(c)
      BY <1>1, Identifies
    <2>2. halfMoved' = halfMoved /\ project' = project /\ SameIds
      BY <2>1 DEF Identified, SameIds, diskVars, historyVars
    <2>3. (\A d \in Callers : pc[d] # "rename") /\ ~blurred
      BY <2>1 DEF Identified
    <2>4. ASSUME NEW d \in Callers, d # c PROVE Waits(d)
      BY <2>1, <2>3, <2>4, OthersMeet DEF Waits
    <2>5. IdFresh(c)'
      BY <2>1, <2>2 DEF Identified, IdFresh, Clear, ClearOf
    <2>6. pc'[c] # "scan" => OnDisk(knows'[c].rec) /\ knows'[c].rec.identity = knows'[c].saw
      <3>1. SUFFICES ASSUME pc'[c] # "scan"
                     PROVE OnDisk(knows'[c].rec) /\ knows'[c].rec.identity = knows'[c].saw
        OBVIOUS
      <3>2. /\ knows'[c].saw \in Ids /\ project[knows'[c].saw] # NoProject
            /\ knows'[c].rec = project[knows'[c].saw] /\ knows'[c].rec.identity = knows'[c].saw
        BY <2>1, <3>1 DEF Identified, Ids
      <3>3. project[knows'[c].saw].id = knows'[c].saw
        BY <2>3, <3>2 DEF DirMatchesId, Clear
      <3>4. QED
        BY <3>2, <3>3 DEF OnDisk
    <2>7. pc'[c] \in {"scan", "merge", "touch", "checkpoint", "readTasks"}
      BY <2>1 DEF Identified
    <2>8. MemoryCurrent(c)' /\ NoneTaken(c)'
      BY <2>2, <2>6, <2>7 DEF MemoryCurrent, NoneTaken, OnDisk, Holding, rec, saw
    <2>9. ClearOf(c)'
      BY <2>5, <2>7, <2>8 DEF ClearOf, RenamesAlone, SinceListed, NoneMissed
    <2>10. QED
      BY <2>2, <2>4, <2>9, ClearStays
  <1>2. ASSUME NEW c \in Callers, Scan(c) PROVE Clear'
    <2>1. PICK label \in Labels, known \in Knowledge : ScansTo(c, label, known)
      BY <1>2, Scans
    <2>2. halfMoved' = halfMoved /\ project' = project /\ SameIds
      BY <2>1 DEF ScansTo, SameIds, diskVars, historyVars
    <2>3. \A d \in Callers : d # c => Waits(d)
      BY <2>1, TurnsOthers DEF ScansTo
    <2>4. \A e \in Ids : project[e] # NoProject => project[e].id = e
      BY <2>1, InPlace DEF ScansTo, Midway
    <2>5. \A p \in All : OnDisk(p)
      BY <2>4, Listings DEF OnDisk
    <2>6. All \subseteq Projects /\ saw(c) \in Remotes \cup {NoRemote}
      BY Listings, Fields DEF TypeOK, saw
    <2>7. pc'[c] = label /\ (label # "done" => /\ knows'[c].rec = known.rec /\ knows'[c].cache = known.cache
                                               /\ knows'[c].saw = saw(c))
      BY <2>1, Labelled DEF ScansTo, Turns
    <2>8. IdFresh(c)
      BY DEF Clear, ClearOf
    <2>9. CASE label = AfterFound(kind(c)) /\ known.rec \in All
               /\ (label # "delete" => known.rec \in Matches(c, saw(c), All))
      <3>1. label \in {"merge", "touch", "checkpoint", "readTasks", "delete"}
        BY <2>9, Labelled
      <3>2. MemoryCurrent(c)'
        BY <2>2, <2>5, <2>7, <2>9, <3>1 DEF MemoryCurrent, OnDisk, rec
      <3>3. label = "merge" /\ saw(c) # NoRemote /\ known.rec.identity # saw(c) =>
              \A q \in All : q.identity # saw(c)
        BY <2>6, <2>9, MatchesMean
      <3>4. NoneTaken(c)'
        BY <2>2, <2>7, <3>1, <3>3, Listings DEF NoneTaken, rec, saw
      <3>5. ClearOf(c)'
        BY <2>7, <3>1, <3>2, <3>4 DEF ClearOf, RenamesAlone, IdFresh, SinceListed, NoneMissed
      <3>6. QED
        BY <2>2, <2>3, <3>5, ClearStays
    <2>10. CASE /\ label \in {"create", "again", "done"}
                /\ label # "done" => Matches(c, saw(c), All) = {}
                /\ label = "again" => known.cache = All
      <3>1. MemoryCurrent(c)'
        BY <2>2, <2>5, <2>7, <2>10 DEF MemoryCurrent, OnDisk, Holding
      <3>2. IdFresh(c)'
        BY <2>1, <2>2, <2>8 DEF ScansTo, IdFresh
      <3>3. SinceListed(c)'
        BY <2>2, <2>4, <2>7, <2>10, Listings DEF SinceListed
      <3>4. NoneMissed(c)'
        <4>1. SUFFICES ASSUME label = "create", saw(c) # NoRemote, NEW e \in Ids, project[e] # NoProject
                       PROVE project[e].identity = saw(c) <=> e = saw(c)
          BY <2>2, <2>7 DEF NoneMissed, saw
        <4>2. project[e] \in All /\ project[e].id = e /\ Remembers(project[e])
          BY <4>1, <2>4, Listings DEF AllRemember
        <4>3. project[e].identity # saw(c) /\ saw(c) \notin project[e].previous
          BY <4>1, <4>2, <2>6, <2>10, MatchesMean
        <4>4. QED
          BY <4>1, <4>2, <4>3, <2>6 DEF Remembers
      <3>5. ClearOf(c)'
        BY <2>7, <2>10, <3>1, <3>2, <3>3, <3>4 DEF ClearOf, RenamesAlone, NoneTaken
      <3>6. QED
        BY <2>2, <2>3, <3>5, ClearStays
    <2>11. QED
      BY <2>1, <2>9, <2>10 DEF ScansTo
  <1>3. ASSUME NEW c \in Callers, IdentifyAgain(c) PROVE Clear'
    <2>1. PICK label \in {"merge", "create"}, known \in Knowledge : ScansAgainTo(c, label, known)
      BY <1>3, ScansAgain
    <2>2. halfMoved' = halfMoved /\ project' = project /\ SameIds
      BY <2>1 DEF ScansAgainTo, SameIds, diskVars, historyVars
    <2>3. \A d \in Callers : d # c => Waits(d)
      BY <2>1, TurnsOthers DEF ScansAgainTo
    <2>4. \A e \in Ids : project[e] # NoProject => project[e].id = e
      BY <2>1, InPlace DEF ScansAgainTo, Midway
    <2>5. pc[c] = "again" /\ \A p \in knows[c].cache : OnDisk(p) /\ p \in Projects /\ p.id \in Ids /\ Remembers(p)
      BY <2>1, Memory DEF ScansAgainTo, Clear, ClearOf, MemoryCurrent, AllRemember, RecallsOf
    <2>6. \A e \in Ids : project[e] # NoProject =>
            \/ \E p \in knows[c].cache : p.id = e
            \/ knows[c].met /\ project[e].identity = IF e \in Remotes THEN e ELSE NoRemote
      BY <2>5 DEF Clear, ClearOf, SinceListed
    <2>7. /\ pc'[c] = label /\ knows'[c].rec = known.rec /\ knows'[c].cache = {} /\ knows'[c].saw = known.saw
          /\ knows'[c].met = knows[c].met /\ label \in {"merge", "create"}
      BY <2>1 DEF ScansAgainTo, Turns
    <2>8. CASE label = "merge"
      <3>1. OnDisk(known.rec)
        <4>1. known.rec \in knows[c].cache \/ (known.saw \in Ids /\ known.rec = project[known.saw] /\ known.rec # NoProject)
          BY <2>1, <2>8 DEF ScansAgainTo, Ids
        <4>2. QED
          BY <4>1, <2>4, <2>5 DEF OnDisk
      <3>2. MemoryCurrent(c)'
        BY <2>2, <2>7, <2>8, <3>1 DEF MemoryCurrent, OnDisk, rec
      <3>3. NoneTaken(c)'
        <4>1. SUFFICES ASSUME ~knows[c].met, known.saw # NoRemote, known.rec.identity # known.saw,
                              NEW e \in Ids, project[e] # NoProject
                       PROVE project[e].identity # known.saw
          BY <2>2, <2>7 DEF NoneTaken, rec, saw
        <4>2. PICK p \in knows[c].cache : p.id = e
          BY <4>1, <2>6
        <4>3. p.identity # known.saw
          BY <2>1, <2>8, <4>1 DEF ScansAgainTo
        <4>4. QED
          BY <2>5, <4>2, <4>3 DEF OnDisk
      <3>4. ClearOf(c)'
        BY <2>7, <2>8, <3>2, <3>3 DEF ClearOf, RenamesAlone, IdFresh, SinceListed, NoneMissed
      <3>5. QED
        BY <2>2, <2>3, <3>4, ClearStays
    <2>9. CASE label = "create"
      <3>1. IdFresh(c)'
        BY <2>2, <2>5 DEF Clear, ClearOf, IdFresh
      <3>2. NoneMissed(c)'
        <4>1. SUFFICES ASSUME known.saw # NoRemote, NEW e \in Ids, project[e] # NoProject
                       PROVE project[e].identity = known.saw <=> e = known.saw
          BY <2>2, <2>7 DEF NoneMissed, saw
        <4>2. known.saw \in Remotes /\ \A p \in knows[c].cache : p.identity # known.saw /\ known.saw \notin p.previous
          BY <2>1, <2>9, <4>1 DEF ScansAgainTo
        <4>3. CASE \E p \in knows[c].cache : p.id = e
          BY <2>5, <4>2, <4>3 DEF OnDisk, Remembers
        <4>4. CASE project[e].identity = IF e \in Remotes THEN e ELSE NoRemote
          BY <4>1, <4>2, <4>4
        <4>5. QED
          BY <2>6, <4>1, <4>3, <4>4
      <3>3. MemoryCurrent(c)'
        BY <2>7, <2>9 DEF MemoryCurrent, Holding
      <3>4. ClearOf(c)'
        BY <2>7, <2>9, <3>1, <3>2, <3>3 DEF ClearOf, RenamesAlone, SinceListed, NoneTaken
      <3>5. QED
        BY <2>2, <2>3, <3>4, ClearStays
    <2>10. QED
      BY <2>7, <2>8, <2>9
  <1>4. ASSUME NEW c \in Callers, Create(c) PROVE Clear'
    <2>1. Creates(c)
      BY <1>4, CreateMeans
    <2>2. halfMoved' = halfMoved
      BY <2>1 DEF Creates, historyVars
    <2> DEFINE new == Candidate(c)
    <2>3. /\ new \in Projects /\ new.id \in Ids /\ new.identity = saw(c)
          /\ saw(c) = NoRemote => new.id = c
          /\ saw(c) # NoRemote => new.id = saw(c) /\ saw(c) \in Remotes
      BY Candidates, Places
    <2> HIDE DEF new
    <2>4. project' = [project EXCEPT ![new.id] = new]
      BY <2>1 DEF Creates, Saves, new
    <2>5. Turns(c, AfterRegister(c), new, knows[c].cache, saw(c)) /\ AfterRegister(c) \in Plain
      BY <2>1, Labelled DEF Creates, Saves, new, Plain
    <2>6. ClearOf(c)' /\ \A d \in Callers : d # c => Waits(d)
      BY <2>3, <2>4, <2>5, TurnsClear, Constants DEF TypeOK
    <2>7. IdFresh(c) /\ NoneMissed(c) /\ pc[c] = "create" /\ Midway(c)
      BY <2>1 DEF Creates, Clear, ClearOf, Midway
    <2>8. CASE project[new.id] # NoProject
      <3>1. saw(c) # NoRemote /\ project[new.id].identity = saw(c)
        BY <2>3, <2>7, <2>8 DEF IdFresh, NoneMissed
      <3>2. SameIds
        BY <2>3, <2>4, <2>8, <3>1, Constants DEF SameIds, TypeOK
      <3>3. QED
        BY <2>2, <2>6, <3>2, ClearStays
    <2>9. CASE project[new.id] = NoProject
      <3>1. \A e \in Ids : project'[e] = IF e = new.id THEN new ELSE project[e]
        BY <2>3, <2>4 DEF TypeOK
      <3>2. OneDirPerIdentity'
        <4>1. \A e \in Ids : project[e] # NoProject /\ saw(c) # NoRemote => project[e].identity # saw(c)
          BY <2>3, <2>7, <2>9 DEF NoneMissed
        <4>2. QED
          BY <2>3, <3>1, <4>1 DEF Clear, OneDirPerIdentity
      <3>3. ASSUME NEW d \in Callers, d # c PROVE ClearOf(d)'
        <4>1. Waits(d) /\ ClearOf(d) /\ d # new.id
          BY <2>3, <2>6, <3>3, Constants DEF Clear
        <4>2. IdFresh(d)'
          BY <3>1, <4>1 DEF Waits, ClearOf, IdFresh, Ids
        <4>3. CASE ~Midway(d)
          BY <4>1, <4>2, <4>3
          DEF Midway, Waits, ClearOf, RenamesAlone, MemoryCurrent, SinceListed, NoneMissed,
            NoneTaken, Holding
        <4>4. CASE Midway(d)
          <5>1. knows[d].met /\ knows'[d].met
            BY <2>7, <3>3, <4>1, <4>4 DEF Meet, Waits
          <5>2. pc[d] # "rename"
            BY <4>1, <5>1 DEF ClearOf, RenamesAlone
          <5>3. \A p : p.id \in Ids /\ OnDisk(p) => project'[p.id] # NoProject /\ project'[p.id].identity = p.identity
            BY <2>9, <3>1 DEF OnDisk
          <5>4. MemoryCurrent(d)'
            BY <4>1, <5>3, Memory DEF Waits, ClearOf, MemoryCurrent, OnDisk, rec
          <5>5. new.identity = IF new.id \in Remotes THEN new.id ELSE NoRemote
            BY <2>3, Constants
          <5>6. SinceListed(d)'
            BY <3>1, <4>1, <5>1, <5>5 DEF Waits, ClearOf, SinceListed
          <5>7. NoneMissed(d)'
            <6>1. saw(d) # NoRemote => saw(d) \in Remotes
              BY Fields DEF TypeOK, saw
            <6>2. saw(d) # NoRemote => (new.identity = saw(d) <=> new.id = saw(d))
              BY <5>5, <6>1
            <6>3. QED
              BY <3>1, <4>1, <6>2 DEF Waits, ClearOf, NoneMissed, saw
          <5>8. QED
            BY <4>1, <4>2, <5>1, <5>2, <5>4, <5>6, <5>7 DEF Waits, ClearOf, RenamesAlone, NoneTaken
        <4>5. QED
          BY <4>3, <4>4
      <3>4. QED
        BY <2>2, <2>6, <3>2, <3>3 DEF Clear
    <2>10. QED
      BY <2>8, <2>9
  <1>5. ASSUME NEW c \in Callers, Merge(c) PROVE Clear'
    <2>1. Merges(c)
      BY <1>5, MergeMeans
    <2>2. halfMoved' = halfMoved /\ project' = [project EXCEPT ![rec(c).id] = MergedRec(c)] /\ MergedRec(c).id = rec(c).id
          /\ MergedRec(c) \in Projects
      BY <2>1 DEF Merges, Saves
    <2>3. /\ blurred' = (blurred \/ (MergedRec(c).identity # rec(c).identity /\ knows[c].met))
          /\ saw(c) = NoRemote => MergedRec(c).identity = rec(c).identity
          /\ saw(c) # NoRemote => MergedRec(c).identity = saw(c)
          /\ pc[c] = "merge" /\ Midway(c)
      BY <2>1 DEF Merges, Midway
    <2>4. PICK label \in Plain : Turns(c, label, MergedRec(c), knows[c].cache, saw(c))
      BY <2>1, Labelled DEF Merges, Saves, Plain
    <2> HIDE DEF MergedRec
    <2>5. rec(c).id \in Ids /\ OnDisk(rec(c)) /\ NoneTaken(c)
      BY <2>3, Memory DEF Clear, ClearOf, MemoryCurrent, Holding
    <2>6. \A e \in Ids : project'[e] = IF e = rec(c).id THEN MergedRec(c) ELSE project[e]
      BY <2>2, <2>5 DEF TypeOK
    <2>7. MergedRec(c) # NoProject
      BY <2>2, Constants
    <2>8. ClearOf(c)' /\ \A d \in Callers : d # c => Waits(d)
      BY <2>2, <2>4, <2>5, <2>6, <2>7, TurnsClear
    <2>9. CASE MergedRec(c).identity = rec(c).identity
      <3>1. SameIds
        BY <2>5, <2>6, <2>7, <2>9 DEF SameIds, OnDisk
      <3>2. QED
        BY <2>2, <2>8, <3>1, ClearStays
    <2>10. CASE MergedRec(c).identity # rec(c).identity
      <3>1. ~knows[c].met
        BY <2>3, <2>10
      <3>2. \A e \in Ids : project[e] # NoProject => project[e].identity # saw(c)
        BY <2>3, <2>5, <2>10, <3>1 DEF NoneTaken
      <3>3. OneDirPerIdentity'
        BY <2>3, <2>6, <2>10, <3>2 DEF Clear, OneDirPerIdentity
      <3>4. \A d \in Callers : d # c /\ project[d] = NoProject => project'[d] = NoProject
        BY <2>5, <2>6 DEF OnDisk, Ids
      <3>5. \A d \in Callers : d # c => ClearOf(d)'
        BY <2>3, <2>4, <3>1, <3>4, IdleClear
      <3>6. QED
        BY <2>2, <2>8, <3>3, <3>5 DEF Clear
    <2>11. QED
      BY <2>9, <2>10
  <1>6. ASSUME NEW c \in Callers, CheckDerived(c) PROVE Clear'
    <2>1. Checks(c)
      BY <1>6, CheckMeans
    <2>2. halfMoved' = halfMoved /\ project' = project /\ SameIds
      BY <2>1 DEF Checks, SameIds, diskVars, historyVars
    <2>3. OnDisk(rec(c))
      BY <2>1 DEF Checks, Clear, ClearOf, MemoryCurrent, Holding
    <2>4. PICK label \in Plain : Turns(c, label, rec(c), knows[c].cache, saw(c))
      BY <2>1 DEF Checks, Stays, Plain
    <2>5. ClearOf(c)' /\ \A d \in Callers : d # c => Waits(d)
      BY <2>2, <2>3, <2>4, TurnsClear DEF OnDisk
    <2>6. QED
      BY <2>2, <2>5, ClearStays
  <1>7. ASSUME NEW c \in Callers, MoveHistory(c) PROVE Clear'
    <2>1. MovesHistory(c)
      BY <1>7, MoveHistoryMeans
    <2>2. halfMoved' = halfMoved /\ project' = project /\ SameIds
      BY <2>1 DEF MovesHistory, SameIds, diskVars, historyVars
    <2>3. OnDisk(rec(c))
      BY <2>1 DEF MovesHistory, Clear, ClearOf, MemoryCurrent, Holding
    <2>4. PICK label \in Plain : Turns(c, label, rec(c), knows[c].cache, saw(c))
      BY <2>1 DEF MovesHistory, Stays, Plain
    <2>5. ClearOf(c)' /\ \A d \in Callers : d # c => Waits(d)
      BY <2>2, <2>3, <2>4, TurnsClear DEF OnDisk
    <2>6. QED
      BY <2>2, <2>5, ClearStays
  <1>8. ASSUME NEW c \in Callers, MoveDir(c) PROVE Clear'
    <2>1. MovesDir(c)
      BY <1>8, MoveDirMeans
    <2>2. pc[c] = "moveDir" /\ halfMoved' = halfMoved /\ OnDisk(rec(c)) /\ rec(c).identity = saw(c) /\ rec(c).id \in Ids
          /\ saw(c) \in Remotes /\ saw(c) \in Ids /\ Midway(c)
      BY <2>1, Memory, Places
      DEF MovesDir, Clear, ClearOf, MemoryCurrent, Holding, Adopting, Paths, PathOf, Midway
    <2>3. CASE /\ Stays(c, "rename") /\ project[saw(c)] = NoProject
               /\ project' = [project EXCEPT ![saw(c)] = project[rec(c).id], ![rec(c).id] = NoProject]
               /\ blurred' = (blurred \/ knows[c].met)
      <3>1. ~knows[c].met /\ saw(c) # rec(c).id
        BY <2>2, <2>3 DEF OnDisk
      <3>2. \A e \in Ids : project'[e] = IF e = rec(c).id THEN NoProject
                                         ELSE IF e = saw(c) THEN project[rec(c).id] ELSE project[e]
        BY <2>2, <2>3, <3>1 DEF TypeOK
      <3>3. OneDirPerIdentity'
        BY <2>2, <2>3, <3>1, <3>2 DEF Clear, OneDirPerIdentity
      <3>4. Turns(c, "rename", rec(c), knows[c].cache, saw(c))
        BY <2>3 DEF Stays
      <3>5. pc'[c] = "rename" /\ knows'[c].saw = saw(c) /\ ~knows'[c].met
        BY <3>1, <3>4 DEF Turns
      <3>6. RenamesAlone(c)'
        BY <2>2, <3>1, <3>2, <3>5 DEF RenamesAlone, OnDisk, saw
      <3>7. ClearOf(c)'
        BY <3>5, <3>6 DEF ClearOf, MemoryCurrent, IdFresh, SinceListed, NoneMissed, NoneTaken
      <3>8. \A d \in Callers : d # c /\ project[d] = NoProject => project'[d] = NoProject
        BY <2>2, <3>2, Constants DEF Ids
      <3>9. \A d \in Callers : d # c => ClearOf(d)'
        BY <2>2, <3>1, <3>4, <3>8, IdleClear
      <3>10. QED
        BY <2>2, <3>3, <3>7, <3>9 DEF Clear
    <2>4. CASE project[rec(c).id] = NoProject
      BY <2>2, <2>4 DEF OnDisk
    <2>5. CASE (\E label \in {"touch", "done"} : Stays(c, label)) /\ UNCHANGED <<project, taskFile, blurred>>
      <3>1. SameIds
        BY <2>5 DEF SameIds
      <3>2. PICK label \in Plain : Turns(c, label, rec(c), knows[c].cache, saw(c))
        BY <2>5 DEF Stays, Plain
      <3>3. ClearOf(c)' /\ \A d \in Callers : d # c => Waits(d)
        BY <2>2, <2>5, <3>2, TurnsClear DEF OnDisk
      <3>4. QED
        BY <2>2, <3>1, <3>3, ClearStays
    <2>6. QED
      BY <2>1, <2>3, <2>4, <2>5 DEF MovesDir
  <1>9. ASSUME NEW c \in Callers, SaveRenamed(c) PROVE Clear'
    <2>1. SavesRenamed(c)
      BY <1>9, SaveRenamedMeans
    <2>2. PICK label \in {"touch", "done"} : Saves(c, Renamed(c), label) /\ halfMoved' = halfMoved
      BY <2>1 DEF SavesRenamed
    <2>3. /\ saw(c) \in Ids /\ project[saw(c)] # NoProject /\ project[saw(c)].identity = saw(c)
          /\ rec(c).identity = saw(c) /\ rec(c) # NoProject /\ saw(c) \in Remotes
      BY <2>1, Places
      DEF SavesRenamed, Clear, ClearOf, RenamesAlone, Paths, PathOf, Holding, Adopting
    <2>4. Renamed(c) \in Projects /\ Renamed(c).id = saw(c) /\ Renamed(c).identity = saw(c) /\ Renamed(c) # NoProject
      BY <2>3, Renames, Constants
    <2>5. \A e \in Ids : project'[e] = IF e = saw(c) THEN Renamed(c) ELSE project[e]
      BY <2>2, <2>3, <2>4 DEF Saves, TypeOK
    <2>6. SameIds
      BY <2>3, <2>4, <2>5 DEF SameIds
    <2>7. Turns(c, label, Renamed(c), knows[c].cache, saw(c)) /\ label \in Plain
      BY <2>2 DEF Saves, Plain
    <2>8. ClearOf(c)' /\ \A d \in Callers : d # c => Waits(d)
      BY <2>3, <2>4, <2>5, <2>7, TurnsClear
    <2>9. QED
      BY <2>2, <2>6, <2>8, ClearStays
  <1>10. ASSUME NEW c \in Callers, ReadForTouch(c) PROVE Clear'
    <2>1. ReadsForTouch(c)
      BY <1>10, ReadForTouchMeans
    <2>2. halfMoved' = halfMoved /\ project' = project /\ SameIds
      BY <2>1 DEF ReadsForTouch, SameIds, diskVars, historyVars
    <2>3. pc[c] = "touch" /\ Midway(c) /\ OnDisk(rec(c)) /\ rec(c).id \in Ids
      BY <2>1, Memory DEF ReadsForTouch, Clear, ClearOf, MemoryCurrent, Holding, Midway
    <2>4. \A e \in Ids : project[e] # NoProject => project[e].id = e
      BY <2>3, InPlace
    <2>5. PICK p \in {rec(c), project[rec(c).id]}, label \in {"done", "touched"} : Turns(c, label, p, knows[c].cache, saw(c))
      BY <2>1 DEF ReadsForTouch
    <2>6. OnDisk(p)
      BY <2>3, <2>4, <2>5 DEF OnDisk
    <2>7. ClearOf(c)' /\ \A d \in Callers : d # c => Waits(d)
      BY <2>2, <2>5, <2>6, TurnsClear DEF OnDisk, Plain
    <2>8. QED
      BY <2>2, <2>7, ClearStays
  <1>11. ASSUME NEW c \in Callers, Touch(c) PROVE Clear'
    <2>1. pc[c] = "touched" /\ WritesBack(c, Located(rec(c), DirOf[c]))
      BY <1>11, TouchMeans
    <2>2. OnDisk(rec(c)) /\ rec(c).id \in Ids
      BY <2>1, Memory DEF Clear, ClearOf, MemoryCurrent, Holding
    <2> DEFINE p == Located(rec(c), DirOf[c])
    <2>3. p \in Projects /\ p # NoProject /\ p.id = rec(c).id /\ p.identity = rec(c).identity
      BY <2>1, Constants DEF WritesBack
    <2>4. project' = [project EXCEPT ![p.id] = p] /\ halfMoved' = halfMoved /\ Stays(c, "done")
      BY <2>1 DEF WritesBack, historyVars
    <2> HIDE DEF p
    <2>5. SameIds
      BY <2>2, <2>3, <2>4 DEF SameIds, OnDisk, TypeOK
    <2>6. ClearOf(c)' /\ \A d \in Callers : d # c => Waits(d)
      BY <2>4, TurnsClear DEF Stays, Plain
    <2>7. QED
      BY <2>4, <2>5, <2>6, ClearStays
  <1>12. ASSUME NEW c \in Callers, WriteCheckpoint(c) PROVE Clear'
    <2>1. WritesCheckpoint(c)
      BY <1>12, WriteCheckpointMeans
    <2>2. halfMoved' = halfMoved /\ project' = project /\ SameIds
      BY <2>1 DEF WritesCheckpoint, SameIds, diskVars, historyVars
    <2>3. OnDisk(rec(c))
      BY <2>1 DEF WritesCheckpoint, Clear, ClearOf, MemoryCurrent, Holding
    <2>4. PICK label \in Plain : Turns(c, label, rec(c), knows[c].cache, saw(c))
      BY <2>1 DEF WritesCheckpoint, Stays, Plain
    <2>5. ClearOf(c)' /\ \A d \in Callers : d # c => Waits(d)
      BY <2>2, <2>3, <2>4, TurnsClear DEF OnDisk
    <2>6. QED
      BY <2>2, <2>5, ClearStays
  <1>13. ASSUME NEW c \in Callers, SaveCheckpointed(c) PROVE Clear'
    <2>1. pc[c] = "save" /\ WritesBack(c, rec(c))
      BY <1>13, SaveCheckpointedMeans
    <2>2. OnDisk(rec(c)) /\ rec(c).id \in Ids
      BY <2>1, Memory DEF Clear, ClearOf, MemoryCurrent, Holding
    <2> DEFINE p == rec(c)
    <2>3. p \in Projects /\ p # NoProject /\ p.id = rec(c).id /\ p.identity = rec(c).identity
      BY <2>1, Constants DEF WritesBack
    <2>4. project' = [project EXCEPT ![p.id] = p] /\ halfMoved' = halfMoved /\ Stays(c, "done")
      BY <2>1 DEF WritesBack, historyVars
    <2> HIDE DEF p
    <2>5. SameIds
      BY <2>2, <2>3, <2>4 DEF SameIds, OnDisk, TypeOK
    <2>6. ClearOf(c)' /\ \A d \in Callers : d # c => Waits(d)
      BY <2>4, TurnsClear DEF Stays, Plain
    <2>7. QED
      BY <2>4, <2>5, <2>6, ClearStays
  <1>14. ASSUME NEW c \in Callers, ReadTasks(c) PROVE Clear'
    <2>1. ReadsTasks(c)
      BY <1>14, ReadTasksMeans
    <2>2. halfMoved' = halfMoved /\ project' = project /\ SameIds
      BY <2>1 DEF ReadsTasks, SameIds, diskVars, historyVars
    <2>3. OnDisk(rec(c)) /\ Turns(c, "writeTasks", rec(c), knows[c].cache, saw(c))
      BY <2>1 DEF ReadsTasks, Clear, ClearOf, MemoryCurrent, Holding
    <2>4. ClearOf(c)' /\ \A d \in Callers : d # c => Waits(d)
      BY <2>2, <2>3, TurnsClear DEF OnDisk, Plain
    <2>5. QED
      BY <2>2, <2>4, ClearStays
  <1>15. ASSUME NEW c \in Callers, WriteTasks(c) PROVE Clear'
    <2>1. WritesTasks(c)
      BY <1>15, WriteTasksMeans
    <2>2. halfMoved' = halfMoved /\ project' = project /\ SameIds
      BY <2>1 DEF WritesTasks, SameIds, diskVars, historyVars
    <2>3. PICK label \in {"done", "dead"} : Turns(c, label, rec(c), knows[c].cache, saw(c))
      BY <2>1 DEF WritesTasks, Stays
    <2>4. ClearOf(c)' /\ \A d \in Callers : d # c => Waits(d)
      BY <2>3, TurnsClear DEF Plain
    <2>5. QED
      BY <2>2, <2>4, ClearStays
  <1>16. ASSUME NEW c \in Callers, DeleteProject(c) PROVE Clear'
    <2>1. Deletes(c)
      BY <1>16, DeleteMeans
    <2>2. halfMoved' = halfMoved /\ ~knows[c].met /\ Midway(c) /\ rec(c).id \in Ids
      BY <2>1, Places DEF Deletes, Midway
    <2>3. \A e \in Ids : project'[e] = IF e = rec(c).id THEN NoProject ELSE project[e]
      BY <2>1, <2>2 DEF Deletes, TypeOK
    <2>4. OneDirPerIdentity'
      BY <2>3 DEF Clear, OneDirPerIdentity
    <2>5. PICK label \in {"purge", "done"} : Turns(c, label, rec(c), knows[c].cache, saw(c))
      BY <2>1 DEF Deletes, Stays
    <2>6. ClearOf(c)'
      BY <2>5, TurnsClear DEF Plain
    <2>7. \A d \in Callers : d # c => ClearOf(d)'
      BY <2>2, <2>3, <2>5, IdleClear DEF Ids
    <2>8. QED
      BY <2>2, <2>4, <2>6, <2>7 DEF Clear
  <1>17. ASSUME NEW c \in Callers, PurgeHistory(c) PROVE Clear'
    <2>1. Purges(c)
      BY <1>17, PurgeMeans
    <2>2. halfMoved' = halfMoved /\ project' = project /\ SameIds
      BY <2>1 DEF Purges, SameIds, diskVars, historyVars
    <2>3. PICK label \in {"done", "dead"} : Turns(c, label, rec(c), knows[c].cache, saw(c))
      BY <2>1 DEF Purges, Stays
    <2>4. ClearOf(c)' /\ \A d \in Callers : d # c => Waits(d)
      BY <2>3, TurnsClear DEF Plain
    <2>5. QED
      BY <2>2, <2>4, ClearStays
  <1>18. ASSUME NEW c \in Callers, Die(c) PROVE Clear'
    <2>1. Dies(c)
      BY <1>18, DieMeans
    <2>2. pc[c] # "rename" /\ halfMoved' = halfMoved /\ project' = project
      BY <2>1 DEF Dies, diskVars
    <2>3. SameIds
      BY <2>2 DEF SameIds
    <2>4. ClearOf(c)' /\ \A d \in Callers : d # c => Waits(d)
      BY <2>1, TurnsClear DEF Dies, Stays, Plain
    <2>5. QED
      BY <2>2, <2>3, <2>4, ClearStays
  <1>19. ASSUME NEW d \in Clones, ChangeRemote(d) PROVE Clear'
    BY <1>19, ChangeRemoteMeans
    DEF Rewires, Clear, OneDirPerIdentity, ClearOf, RenamesAlone, MemoryCurrent, IdFresh,
      SinceListed, NoneMissed, NoneTaken, OnDisk, rec, saw, diskVars, historyVars
  <1>20. CASE UNCHANGED vars
    BY <1>20
    DEF vars, Clear, OneDirPerIdentity, ClearOf, RenamesAlone, MemoryCurrent, IdFresh, SinceListed,
      NoneMissed, NoneTaken, OnDisk, rec, saw, diskVars, historyVars
  <1>21. QED
    BY <1>1, <1>2, <1>3, <1>4, <1>5, <1>6, <1>7, <1>8, <1>9, <1>10, <1>11,
       <1>12, <1>13, <1>14, <1>15, <1>16, <1>17, <1>18, <1>19, <1>20
    DEF Next, CallerStep

LEMMA InitialState == Init => IInv
  <1> SUFFICES ASSUME Init PROVE IInv
    OBVIOUS
  <1>1. TypeOK
    <2>1. \A c \in Callers : Nothing(c) \in Knowledge
      BY NothingMeans
    <2>2. \A d \in Ids : NoTasks(d) \in TaskFiles
      BY DEF NoTasks, TaskFiles
    <2>3. \A d \in Ids : checkpoints[d] \subseteq {Earlier}
      BY DEF Init
    <2>4. checkpoints \in [Ids -> SUBSET Checkpoints] /\ owed \subseteq Checkpoints
      BY <2>3 DEF Init, Checkpoints
    <2>5. project \in [Ids -> Projects \cup {NoProject}] /\ taskFile \in [Ids -> TaskFiles]
      BY <2>2 DEF Init
    <2>6. pc \in [Callers -> Labels] /\ knows \in [Callers -> Knowledge]
      BY <2>1 DEF Init, Labels
    <2>7. moves \in 0..MaxMoves /\ deaths \in 0..MaxDeaths
      BY Constants DEF Init
    <2>8. halfMoved \subseteq Ids /\ blurred \in BOOLEAN
      BY DEF Init
    <2>9. remote \in [Clones -> Remotes \cup {NoRemote}]
      BY DEF Init
    <2>10. QED
      BY <2>4, <2>5, <2>6, <2>7, <2>8, <2>9 DEF TypeOK
  <1>2. \A c \in Callers : pc[c] = "new" /\ rec(c) = NoProject /\ knows[c].cache = {}
    BY NothingMeans DEF Init, rec
  <1>3. \A d \in Ids : project[d] = NoProject
    BY DEF Init
  <1>4. Paths /\ Meet
    BY <1>2 DEF Paths, PathOf, Holding, Adopting, Meet, Midway
  <1>5. AllRemember /\ DirMatchesId
    BY <1>2, <1>3 DEF AllRemember, RecallsOf, DirMatchesId
  <1>6. HistoryKept
    BY DEF Init, HistoryKept
  <1>7. Clear
    <2>1. \A c \in Callers : ClearOf(c)
      BY <1>2, <1>3
      DEF ClearOf, RenamesAlone, MemoryCurrent, IdFresh, SinceListed, NoneMissed, NoneTaken,
        Holding, Ids
    <2>2. QED
      BY <1>3, <2>1 DEF Clear, OneDirPerIdentity, Init
  <1>8. QED
    BY <1>1, <1>4, <1>5, <1>6, <1>7 DEF IInv

LEMMA InductiveStep == IInv /\ [Next]_vars => IInv'
  <1> SUFFICES ASSUME IInv, [Next]_vars PROVE IInv'
    OBVIOUS
  <1> TypeOK /\ Paths /\ AllRemember /\ DirMatchesId /\ HistoryKept /\ Meet /\ (~blurred => Clear)
    BY DEF IInv
  <1>1. TypeOK' /\ Paths' /\ AllRemember' /\ DirMatchesId' /\ HistoryKept' /\ Meet'
    BY TypeKept, PathsKept, AllRememberKept, DirsKept, HistoryStays, MeetKept
  <1>2. ASSUME ~blurred' PROVE Clear'
    BY <1>2, BlurStays, ClearKept
  <1>3. QED
    BY <1>1, <1>2 DEF IInv

LEMMA Invariant == Spec => []IInv
  BY InitialState, InductiveStep, PTL DEF Spec

-----------------------------------------------------------------------------
(* What follows.                                                           *)

\* Type correctness of the registry, for any clones, remotes and processes.
THEOREM TypeCorrect == Spec => []TypeOK
  <1>1. IInv => TypeOK
    BY DEF IInv
  <1>2. QED
    BY <1>1, Invariant, PTL

\* However remotes move and whoever writes an old copy of a record back, a project
\* whose id was derived from a remote can be found by that remote: what reconciling
\* a moved remote and adopting a derived id promise (registry.ts:109-111).
THEOREM IdsRemembered == Spec => []IdRemembersIdentity
  <1>1. ASSUME IInv PROVE IdRemembersIdentity
    <2>1. \A p \in All : Remembers(p)
      BY <1>1, Listings DEF IInv, AllRemember
    <2>2. QED
      BY <2>1 DEF IdRemembersIdentity, Remembers
  <1>2. QED
    BY <1>1, Invariant, PTL

\* A record lies in the directory of its id, but for a directory just renamed by
\* the adoption of a derived id, or one whose adoption was cut off there.
THEOREM DirsMatch == Spec => []DirMatchesId
  <1>1. IInv => DirMatchesId
    BY DEF IInv
  <1>2. QED
    BY <1>1, Invariant, PTL

\* No checkpoint is lost but by the wish of its user, whichever rename of an
\* adoption fails and whoever writes under an id that is no longer used.
THEOREM NoHistoryLost == Spec => []HistoryKept
  <1>1. IInv => HistoryKept
    BY DEF IInv
  <1>2. QED
    BY <1>1, Invariant, PTL

\* Processes that register the clones of a repository at once, die, or come back
\* to a removed project never make two records of one identity, unless something
\* changed an identity or removed a project beside another process.
THEOREM OneRecord == Spec => []OneRecordPerIdentity
  <1>1. ASSUME IInv, ~blurred, NEW p \in All, NEW q \in All, p.identity = q.identity, p.identity # NoRemote
        PROVE p = q
    <2>1. PICK d \in Ids : project[d] = p /\ p # NoProject
      BY <1>1, Listings DEF IInv
    <2>2. PICK e \in Ids : project[e] = q /\ q # NoProject
      BY <1>1, Listings DEF IInv
    <2>3. OneDirPerIdentity
      BY <1>1 DEF IInv, Clear
    <2>4. d = e
      BY <1>1, <2>1, <2>2, <2>3 DEF OneDirPerIdentity
    <2>5. QED
      BY <2>1, <2>2, <2>4
  <1>2. IInv => OneRecordPerIdentity
    BY <1>1 DEF OneRecordPerIdentity
  <1>3. QED
    BY <1>2, Invariant, PTL

=============================================================================
