---------------------------- MODULE ReadingProofs ----------------------------
(***************************************************************************)
(* What is read is true, for every disk, checkout, working tree, URL,      *)
(* list of projects and set of checkpoints: a scan finds what is within    *)
(* reach, the state of a repository is what git would say, two URLs have   *)
(* one identity exactly if they serve one repository, a term gets the      *)
(* closest project or is asked about, lists and feeds have the newest, a   *)
(* brief is in order, what is listed is what is counted, and a search      *)
(* finds what holds every term.                                            *)
(***************************************************************************)
EXTENDS Reading, FiniteSetTheorems, WellFoundedInduction, TLAPS

\* Each question is of a kind of its own.
LEMMA KindsAre ==
  /\ AskProject => asked'.kind = "project"
  /\ AskCheckpoints => asked'.kind = "checkpoints"
  /\ AskRecent => asked'.kind = "recent"
  /\ AskBrief => asked'.kind = "brief"
  /\ AskProjects => asked'.kind = "projects"
  /\ AskStatus => asked'.kind = "status"
  /\ AskText => asked'.kind = "text"
  /\ AskPrinted => asked'.kind = "printed"
  /\ AskSearch => asked'.kind = "search"
  /\ AskScan => asked'.kind = "scan"
  /\ AskSame => asked'.kind = "same"
  /\ AskCheckout => asked'.kind = "checkout"
  /\ AskTree => asked'.kind = "tree"
  /\ AskPage => asked'.kind = "page"
  /\ AskDocument => asked'.kind = "document"
  <1>1. AskProject => asked'.kind = "project"
    BY DEF AskProject, Ask
  <1>2. AskCheckpoints => asked'.kind = "checkpoints"
    BY DEF AskCheckpoints, Ask
  <1>3. AskRecent => asked'.kind = "recent"
    BY DEF AskRecent, Ask
  <1>4. AskBrief => asked'.kind = "brief"
    BY DEF AskBrief, Ask
  <1>5. AskProjects => asked'.kind = "projects"
    BY DEF AskProjects, Ask
  <1>6. AskStatus => asked'.kind = "status"
    BY DEF AskStatus, Ask
  <1>7. AskText => asked'.kind = "text"
    BY DEF AskText, Ask
  <1>8. AskPrinted => asked'.kind = "printed"
    BY DEF AskPrinted, Ask
  <1>9. AskSearch => asked'.kind = "search"
    BY DEF AskSearch, Ask
  <1>10. AskScan => asked'.kind = "scan"
    BY DEF AskScan, Ask
  <1>11. AskSame => asked'.kind = "same"
    BY DEF AskSame, Ask
  <1>12. AskCheckout => asked'.kind = "checkout"
    BY DEF AskCheckout, Ask
  <1>13. AskTree => asked'.kind = "tree"
    BY DEF AskTree, Ask
  <1>14. AskPage => asked'.kind = "page"
    BY DEF AskPage, Ask
  <1>15. AskDocument => asked'.kind = "document"
    BY DEF AskDocument, Ask
  <1>16. QED
    BY <1>1, <1>2, <1>3, <1>4, <1>5, <1>6, <1>7, <1>8, <1>9, <1>10, <1>11, <1>12, <1>13, <1>14, <1>15

(***************************************************************************)
(* Repetition                                                              *)
(***************************************************************************)
\* Every set of naturals has a least one: what takes the place of induction below.
LEMMA Least ==
  ASSUME NEW T \in SUBSET Nat, T # {}
  PROVE  \E n \in T : \A k \in T : n <= k
  <1>1. IsWellFoundedOn(OpToRel(<, Nat), Nat)
    BY NatLessThanWellFounded, Zenon
  <1>2. PICK n \in T : \A k \in T : <<k, n>> \notin OpToRel(<, Nat)
    BY ONLY <1>1, T \in SUBSET Nat, T # {}, WFMin, Zenon
  <1>3. \A k \in T : ~(k < n)
    BY <1>2, Zenon DEF OpToRel
  <1>4. QED
    BY <1>3

\* What holds first, and after each step if it did before, holds to the end.
LEMMA Counted ==
  ASSUME NEW n \in Nat, NEW f, NEW Q, f[0] \in Q[0],
         \A i \in 1..n : f[i - 1] \in Q[i - 1] => f[i] \in Q[i]
  PROVE  \A i \in 0..n : f[i] \in Q[i]
  <1> DEFINE T == {i \in 0..n : f[i] \notin Q[i]}
  <1>1. SUFFICES ASSUME T # {} PROVE FALSE
    OBVIOUS
  <1>2. PICK i \in T : \A k \in T : i <= k
    <2>1. T \in SUBSET Nat
      OBVIOUS
    <2> HIDE DEF T
    <2>2. QED
      BY <1>1, <2>1, Least
  <1>3. i \in 1..n /\ f[i] \notin Q[i]
    OBVIOUS
  <1>4. i - 1 \in 0..n /\ ~(i <= i - 1)
    BY <1>3
  <1>5. f[i - 1] \in Q[i - 1]
    BY <1>2, <1>4
  <1>6. QED
    BY <1>3, <1>5

\* f repeats a step n times.
Repeats(f, n, U, base, step) ==
  /\ f \in [0..n -> U] /\ f[0] = base
  /\ \A i \in 1..n : f[i] = step[i][f[i - 1]]

CanRepeat(n, U, base, step) == n \in Nat /\ base \in U /\ step \in [1..n -> [U -> U]]

\* From any beginning a step can be repeated as often as there is something to do.
LEMMA Iterated ==
  ASSUME NEW n, NEW U, NEW base, NEW step, CanRepeat(n, U, base, step)
  PROVE  \E f : Repeats(f, n, U, base, step)
  <1> DEFINE Runs(f, m) == Repeats(f, m, U, base, step)
             T == {m \in 0..n : ~\E f : Runs(f, m)}
  <1>0. n \in Nat /\ base \in U /\ step \in [1..n -> [U -> U]]
    BY DEF CanRepeat
  <1>1. SUFFICES ASSUME T # {} PROVE FALSE
    <2>1. n \in 0..n
      BY <1>0
    <2>2. ASSUME T = {} PROVE \E f : Runs(f, n)
      BY <2>1, <2>2
    <2>3. QED
      BY <2>2
  <1>2. PICK m \in T : \A k \in T : m <= k
    <2>1. T \in SUBSET Nat
      OBVIOUS
    <2> HIDE DEF T
    <2>2. QED
      BY <1>1, <2>1, Least
  <1>3. m \in 0..n /\ ~\E f : Runs(f, m)
    OBVIOUS
  <1>4. m # 0
    <2>1. Runs([i \in 0..0 |-> base], 0)
      BY <1>0 DEF Repeats
    <2>2. QED
      BY <2>1, <1>3
  <1>5. m - 1 \in 0..n /\ ~(m <= m - 1) /\ m \in 1..n
    BY <1>0, <1>3, <1>4
  <1>6. PICK f : Runs(f, m - 1)
    BY <1>2, <1>5
  <1> DEFINE g == [i \in 0..m |-> IF i = m THEN step[m][f[m - 1]] ELSE f[i]]
  <1>7. f \in [0..m - 1 -> U] /\ f[0] = base /\ \A i \in 1..m - 1 : f[i] = step[i][f[i - 1]]
    BY <1>6 DEF Repeats
  <1>8. step[m][f[m - 1]] \in U
    <2>1. f[m - 1] \in U
      BY <1>5, <1>7
    <2>2. QED
      BY <2>1, <1>0, <1>5
  <1>9. g \in [0..m -> U] /\ g[0] = base
    BY <1>0, <1>5, <1>7, <1>8
  <1>10. ASSUME NEW i \in 1..m PROVE g[i] = step[i][g[i - 1]]
    <2>1. CASE i = m
      BY <2>1, <1>5
    <2>2. CASE i # m
      <3>1. i \in 1..m - 1 /\ i - 1 # m /\ i \in 0..m /\ i - 1 \in 0..m
        BY <2>2, <1>5
      <3>2. QED
        BY <3>1, <2>2, <1>7
    <2>3. QED
      BY <2>1, <2>2
  <1> HIDE DEF g
  <1>11. Runs(g, m)
    BY <1>9, <1>10 DEF Repeats
  <1>12. QED
    BY <1>3, <1>11

(***************************************************************************)
(* Sequences                                                               *)
(***************************************************************************)

\* f joins the first sequences of seqs, each time one more.
Joins(f, n, S, seqs) ==
  /\ f \in [0..n -> Seq(S)] /\ f[0] = <<>>
  /\ \A i \in 1..n : f[i] = f[i - 1] \o seqs[i]

LEMMA Joined ==
  ASSUME NEW S, NEW n \in Nat, NEW seqs \in [1..n -> Seq(S)]
  PROVE  \E f : Joins(f, n, S, seqs)
  <1> DEFINE U == Seq(S)
             e == <<>>
             step == [i \in 1..n |-> [u \in U |-> u \o seqs[i]]]
  <1>1. step \in [1..n -> [U -> U]]
    <2>1. ASSUME NEW i \in 1..n, NEW u \in U PROVE u \o seqs[i] \in U
      OBVIOUS
    <2>2. QED
      BY <2>1
  <1>2. e \in U
    OBVIOUS
  <1>6. \A i \in 1..n, u \in U : step[i][u] = u \o seqs[i]
    OBVIOUS
  <1>7. CanRepeat(n, U, e, step)
    BY <1>1, <1>2 DEF CanRepeat
  <1> HIDE DEF step, U, e
  <1>3. PICK f \in [0..n -> U] : f[0] = e /\ \A i \in 1..n : f[i] = step[i][f[i - 1]]
    <2>1. PICK f : Repeats(f, n, U, e, step)
      BY <1>7, Iterated
    <2>2. QED
      BY <2>1 DEF Repeats
  <1>4. \A i \in 1..n : f[i - 1] \in U
    BY <1>3
  <1>5. QED
    <2>1. \A i \in 1..n : f[i] = f[i - 1] \o seqs[i]
      BY <1>3, <1>4, <1>6
    <2>2. QED
      BY <1>3, <2>1 DEF U, e, Joins

\* FlattenSeq puts one sequence after the other.
LEMMA Flattened ==
  ASSUME NEW S, NEW n \in Nat, NEW seqs \in [1..n -> Seq(S)]
  PROVE  \E f : Joins(f, n, S, seqs) /\ FlattenSeq(seqs) = f[n]
  <1> DEFINE Runs(h) == h = [i \in 1..n |-> IF i = 1 THEN seqs[i] ELSE h[i - 1] \o seqs[i]]
  <1>0. n \in Nat /\ (\A i \in 1..n : seqs[i] \in Seq(S)) /\ Len(seqs) = n
    OBVIOUS
  <1>1. PICK f \in [0..n -> Seq(S)] : f[0] = <<>> /\ \A i \in 1..n : f[i] = f[i - 1] \o seqs[i]
    <2>1. PICK f : Joins(f, n, S, seqs)
      BY Joined
    <2>2. QED
      BY <2>1 DEF Joins
  <1>a. n # 0 => 1 \in 1..n /\ f[1] = seqs[1]
    <2>1. ASSUME n # 0 PROVE 1 \in 1..n /\ f[1] = seqs[1]
      <3>1. 1 \in 1..n /\ 1 - 1 = 0
        BY <1>0, <2>1
      <3>2. f[1] = <<>> \o seqs[1]
        BY <3>1, <1>1
      <3>3. <<>> \o seqs[1] = seqs[1]
        BY <3>1, <1>0
      <3>4. QED
        BY <3>1, <3>2, <3>3
    <2>2. QED
      BY <2>1
  <1>2. CASE n = 0
    <2>1. seqs = <<>>
      BY <1>2
    <2>2. FlattenSeq(seqs) = <<>>
      BY <2>1, <1>0, <1>2 DEF FlattenSeq
    <2>3. QED
      BY <2>2, <1>1, <1>2 DEF Joins
  <1>3. CASE n # 0
    <2> DEFINE g == [i \in 1..n |-> f[i]]
    <2>1. Runs(g)
      <3>1. ASSUME NEW i \in 1..n PROVE g[i] = IF i = 1 THEN seqs[i] ELSE g[i - 1] \o seqs[i]
        <4>1. CASE i = 1
          BY <4>1, <1>a, <1>3
        <4>2. CASE i # 1
          <5>1. i - 1 \in 1..n
            BY <4>2, <1>0
          <5>2. g[i - 1] = f[i - 1] /\ g[i] = f[i] /\ f[i] = f[i - 1] \o seqs[i]
            BY <5>1, <1>1
          <5>3. QED
            BY <5>2, <4>2
        <4>3. QED
          BY <4>1, <4>2
      <3>2. QED
        BY <3>1
    <2>2. ASSUME NEW h, Runs(h) PROVE h[n] = f[n]
      <3> DEFINE Q == [i \in 0..n |-> IF i = 0 THEN {h[0]} ELSE {f[i]}]
      <3>1. \A i \in 1..n : h[i] = IF i = 1 THEN seqs[i] ELSE h[i - 1] \o seqs[i]
        BY <2>2
      <3>2. ASSUME NEW i \in 1..n, h[i - 1] \in Q[i - 1] PROVE h[i] \in Q[i]
        <4>1. CASE i = 1
          BY <4>1, <1>0, <1>a, <1>3, <3>1
        <4>2. CASE i # 1
          <5>1. h[i - 1] = f[i - 1]
            BY <4>2, <3>2, <1>0
          <5>2. h[i] = h[i - 1] \o seqs[i] /\ f[i] = f[i - 1] \o seqs[i]
            BY <4>2, <1>1, <3>1
          <5>3. i \in 0..n /\ i # 0
            BY <1>0
          <5>4. QED
            BY <5>1, <5>2, <5>3
        <4>3. QED
          BY <4>1, <4>2
      <3>3. h[0] \in Q[0]
        BY <1>0
      <3>6. \A i \in 1..n : h[i - 1] \in Q[i - 1] => h[i] \in Q[i]
        BY <3>2
      <3> HIDE DEF Q
      <3>7. \A i \in 0..n : h[i] \in Q[i]
        BY <1>0, <3>6, <3>3, Counted
      <3>8. n \in 0..n
        BY <1>0
      <3>4. h[n] \in Q[n]
        BY <3>7, <3>8, Zenon
      <3>5. QED
        BY <3>4, <1>0, <1>3 DEF Q
    <2>3. FlattenSeq(seqs) = (CHOOSE h : Runs(h))[n]
      BY <1>0, <1>3 DEF FlattenSeq
    <2>4. FlattenSeq(seqs) = f[n]
      <3> HIDE DEF Runs, g
      <3>1. QED
        BY <2>1, <2>2, <2>3
    <2>5. QED
      BY <2>4, <1>1 DEF Joins
  <1>4. QED
    BY <1>2, <1>3

(***************************************************************************)
(* The scan                                                                *)
(***************************************************************************)
Further(disk, options, some) ==
  some \cup
  UNION {Entries(disk, d) \ Pruned(disk, d) :
           d \in {e \in some : e \notin disk.closed /\ (options.nested \/ e \notin disk.repos)}}

\* r is how far one gets in so many steps.
IsReach(r, disk, roots, options) ==
  LET n == options.maxDepth
  IN /\ r \in [0..n -> SUBSET (disk.dirs \cup roots)] /\ r[0] = roots
     /\ \A i \in 1..n : r[i] = Further(disk, options, r[i - 1])

LEMMA ReachIs ==
  ASSUME NEW disk, NEW roots, NEW options, options.maxDepth \in Nat
  PROVE  IsReach(Reach(disk, roots, options), disk, roots, options)
  <1> DEFINE n == options.maxDepth
             U == SUBSET (disk.dirs \cup roots)
             Runs(f) == f = [i \in 0..n |-> IF i = 0 THEN roots
                                            ELSE Further(disk, options, f[i - 1])]
             step == [i \in 1..n |-> [u \in U |-> Further(disk, options, u)]]
  <1>1. n \in Nat /\ roots \in U
    OBVIOUS
  <1>2. \A u \in U : Further(disk, options, u) \in U
    BY DEF Further, Entries
  <1>3. CanRepeat(n, U, roots, step)
    <2>1. step \in [1..n -> [U -> U]]
      <3> HIDE DEF n, U
      <3>1. QED
        BY <1>2
    <2>2. QED
      BY <1>1, <2>1 DEF CanRepeat
  <1>4. \A i \in 1..n, u \in U : step[i][u] = Further(disk, options, u)
    OBVIOUS
  <1> HIDE DEF n, U, step
  <1>5. \E f : Runs(f)
    <2>1. PICK f : Repeats(f, n, U, roots, step)
      BY <1>3, Iterated
    <2>2. f \in [0..n -> U] /\ f[0] = roots /\ \A i \in 1..n : f[i] = step[i][f[i - 1]]
      BY <2>1 DEF Repeats
    <2>3. \A i \in 1..n : f[i] = Further(disk, options, f[i - 1])
      <3>1. \A i \in 1..n : f[i - 1] \in U
        BY <1>1, <2>2
      <3>2. QED
        BY <1>4, <2>2, <3>1
    <2>4. ASSUME NEW i \in 0..n
          PROVE  f[i] = IF i = 0 THEN roots ELSE Further(disk, options, f[i - 1])
      <3>1. i # 0 => i \in 1..n
        BY <1>1
      <3>2. QED
        BY <2>2, <2>3, <3>1
    <2>5. Runs(f)
      BY <2>2, <2>4
    <2>6. QED
      BY <2>5
  <1>6. ASSUME NEW f, Runs(f)
        PROVE  /\ f[0] = roots
               /\ \A i \in 1..n : f[i] = Further(disk, options, f[i - 1])
    BY <1>1, <1>6
  <1>7. ASSUME NEW f, Runs(f) PROVE f \in [0..n -> U]
    <2> DEFINE Q == [i \in 0..n |-> U]
    <2>1. f[0] \in Q[0]
      BY <1>1, <1>6, <1>7
    <2>2. \A i \in 1..n : f[i - 1] \in Q[i - 1] => f[i] \in Q[i]
      <3>1. ASSUME NEW i \in 1..n, f[i - 1] \in Q[i - 1] PROVE f[i] \in Q[i]
        <4>1. i - 1 \in 0..n /\ i \in 0..n
          BY <1>1
        <4>2. f[i - 1] \in U
          BY <3>1, <4>1
        <4>3. f[i] = Further(disk, options, f[i - 1])
          BY <1>6, <1>7
        <4>4. f[i] \in U
          BY <1>2, <4>2, <4>3
        <4>5. QED
          BY <4>1, <4>4
      <3>2. QED
        BY <3>1
    <2>3. \A i \in 0..n : f[i] \in Q[i]
      <3> HIDE DEF Q
      <3>1. QED
        BY <1>1, <2>1, <2>2, Counted
    <2>4. f = [i \in 0..n |-> f[i]]
      <3> DEFINE e == [i \in 0..n |-> IF i = 0 THEN roots ELSE Further(disk, options, f[i - 1])]
      <3>1. f = e
        BY <1>7
      <3>2. e = [i \in 0..n |-> e[i]]
        OBVIOUS
      <3> HIDE DEF e
      <3>3. QED
        BY <3>1, <3>2
    <2>5. QED
      BY <2>3, <2>4
  <1>8. Reach(disk, roots, options) = CHOOSE f : Runs(f)
    BY DEF Reach, Further, n
  <1>9. QED
    <2> DEFINE g == CHOOSE f : Runs(f)
    <2>1. Runs(g)
      <3> HIDE DEF Runs
      <3>1. QED
        BY <1>5
    <2> HIDE DEF g, Runs
    <2>2. g \in [0..n -> U]
      BY <1>7, <2>1
    <2>3. g[0] = roots /\ \A i \in 1..n : g[i] = Further(disk, options, g[i - 1])
      BY <1>6, <2>1
    <2>4. IsReach(g, disk, roots, options)
      BY <2>2, <2>3 DEF IsReach, n, U
    <2>5. QED
      BY <1>8, <2>4 DEF g

FirstLevel(roots) == [frontier |-> roots, claimed |-> roots, visited |-> Cardinality(roots)]

NextLevel(disk, options, above, i) ==
  LET children == UNION {Children(disk, d, i - 1, options) : d \in above.frontier}
      frontier == children \ above.claimed
  IN [frontier |-> frontier,
      claimed |-> above.claimed \cup Claimed(disk, above.frontier, children),
      visited |-> above.visited + Cardinality(frontier)]

Levels(V) == [frontier : SUBSET V, claimed : SUBSET V, visited : Nat]

IsWalk(levels, disk, roots, options) ==
  LET n == options.maxDepth + 1
  IN /\ levels \in [0..n -> Levels(disk.dirs \cup roots)] /\ levels[0] = FirstLevel(roots)
     /\ \A i \in 1..n : levels[i] = NextLevel(disk, options, levels[i - 1], i)

LEMMA ChildrenAre ==
  ASSUME NEW disk, NEW options, NEW d, NEW depth
  PROVE  Children(disk, d, depth, options) \subseteq disk.dirs
  BY DEF Children, Entries

LEMMA NextLevelIs ==
  ASSUME NEW disk, NEW options, NEW V, IsFiniteSet(V), disk.dirs \subseteq V,
         NEW above \in Levels(V), NEW i
  PROVE  /\ NextLevel(disk, options, above, i) \in Levels(V)
         /\ NextLevel(disk, options, above, i).frontier \subseteq V \ above.claimed
  <1> DEFINE children == UNION {Children(disk, d, i - 1, options) : d \in above.frontier}
             frontier == children \ above.claimed
  <1>1. children \subseteq V
    BY ChildrenAre
  <1>2. /\ above.frontier \subseteq V /\ above.claimed \subseteq V /\ above.visited \in Nat
    BY DEF Levels
  <1>3. NextLevel(disk, options, above, i) =
          [frontier |-> frontier, claimed |-> above.claimed \cup children,
           visited |-> above.visited + Cardinality(frontier)]
    BY DEF NextLevel, Claimed
  <1> HIDE DEF children
  <1>4. Cardinality(frontier) \in Nat
    <2>1. frontier \subseteq V
      BY <1>1
    <2>2. QED
      BY <2>1, FS_Subset, FS_CardinalityType
  <1> HIDE DEF frontier
  <1>5. above.visited + Cardinality(frontier) \in Nat
    BY <1>2, <1>4
  <1>6. frontier \subseteq V \ above.claimed
    BY <1>1 DEF frontier
  <1>7. QED
    BY <1>1, <1>2, <1>3, <1>5, <1>6 DEF Levels

LEMMA WalkIs ==
  ASSUME NEW disk, NEW roots, NEW options, options.maxDepth \in Nat,
         IsFiniteSet(disk.dirs), IsFiniteSet(roots)
  PROVE  IsWalk(ScanLevels(disk, roots, options), disk, roots, options)
  <1> DEFINE n == options.maxDepth + 1
             V == disk.dirs \cup roots
             U == Levels(V)
             base == FirstLevel(roots)
             Runs(f) == f = [i \in 0..n |-> IF i = 0 THEN base
                                            ELSE NextLevel(disk, options, f[i - 1], i)]
             step == [i \in 1..n |-> [u \in U |-> NextLevel(disk, options, u, i)]]
  <1>1. n \in Nat /\ IsFiniteSet(V) /\ disk.dirs \subseteq V
    <2>1. IsFiniteSet(V)
      BY FS_Union, Zenon
    <2>2. QED
      BY <2>1
  <1>2. base \in U
    BY FS_CardinalityType DEF FirstLevel, Levels
  <1>3. \A i \in 1..n, u \in U : NextLevel(disk, options, u, i) \in U
    <2> HIDE DEF V, n
    <2>1. QED
      BY <1>1, NextLevelIs
  <1>4. CanRepeat(n, U, base, step)
    <2>1. step \in [1..n -> [U -> U]]
      <3> HIDE DEF n, U
      <3>1. QED
        BY <1>3
    <2>2. QED
      BY <1>1, <1>2, <2>1 DEF CanRepeat
  <1>5. \A i \in 1..n, u \in U : step[i][u] = NextLevel(disk, options, u, i)
    OBVIOUS
  <1> HIDE DEF n, U, step, base
  <1>6. \E f : Runs(f)
    <2>1. PICK f : Repeats(f, n, U, base, step)
      BY <1>4, Iterated
    <2>2. f \in [0..n -> U] /\ f[0] = base /\ \A i \in 1..n : f[i] = step[i][f[i - 1]]
      BY <2>1 DEF Repeats
    <2>3. \A i \in 1..n : f[i] = NextLevel(disk, options, f[i - 1], i)
      <3>1. \A i \in 1..n : f[i - 1] \in U
        BY <1>1, <2>2
      <3>2. QED
        BY <1>5, <2>2, <3>1
    <2>4. ASSUME NEW i \in 0..n
          PROVE  f[i] = IF i = 0 THEN base ELSE NextLevel(disk, options, f[i - 1], i)
      <3>1. i # 0 => i \in 1..n
        BY <1>1
      <3>2. QED
        BY <2>2, <2>3, <3>1
    <2>5. Runs(f)
      BY <2>2, <2>4
    <2>6. QED
      BY <2>5
  <1>7. ASSUME NEW f, Runs(f)
        PROVE  /\ f[0] = base
               /\ \A i \in 1..n : f[i] = NextLevel(disk, options, f[i - 1], i)
    BY <1>1, <1>7
  <1>8. ASSUME NEW f, Runs(f) PROVE f \in [0..n -> U]
    <2> DEFINE Q == [i \in 0..n |-> U]
    <2>1. f[0] \in Q[0]
      BY <1>1, <1>2, <1>7, <1>8
    <2>2. \A i \in 1..n : f[i - 1] \in Q[i - 1] => f[i] \in Q[i]
      <3>1. ASSUME NEW i \in 1..n, f[i - 1] \in Q[i - 1] PROVE f[i] \in Q[i]
        <4>1. i - 1 \in 0..n /\ i \in 0..n
          BY <1>1
        <4>2. f[i - 1] \in U
          BY <3>1, <4>1
        <4>3. f[i] = NextLevel(disk, options, f[i - 1], i)
          BY <1>7, <1>8
        <4>4. f[i] \in U
          BY <1>3, <4>2, <4>3
        <4>5. QED
          BY <4>1, <4>4
      <3>2. QED
        BY <3>1
    <2>3. \A i \in 0..n : f[i] \in Q[i]
      <3> HIDE DEF Q
      <3>1. QED
        BY <1>1, <2>1, <2>2, Counted
    <2>4. f = [i \in 0..n |-> f[i]]
      <3> DEFINE e == [i \in 0..n |-> IF i = 0 THEN base ELSE NextLevel(disk, options, f[i - 1], i)]
      <3>1. f = e
        BY <1>8
      <3>2. e = [i \in 0..n |-> e[i]]
        OBVIOUS
      <3> HIDE DEF e
      <3>3. QED
        BY <3>1, <3>2
    <2>5. QED
      BY <2>3, <2>4
  <1>9. ScanLevels(disk, roots, options) = CHOOSE f : Runs(f)
    BY DEF ScanLevels, FirstLevel, NextLevel, n, base
  <1>10. QED
    <2> DEFINE g == CHOOSE f : Runs(f)
    <2>1. Runs(g)
      <3> HIDE DEF Runs
      <3>1. QED
        BY <1>6
    <2> HIDE DEF g, Runs
    <2>2. g \in [0..n -> U]
      BY <1>8, <2>1
    <2>3. g[0] = base /\ \A i \in 1..n : g[i] = NextLevel(disk, options, g[i - 1], i)
      BY <1>7, <2>1
    <2>4. IsWalk(g, disk, roots, options)
      BY <2>2, <2>3 DEF IsWalk, n, U, base
    <2>5. QED
      BY <1>9, <2>4 DEF g

\* What has been claimed, and visited, after so many levels is what is reached in so
\* many steps; the next level is what is reached in one step more and not before.
AsFarAs(level, r, i) ==
  /\ level.claimed = r[i] /\ level.visited = Cardinality(r[i])
  /\ level.frontier = IF i = 0 THEN r[0] ELSE r[i] \ r[i - 1]

LEMMA LevelReaches ==
  ASSUME NEW disk, NEW roots, NEW options, options.maxDepth \in Nat,
         IsFiniteSet(disk.dirs), IsFiniteSet(roots),
         NEW r, IsReach(r, disk, roots, options),
         NEW levels, IsWalk(levels, disk, roots, options),
         NEW i \in 1..options.maxDepth, AsFarAs(levels[i - 1], r, i - 1)
  PROVE  AsFarAs(levels[i], r, i)
  <1> DEFINE above == levels[i - 1]
             children == UNION {Children(disk, d, i - 1, options) : d \in above.frontier}
  <1>1. /\ i \in 0..options.maxDepth /\ i - 1 \in 0..options.maxDepth
        /\ i \in 1..options.maxDepth + 1 /\ ~(i - 1 >= options.maxDepth) /\ i # 0
    OBVIOUS
  <1>2. /\ r[i] = Further(disk, options, r[i - 1])
        /\ r[i] \subseteq disk.dirs \cup roots /\ r[i - 1] \subseteq disk.dirs \cup roots
        /\ i # 1 => r[i - 1] = Further(disk, options, r[i - 2])
    <2>1. /\ \A j \in 0..options.maxDepth : r[j] \subseteq disk.dirs \cup roots
          /\ \A j \in 1..options.maxDepth : r[j] = Further(disk, options, r[j - 1])
      BY DEF IsReach
    <2>2. i # 1 => i - 1 \in 1..options.maxDepth /\ i - 1 - 1 = i - 2
      OBVIOUS
    <2>3. i # 1 => r[i - 1] = Further(disk, options, r[i - 1 - 1])
      BY <2>1, <2>2
    <2>4. QED
      BY <1>1, <2>1, <2>2, <2>3
  <1>3. above.claimed = r[i - 1] /\ above.visited = Cardinality(r[i - 1])
    BY DEF AsFarAs
  <1>4. r[i - 1] \cup children = r[i]
    <2>1. r[i] \subseteq r[i - 1] \cup children
      <3>1. SUFFICES ASSUME NEW e \in r[i], e \notin r[i - 1] PROVE e \in children
        OBVIOUS
      <3>2. PICK d \in r[i - 1] : /\ d \notin disk.closed /\ (options.nested \/ d \notin disk.repos)
                                  /\ e \in Entries(disk, d) \ Pruned(disk, d)
        BY <1>2, <3>1 DEF Further
      <3>3. d \in above.frontier
        <4>1. CASE i = 1
          BY <4>1 DEF AsFarAs
        <4>2. CASE i # 1
          <5>1. above.frontier = r[i - 1] \ r[i - 2]
            BY <1>1, <4>2 DEF AsFarAs
          <5>2. d \notin r[i - 2]
            BY <1>2, <3>1, <3>2, <4>2 DEF Further
          <5>3. QED
            BY <3>2, <5>1, <5>2
        <4>3. QED
          BY <4>1, <4>2
      <3>4. Children(disk, d, i - 1, options) = Entries(disk, d) \ Pruned(disk, d)
        BY <1>1, <3>2 DEF Children
      <3>5. QED
        BY <3>2, <3>3, <3>4
    <2>2. above.frontier \subseteq r[i - 1]
      BY <1>1 DEF AsFarAs
    <2>3. children \subseteq r[i]
      <3>1. SUFFICES ASSUME NEW d \in above.frontier, NEW e \in Children(disk, d, i - 1, options)
                     PROVE  e \in r[i]
        OBVIOUS
      <3>2. /\ d \notin disk.closed /\ (options.nested \/ d \notin disk.repos)
            /\ e \in Entries(disk, d) \ Pruned(disk, d)
        BY DEF Children
      <3>3. QED
        BY <1>2, <2>2, <3>2 DEF Further
    <2>4. r[i - 1] \subseteq r[i]
      BY <1>2 DEF Further
    <2>5. QED
      BY <2>1, <2>3, <2>4
  <1>5. levels[i] = NextLevel(disk, options, above, i)
    BY <1>1 DEF IsWalk
  <1>6. levels[i] = [frontier |-> children \ r[i - 1], claimed |-> r[i - 1] \cup children,
                     visited |-> Cardinality(r[i - 1]) + Cardinality(children \ r[i - 1])]
    BY <1>3, <1>5 DEF NextLevel, Claimed
  <1> HIDE DEF children
  <1>7. children \ r[i - 1] = r[i] \ r[i - 1] /\ r[i - 1] \subseteq r[i]
    BY <1>4
  <1>8. Cardinality(r[i]) = Cardinality(r[i - 1]) + Cardinality(r[i] \ r[i - 1])
    <2> DEFINE A == r[i - 1]
               B == r[i] \ r[i - 1]
    <2>1. IsFiniteSet(disk.dirs \cup roots)
      BY FS_Union, Zenon
    <2>2. IsFiniteSet(A) /\ IsFiniteSet(B)
      <3>1. A \subseteq disk.dirs \cup roots /\ B \subseteq disk.dirs \cup roots
        BY <1>2
      <3>2. QED
        BY <2>1, <3>1, FS_Subset
    <2>3. A \cup B = r[i] /\ A \cap B = {}
      BY <1>7
    <2> HIDE DEF A, B
    <2>4. Cardinality(A \cup B) = Cardinality(A) + Cardinality(B)
      <3>1. Cardinality(A \cup B) = Cardinality(A) + Cardinality(B) - Cardinality(A \cap B)
        BY <2>2, FS_Union
      <3>2. Cardinality(A \cap B) = 0
        BY <2>3, FS_EmptySet
      <3>3. Cardinality(A) \in Nat /\ Cardinality(B) \in Nat
        BY <2>2, FS_CardinalityType
      <3>4. QED
        BY <3>1, <3>2, <3>3
    <2>5. QED
      BY <2>3, <2>4 DEF A, B
  <1>9. Cardinality(r[i - 1]) + Cardinality(children \ r[i - 1]) = Cardinality(r[i])
    BY <1>7, <1>8
  <1>10. QED
    BY <1>1, <1>4, <1>6, <1>7, <1>9 DEF AsFarAs

\* The scan visits what can be reached, and counts each directory once.
LEMMA ScanReaches ==
  ASSUME NEW disk, NEW roots, NEW options, options.maxDepth \in Nat,
         IsFiniteSet(disk.dirs), IsFiniteSet(roots)
  PROVE  LET reached == Reach(disk, roots, options)[options.maxDepth]
             scan == ScanForProjects(disk, roots, options)
         IN /\ scan.candidates = {d \in reached : IsCandidate(disk, d, options)}
            /\ scan.directoriesVisited = Cardinality(reached)
  <1> DEFINE n == options.maxDepth
             r == Reach(disk, roots, options)
             levels == ScanLevels(disk, roots, options)
             visited == UNION {levels[depth].frontier : depth \in DOMAIN levels}
  <1>1. IsReach(r, disk, roots, options) /\ IsWalk(levels, disk, roots, options)
    BY ReachIs, WalkIs
  <1>2. /\ n \in Nat /\ n \in 0..n /\ n + 1 \in 1..n + 1 /\ n + 1 - 1 = n
        /\ DOMAIN levels = 0..n + 1
    BY <1>1 DEF IsWalk
  <1>3. \A i \in 0..n : AsFarAs(levels[i], r, i)
    <2> DEFINE Q == [i \in 0..n |-> {u \in {levels[k] : k \in 0..n} : AsFarAs(u, r, i)}]
    <2>1. AsFarAs(levels[0], r, 0) /\ 0 \in 0..n
      BY <1>1, <1>2 DEF AsFarAs, IsReach, IsWalk, FirstLevel
    <2> HIDE DEF r, levels
    <2>2. levels[0] \in Q[0]
      BY <2>1
    <2>3. ASSUME NEW i \in 1..n, levels[i - 1] \in Q[i - 1] PROVE levels[i] \in Q[i]
      <3>1. i - 1 \in 0..n /\ i \in 0..n
        BY <1>2
      <3>2. AsFarAs(levels[i - 1], r, i - 1)
        BY <2>3, <3>1
      <3>3. AsFarAs(levels[i], r, i)
        BY <1>1, <3>2, LevelReaches
      <3>4. QED
        BY <3>1, <3>3
    <2>4. \A i \in 1..n : levels[i - 1] \in Q[i - 1] => levels[i] \in Q[i]
      BY <2>3
    <2>5. \A i \in 0..n : levels[i] \in Q[i]
      <3> HIDE DEF Q, n
      <3>1. QED
        BY <1>2, <2>2, <2>4, Counted
    <2>6. QED
      BY <2>5
  <1> HIDE DEF r, levels, n
  <1>4. levels[n + 1].frontier = {} /\ levels[n + 1].visited = Cardinality(r[n])
    <2>1. levels[n + 1] = NextLevel(disk, options, levels[n], n + 1)
      BY <1>1, <1>2 DEF IsWalk, n
    <2>2. \A d : Children(disk, d, (n + 1) - 1, options) = {}
      BY <1>2 DEF Children, n
    <2>3. levels[n].visited = Cardinality(r[n])
      BY <1>2, <1>3 DEF AsFarAs
    <2>4. IsFiniteSet(r[n])
      <3>1. IsFiniteSet(disk.dirs \cup roots)
        BY FS_Union, Zenon
      <3>2. r[n] \subseteq disk.dirs \cup roots
        BY <1>1, <1>2 DEF IsReach, n
      <3>3. QED
        BY <3>1, <3>2, FS_Subset
    <2> DEFINE children == UNION {Children(disk, d, (n + 1) - 1, options) : d \in levels[n].frontier}
    <2>5. children = {}
      BY <2>2
    <2>a. levels[n + 1] = [frontier |-> children \ levels[n].claimed,
                           claimed |-> levels[n].claimed \cup children,
                           visited |-> levels[n].visited + Cardinality(children \ levels[n].claimed)]
      BY <2>1, Zenon DEF NextLevel, Claimed
    <2> HIDE DEF children
    <2>6. /\ levels[n + 1].frontier = {} \ levels[n].claimed
          /\ levels[n + 1].visited = levels[n].visited + Cardinality({} \ levels[n].claimed)
      BY <2>a, <2>5
    <2>7. {} \ levels[n].claimed = {} /\ Cardinality({}) = 0 /\ Cardinality(r[n]) \in Nat
      BY <2>4, FS_EmptySet, FS_CardinalityType
    <2>8. QED
      BY <2>3, <2>6, <2>7
  <1>5. visited = r[n]
    <2>1. \A i \in 0..n : r[i] \subseteq r[n]
      <3> DEFINE T == {i \in 0..n : ~(r[n - i] \subseteq r[n])}
      <3>1. ASSUME T # {} PROVE FALSE
        <4>1. T \in SUBSET Nat
          OBVIOUS
        <4> HIDE DEF T
        <4>2. PICK i \in T : \A k \in T : i <= k
          BY <3>1, <4>1, Least
        <4> USE DEF T
        <4>3. i \in 0..n /\ ~(r[n - i] \subseteq r[n]) /\ i # 0
          BY <1>2
        <4>4. /\ i - 1 \in 0..n /\ ~(i <= i - 1) /\ n - i + 1 \in 1..n
              /\ n - (i - 1) = n - i + 1 /\ n - i + 1 - 1 = n - i
          BY <1>2, <4>3
        <4>5. r[n - i + 1] \subseteq r[n]
          BY <4>2, <4>4
        <4>6. r[n - i + 1] = Further(disk, options, r[n - i])
          <5>1. \A j \in 1..n : r[j] = Further(disk, options, r[j - 1])
            BY <1>1 DEF IsReach, n
          <5>2. PICK m \in 1..n : m = n - i + 1
            BY <4>4, Zenon
          <5>3. m - 1 = n - i
            BY <1>2, <4>3, <5>2
          <5>4. r[m] = Further(disk, options, r[m - 1])
            BY <5>1, Zenon
          <5>5. QED
            BY ONLY <5>2, <5>3, <5>4
        <4>7. QED
          BY <4>3, <4>5, <4>6 DEF Further
      <3>2. ASSUME NEW i \in 0..n PROVE r[i] \subseteq r[n]
        <4>1. n - i \in 0..n /\ n - (n - i) = i
          BY <1>2
        <4>2. n - i \notin T
          BY <3>1
        <4>3. QED
          BY <4>1, <4>2
      <3>3. QED
        BY <3>2
    <2>2. visited \subseteq r[n]
      <3>1. SUFFICES ASSUME NEW depth \in 0..n + 1 PROVE levels[depth].frontier \subseteq r[n]
        BY <1>2
      <3>2. CASE depth = n + 1
        BY <1>4, <3>2
      <3>3. CASE depth # n + 1
        <4>1. depth \in 0..n
          BY <1>2, <3>3
        <4>2. levels[depth].frontier \subseteq r[depth]
          BY <1>3, <4>1 DEF AsFarAs
        <4>3. QED
          BY <2>1, <4>1, <4>2
      <3>4. QED
        BY <3>2, <3>3
    <2>3. ASSUME NEW d \in r[n] PROVE d \in visited
      <3> DEFINE T == {i \in 0..n : d \in r[i]}
      <3>1. T \in SUBSET Nat /\ T # {}
        BY <1>2
      <3> HIDE DEF T
      <3>2. PICK i \in T : \A k \in T : i <= k
        BY <3>1, Least
      <3> USE DEF T
      <3>3. i \in 0..n /\ d \in r[i] /\ i \in 0..n + 1
        BY <1>2
      <3>4. i # 0 => d \notin r[i - 1]
        <4>1. i # 0 => i - 1 \in 0..n /\ ~(i <= i - 1)
          BY <1>2, <3>3
        <4>2. QED
          BY <3>2, <4>1
      <3>5. d \in levels[i].frontier
        BY <1>3, <3>3, <3>4 DEF AsFarAs
      <3>6. QED
        BY <1>2, <3>3, <3>5
    <2>4. QED
      BY <2>2, <2>3
  <1>6. /\ ScanForProjects(disk, roots, options).candidates = {d \in visited : IsCandidate(disk, d, options)}
        /\ ScanForProjects(disk, roots, options).directoriesVisited = levels[n + 1].visited
    BY DEF ScanForProjects, levels, n
  <1> HIDE DEF visited
  <1>7. QED
    BY <1>4, <1>5, <1>6 DEF r, n

(***************************************************************************)
(* A checkout                                                              *)
(***************************************************************************)
LEMMA CheckoutReads ==
  ASSUME NEW c, c.head # Absent,
         c.kind = "worktree" /\ c.head.ref # Absent => c.own.loose[c.head.ref] = Absent
  PROVE  LET shared == SharedBy(c)
             tip(ref) == IF shared.loose[ref] # Absent THEN shared.loose[ref] ELSE shared.packed[ref]
         IN /\ ReadRepoFast(c).branch = c.head.ref
            /\ ReadRepoFast(c).head = IF c.head.ref = Absent THEN c.head.sha ELSE tip(c.head.ref)
            /\ ReadRepoFast(c).primaryRemote = PrimaryRemote(shared.remotes)
  <1>1. CommonGitDir(c) = SharedBy(c)
    BY DEF CommonGitDir, IsWorktree, SharedBy
  <1>2. /\ ReadRepoFast(c).branch = ResolveHead(c).branch /\ ReadRepoFast(c).head = ResolveHead(c).head
        /\ ReadRepoFast(c).primaryRemote = PrimaryRemote(CommonGitDir(c).remotes)
    BY DEF ReadRepoFast
  <1>3. CASE c.head.ref = Absent
    <2>1. ResolveHead(c) = [branch |-> Absent, head |-> c.head.sha]
      BY <1>3 DEF ResolveHead
    <2>2. QED
      BY <1>1, <1>2, <1>3, <2>1
  <1>4. CASE c.head.ref # Absent
    <2> DEFINE ref == c.head.ref
               common == CommonGitDir(c)
    <2>1. ResolveHead(c) = [branch |-> ref,
                            head |-> FirstFound(FirstFound(c.own.loose[ref], common.loose[ref]),
                                                common.packed[ref])]
      BY <1>4 DEF ResolveHead
    <2>2. FirstFound(c.own.loose[ref], common.loose[ref]) = common.loose[ref]
      BY <1>1, <1>4 DEF FirstFound, SharedBy
    <2>3. QED
      BY <1>1, <1>2, <1>4, <2>1, <2>2 DEF FirstFound
  <1>5. QED
    BY <1>3, <1>4

LEMMA OriginIsPrimary ==
  ASSUME NEW remotes, remotes \in Seq(Range(remotes)),
         \A i, j \in DOMAIN remotes : remotes[i].name = remotes[j].name => i = j
  PROVE  /\ remotes = <<>> => PrimaryRemote(remotes) = Absent
         /\ \A i \in DOMAIN remotes :
              remotes[i].name = "origin" /\ RemoteIdentity(remotes[i].url) # Absent =>
              PrimaryRemote(remotes) = RemoteIdentity(remotes[i].url)
  <1> DEFINE known == {i \in DOMAIN remotes : RemoteIdentity(remotes[i].url) # Absent}
             origins == {i \in known : remotes[i].name = "origin"}
  <1>1. PrimaryRemote(remotes) =
          IF known = {} THEN Absent
          ELSE RemoteIdentity(remotes[Min(IF origins # {} THEN origins ELSE known)].url)
    BY Zenon DEF PrimaryRemote
  <1>2. remotes = <<>> => known = {}
    OBVIOUS
  <1>3. ASSUME NEW i \in DOMAIN remotes, remotes[i].name = "origin",
               RemoteIdentity(remotes[i].url) # Absent
        PROVE  PrimaryRemote(remotes) = RemoteIdentity(remotes[i].url)
    <2>1. i \in known /\ origins = {i} /\ i \in Nat
      BY <1>3
    <2>2. Min({i}) = i
      BY <2>1 DEF Min
    <2> HIDE DEF known, origins
    <2>3. known # {} /\ origins # {}
      BY <2>1
    <2>4. QED
      BY <1>1, <2>1, <2>2, <2>3
  <1> HIDE DEF known, origins
  <1>4. QED
    BY <1>1, <1>2, <1>3

(***************************************************************************)
(* The working tree                                                        *)
(***************************************************************************)
NextStatus(fields, before, i) ==
  IF i # before.due THEN before
  ELSE [entries |-> Append(before.entries, fields[i]), due |-> i + Step(fields[i])]

NoStatus == [entries |-> <<>>, due |-> 1]

\* p is what has been read after so many fields.
IsRead(p, fields) ==
  /\ p[0] = NoStatus
  /\ \A i \in 1..Len(fields) : p[i] = NextStatus(fields, p[i - 1], i)

\* What is said of a tree with those changes.
SaidOf(entries, limit) ==
  LET counted(P(_)) == Cardinality({i \in DOMAIN entries : P(entries[i])})
      untracked(e) == e.x = "?" /\ e.y = "?"
  IN [dirty |-> entries # <<>>,
      stagedCount |-> counted(LAMBDA e : ~untracked(e) /\ e.x \notin Unchanged),
      modifiedCount |-> counted(LAMBDA e : ~untracked(e) /\ e.y \notin Unchanged),
      untrackedCount |-> counted(untracked),
      changedFiles |-> [i \in 1..Min({limit, Len(entries)}) |-> entries[i].path]]

LEMMA StatusIsRead ==
  ASSUME NEW T, NEW fields \in Seq(T), NEW limit
  PROVE  \E p : IsRead(p, fields)
                /\ ParsePorcelainStatus(fields, limit) = SaidOf(p[Len(fields)].entries, limit)
  <1> DEFINE n == Len(fields)
             U == [entries : Seq(T), due : Nat]
             base == NoStatus
             Runs(f) == f = [i \in 0..n |-> IF i = 0 THEN base ELSE NextStatus(fields, f[i - 1], i)]
             step == [i \in 1..n |-> [u \in U |-> NextStatus(fields, u, i)]]
  <1>1. n \in Nat /\ base \in U
    BY DEF NoStatus
  <1>2. ASSUME NEW i \in 1..n, NEW u \in U PROVE NextStatus(fields, u, i) \in U
    <2>1. Step(fields[i]) \in Nat /\ fields[i] \in T /\ i + Step(fields[i]) \in Nat
      BY DEF Step
    <2>2. Append(u.entries, fields[i]) \in Seq(T)
      BY <2>1
    <2>3. QED
      BY <2>1, <2>2 DEF NextStatus
  <1>3. CanRepeat(n, U, base, step)
    <2>1. step \in [1..n -> [U -> U]]
      <3> HIDE DEF n, U
      <3>1. QED
        BY <1>2
    <2>2. QED
      BY <1>1, <2>1 DEF CanRepeat
  <1>4. \A i \in 1..n, u \in U : step[i][u] = NextStatus(fields, u, i)
    OBVIOUS
  <1> HIDE DEF n, U, step, base
  <1>5. \E f : Runs(f)
    <2>1. PICK f : Repeats(f, n, U, base, step)
      BY <1>3, Iterated
    <2>2. f \in [0..n -> U] /\ f[0] = base /\ \A i \in 1..n : f[i] = step[i][f[i - 1]]
      BY <2>1 DEF Repeats
    <2>3. \A i \in 1..n : f[i - 1] \in U
      BY <1>1, <2>2
    <2>4. \A i \in 1..n : f[i] = NextStatus(fields, f[i - 1], i)
      BY <1>4, <2>2, <2>3
    <2>5. ASSUME NEW i \in 0..n
          PROVE  f[i] = IF i = 0 THEN base ELSE NextStatus(fields, f[i - 1], i)
      <3>1. i # 0 => i \in 1..n
        BY <1>1
      <3>2. QED
        BY <2>2, <2>4, <3>1
    <2>6. Runs(f)
      BY <2>2, <2>5
    <2>7. QED
      BY <2>6
  <1>6. ASSUME NEW f, Runs(f)
        PROVE  f[0] = base /\ \A i \in 1..n : f[i] = NextStatus(fields, f[i - 1], i)
    BY <1>1, <1>6
  <1> DEFINE g == CHOOSE f : Runs(f)
  <1>7. ParsePorcelainStatus(fields, limit) = SaidOf(g[n].entries, limit)
    BY DEF ParsePorcelainStatus, SaidOf, NextStatus, NoStatus, n, base
  <1>8. Runs(g)
    <2> HIDE DEF Runs
    <2>1. QED
      BY <1>5
  <1> HIDE DEF g, Runs
  <1>9. IsRead(g, fields)
    BY <1>6, <1>8 DEF IsRead, n, base
  <1>10. QED
    BY <1>7, <1>9 DEF n

LEMMA TwoJoined ==
  ASSUME NEW S, NEW s \in Seq(S), NEW t \in Seq(S)
  PROVE  /\ Len(s \o t) = Len(s) + Len(t) /\ Len(s) \in Nat /\ Len(t) \in Nat
         /\ \A j \in 1..Len(s) : (s \o t)[j] = s[j]
         /\ \A j \in 1..Len(t) : (s \o t)[Len(s) + j] = t[j]
  OBVIOUS

\* What has been joined stays where it is.
Stays(f, n, S, seqs) ==
  \A k \in 1..n :
    /\ f[k - 1] \in Seq(S) /\ f[k] \in Seq(S)
    /\ Len(f[k]) = Len(f[k - 1]) + Len(seqs[k]) /\ Len(f[k]) <= Len(f[n])
    /\ \A j \in 1..Len(seqs[k]) : f[n][Len(f[k - 1]) + j] = seqs[k][j]

LEMMA StaysJoined ==
  ASSUME NEW S, NEW n \in Nat, NEW seqs \in [1..n -> Seq(S)], NEW f, Joins(f, n, S, seqs)
  PROVE  Stays(f, n, S, seqs)
  <1> DEFINE Begins(s, g) == Len(s) <= Len(g) /\ \A j \in 1..Len(s) : g[j] = s[j]
             Q == [i \in 0..n |-> {g \in {f[i]} : \A k \in 0..i : Begins(f[k], g)}]
  <1>1. /\ \A i \in 0..n : f[i] \in Seq(S)
        /\ \A i \in 1..n : f[i] = f[i - 1] \o seqs[i] /\ seqs[i] \in Seq(S) /\ i - 1 \in 0..n /\ i \in 0..n
    <2>1. f \in [0..n -> Seq(S)] /\ \A i \in 1..n : f[i] = f[i - 1] \o seqs[i]
      BY Zenon DEF Joins
    <2>2. \A i \in 1..n : seqs[i] \in Seq(S) /\ i - 1 \in 0..n /\ i \in 0..n
      OBVIOUS
    <2>3. QED
      BY <2>1, <2>2
  <1>2. ASSUME NEW i \in 1..n, f[i - 1] \in Q[i - 1] PROVE f[i] \in Q[i]
    <2>1. i - 1 \in 0..n /\ i \in 0..n
      BY <1>1
    <2>2. \A k \in 0..i - 1 : Begins(f[k], f[i - 1])
      BY <1>2, <2>1
    <2>3. ASSUME NEW k \in 0..i PROVE Begins(f[k], f[i])
      <3>1. CASE k = i
        <4>1. f[i] \in Seq(S)
          BY <1>1, <2>1
        <4>2. QED
          BY <3>1, <4>1
      <3>2. CASE k # i
        <4>1. k \in 0..i - 1 /\ k \in 0..n
          BY <3>2
        <4>2. Begins(f[k], f[i - 1])
          BY <2>2, <4>1
        <4>3. f[k] \in Seq(S) /\ f[i - 1] \in Seq(S) /\ seqs[i] \in Seq(S) /\ f[i] = f[i - 1] \o seqs[i]
          BY <1>1, <2>1, <4>1
        <4>4. Len(f[i]) = Len(f[i - 1]) + Len(seqs[i]) /\ Len(seqs[i]) \in Nat /\ Len(f[i - 1]) \in Nat
              /\ Len(f[k]) \in Nat /\ \A j \in 1..Len(f[i - 1]) : f[i][j] = f[i - 1][j]
          BY <4>3, TwoJoined
        <4>5. QED
          BY <4>2, <4>4
      <3>3. QED
        BY <3>1, <3>2
    <2> HIDE DEF Begins
    <2>4. QED
      BY <2>1, <2>3
  <1>3. f[0] \in Q[0]
    <2>1. 0 \in 0..n /\ f[0] \in Seq(S)
      BY <1>1
    <2>2. QED
      BY <2>1
  <1>4. \A i \in 0..n : f[i] \in Q[i]
    <2>1. \A i \in 1..n : f[i - 1] \in Q[i - 1] => f[i] \in Q[i]
      BY <1>2
    <2> HIDE DEF Q
    <2>2. QED
      BY <1>3, <2>1, Counted
  <1>5. \A k \in 0..n : Begins(f[k], f[n])
    <2>1. n \in 0..n
      OBVIOUS
    <2>2. f[n] \in Q[n]
      BY <1>4, <2>1
    <2> HIDE DEF Begins
    <2>3. QED
      BY <2>1, <2>2
  <1>6. ASSUME NEW k \in 1..n
        PROVE  /\ Len(f[k]) = Len(f[k - 1]) + Len(seqs[k]) /\ Len(f[k]) <= Len(f[n])
               /\ \A j \in 1..Len(seqs[k]) : f[n][Len(f[k - 1]) + j] = seqs[k][j]
    <2>1. /\ k - 1 \in 0..n /\ k \in 0..n /\ f[k] = f[k - 1] \o seqs[k]
          /\ f[k - 1] \in Seq(S) /\ seqs[k] \in Seq(S)
      BY <1>1
    <2>2. Begins(f[k], f[n])
      BY <1>5, <2>1
    <2>3. /\ Len(f[k]) = Len(f[k - 1]) + Len(seqs[k]) /\ Len(f[k - 1]) \in Nat /\ Len(seqs[k]) \in Nat
          /\ \A j \in 1..Len(seqs[k]) : f[k][Len(f[k - 1]) + j] = seqs[k][j]
      BY <2>1, TwoJoined
    <2>4. ASSUME NEW j \in 1..Len(seqs[k]) PROVE f[n][Len(f[k - 1]) + j] = seqs[k][j]
      <3>1. Len(f[k - 1]) + j \in 1..Len(f[k])
        BY <2>3
      <3>2. f[k][Len(f[k - 1]) + j] = seqs[k][j]
        BY <2>3
      <3>3. QED
        BY <2>2, <3>1, <3>2
    <2>5. QED
      BY <2>2, <2>3, <2>4
  <1>7. QED
    BY <1>1, <1>6 DEF Stays

FieldsOf(changes, n) ==
  [i \in 1..n |-> IF {changes[i].x, changes[i].y} \cap Renames # {}
                  THEN <<changes[i], Original>> ELSE <<changes[i]>>]

LEMMA FieldsAre ==
  ASSUME NEW n \in Nat, NEW T, Original \in T, NEW changes \in [1..n -> T]
  PROVE  FieldsOf(changes, n) \in [1..n -> Seq(T)]
  <1>1. ASSUME NEW i \in 1..n
        PROVE  <<changes[i], Original>> \in Seq(T) /\ <<changes[i]>> \in Seq(T)
    OBVIOUS
  <1>2. QED
    BY <1>1 DEF FieldsOf

\* Every change is read once, and what follows it is the next.
LEMMA ChangesRead ==
  ASSUME NEW n \in Nat, NEW T, Original \in T, NEW changes \in [1..n -> T],
         \A i \in 1..n : changes[i].y \notin Renames,
         NEW f, NEW p, Joins(f, n, T, FieldsOf(changes, n)), IsRead(p, f[n])
  PROVE  p[Len(f[n])].entries = changes
  <1> DEFINE Said(k) == [entries |-> [j \in 1..k |-> changes[j]], due |-> Len(f[k]) + 1]
             at == [k \in 0..n |-> p[Len(f[k])]]
             Q == [k \in 0..n |-> {Said(k)}]
             seqs == FieldsOf(changes, n)
  <1>1. seqs \in [1..n -> Seq(T)]
    BY FieldsAre
  <1>2. \A k \in 1..n :
           /\ f[k - 1] \in Seq(T) /\ f[k] \in Seq(T)
           /\ Len(f[k]) = Len(f[k - 1]) + Len(seqs[k]) /\ Len(f[k]) <= Len(f[n])
           /\ \A j \in 1..Len(seqs[k]) : f[n][Len(f[k - 1]) + j] = seqs[k][j]
    <2> HIDE DEF seqs
    <2>1. Stays(f, n, T, seqs)
      BY <1>1, StaysJoined DEF seqs
    <2>2. QED
      BY <2>1 DEF Stays
  <1>3. f[0] = <<>> /\ f[n] \in Seq(T)
    BY DEF Joins
  <1>4. at[0] \in Q[0]
    <2>1. p[0] = NoStatus /\ 0 \in 0..n /\ Len(f[0]) = 0
      BY <1>3 DEF IsRead
    <2>2. [j \in 1..0 |-> changes[j]] = <<>>
      OBVIOUS
    <2>3. QED
      BY <2>1, <2>2 DEF NoStatus
  <1>5. ASSUME NEW k \in 1..n, at[k - 1] \in Q[k - 1] PROVE at[k] \in Q[k]
    <2> DEFINE L == Len(f[k - 1])
               c == changes[k]
               E == [j \in 1..k - 1 |-> changes[j]]
    <2>1. k - 1 \in 0..n /\ k \in 0..n /\ L \in Nat /\ Len(f[n]) \in Nat
      BY <1>2, <1>3
    <2>2. p[L] = [entries |-> E, due |-> L + 1]
      BY <1>5, <2>1
    <2>3. Len(seqs[k]) \in 1..2 /\ f[n][L + 1] = c /\ L + 1 \in 1..Len(f[n])
      <3>1. seqs[k] = (IF {c.x, c.y} \cap Renames # {} THEN <<c, Original>> ELSE <<c>>)
        BY DEF FieldsOf
      <3>2. Len(seqs[k]) \in 1..2 /\ seqs[k][1] = c
        BY <3>1
      <3>3. 1 \in 1..Len(seqs[k])
        BY <3>2
      <3>4. f[n][L + 1] = seqs[k][1]
        BY <1>2, <3>3
      <3> HIDE DEF L
      <3>5. L + 1 <= Len(f[n])
        <4>1. Len(f[k]) = L + Len(seqs[k]) /\ Len(f[k]) <= Len(f[n])
          BY <1>2 DEF L
        <4>2. QED
          BY <2>1, <3>2, <4>1
      <3>6. QED
        BY <2>1, <3>2, <3>4, <3>5
    <2>4. Append(E, c) = [j \in 1..k |-> changes[j]]
      OBVIOUS
    <2>5. p[L + 1] = [entries |-> [j \in 1..k |-> changes[j]], due |-> (L + 1) + Step(c)]
      <3> HIDE DEF L, E, c
      <3>1. p[L + 1] = NextStatus(f[n], p[(L + 1) - 1], L + 1)
        BY <2>3, Zenon DEF IsRead
      <3>2. (L + 1) - 1 = L
        BY <2>1
      <3>3. p[L + 1] = NextStatus(f[n], p[L], L + 1)
        BY <3>1, <3>2, Zenon
      <3>a. p[L].due = L + 1 /\ p[L].entries = E
        BY <2>2
      <3>b. p[L + 1] = [entries |-> Append(E, c), due |-> (L + 1) + Step(c)]
        BY <2>3, <3>3, <3>a, Zenon DEF NextStatus
      <3>4. QED
        BY <2>4, <3>b
    <2>6. CASE c.x \notin Renames
      <3>1. seqs[k] = <<c>>
        BY <2>6 DEF FieldsOf
      <3>2. Len(f[k]) = L + 1 /\ Step(c) = 1
        BY <1>2, <2>6, <3>1 DEF Step
      <3> HIDE DEF L, E, c
      <3>3. at[k] = [entries |-> [j \in 1..k |-> changes[j]], due |-> Len(f[k]) + 1]
        BY <2>1, <2>5, <3>2
      <3>4. QED
        BY <2>1, <3>3
    <2>7. CASE c.x \in Renames
      <3>1. seqs[k] = <<c, Original>>
        BY <2>7 DEF FieldsOf
      <3>2. Len(f[k]) = L + 2 /\ Step(c) = 2 /\ L + 2 <= Len(f[n])
        BY <1>2, <2>1, <2>7, <3>1 DEF Step
      <3> HIDE DEF L, E, c
      <3>3. L + 2 \in 1..Len(f[n]) /\ (L + 2) - 1 = L + 1 /\ L + 2 # (L + 1) + Step(c)
            /\ (L + 1) + Step(c) = Len(f[k]) + 1
        BY <2>1, <3>2
      <3>4. p[L + 2] = NextStatus(f[n], p[(L + 2) - 1], L + 2)
        BY <3>3, Zenon DEF IsRead
      <3>5. p[L + 2] = p[L + 1]
        <4>1. p[L + 2] = NextStatus(f[n], p[L + 1], L + 2) /\ p[L + 1].due = (L + 1) + Step(c)
          BY <2>5, <3>3, <3>4
        <4>2. QED
          BY <3>3, <4>1, Zenon DEF NextStatus
      <3>6. at[k] = [entries |-> [j \in 1..k |-> changes[j]], due |-> Len(f[k]) + 1]
        BY <2>1, <2>5, <3>2, <3>3, <3>5
      <3>7. QED
        BY <2>1, <3>6
    <2>8. QED
      BY <2>6, <2>7
  <1>6. \A k \in 0..n : at[k] \in Q[k]
    <2>1. \A k \in 1..n : at[k - 1] \in Q[k - 1] => at[k] \in Q[k]
      BY <1>5
    <2> HIDE DEF at, Q
    <2>2. QED
      BY <1>4, <2>1, Counted
  <1>7. QED
    <2>1. n \in 0..n
      OBVIOUS
    <2>2. at[n] = Said(n)
      BY <1>6, <2>1
    <2>3. QED
      BY <2>1, <2>2

LEMMA TreeReads ==
  ASSUME NEW changes, changes \in Seq(Range(changes)), NEW limit,
         \A i \in DOMAIN changes : changes[i].y \notin Renames
  PROVE  ParsePorcelainStatus(PorcelainOf(changes), limit) = SaidOf(changes, limit)
  <1> DEFINE n == Len(changes)
             T == Range(changes) \cup {Original}
             seqs == FieldsOf(changes, n)
  <1>1. n \in Nat /\ DOMAIN changes = 1..n /\ changes \in [1..n -> Range(changes)]
    OBVIOUS
  <1>2. changes \in [1..n -> T] /\ Original \in T
    BY <1>1
  <1>3. PorcelainOf(changes) = FlattenSeq(seqs)
    BY <1>1 DEF PorcelainOf, FieldsOf
  <1> HIDE DEF n, T
  <1>4. seqs \in [1..n -> Seq(T)]
    BY <1>1, <1>2, FieldsAre
  <1> HIDE DEF seqs
  <1>5. PICK f : Joins(f, n, T, seqs) /\ FlattenSeq(seqs) = f[n]
    BY <1>1, <1>4, Flattened
  <1>6. f[n] \in Seq(T)
    BY <1>1, <1>5 DEF Joins
  <1>7. PICK p : IsRead(p, f[n]) /\ ParsePorcelainStatus(f[n], limit) = SaidOf(p[Len(f[n])].entries, limit)
    BY <1>6, StatusIsRead
  <1>8. p[Len(f[n])].entries = changes
    <2>1. \A i \in 1..n : changes[i].y \notin Renames
      BY <1>1
    <2>2. Joins(f, n, T, FieldsOf(changes, n)) /\ IsRead(p, f[n])
      BY <1>5, <1>7 DEF seqs
    <2>3. QED
      BY <1>1, <1>2, <2>1, <2>2, ChangesRead
  <1>9. QED
    BY <1>3, <1>5, <1>7, <1>8

\* What git would say of those changes.
SaidTruly(said, changes) ==
  /\ said.dirty = (changes # <<>>)
  /\ said.stagedCount = Cardinality({i \in DOMAIN changes : changes[i].x \notin Unchanged})
  /\ said.modifiedCount = Cardinality({i \in DOMAIN changes : changes[i].y \notin Unchanged})
  /\ said.untrackedCount = Cardinality({i \in DOMAIN changes : changes[i].x = "?"})
  /\ \A i \in DOMAIN said.changedFiles : said.changedFiles[i] = changes[i].path

LEMMA SaidIsTrue ==
  ASSUME NEW changes, NEW limit,
         \A i \in DOMAIN changes : (changes[i].x = "?") = (changes[i].y = "?")
  PROVE  SaidTruly(SaidOf(changes, limit), changes)
  <1> DEFINE dirty == changes # <<>>
             untracked(e) == e.x = "?" /\ e.y = "?"
             staged == {i \in DOMAIN changes : ~untracked(changes[i]) /\ changes[i].x \notin Unchanged}
             modified == {i \in DOMAIN changes : ~untracked(changes[i]) /\ changes[i].y \notin Unchanged}
             unknown == {i \in DOMAIN changes : untracked(changes[i])}
             listed == [i \in 1..Min({limit, Len(changes)}) |-> changes[i].path]
  <1>1. SaidOf(changes, limit) =
          [dirty |-> dirty, stagedCount |-> Cardinality(staged),
           modifiedCount |-> Cardinality(modified),
           untrackedCount |-> Cardinality(unknown),
           changedFiles |-> listed]
    BY DEF SaidOf
  <1>a. "?" \in Unchanged
    BY Zenon DEF Unchanged
  <1>2. staged = {i \in DOMAIN changes : changes[i].x \notin Unchanged}
    BY <1>a
  <1>3. modified = {i \in DOMAIN changes : changes[i].y \notin Unchanged}
    BY <1>a
  <1>4. unknown = {i \in DOMAIN changes : changes[i].x = "?"}
    OBVIOUS
  <1>5. \A i \in DOMAIN listed : listed[i] = changes[i].path
    OBVIOUS
  <1> DEFINE said == SaidOf(changes, limit)
  <1> HIDE DEF staged, modified, unknown, listed, dirty
  <1>7. /\ said.dirty = dirty
        /\ said.stagedCount = Cardinality(staged) /\ said.modifiedCount = Cardinality(modified)
        /\ said.untrackedCount = Cardinality(unknown) /\ said.changedFiles = listed
    BY <1>1
  <1>8. QED
    BY <1>2, <1>3, <1>4, <1>5, <1>7, Zenon DEF SaidTruly, dirty

(***************************************************************************)
(* The theorems                                                            *)
(***************************************************************************)
\* Every other question is of another kind.
LEMMA OthersAsk ==
  ASSUME Next, ~AskScan, ~AskCheckout, ~AskTree
  PROVE  asked'.kind \notin {"scan", "checkout", "tree"}
  BY KindsAre DEF Next

\* scanner.ts:59-67, 85-87: whatever the disk, and however its links loop, the walk finds
\* each repository within the depth that some way leads to, and reads no directory twice.
THEOREM ScanFinds == ASSUME ReadsOfDisks PROVE Spec => []ScanFindsAll
  <1>1. Init => ScanFindsAll
    BY DEF Init, Nothing, ScanFindsAll
  <1>2. ScanFindsAll /\ [Next]_vars => ScanFindsAll'
    <2> SUFFICES ASSUME ScanFindsAll, [Next]_vars PROVE ScanFindsAll'
      OBVIOUS
    <2>1. CASE AskScan
      <3>1. PICK disk \in Disks, roots \in RootSets, options \in ScanOptions :
              /\ asked' = [kind |-> "scan", disk |-> disk, roots |-> roots, options |-> options]
              /\ answer' = ScanForProjects(disk, roots, options)
        BY <2>1 DEF AskScan, Ask
      <3>2. options.maxDepth \in Nat /\ IsFiniteSet(disk.dirs) /\ IsFiniteSet(roots)
        BY DEF ReadsOfDisks
      <3>3. LET reached == Reach(disk, roots, options)[options.maxDepth]
                scan == ScanForProjects(disk, roots, options)
            IN /\ scan.candidates = {d \in reached : IsCandidate(disk, d, options)}
               /\ scan.directoriesVisited = Cardinality(reached)
        BY <3>2, ScanReaches
      <3>4. QED
        BY <3>1, <3>3 DEF ScanFindsAll
    <2>2. CASE AskCheckout
      BY <2>2 DEF AskCheckout, Ask, ScanFindsAll
    <2>3. CASE AskTree
      BY <2>3 DEF AskTree, Ask, ScanFindsAll
    <2>4. CASE UNCHANGED vars
      BY <2>4 DEF vars, ScanFindsAll
    <2>5. CASE Next /\ ~AskScan /\ ~AskCheckout /\ ~AskTree
      BY <2>5, OthersAsk DEF ScanFindsAll
    <2>6. QED
      BY <2>1, <2>2, <2>3, <2>4, <2>5
  <1>3. QED
    BY <1>1, <1>2, PTL DEF Spec

LEMMA HeadKept == ReadsOfDisks /\ HeadAsGitWould /\ [Next]_vars => HeadAsGitWould'
  <1> SUFFICES ASSUME ReadsOfDisks, HeadAsGitWould, [Next]_vars PROVE HeadAsGitWould'
    OBVIOUS
  <1>1. CASE AskScan
    BY <1>1 DEF AskScan, Ask, HeadAsGitWould
  <1>2. CASE AskCheckout
    <2>1. PICK c \in Checkouts : /\ asked' = [kind |-> "checkout", of |-> c]
                                 /\ answer' = ReadRepoFast(c)
      BY <1>2 DEF AskCheckout, Ask
    <2>2. /\ c.head # Absent
          /\ c.kind = "worktree" /\ c.head.ref # Absent => c.own.loose[c.head.ref] = Absent
      BY DEF ReadsOfDisks
    <2>3. asked'.kind = "checkout" /\ asked'.of = c
      BY <2>1
    <2>4. QED
      BY <2>1, <2>2, <2>3, CheckoutReads DEF HeadAsGitWould
  <1>3. CASE AskTree
    BY <1>3 DEF AskTree, Ask, HeadAsGitWould
  <1>4. CASE UNCHANGED vars
    BY <1>4 DEF vars, HeadAsGitWould
  <1>5. CASE Next /\ ~AskScan /\ ~AskCheckout /\ ~AskTree
    BY <1>5, OthersAsk DEF HeadAsGitWould
  <1>6. QED
    BY <1>1, <1>2, <1>3, <1>4, <1>5

LEMMA RemoteKept == ReadsOfDisks /\ RemoteAsGitWould /\ [Next]_vars => RemoteAsGitWould'
  <1> SUFFICES ASSUME ReadsOfDisks, RemoteAsGitWould, [Next]_vars PROVE RemoteAsGitWould'
    OBVIOUS
  <1>1. CASE AskScan
    BY <1>1 DEF AskScan, Ask, RemoteAsGitWould
  <1>2. CASE AskCheckout
    <2>1. PICK c \in Checkouts : /\ asked' = [kind |-> "checkout", of |-> c]
                                 /\ answer' = ReadRepoFast(c)
      BY <1>2 DEF AskCheckout, Ask
    <2> DEFINE remotes == SharedBy(c).remotes
    <2>2. /\ c.head # Absent
          /\ c.kind = "worktree" /\ c.head.ref # Absent => c.own.loose[c.head.ref] = Absent
      BY DEF ReadsOfDisks
    <2>3. /\ remotes \in Seq(Range(remotes))
          /\ \A i, j \in DOMAIN remotes : remotes[i].name = remotes[j].name => i = j
      BY DEF ReadsOfDisks, SharedBy
    <2>4. answer'.primaryRemote = PrimaryRemote(remotes)
      BY <2>1, <2>2, CheckoutReads
    <2>5. /\ remotes = <<>> => PrimaryRemote(remotes) = Absent
          /\ \A i \in DOMAIN remotes :
               remotes[i].name = "origin" /\ RemoteIdentity(remotes[i].url) # Absent =>
               PrimaryRemote(remotes) = RemoteIdentity(remotes[i].url)
      BY <2>3, OriginIsPrimary
    <2>6. asked'.kind = "checkout" /\ asked'.of = c
      BY <2>1
    <2>7. QED
      BY <2>4, <2>5, <2>6 DEF RemoteAsGitWould
  <1>3. CASE AskTree
    BY <1>3 DEF AskTree, Ask, RemoteAsGitWould
  <1>4. CASE UNCHANGED vars
    BY <1>4 DEF vars, RemoteAsGitWould
  <1>5. CASE Next /\ ~AskScan /\ ~AskCheckout /\ ~AskTree
    BY <1>5, OthersAsk DEF RemoteAsGitWould
  <1>6. QED
    BY <1>1, <1>2, <1>3, <1>4, <1>5

LEMMA TreeKept == ReadsOfDisks /\ TreeAsGitWould /\ [Next]_vars => TreeAsGitWould'
  <1> SUFFICES ASSUME ReadsOfDisks, TreeAsGitWould, [Next]_vars PROVE TreeAsGitWould'
    OBVIOUS
  <1>1. CASE AskScan
    BY <1>1 DEF AskScan, Ask, TreeAsGitWould
  <1>2. CASE AskCheckout
    BY <1>2 DEF AskCheckout, Ask, TreeAsGitWould
  <1>3. CASE AskTree
    <2>1. PICK changes \in Trees, limit \in Limits :
            /\ asked' = [kind |-> "tree", changes |-> changes, limit |-> limit]
            /\ answer' = ParsePorcelainStatus(PorcelainOf(changes), limit)
      BY <1>3 DEF AskTree, Ask
    <2>2. /\ changes \in Seq(Range(changes)) /\ \A c \in Range(changes) : (c.x = "?") = (c.y = "?")
      BY DEF ReadsOfDisks
    <2>3. asked'.kind = "tree" /\ asked'.changes = changes
      BY <2>1
    <2>4. ASSUME \A i \in DOMAIN changes : changes[i].y \notin Renames
          PROVE  answer' = SaidOf(changes, limit)
      BY <2>1, <2>2, <2>4, TreeReads
    <2>5. \A i \in DOMAIN changes : (changes[i].x = "?") = (changes[i].y = "?")
      BY <2>2 DEF Range
    <2>6. SaidTruly(SaidOf(changes, limit), changes)
      BY <2>5, SaidIsTrue
    <2>7. QED
      BY <2>3, <2>4, <2>6 DEF TreeAsGitWould, SaidTruly
  <1>4. CASE UNCHANGED vars
    BY <1>4 DEF vars, TreeAsGitWould
  <1>5. CASE Next /\ ~AskScan /\ ~AskCheckout /\ ~AskTree
    BY <1>5, OthersAsk DEF TreeAsGitWould
  <1>6. QED
    BY <1>1, <1>2, <1>3, <1>4, <1>5

\* repo.ts: the branch, the commit and the remote read from the files of any checkout, a
\* linked worktree and a submodule among them, are those git sees there; and so are the
\* totals of any list of changes without a rename in the working tree only.
THEOREM ReadsTruly == ASSUME ReadsOfDisks PROVE Spec => []ReadAsGitWould
  <1>1. Init => ReadAsGitWould
    BY DEF Init, Nothing, ReadAsGitWould, HeadAsGitWould, RemoteAsGitWould, TreeAsGitWould
  <1>2. ReadAsGitWould /\ [Next]_vars => ReadAsGitWould'
    BY HeadKept, RemoteKept, TreeKept DEF ReadAsGitWould
  <1>3. QED
    BY <1>1, <1>2, PTL DEF Spec

(***************************************************************************)
(* The identity of a remote                                                *)
(***************************************************************************)
LEMMA AsPut ==
  ASSUME NEW S, NEW path \in Seq(S), NEW s, Len(path) > 1 => path[1] # s
  PROVE  WithoutFirst(path, s) = path
  BY DEF WithoutFirst

LEMMA PutFirst ==
  ASSUME NEW S, NEW path \in Seq(S), Len(path) > 0, NEW s
  PROVE  WithoutFirst(<<s>> \o path, s) = path
  <1> DEFINE T == S \cup {s}
             q == <<s>> \o path
  <1>1. path \in Seq(T) /\ <<s>> \in Seq(T)
    OBVIOUS
  <1> HIDE DEF T
  <1>2. /\ q \in Seq(T) /\ Len(q) = Len(path) + 1 /\ q[1] = s /\ Len(path) \in Nat
        /\ \A i \in 1..Len(path) : q[i + 1] = path[i]
    BY <1>1
  <1>3. Tail(q) = path
    <2>1. Tail(q) \in Seq(T) /\ Len(Tail(q)) = Len(path) /\ \A i \in 1..Len(path) : Tail(q)[i] = q[i + 1]
      BY <1>2
    <2>2. QED
      BY <1>1, <1>2, <2>1
  <1>4. Len(q) > 1 /\ q[1] = s
    BY <1>2
  <1> HIDE DEF q
  <1>5. WithoutFirst(q, s) = Tail(q)
    BY <1>4 DEF WithoutFirst
  <1>6. WithoutFirst(q, s) = path
    BY <1>3, <1>5
  <1>7. QED
    BY <1>6 DEF q

LEMMA NothingInner ==
  ASSUME NEW path, NEW s, \A i \in 2..(Len(path) - 1) : path[i] # s
  PROVE  WithoutInner(path, s) = path
  BY DEF WithoutInner

LEMMA ShortTuples ==
  ASSUME NEW T, NEW x \in Seq(T)
  PROVE  /\ Len(x) = 1 => x = <<x[1]>>
         /\ Len(x) = 2 => x = <<x[1], x[2]>>
         /\ Len(x) = 3 => x = <<x[1], x[2], x[3]>>
  <1>1. Len(x) = 1 => x = <<x[1]>>
    OBVIOUS
  <1>2. Len(x) = 2 => x = <<x[1], x[2]>>
    OBVIOUS
  <1>3. Len(x) = 3 => x = <<x[1], x[2], x[3]>>
    OBVIOUS
  <1>4. QED
    BY <1>1, <1>2, <1>3

LEMMA ThirdOfFour ==
  ASSUME NEW a, NEW b, NEW c, NEW s, b # s
  PROVE  WithoutInner(<<a, b, s, c>>, s) = <<a, b, c>>
  <1> DEFINE path == <<a, b, s, c>>
             inner == {i \in 2..(Len(path) - 1) : path[i] = s}
  <1>1. inner = {3}
    OBVIOUS
  <1>2. WithoutInner(path, s) = RemoveAt(path, Min({3}))
    <2> HIDE DEF inner
    <2>1. WithoutInner(path, s) = IF inner = {} THEN path ELSE RemoveAt(path, Min(inner))
      BY DEF WithoutInner, inner
    <2>2. QED
      BY <1>1, <2>1
  <1>3. Min({3}) = 3
    BY DEF Min
  <1>4. SubSeq(path, 1, 2) = <<a, b>> /\ SubSeq(path, 4, 4) = <<c>> /\ <<a, b>> \o <<c>> = <<a, b, c>>
    <2> DEFINE T == {a, b, c, s}
    <2>1. path \in Seq(T) /\ Len(path) = 4 /\ path[1] = a /\ path[2] = b /\ path[4] = c
      OBVIOUS
    <2>2. SubSeq(path, 1, 2) = <<a, b>>
      <3>1. SubSeq(path, 1, 2) \in Seq(T) /\ Len(SubSeq(path, 1, 2)) = 2
            /\ SubSeq(path, 1, 2)[1] = path[1] /\ SubSeq(path, 1, 2)[2] = path[2]
        OBVIOUS
      <3> DEFINE x == SubSeq(path, 1, 2)
      <3>2. x \in Seq(T) /\ Len(x) = 2 /\ x[1] = a /\ x[2] = b
        BY <2>1, <3>1
      <3> HIDE DEF x
      <3>3. x = <<a, b>>
        BY <3>2, ShortTuples
      <3>4. QED
        BY <3>3 DEF x
    <2>3. SubSeq(path, 4, 4) = <<c>>
      <3>1. SubSeq(path, 4, 4) \in Seq(T) /\ Len(SubSeq(path, 4, 4)) = 1 /\ SubSeq(path, 4, 4)[1] = path[4]
        OBVIOUS
      <3> DEFINE x == SubSeq(path, 4, 4)
      <3>2. x \in Seq(T) /\ Len(x) = 1 /\ x[1] = c
        BY <2>1, <3>1
      <3> HIDE DEF x
      <3>3. x = <<c>>
        BY <3>2, ShortTuples
      <3>4. QED
        BY <3>3 DEF x
    <2>4. <<a, b>> \o <<c>> = <<a, b, c>>
      <3> DEFINE x == <<a, b>> \o <<c>>
      <3>1. <<a, b>> \in Seq(T) /\ <<c>> \in Seq(T)
        OBVIOUS
      <3>2. x \in Seq(T) /\ Len(x) = 3 /\ x[1] = a /\ x[2] = b /\ x[3] = c
        BY <3>1
      <3> HIDE DEF x
      <3>3. x = <<a, b, c>>
        BY <3>2, ShortTuples
      <3>4. QED
        BY <3>3 DEF x
    <2>5. QED
      BY <2>2, <2>3, <2>4
  <1>5. RemoveAt(path, 3) = SubSeq(path, 1, 2) \o SubSeq(path, 4, 4)
    BY DEF RemoveAt
  <1>6. QED
    BY <1>2, <1>3, <1>4, <1>5

\* Whatever the host puts around it, the path of a repository is found.
LEMMA PathIsFound ==
  ASSUME NEW S, NEW host, NEW path \in Seq(S), Len(path) > 0, Len(path) > 1 => path[1] # "scm",
         host \in AzureHosts =>
           Len(path) = 3 /\ path[1] # "v3" /\ path[2] \notin {"_git", "_optimized"},
         NEW p, p \in IF host \in AzureHosts
                      THEN {path, <<"v3">> \o path, <<path[1], path[2], "_git", path[3]>>}
                      ELSE {path, <<"scm">> \o path}
  PROVE  CanonicalPath(host, p) = path
  <1> DEFINE azure == WithoutInner(WithoutInner(WithoutFirst(p, "v3"), "_git"), "_optimized")
  <1>1. CanonicalPath(host, p) = WithoutFirst(IF host \in AzureHosts THEN azure ELSE p, "scm")
    BY DEF CanonicalPath
  <1>2. CASE host \notin AzureHosts
    <2>1. CASE p = path
      BY <1>1, <1>2, <2>1, AsPut
    <2>2. CASE p = <<"scm">> \o path
      BY <1>1, <1>2, <2>2, PutFirst
    <2>3. QED
      BY <1>2, <2>1, <2>2
  <1>3. CASE host \in AzureHosts
    <2>1. PICK a, b, c : path = <<a, b, c>> /\ a # "v3" /\ a # "scm" /\ b \notin {"_git", "_optimized"}
      <3>1. path = <<path[1], path[2], path[3]>>
        BY <1>3
      <3>2. QED
        BY <1>3, <3>1
    <2>2. WithoutInner(WithoutInner(path, "_git"), "_optimized") = path
      <3>0. /\ \A i \in 2..(Len(path) - 1) : path[i] # "_git"
            /\ \A i \in 2..(Len(path) - 1) : path[i] # "_optimized"
        <4>1. Len(path) = 3 /\ path[2] \notin {"_git", "_optimized"}
          BY <1>3
        <4>2. \A i \in 2..(Len(path) - 1) : i = 2
          BY <4>1
        <4>3. QED
          BY <4>1, <4>2
      <3>1. WithoutInner(path, "_git") = path
        BY <3>0, NothingInner
      <3>2. WithoutInner(path, "_optimized") = path
        BY <3>0, NothingInner
      <3>3. QED
        BY <3>1, <3>2
    <2>3a. WithoutInner(path, "_optimized") = path
      <3>1. \A i \in 2..(Len(path) - 1) : path[i] # "_optimized"
        <4>1. Len(path) = 3 /\ path[2] # "_optimized"
          BY <1>3
        <4>2. \A i \in 2..(Len(path) - 1) : i = 2
          BY <4>1
        <4>3. QED
          BY <4>1, <4>2
      <3>2. QED
        BY <3>1, NothingInner
    <2>3. azure = path
      <3>1. CASE p = path
        <4>1. WithoutFirst(path, "v3") = path
          BY <1>3, AsPut
        <4>2. QED
          BY <2>2, <3>1, <4>1
      <3>2. CASE p = <<"v3">> \o path
        <4>1. WithoutFirst(p, "v3") = path
          BY <3>2, PutFirst
        <4>2. QED
          BY <2>2, <4>1
      <3>3. CASE p = <<path[1], path[2], "_git", path[3]>>
        <4>1. p = <<a, b, "_git", c>>
          BY <2>1, <3>3
        <4>2. WithoutFirst(p, "v3") = p
          <5>1. p[1] # "v3"
            BY <2>1, <4>1
          <5>2. QED
            BY <5>1 DEF WithoutFirst
        <4>3. WithoutInner(p, "_git") = path
          BY <2>1, <4>1, ThirdOfFour
        <4>4. QED
          BY <2>2, <2>3a, <4>2, <4>3
      <3>4. QED
        BY <1>3, <3>1, <3>2, <3>3
    <2> HIDE DEF azure
    <2>4. QED
      BY <1>1, <1>3, <2>3, AsPut
  <1>4. QED
    BY <1>2, <1>3

\* A path is read as the host means it: a URL is decoded, and elsewhere nothing is encoded.
LEMMA PathIsRead ==
  ASSUME NEW url, url.form \in {"scheme", "scp"}, url.path \in Seq(Range(url.path)),
         url.form = "scp" => Range(url.path) \cap DOMAIN Decoded = {}
  PROVE  ParseRemote(url).path = DecodedPath(url.path) /\ ParseRemote(url).host = url.host
  <1>1. ParseRemote(url).path = IF url.form = "scheme" THEN DecodedPath(url.path) ELSE url.path
    BY DEF ParseRemote
  <1>2. ASSUME url.form = "scp"
        PROVE  DecodedPath(url.path) = url.path
    <2> DEFINE path == url.path
    <2>1. path \in Seq(Range(path)) /\ \A i \in DOMAIN path : path[i] \in Range(path)
      BY DEF Range
    <2>2. \A i \in DOMAIN path : path[i] \notin DOMAIN Decoded
      BY <1>2, <2>1
    <2> HIDE DEF path
    <2>3. DecodedPath(path) = [i \in DOMAIN path |-> path[i]]
      BY <2>2 DEF DecodedPath
    <2>4. path = [i \in DOMAIN path |-> path[i]]
      BY <2>1
    <2>5. QED
      BY <2>3, <2>4 DEF path
  <1>3. ParseRemote(url).host = url.host
    BY DEF ParseRemote
  <1>4. QED
    BY <1>1, <1>2, <1>3

\* The identity of an ordinary URL is the host and the path of the repository.
LEMMA IdentityIs ==
  ASSUME UrlsOfRepositories, NEW r \in Repositories, NEW form \in Forms, Ordinary(r, Url(r, form))
  PROVE  RemoteIdentity(Url(r, form)) = IdentityOf(r) /\ IdentityOf(r) # Absent
  <1> DEFINE url == Url(r, form)
             remote == [identity |-> IdentityOf(r), stableAcrossMachines |-> TRUE]
  <1>1. /\ r.path \in Seq(Range(r.path)) /\ Len(r.path) > 0
        /\ r.host \in AzureHosts => Len(r.path) = 3 /\ r.path[2] \notin {"_git", "_optimized"}
        /\ r.host \notin DOMAIN HostAliases
        /\ r.host # Absent /\ IdentityOf(r) # Absent /\ remote # Absent
        /\ url.form \in {"scheme", "scp"} /\ ParseRemote(url).scheme \notin {"local", "file"}
        /\ url.path \in Seq(Range(url.path))
        /\ url.host \in NamesOf(r.host) => DecodedPath(url.path) \in PathsOf(r)
    BY DEF UrlsOfRepositories
  <1>2. /\ url.host \in NamesOf(r.host)
        /\ url.form = "scp" => Range(url.path) \cap DOMAIN Decoded = {}
        /\ Len(r.path) > 1 => r.path[1] # "scm"
        /\ r.host \in AzureHosts => r.path[1] # "v3"
    BY DEF Ordinary
  <1> HIDE DEF url
  <1>3. CanonicalHost(url.host) = r.host
    BY <1>1, <1>2 DEF CanonicalHost, NamesOf
  <1>4. CanonicalPath(r.host, DecodedPath(url.path)) = r.path
    <2> DEFINE p == DecodedPath(url.path)
    <2>1. p \in PathsOf(r)
      BY <1>1, <1>2
    <2> HIDE DEF p
    <2>2. p \in IF r.host \in AzureHosts
                THEN {r.path, <<"v3">> \o r.path, <<r.path[1], r.path[2], "_git", r.path[3]>>}
                ELSE {r.path, <<"scm">> \o r.path}
      BY <2>1 DEF PathsOf
    <2>3. CanonicalPath(r.host, p) = r.path
      <3> DEFINE host == r.host
                 path == r.path
                 S == Range(r.path)
      <3>1. /\ path \in Seq(S) /\ Len(path) > 0 /\ (Len(path) > 1 => path[1] # "scm")
            /\ host \in AzureHosts => Len(path) = 3 /\ path[1] # "v3" /\ path[2] \notin {"_git", "_optimized"}
        BY <1>1, <1>2
      <3> HIDE DEF host, path, S
      <3>2. p \in IF host \in AzureHosts
                  THEN {path, <<"v3">> \o path, <<path[1], path[2], "_git", path[3]>>}
                  ELSE {path, <<"scm">> \o path}
        BY <2>2 DEF host, path
      <3>3. CanonicalPath(host, p) = path
        BY ONLY <3>1, <3>2, PathIsFound
      <3>4. QED
        BY <3>3 DEF host, path
    <2>4. QED
      BY <2>3 DEF p
  <1>5. r.path # <<>>
    BY <1>1
  <1>6. ParseRemote(url).host = url.host /\ ParseRemote(url).path = DecodedPath(url.path)
    BY <1>1, <1>2, PathIsRead
  <1>7. NormalizeRemoteUrl(url) = remote
    BY <1>1, <1>3, <1>4, <1>5, <1>6 DEF NormalizeRemoteUrl, IdentityOf
  <1>8. remote.identity = IdentityOf(r)
    OBVIOUS
  <1> HIDE DEF remote
  <1>9. RemoteIdentity(url) = IdentityOf(r)
    BY <1>1, <1>7, <1>8 DEF RemoteIdentity
  <1>10. QED
    BY <1>1, <1>9 DEF url

LEMMA IdentityTells ==
  ASSUME UrlsOfRepositories, NEW a \in Repositories, NEW b \in Repositories, IdentityOf(a) = IdentityOf(b)
  PROVE  a = b
  <1>1. /\ a.path \in Seq(Range(a.path)) /\ b.path \in Seq(Range(b.path))
        /\ a = [host |-> a.host, path |-> a.path] /\ b = [host |-> b.host, path |-> b.path]
    BY DEF UrlsOfRepositories
  <1> DEFINE p == a.path
             q == b.path
             T == Range(p) \cup Range(q) \cup {a.host, b.host}
  <1>2. p \in Seq(T) /\ q \in Seq(T) /\ <<a.host>> \in Seq(T) /\ <<b.host>> \in Seq(T)
    BY <1>1
  <1>3. <<a.host>> \o p = <<b.host>> \o q
    BY DEF IdentityOf
  <1> HIDE DEF p, q, T
  <1>4. a.host = b.host /\ p = q
    <2> DEFINE x == <<a.host>> \o p
               y == <<b.host>> \o q
    <2>1. /\ Len(x) = Len(p) + 1 /\ x[1] = a.host /\ Len(p) \in Nat
          /\ Len(y) = Len(q) + 1 /\ y[1] = b.host /\ Len(q) \in Nat
          /\ \A i \in 1..Len(p) : x[i + 1] = p[i]
          /\ \A i \in 1..Len(q) : y[i + 1] = q[i]
      BY <1>2
    <2>2. x = y
      BY <1>3
    <2> HIDE DEF x, y
    <2>3. Len(p) = Len(q) /\ \A i \in 1..Len(p) : p[i] = q[i]
      BY <2>1, <2>2
    <2>4. QED
      BY <1>2, <2>1, <2>2, <2>3
  <1>5. QED
    BY <1>1, <1>4 DEF p, q

LEMMA SameAnswered ==
  ASSUME UrlsOfRepositories, NEW a \in Repositories, NEW b \in Repositories, NEW f \in Forms, NEW g \in Forms,
         Ordinary(a, Url(a, f)), Ordinary(b, Url(b, g))
  PROVE  SameRepository(Url(a, f), Url(b, g)) <=> a = b
  <1>1. RemoteIdentity(Url(a, f)) = IdentityOf(a) /\ IdentityOf(a) # Absent
    BY IdentityIs
  <1>2. RemoteIdentity(Url(b, g)) = IdentityOf(b)
    BY IdentityIs
  <1>3. SameRepository(Url(a, f), Url(b, g)) <=> IdentityOf(a) = IdentityOf(b)
    BY <1>1, <1>2 DEF SameRepository
  <1>4. IdentityOf(a) = IdentityOf(b) => a = b
    BY IdentityTells
  <1>5. QED
    BY <1>3, <1>4

LEMMA OnlySame == Next /\ ~AskSame => asked'.kind # "same"
  BY KindsAre DEF Next

\* remote-url.ts: two ordinary URLs have one identity exactly if they serve one repository,
\* for any hosts, names of hosts, paths and forms.  What is not ordinary, `Ordinary` says.
THEOREM IdentitiesTell == ASSUME UrlsOfRepositories PROVE Spec => []OneIdentityPerRepository
  <1>1. Init => OneIdentityPerRepository
    BY DEF Init, Nothing, OneIdentityPerRepository
  <1>2. OneIdentityPerRepository /\ [Next]_vars => OneIdentityPerRepository'
    <2> SUFFICES ASSUME OneIdentityPerRepository, [Next]_vars
                 PROVE  OneIdentityPerRepository'
      OBVIOUS
    <2>1. CASE AskSame
      <3>1. PICK a \in Repositories, b \in Repositories, f \in Forms, g \in Forms :
              /\ asked' = [kind |-> "same", repositories |-> <<a, b>>, urls |-> <<Url(a, f), Url(b, g)>>]
              /\ answer' = SameRepository(Url(a, f), Url(b, g))
        BY <2>1 DEF AskSame, Ask
      <3>2. /\ asked'.repositories[1] = a /\ asked'.repositories[2] = b
            /\ asked'.urls[1] = Url(a, f) /\ asked'.urls[2] = Url(b, g)
        BY <3>1
      <3>3. ASSUME \A i \in 1..2 : Ordinary(asked'.repositories[i], asked'.urls[i])
            PROVE  answer' <=> asked'.repositories[1] = asked'.repositories[2]
        <4>1. Ordinary(asked'.repositories[1], asked'.urls[1]) /\ Ordinary(asked'.repositories[2], asked'.urls[2])
          BY <3>3
        <4>2. Ordinary(a, Url(a, f)) /\ Ordinary(b, Url(b, g))
          BY <3>2, <4>1
        <4>3. SameRepository(Url(a, f), Url(b, g)) <=> a = b
          BY <4>2, SameAnswered
        <4>4. QED
          BY <3>1, <3>2, <4>3, Zenon
      <3>4. QED
        BY <3>3 DEF OneIdentityPerRepository, Identified, Ordinary, NamesOf
    <2>2. CASE UNCHANGED vars
      BY <2>2 DEF vars, OneIdentityPerRepository, Identified
    <2>3. CASE Next /\ ~AskSame
      BY <2>3, OnlySame DEF OneIdentityPerRepository
    <2>4. QED
      BY <2>1, <2>2, <2>3
  <1>3. QED
    BY <1>1, <1>2, PTL DEF Spec

(***************************************************************************)
(* The project a term means                                                *)
(***************************************************************************)
Way(p, term, i) ==
  CASE i = 1 -> Near(p.id, term) = Equal
    [] i = 2 -> Near(p.id, term) = StartsText /\ term \in LongTerms
    [] i = 3 -> Near(p.name, term) = Equal
    [] i = 4 -> Closest(p.aliases, term) = Equal
    [] i = 5 -> Closest(RepoTexts(p), term) = Equal
    [] i = 6 -> Near(p.name, term) = StartsText
    [] i = 7 -> Closest(p.aliases, term) = StartsText
    [] i = 8 -> Closest(RepoName(p), term) = StartsText
    [] i = 9 -> Near(p.name, term) = StartsWord
    [] i = 10 -> Near(p.name, term) = Inside
    [] i = 11 -> Closest(p.aliases \cup RepoPath(p), term) >= Inside
    [] i = 12 -> Near(p.name, term) = Scattered

Tiers == <<1, 1, 2, 3, 4, 5, 5, 5, 6, 6, 6, 7>>
Far(p, term, i) ==
  CASE i = 2 -> Extra(p.id, term) [] i = 7 -> 1 [] i = 8 -> 2 [] i = 10 -> 100 [] i = 11 -> 200
    [] i = 12 -> Extra(p.name, term) [] OTHER -> 0

LEMMA TestsAre ==
  ASSUME NEW p, NEW term
  PROVE  /\ DOMAIN Tests(p, term) = 1..12
         /\ \A i \in 1..12 : /\ Tests(p, term)[i].holds <=> Way(p, term, i)
                             /\ Tier(Tests(p, term)[i]) = Tiers[i]
                             /\ Tests(p, term)[i].distance = Far(p, term, i)
  <1>1. DOMAIN Tests(p, term) = 1..12
    BY DEF Tests
  <1>2. \A k \in 1..7 : \A m : m.kind = TierOrder[k] => Tier(m) = k
    <2>1. TierOrder[1] = "id" /\ TierOrder[2] = "name" /\ TierOrder[3] = "alias"
          /\ TierOrder[4] = "repository" /\ TierOrder[5] = "prefix" /\ TierOrder[6] = "substring"
          /\ TierOrder[7] = "fuzzy" /\ DOMAIN TierOrder = 1..7
      BY DEF TierOrder
    <2>2. QED
      BY <2>1 DEF Tier
  <1>3. /\ Tests(p, term)[1].holds <=> Way(p, term, 1)
        /\ Tier(Tests(p, term)[1]) = Tiers[1] /\ Tests(p, term)[1].distance = Far(p, term, 1)
    <2> DEFINE holds == Near(p.id, term) = Equal
    <2>1. Tests(p, term)[1] = Test(holds, "id", 0)
      BY DEF Tests
    <2> HIDE DEF holds
    <2>2. Tests(p, term)[1].holds = holds
      BY <2>1 DEF Test
    <2>3. Tests(p, term)[1].kind = TierOrder[1] /\ Tests(p, term)[1].distance = 0
      BY <2>1 DEF Test, TierOrder
    <2>4. (Way(p, term, 1) <=> holds) /\ Tiers[1] = 1 /\ Far(p, term, 1) = 0
      BY DEF holds, Way, Tiers, Far
    <2>5. Tier(Tests(p, term)[1]) = 1
      BY <1>2, <2>3
    <2>6. QED
      BY <2>2, <2>3, <2>4, <2>5
  <1>4. /\ Tests(p, term)[2].holds <=> Way(p, term, 2)
        /\ Tier(Tests(p, term)[2]) = Tiers[2] /\ Tests(p, term)[2].distance = Far(p, term, 2)
    <2> DEFINE holds == Near(p.id, term) = StartsText /\ term \in LongTerms
    <2>1. Tests(p, term)[2] = Test(holds, "id", Extra(p.id, term))
      BY DEF Tests
    <2> HIDE DEF holds
    <2>2. Tests(p, term)[2].holds = holds
      BY <2>1 DEF Test
    <2>3. Tests(p, term)[2].kind = TierOrder[1] /\ Tests(p, term)[2].distance = Extra(p.id, term)
      BY <2>1 DEF Test, TierOrder
    <2>4. (Way(p, term, 2) <=> holds) /\ Tiers[2] = 1 /\ Far(p, term, 2) = Extra(p.id, term)
      BY DEF holds, Way, Tiers, Far
    <2>5. Tier(Tests(p, term)[2]) = 1
      BY <1>2, <2>3
    <2>6. QED
      BY <2>2, <2>3, <2>4, <2>5
  <1>5. /\ Tests(p, term)[3].holds <=> Way(p, term, 3)
        /\ Tier(Tests(p, term)[3]) = Tiers[3] /\ Tests(p, term)[3].distance = Far(p, term, 3)
    <2> DEFINE holds == Near(p.name, term) = Equal
    <2>1. Tests(p, term)[3] = Test(holds, "name", 0)
      BY DEF Tests
    <2> HIDE DEF holds
    <2>2. Tests(p, term)[3].holds = holds
      BY <2>1 DEF Test
    <2>3. Tests(p, term)[3].kind = TierOrder[2] /\ Tests(p, term)[3].distance = 0
      BY <2>1 DEF Test, TierOrder
    <2>4. (Way(p, term, 3) <=> holds) /\ Tiers[3] = 2 /\ Far(p, term, 3) = 0
      BY DEF holds, Way, Tiers, Far
    <2>5. Tier(Tests(p, term)[3]) = 2
      BY <1>2, <2>3
    <2>6. QED
      BY <2>2, <2>3, <2>4, <2>5
  <1>6. /\ Tests(p, term)[4].holds <=> Way(p, term, 4)
        /\ Tier(Tests(p, term)[4]) = Tiers[4] /\ Tests(p, term)[4].distance = Far(p, term, 4)
    <2> DEFINE holds == Closest(p.aliases, term) = Equal
    <2>1. Tests(p, term)[4] = Test(holds, "alias", 0)
      BY DEF Tests
    <2> HIDE DEF holds
    <2>2. Tests(p, term)[4].holds = holds
      BY <2>1 DEF Test
    <2>3. Tests(p, term)[4].kind = TierOrder[3] /\ Tests(p, term)[4].distance = 0
      BY <2>1 DEF Test, TierOrder
    <2>4. (Way(p, term, 4) <=> holds) /\ Tiers[4] = 3 /\ Far(p, term, 4) = 0
      BY DEF holds, Way, Tiers, Far
    <2>5. Tier(Tests(p, term)[4]) = 3
      BY <1>2, <2>3
    <2>6. QED
      BY <2>2, <2>3, <2>4, <2>5
  <1>7. /\ Tests(p, term)[5].holds <=> Way(p, term, 5)
        /\ Tier(Tests(p, term)[5]) = Tiers[5] /\ Tests(p, term)[5].distance = Far(p, term, 5)
    <2> DEFINE holds == Closest(RepoTexts(p), term) = Equal
    <2>1. Tests(p, term)[5] = Test(holds, "repository", 0)
      BY DEF Tests
    <2> HIDE DEF holds
    <2>2. Tests(p, term)[5].holds = holds
      BY <2>1 DEF Test
    <2>3. Tests(p, term)[5].kind = TierOrder[4] /\ Tests(p, term)[5].distance = 0
      BY <2>1 DEF Test, TierOrder
    <2>4. (Way(p, term, 5) <=> holds) /\ Tiers[5] = 4 /\ Far(p, term, 5) = 0
      BY DEF holds, Way, Tiers, Far
    <2>5. Tier(Tests(p, term)[5]) = 4
      BY <1>2, <2>3
    <2>6. QED
      BY <2>2, <2>3, <2>4, <2>5
  <1>8. /\ Tests(p, term)[6].holds <=> Way(p, term, 6)
        /\ Tier(Tests(p, term)[6]) = Tiers[6] /\ Tests(p, term)[6].distance = Far(p, term, 6)
    <2> DEFINE holds == Near(p.name, term) = StartsText
    <2>1. Tests(p, term)[6] = Test(holds, "prefix", 0)
      BY DEF Tests
    <2> HIDE DEF holds
    <2>2. Tests(p, term)[6].holds = holds
      BY <2>1 DEF Test
    <2>3. Tests(p, term)[6].kind = TierOrder[5] /\ Tests(p, term)[6].distance = 0
      BY <2>1 DEF Test, TierOrder
    <2>4. (Way(p, term, 6) <=> holds) /\ Tiers[6] = 5 /\ Far(p, term, 6) = 0
      BY DEF holds, Way, Tiers, Far
    <2>5. Tier(Tests(p, term)[6]) = 5
      BY <1>2, <2>3
    <2>6. QED
      BY <2>2, <2>3, <2>4, <2>5
  <1>9. /\ Tests(p, term)[7].holds <=> Way(p, term, 7)
        /\ Tier(Tests(p, term)[7]) = Tiers[7] /\ Tests(p, term)[7].distance = Far(p, term, 7)
    <2> DEFINE holds == Closest(p.aliases, term) = StartsText
    <2>1. Tests(p, term)[7] = Test(holds, "prefix", 1)
      BY DEF Tests
    <2> HIDE DEF holds
    <2>2. Tests(p, term)[7].holds = holds
      BY <2>1 DEF Test
    <2>3. Tests(p, term)[7].kind = TierOrder[5] /\ Tests(p, term)[7].distance = 1
      BY <2>1 DEF Test, TierOrder
    <2>4. (Way(p, term, 7) <=> holds) /\ Tiers[7] = 5 /\ Far(p, term, 7) = 1
      BY DEF holds, Way, Tiers, Far
    <2>5. Tier(Tests(p, term)[7]) = 5
      BY <1>2, <2>3
    <2>6. QED
      BY <2>2, <2>3, <2>4, <2>5
  <1>10. /\ Tests(p, term)[8].holds <=> Way(p, term, 8)
        /\ Tier(Tests(p, term)[8]) = Tiers[8] /\ Tests(p, term)[8].distance = Far(p, term, 8)
    <2> DEFINE holds == Closest(RepoName(p), term) = StartsText
    <2>1. Tests(p, term)[8] = Test(holds, "prefix", 2)
      BY DEF Tests
    <2> HIDE DEF holds
    <2>2. Tests(p, term)[8].holds = holds
      BY <2>1 DEF Test
    <2>3. Tests(p, term)[8].kind = TierOrder[5] /\ Tests(p, term)[8].distance = 2
      BY <2>1 DEF Test, TierOrder
    <2>4. (Way(p, term, 8) <=> holds) /\ Tiers[8] = 5 /\ Far(p, term, 8) = 2
      BY DEF holds, Way, Tiers, Far
    <2>5. Tier(Tests(p, term)[8]) = 5
      BY <1>2, <2>3
    <2>6. QED
      BY <2>2, <2>3, <2>4, <2>5
  <1>11. /\ Tests(p, term)[9].holds <=> Way(p, term, 9)
        /\ Tier(Tests(p, term)[9]) = Tiers[9] /\ Tests(p, term)[9].distance = Far(p, term, 9)
    <2> DEFINE holds == Near(p.name, term) = StartsWord
    <2>1. Tests(p, term)[9] = Test(holds, "substring", 0)
      BY DEF Tests
    <2> HIDE DEF holds
    <2>2. Tests(p, term)[9].holds = holds
      BY <2>1 DEF Test
    <2>3. Tests(p, term)[9].kind = TierOrder[6] /\ Tests(p, term)[9].distance = 0
      BY <2>1 DEF Test, TierOrder
    <2>4. (Way(p, term, 9) <=> holds) /\ Tiers[9] = 6 /\ Far(p, term, 9) = 0
      BY DEF holds, Way, Tiers, Far
    <2>5. Tier(Tests(p, term)[9]) = 6
      BY <1>2, <2>3
    <2>6. QED
      BY <2>2, <2>3, <2>4, <2>5
  <1>12. /\ Tests(p, term)[10].holds <=> Way(p, term, 10)
        /\ Tier(Tests(p, term)[10]) = Tiers[10] /\ Tests(p, term)[10].distance = Far(p, term, 10)
    <2> DEFINE holds == Near(p.name, term) = Inside
    <2>1. Tests(p, term)[10] = Test(holds, "substring", 100)
      BY DEF Tests, InsideName
    <2> HIDE DEF holds
    <2>2. Tests(p, term)[10].holds = holds
      BY <2>1 DEF Test
    <2>3. Tests(p, term)[10].kind = TierOrder[6] /\ Tests(p, term)[10].distance = 100
      BY <2>1 DEF Test, TierOrder
    <2>4. (Way(p, term, 10) <=> holds) /\ Tiers[10] = 6 /\ Far(p, term, 10) = 100
      BY DEF holds, Way, Tiers, Far
    <2>5. Tier(Tests(p, term)[10]) = 6
      BY <1>2, <2>3
    <2>6. QED
      BY <2>2, <2>3, <2>4, <2>5
  <1>13. /\ Tests(p, term)[11].holds <=> Way(p, term, 11)
        /\ Tier(Tests(p, term)[11]) = Tiers[11] /\ Tests(p, term)[11].distance = Far(p, term, 11)
    <2> DEFINE holds == Closest(p.aliases \cup RepoPath(p), term) >= Inside
    <2>1. Tests(p, term)[11] = Test(holds, "substring", 200)
      BY DEF Tests
    <2> HIDE DEF holds
    <2>2. Tests(p, term)[11].holds = holds
      BY <2>1 DEF Test
    <2>3. Tests(p, term)[11].kind = TierOrder[6] /\ Tests(p, term)[11].distance = 200
      BY <2>1 DEF Test, TierOrder
    <2>4. (Way(p, term, 11) <=> holds) /\ Tiers[11] = 6 /\ Far(p, term, 11) = 200
      BY DEF holds, Way, Tiers, Far
    <2>5. Tier(Tests(p, term)[11]) = 6
      BY <1>2, <2>3
    <2>6. QED
      BY <2>2, <2>3, <2>4, <2>5
  <1>14. /\ Tests(p, term)[12].holds <=> Way(p, term, 12)
        /\ Tier(Tests(p, term)[12]) = Tiers[12] /\ Tests(p, term)[12].distance = Far(p, term, 12)
    <2> DEFINE holds == Near(p.name, term) = Scattered
    <2>1. Tests(p, term)[12] = Test(holds, "fuzzy", Extra(p.name, term))
      BY DEF Tests
    <2> HIDE DEF holds
    <2>2. Tests(p, term)[12].holds = holds
      BY <2>1 DEF Test
    <2>3. Tests(p, term)[12].kind = TierOrder[7] /\ Tests(p, term)[12].distance = Extra(p.name, term)
      BY <2>1 DEF Test, TierOrder
    <2>4. (Way(p, term, 12) <=> holds) /\ Tiers[12] = 7 /\ Far(p, term, 12) = Extra(p.name, term)
      BY DEF holds, Way, Tiers, Far
    <2>5. Tier(Tests(p, term)[12]) = 7
      BY <1>2, <2>3
    <2>6. QED
      BY <2>2, <2>3, <2>4, <2>5
  <1>15. \A i \in 1..12 : i \in {1, 2, 3, 4, 5, 6, 7, 8, 9, 10, 11, 12}
    OBVIOUS
  <1>16. QED
    BY <1>1, <1>3, <1>4, <1>5, <1>6, <1>7, <1>8, <1>9, <1>10, <1>11, <1>12, <1>13, <1>14, <1>15

\* What is known of a project a term is compared with.
Compared(p, term) ==
  /\ \A text \in {p.id, p.name} \cup p.aliases \cup RepoTexts(p) : Near(text, term) \in 0..Equal
  /\ Extra(p.id, term) \in Nat \ {0} /\ Extra(p.name, term) \in Nat

LEMMA FirstHolds ==
  ASSUME NEW p, NEW term, Holding(p, term) # {}
  PROVE  \E k \in 1..12 : /\ Way(p, term, k) /\ \A j \in 1..12 : Way(p, term, j) => k <= j
                          /\ Tier(MatchOne(p, term)) = Tiers[k]
                          /\ MatchOne(p, term).distance = Far(p, term, k)
  <1>1. Holding(p, term) = {i \in 1..12 : Way(p, term, i)}
    BY TestsAre DEF Holding
  <1>2. PICK k \in Holding(p, term) : \A j \in Holding(p, term) : k <= j
    <2>1. Holding(p, term) \in SUBSET Nat
      BY <1>1
    <2>2. QED
      BY <2>1, Least
  <1>3. Min(Holding(p, term)) = k
    <2>1. \A i \in Holding(p, term) : i \in Nat
      BY <1>1
    <2>2. QED
      BY <1>2, <2>1 DEF Min
  <1>4. MatchOne(p, term) = Tests(p, term)[k]
    BY <1>3 DEF MatchOne
  <1>5. QED
    BY <1>1, <1>2, <1>4, TestsAre

\* How exactly a project is named decides how it ranks.
Ranks(p, term) ==
  LET e == Exactness(p, term)
      match == MatchOne(p, term)
  IN /\ e \in 1..6 /\ (e < 6 => Holding(p, term) # {})
     /\ Holding(p, term) # {} =>
          /\ Tier(match) \in 1..7 /\ match.distance \in Nat
          /\ e = 1 => Tier(match) = 1 /\ match.distance = 0
          /\ e = 2 => Tier(match) = 1 /\ match.distance > 0
          /\ e \in 3..5 => Tier(match) = e - 1 /\ match.distance = 0
          /\ e = 6 => Tier(match) >= 5

LEMMA MatchRanks ==
  ASSUME NEW p, NEW term, Compared(p, term)
  PROVE  Ranks(p, term)
  <1> DEFINE e == Exactness(p, term)
             W(i) == Way(p, term, i)
  <1>1. \A i \in 1..5 : NamedBy(p, term, i) <=> W(i)
    <2>1. \A i \in 1..5 : i \in {1, 2, 3, 4, 5}
      OBVIOUS
    <2>2. /\ NamedBy(p, term, 1) <=> W(1)
          /\ NamedBy(p, term, 2) <=> W(2)
          /\ NamedBy(p, term, 3) <=> W(3)
          /\ NamedBy(p, term, 4) <=> W(4)
          /\ NamedBy(p, term, 5) <=> W(5)
      BY DEF NamedBy, Way
    <2> HIDE DEF W
    <2>3. QED
      BY <2>1, <2>2
  <1>2. e \in 1..6 /\ (e < 6 => W(e)) /\ \A i \in 1..5 : W(i) => e <= i
    <2> DEFINE S == {6} \cup {i \in 1..5 : NamedBy(p, term, i)}
    <2>1. PICK m \in S : \A n \in S : m <= n
      <3>1. S \in SUBSET Nat /\ S # {}
        OBVIOUS
      <3> HIDE DEF S
      <3>2. QED
        BY <3>1, Least
    <2>2. \A n \in S : n \in Nat
      OBVIOUS
    <2>3. e = m
      <3>1. e = Min(S)
        BY DEF Exactness
      <3> HIDE DEF S, e
      <3>2. QED
        BY <2>1, <2>2, <3>1 DEF Min
    <2> HIDE DEF W, e
    <2>4. QED
      BY <1>1, <2>1, <2>3
  <1>3. Holding(p, term) = {i \in 1..12 : W(i)}
    BY TestsAre DEF Holding
  <1>4. \A k \in 1..12 : Far(p, term, k) \in Nat
    BY DEF Far, Compared
  <1>5. Far(p, term, 2) > 0 /\ \A k \in {1, 3, 4, 5} : Far(p, term, k) = 0
    BY DEF Far, Compared
  <1>6. /\ \A k \in 1..12 : Tiers[k] \in 1..7 /\ (k >= 6 => Tiers[k] >= 5)
        /\ Tiers[1] = 1 /\ Tiers[2] = 1 /\ Tiers[3] = 2 /\ Tiers[4] = 3 /\ Tiers[5] = 4
    BY DEF Tiers
  <1> HIDE DEF W, e
  <1>7. e \in 1..6 /\ (e < 6 => Holding(p, term) # {})
    BY <1>2, <1>3
  <1>8. ASSUME Holding(p, term) # {}
        PROVE  /\ Tier(MatchOne(p, term)) \in 1..7 /\ MatchOne(p, term).distance \in Nat
               /\ e = 1 => Tier(MatchOne(p, term)) = 1 /\ MatchOne(p, term).distance = 0
               /\ e = 2 => Tier(MatchOne(p, term)) = 1 /\ MatchOne(p, term).distance > 0
               /\ e \in 3..5 => Tier(MatchOne(p, term)) = e - 1 /\ MatchOne(p, term).distance = 0
               /\ e = 6 => Tier(MatchOne(p, term)) >= 5
    <2>1. PICK k \in 1..12 : /\ W(k) /\ \A j \in 1..12 : W(j) => k <= j
                             /\ Tier(MatchOne(p, term)) = Tiers[k]
                             /\ MatchOne(p, term).distance = Far(p, term, k)
      BY <1>8, FirstHolds DEF W
    <2>2. /\ e = 1 <=> k = 1
          /\ e = 2 <=> k = 2
          /\ e = 3 <=> k = 3
          /\ e = 4 <=> k = 4
          /\ e = 5 <=> k = 5
          /\ e = 6 <=> k >= 6
      BY <1>2, <2>1
    <2>3. QED
      BY <1>4, <1>5, <1>6, <1>7, <2>1, <2>2
  <1>9. QED
    BY <1>7, <1>8 DEF Ranks, e

LEMMA ClosestOfBoth ==
  ASSUME NEW A, NEW B, NEW term, \A t \in A \cup B : Near(t, term) \in 0..Equal
  PROVE  Closest(A \cup B, term) =
           IF Closest(A, term) >= Closest(B, term) THEN Closest(A, term) ELSE Closest(B, term)
  <1> DEFINE N(S) == {0} \cup {Near(t, term) : t \in S}
             Top(S, m) == m \in S /\ \A n \in S : m >= n
  <1>1. ASSUME NEW S \in SUBSET (0..5), S # {} PROVE Top(S, Max(S))
    <2> DEFINE T == {i \in 0..5 : 5 - i \in S}
    <2>1. T # {} /\ T \in SUBSET Nat
      <3>1. PICK s \in S : TRUE
        BY <1>1
      <3>2. 5 - s \in 0..5 /\ 5 - (5 - s) = s
        BY <3>1
      <3>3. 5 - s \in T
        BY <3>1, <3>2
      <3>4. T \in SUBSET Nat
        OBVIOUS
      <3> HIDE DEF T
      <3>5. QED
        BY <3>3, <3>4
    <2> HIDE DEF T
    <2>2. PICK i \in T : \A k \in T : i <= k
      BY <2>1, Least
    <2> USE DEF T
    <2>3. Top(S, 5 - i)
      <3>1. ASSUME NEW n \in S PROVE 5 - i >= n
        <4>1. 5 - n \in 0..5 /\ 5 - (5 - n) = n /\ i \in 0..5
          OBVIOUS
        <4>2. i <= 5 - n
          BY <2>2, <4>1
        <4>3. QED
          BY <4>1, <4>2
      <3>2. QED
        BY <2>2, <3>1
    <2>4. QED
      BY <2>3, Zenon DEF Max
  <1>2. N(A) \in SUBSET (0..5) /\ N(B) \in SUBSET (0..5) /\ N(A \cup B) = N(A) \cup N(B)
    BY DEF Equal
  <1>3. /\ Top(N(A), Closest(A, term)) /\ Top(N(B), Closest(B, term))
        /\ Top(N(A \cup B), Closest(A \cup B, term))
    BY <1>1, <1>2 DEF Closest
  <1> HIDE DEF N
  <1>4. QED
    BY <1>2, <1>3

\* What a term cannot tell apart it ranks alike.
LEMMA AlikeRankAlike ==
  ASSUME NEW p, NEW q, NEW term, Compared(p, term), Compared(q, term), Alike(p, q, term),
         Holding(p, term) # {}
  PROVE  /\ Holding(q, term) # {} /\ Tier(MatchOne(q, term)) = Tier(MatchOne(p, term))
         /\ MatchOne(q, term).distance = MatchOne(p, term).distance
  <1>1. Closest(RepoTexts(p), term) = Closest(RepoTexts(q), term)
    <2>1. RepoTexts(p) = RepoName(p) \cup RepoPath(p) /\ RepoTexts(q) = RepoName(q) \cup RepoPath(q)
      BY DEF RepoTexts, RepoName, RepoPath
    <2>2. /\ \A t \in RepoName(p) \cup RepoPath(p) : Near(t, term) \in 0..Equal
          /\ \A t \in RepoName(q) \cup RepoPath(q) : Near(t, term) \in 0..Equal
      BY <2>1 DEF Compared
    <2>3. QED
      BY <2>1, <2>2, ClosestOfBoth DEF Alike
  <1>2. Closest(p.aliases \cup RepoPath(p), term) = Closest(q.aliases \cup RepoPath(q), term)
    <2>1. RepoPath(p) \subseteq RepoTexts(p) /\ RepoPath(q) \subseteq RepoTexts(q)
      BY DEF RepoTexts, RepoPath
    <2>2. /\ \A t \in p.aliases \cup RepoPath(p) : Near(t, term) \in 0..Equal
          /\ \A t \in q.aliases \cup RepoPath(q) : Near(t, term) \in 0..Equal
      BY <2>1 DEF Compared
    <2>3. QED
      BY <2>2, ClosestOfBoth DEF Alike
  <1>3. \A i \in 1..12 : Way(p, term, i) <=> Way(q, term, i)
    BY <1>1, <1>2 DEF Way, Alike
  <1>4. \A i \in 1..12 : Way(p, term, i) => Far(p, term, i) = Far(q, term, i)
    <2>1. Way(p, term, 2) => Extra(p.id, term) = Extra(q.id, term)
      BY DEF Way, Alike
    <2>2. ~Way(p, term, 12)
      BY DEF Way, Alike
    <2>3. \A i \in 1..12 : i \notin {2, 12} => Far(p, term, i) = Far(q, term, i)
      BY DEF Far
    <2>4. Far(p, term, 2) = Extra(p.id, term) /\ Far(q, term, 2) = Extra(q.id, term)
      BY DEF Far
    <2>5. QED
      BY <2>1, <2>2, <2>3, <2>4
  <1>5. Holding(q, term) = Holding(p, term)
    <2>1. /\ Holding(p, term) = {i \in 1..12 : Way(p, term, i)}
          /\ Holding(q, term) = {i \in 1..12 : Way(q, term, i)}
      BY TestsAre DEF Holding
    <2>2. QED
      BY <1>3, <2>1
  <1>6. PICK k \in 1..12 : /\ Way(p, term, k) /\ \A j \in 1..12 : Way(p, term, j) => k <= j
                           /\ Tier(MatchOne(p, term)) = Tiers[k]
                           /\ MatchOne(p, term).distance = Far(p, term, k)
    BY FirstHolds
  <1>7. PICK l \in 1..12 : /\ Way(q, term, l) /\ \A j \in 1..12 : Way(q, term, j) => l <= j
                           /\ Tier(MatchOne(q, term)) = Tiers[l]
                           /\ MatchOne(q, term).distance = Far(q, term, l)
    BY <1>5, FirstHolds
  <1>8. k = l
    BY <1>3, <1>6, <1>7
  <1>9. QED
    BY <1>4, <1>5, <1>6, <1>7, <1>8

LEMMA OneAlone ==
  ASSUME NEW S, IsFiniteSet(S)
  PROVE  Cardinality(S) = 1 <=> \E x \in S : \A y \in S : y = x
  <1>1. ASSUME Cardinality(S) = 1 PROVE \E x \in S : \A y \in S : y = x
    <2>1. PICK x : S = {x}
      BY <1>1, FS_Singleton
    <2>2. QED
      BY <2>1
  <1>2. ASSUME NEW x \in S, \A y \in S : y = x PROVE Cardinality(S) = 1
    <2>1. S = {x}
      BY <1>2
    <2>2. QED
      BY <2>1, FS_Singleton
  <1>3. QED
    BY <1>1, <1>2

\* What is asked of the records: a list of projects, each once, and a term.
Asked(projects, term) ==
  /\ projects \in Seq(Range(projects)) /\ IsInjective(projects)
  /\ \A p \in Range(projects) : Compared(p, term)

RankOf(projects, term, i) ==
  [at |-> i, tier |-> Tier(MatchOne(projects[i], term)),
   distance |-> MatchOne(projects[i], term).distance]

\* No other project ranks as high as this one.
Above(projects, term, i) ==
  /\ i \in DOMAIN projects /\ Holding(projects[i], term) # {}
  /\ \A j \in DOMAIN projects : j # i /\ Holding(projects[j], term) # {} =>
       LET m == MatchOne(projects[i], term)
           n == MatchOne(projects[j], term)
       IN \/ Tier(m) < Tier(n)
          \/ Tier(m) = Tier(n) /\ m.distance < n.distance

LEMMA FoundIsAbove ==
  ASSUME NEW projects, NEW term, Asked(projects, term)
  PROVE  /\ ResolveProject(projects, term).status = "found" =>
              \E i : Above(projects, term, i) /\ ResolveProject(projects, term).projects = {projects[i]}
         /\ \A i : Above(projects, term, i) =>
              /\ ResolveProject(projects, term).status = "found"
              /\ ResolveProject(projects, term).projects = {projects[i]}
         /\ ResolveProject(projects, term).status = "ambiguous" =>
              ResolveProject(projects, term).projects \subseteq Range(projects)
  <1> DEFINE D == {i \in DOMAIN projects : Holding(projects[i], term) # {}}
             R(i) == RankOf(projects, term, i)
             matches == RankMatches(projects, term)
             inTier == {m \in matches : \A n \in matches : m.tier <= n.tier}
             contenders == {m \in inTier : \A n \in inTier : m.distance <= n.distance}
             those(some) == {projects[m.at] : m \in some}
             reply == ResolveProject(projects, term)
  <1>1. matches = {R(i) : i \in D}
    BY DEF RankMatches, RankOf
  <1>2. reply = IF matches = {} THEN [status |-> "not-found", projects |-> {}]
                 ELSE IF Cardinality(contenders) = 1
                      THEN [status |-> "found", projects |-> those(contenders)]
                 ELSE [status |-> "ambiguous", projects |-> those(inTier)]
    BY Zenon DEF ResolveProject
  <1>3. \A i \in D : /\ R(i).at = i /\ R(i).tier \in Nat /\ R(i).distance \in Nat
                     /\ R(i).tier = Tier(MatchOne(projects[i], term))
                     /\ R(i).distance = MatchOne(projects[i], term).distance
    <2>1. ASSUME NEW i \in D
          PROVE  Tier(MatchOne(projects[i], term)) \in Nat /\ MatchOne(projects[i], term).distance \in Nat
      <3>1. Compared(projects[i], term)
        BY DEF Asked, Range
      <3>2. Ranks(projects[i], term)
        BY <3>1, MatchRanks
      <3>3. QED
        BY <3>2 DEF Ranks
    <2>2. QED
      BY <2>1 DEF RankOf
  <1>4. IsFiniteSet(contenders)
    <2>1. IsFiniteSet(DOMAIN projects)
      <3>1. DOMAIN projects = 1..Len(projects) /\ Len(projects) \in Nat
        BY DEF Asked
      <3>2. QED
        BY <3>1, FS_Interval
    <2>2. IsFiniteSet(D)
      BY <2>1, FS_Subset
    <2>3. IsFiniteSet({R(i) : i \in D})
      <3> DEFINE T == {R(i) : i \in D}
                 f == [i \in D |-> R(i)]
      <3>1. f \in Surjection(D, T)
        <4>1. f \in [D -> T] /\ \A r \in T : \E i \in D : f[i] = r
          OBVIOUS
        <4> HIDE DEF f, T, D
        <4>2. QED
          BY <4>1 DEF Surjection
      <3> HIDE DEF f, T, D
      <3>2. IsFiniteSet(T)
        BY <2>2, <3>1, FS_Surjection
      <3>3. QED
        BY <3>2 DEF T
    <2>4. QED
      BY <1>1, <2>3, FS_Subset
  <1> HIDE DEF R
  <1>5. \A i : Above(projects, term, i) <=>
          /\ i \in D
          /\ \A j \in D : j # i => \/ R(i).tier < R(j).tier
                                   \/ R(i).tier = R(j).tier /\ R(i).distance < R(j).distance
    BY <1>3 DEF Above
  <1>6. ASSUME Cardinality(contenders) = 1
        PROVE  \E i : Above(projects, term, i) /\ those(contenders) = {projects[i]}
    <2>1. PICK m \in contenders : \A n \in contenders : n = m
      BY <1>4, <1>6, OneAlone
    <2>2. PICK i \in D : m = R(i)
      BY <1>1
    <2>3. ASSUME NEW j \in D, j # i
          PROVE  \/ R(i).tier < R(j).tier
                 \/ R(i).tier = R(j).tier /\ R(i).distance < R(j).distance
      <3>1. R(j) \in matches /\ R(j) # m
        BY <1>1, <1>3, <2>2, <2>3
      <3>2. R(i).tier <= R(j).tier
        BY <2>1, <2>2, <3>1
      <3>3. ASSUME R(i).tier = R(j).tier PROVE R(i).distance < R(j).distance
        <4>1. R(j) \in inTier
          BY <2>1, <2>2, <3>1, <3>3
        <4>2. R(i).distance <= R(j).distance
          BY <2>1, <2>2, <4>1
        <4>3. R(i).distance # R(j).distance
          <5>1. ASSUME R(i).distance = R(j).distance PROVE R(j) \in contenders
            BY <2>1, <2>2, <4>1, <5>1
          <5>2. QED
            BY <2>1, <3>1, <5>1
        <4>4. QED
          BY <1>3, <4>2, <4>3
      <3>4. R(i).tier \in Nat /\ R(j).tier \in Nat
        BY <1>3
      <3>5. R(i).tier < R(j).tier \/ R(i).tier = R(j).tier
        BY <3>2, <3>4
      <3>6. QED
        BY <3>3, <3>5, Zenon
    <2>4. those(contenders) = {projects[i]}
      BY <1>3, <2>1, <2>2
    <2>5. QED
      BY <1>5, <2>3, <2>4
  <1>7. ASSUME NEW i, Above(projects, term, i)
        PROVE  matches # {} /\ Cardinality(contenders) = 1 /\ those(contenders) = {projects[i]}
    <2>1. i \in D /\ R(i) \in matches
      BY <1>1, <1>5, <1>7
    <2>2. \A j \in D : R(i).tier <= R(j).tier /\ (R(i).tier = R(j).tier => R(i).distance <= R(j).distance)
      BY <1>3, <1>5, <1>7, <2>1
    <2>3. R(i) \in contenders
      <3>1. R(i) \in inTier
        BY <1>1, <2>1, <2>2
      <3>2. ASSUME NEW n \in inTier PROVE R(i).distance <= n.distance
        <4>1. PICK j \in D : n = R(j)
          BY <1>1
        <4>2. R(i).tier = R(j).tier
          <5>1. R(j).tier <= R(i).tier
            BY <2>1, <4>1
          <5>2. QED
            BY <1>3, <2>1, <2>2, <5>1
        <4>3. QED
          BY <2>2, <4>1, <4>2
      <3>3. QED
        BY <3>1, <3>2
    <2>4. ASSUME NEW n \in contenders PROVE n = R(i)
      <3>1. PICK j \in D : n = R(j)
        BY <1>1
      <3>2. R(j).tier <= R(i).tier
        BY <2>1, <3>1
      <3>3. R(i) \in inTier
        BY <2>3
      <3>4. R(j).distance <= R(i).distance
        BY <3>1, <3>3
      <3>5. CASE j = i
        BY <3>1, <3>5
      <3>6. CASE j # i
        BY <1>3, <1>5, <1>7, <2>1, <3>2, <3>4, <3>6
      <3>7. QED
        BY <3>5, <3>6
    <2>5. contenders = {R(i)}
      BY <2>3, <2>4
    <2>6. Cardinality(contenders) = 1
      BY <1>4, <2>3, <2>4, OneAlone
    <2>7. those(contenders) = {projects[i]}
      <3> HIDE DEF contenders
      <3>1. QED
        BY <1>3, <2>1, <2>5
    <2>8. QED
      BY <2>1, <2>6, <2>7
  <1>8. those(inTier) \subseteq Range(projects)
    <2>1. ASSUME NEW m \in inTier PROVE projects[m.at] \in Range(projects)
      <3>1. PICK i \in D : m = R(i)
        BY <1>1
      <3>2. m.at = i
        BY <1>3, <3>1
      <3>3. QED
        BY <3>2 DEF Range
    <2>2. QED
      BY <2>1
  <1> DEFINE found == those(contenders)
             asking == those(inTier)
             one == Cardinality(contenders) = 1
  <1>9. reply = IF matches = {} THEN [status |-> "not-found", projects |-> {}]
                 ELSE IF one THEN [status |-> "found", projects |-> found]
                 ELSE [status |-> "ambiguous", projects |-> asking]
    BY <1>2
  <1> HIDE DEF found, asking, one, matches, reply
  <1>10. /\ reply.status = "found" => one /\ reply.projects = found
         /\ matches # {} /\ one => reply.status = "found" /\ reply.projects = found
         /\ reply.status = "ambiguous" => reply.projects = asking
    BY <1>9
  <1>11. QED
    BY <1>6, <1>7, <1>8, <1>10 DEF found, asking, one, reply

\* The answer to a term: what TermAsks says of it.
LEMMA TermAnswered ==
  ASSUME NEW projects, NEW term, Asked(projects, term),
         \A p, q \in Range(projects) : p.repo # None /\ q.repo = None => ProjectQualifier(q) # p.repo.path
  PROVE  LET reply == ResolveOrThrow(projects, term)
             others(p) == Range(projects) \ {p}
         IN /\ reply.status = "found" => \A p \in reply.projects : \A q \in others(p) :
                 Exactness(p, term) <= Exactness(q, term) /\ ~Alike(p, q, term)
            /\ \A p \in Range(projects) :
                 /\ Exactness(p, term) < 6
                 /\ \A q \in others(p) : Exactness(p, term) < Exactness(q, term)
                 => reply.status = "found" /\ reply.projects = {p}
            /\ \A p, q \in DOMAIN reply.offers :
                 RepoPath(p) # RepoPath(q) => reply.offers[p] # reply.offers[q]
  <1> DEFINE resolved == ResolveProject(projects, term)
             reply == ResolveOrThrow(projects, term)
             asking == IF resolved.status = "ambiguous" THEN resolved.projects ELSE {}
  <1>1. /\ reply.status = resolved.status /\ reply.projects = resolved.projects
        /\ reply.offers = [p \in asking |-> ProjectQualifier(p)]
    BY Zenon DEF ResolveOrThrow
  <1>2. /\ resolved.status = "found" =>
              \E i : Above(projects, term, i) /\ resolved.projects = {projects[i]}
        /\ \A i : Above(projects, term, i) => resolved.status = "found" /\ resolved.projects = {projects[i]}
        /\ resolved.status = "ambiguous" => resolved.projects \subseteq Range(projects)
    BY FoundIsAbove
  <1>3. /\ \A i \in DOMAIN projects : projects[i] \in Range(projects)
        /\ \A p \in Range(projects) : \E i \in DOMAIN projects : projects[i] = p
        /\ \A i, j \in DOMAIN projects : projects[i] = projects[j] => i = j
    BY DEF Asked, Range, IsInjective
  <1>4. \A p \in Range(projects) : Compared(p, term) /\ Ranks(p, term)
    BY MatchRanks DEF Asked
  <1> HIDE DEF resolved, reply
  <1>5. ASSUME resolved.status = "found", NEW p \in resolved.projects, NEW q \in Range(projects) \ {p}
        PROVE  Exactness(p, term) <= Exactness(q, term) /\ ~Alike(p, q, term)
    <2>1. PICK i : Above(projects, term, i) /\ p = projects[i]
      BY <1>2, <1>5
    <2>2. PICK j \in DOMAIN projects : q = projects[j]
      BY <1>3
    <2>3. i \in DOMAIN projects /\ j # i /\ Holding(p, term) # {} /\ p \in Range(projects)
      BY <1>3, <1>5, <2>1, <2>2 DEF Above
    <2>4. Holding(q, term) # {} =>
            \/ Tier(MatchOne(p, term)) < Tier(MatchOne(q, term))
            \/ /\ Tier(MatchOne(p, term)) = Tier(MatchOne(q, term))
               /\ MatchOne(p, term).distance < MatchOne(q, term).distance
      BY <2>1, <2>2, <2>3 DEF Above
    <2>5. Ranks(p, term) /\ Ranks(q, term) /\ Compared(p, term) /\ Compared(q, term)
      BY <1>4, <2>3
    <2>6. Exactness(p, term) <= Exactness(q, term)
      BY <2>3, <2>4, <2>5 DEF Ranks
    <2>7. ASSUME Alike(p, q, term) PROVE FALSE
      <3>1. /\ Holding(q, term) # {} /\ Tier(MatchOne(q, term)) = Tier(MatchOne(p, term))
            /\ MatchOne(q, term).distance = MatchOne(p, term).distance
        BY <2>3, <2>5, <2>7, AlikeRankAlike
      <3>2. Tier(MatchOne(p, term)) \in Nat /\ MatchOne(p, term).distance \in Nat
        BY <2>3, <2>5 DEF Ranks
      <3>3. QED
        BY <2>4, <3>1, <3>2
    <2>8. QED
      BY <2>6, <2>7
  <1>6. ASSUME NEW p \in Range(projects), Exactness(p, term) < 6,
               \A q \in Range(projects) \ {p} : Exactness(p, term) < Exactness(q, term)
        PROVE  resolved.status = "found" /\ resolved.projects = {p}
    <2>1. PICK i \in DOMAIN projects : p = projects[i]
      BY <1>3
    <2>2. Above(projects, term, i)
      <3>1. Ranks(p, term) /\ Holding(p, term) # {}
        BY <1>4, <1>6 DEF Ranks
      <3>2. ASSUME NEW j \in DOMAIN projects, j # i, Holding(projects[j], term) # {}
            PROVE  \/ Tier(MatchOne(p, term)) < Tier(MatchOne(projects[j], term))
                   \/ /\ Tier(MatchOne(p, term)) = Tier(MatchOne(projects[j], term))
                      /\ MatchOne(p, term).distance < MatchOne(projects[j], term).distance
        <4> DEFINE q == projects[j]
        <4>1. q \in Range(projects) \ {p}
          BY <1>3, <2>1, <3>2
        <4>2. Ranks(q, term) /\ Holding(q, term) # {} /\ Exactness(p, term) < Exactness(q, term)
          BY <1>4, <1>6, <3>2, <4>1
        <4> HIDE DEF q
        <4>3. \/ Tier(MatchOne(p, term)) < Tier(MatchOne(q, term))
              \/ /\ Tier(MatchOne(p, term)) = Tier(MatchOne(q, term))
                 /\ MatchOne(p, term).distance < MatchOne(q, term).distance
          BY <1>6, <3>1, <4>2 DEF Ranks
        <4>4. QED
          BY <4>3 DEF q
      <3>3. QED
        BY <2>1, <3>1, <3>2, Zenon DEF Above
    <2>3. QED
      BY <1>2, <2>1, <2>2
  <1>7. ASSUME NEW p \in DOMAIN reply.offers, NEW q \in DOMAIN reply.offers, RepoPath(p) # RepoPath(q)
        PROVE  reply.offers[p] # reply.offers[q]
    <2>1. p \in asking /\ q \in asking
      BY <1>1
    <2>2. p \in Range(projects) /\ q \in Range(projects)
      BY <1>2, <2>1
    <2>3. reply.offers[p] = ProjectQualifier(p) /\ reply.offers[q] = ProjectQualifier(q)
      BY <1>1, <2>1
    <2>4. ProjectQualifier(p) # ProjectQualifier(q)
      <3>1. CASE p.repo # None /\ q.repo # None
        BY <1>7, <3>1 DEF ProjectQualifier, RepoPath
      <3>2. CASE p.repo # None /\ q.repo = None
        <4>1. ProjectQualifier(p) = p.repo.path
          BY <3>2 DEF ProjectQualifier
        <4>2. QED
          BY <2>2, <3>2, <4>1
      <3>3. CASE p.repo = None /\ q.repo # None
        <4>1. ProjectQualifier(q) = q.repo.path
          BY <3>3 DEF ProjectQualifier
        <4>2. QED
          BY <2>2, <3>3, <4>1
      <3>4. CASE p.repo = None /\ q.repo = None
        BY <1>7, <3>4 DEF RepoPath
      <3>5. QED
        BY <3>1, <3>2, <3>3, <3>4
    <2>5. QED
      BY <2>3, <2>4
  <1>8. QED
    BY <1>1, <1>5, <1>6, <1>7 DEF reply

(***************************************************************************)
(* The page of a project                                                   *)
(***************************************************************************)
\* The page is found exactly if one of the profiles asked has the project.
Placed(reply, views, id, wanted) ==
  LET having == {v \in Range(views) : \E p \in v.projects : p.id = id}
      asking == IF wanted = None THEN having ELSE {v \in having : v.name = wanted}
  IN IF Cardinality(asking) = 1
     THEN /\ reply.status = 200 /\ reply.body.project.id = id
          /\ \E v \in asking : v.name = reply.body.profile /\ reply.body.project \in v.projects
     ELSE reply.status # 200

LEMMA PageAnswered ==
  ASSUME NEW views, NEW id, NEW wanted, views \in Seq(Range(views)),
         \A i, j \in DOMAIN views : views[i].name = views[j].name => i = j
  PROVE  Placed(ProjectPage(views, id, wanted), views, id, wanted)
  <1> DEFINE having == {v \in Range(views) : \E p \in v.projects : p.id = id}
             asking == IF wanted = None THEN having ELSE {v \in having : v.name = wanted}
             reply == ProjectPage(views, id, wanted)
             C == Candidates(views, id, wanted)
             owner == views[Min(C)]
             project == CHOOSE p \in owner.projects : p.id = id
             page == [profile |-> owner.name, project |-> project,
                      brief |-> BuildResumeBrief(project, project.files, project.tasks, BriefPageSize)]
             names == {views[i].name : i \in C}
  <1>1. reply = IF C = {} THEN Reply(404, None)
                ELSE IF Cardinality(C) > 1 THEN Reply(409, names) ELSE Reply(200, page)
    BY Zenon DEF ProjectPage
  <1>2. C \subseteq DOMAIN views /\ IsFiniteSet(C) /\ IsFiniteSet(asking)
        /\ \A i \in DOMAIN views : i \in Nat
    <2>1. DOMAIN views = 1..Len(views) /\ Len(views) \in Nat
      OBVIOUS
    <2>2. IsFiniteSet(1..Len(views))
      BY <2>1, FS_Interval
    <2>3. C \subseteq DOMAIN views
      BY DEF Candidates
    <2>4. IsFiniteSet(Range(views))
      <3>1. views \in Surjection(1..Len(views), Range(views))
        BY <2>1 DEF Surjection, Range
      <3>2. QED
        BY <2>2, <3>1, FS_Surjection
    <2>5. asking \subseteq Range(views)
      OBVIOUS
    <2> HIDE DEF asking, C
    <2>6. QED
      BY <2>1, <2>2, <2>3, <2>4, <2>5, FS_Subset
  <1>3. \A i \in DOMAIN views : i \in C <=> views[i] \in asking
    BY DEF Candidates, Range
  <1>4. \A v \in asking : \E i \in C : views[i] = v
    BY <1>3 DEF Range
  <1>5. Cardinality(C) = 1 <=> Cardinality(asking) = 1
    <2> HIDE DEF C, asking
    <2>1. ASSUME NEW i \in C, \A j \in C : j = i PROVE \A v \in asking : v = views[i]
      BY <1>4, <2>1
    <2>2. ASSUME NEW v \in asking, \A w \in asking : w = v, NEW i \in C, NEW j \in C PROVE i = j
      BY <1>2, <1>3, <2>2
    <2>3. (\E x \in C : \A y \in C : y = x) <=> (\E x \in asking : \A y \in asking : y = x)
      BY <1>2, <1>3, <1>4, <2>1, <2>2
    <2>4. QED
      BY <1>2, <2>3, OneAlone
  <1>6. Cardinality(C) \in Nat /\ (C # {} => Cardinality(C) # 0)
    BY <1>2, FS_CardinalityType, FS_EmptySet
  <1>7. ASSUME Cardinality(C) = 1
        PROVE  /\ C # {} /\ reply = Reply(200, page) /\ page.project.id = id
               /\ \E v \in asking : v.name = page.profile /\ page.project \in v.projects
    <2>1. PICK i \in C : C = {i}
      BY <1>2, <1>7, OneAlone
    <2>2. i \in Nat /\ i \in DOMAIN views /\ views[i] \in asking
      BY <1>2, <1>3
    <2>3. Min(C) = i
      <3> HIDE DEF C
      <3>1. QED
        BY <2>1, <2>2 DEF Min
    <2>4. owner = views[i] /\ \E p \in owner.projects : p.id = id
      <3> HIDE DEF C
      <3>1. QED
        BY <2>2, <2>3
    <2>5. project \in owner.projects /\ project.id = id
      <3> HIDE DEF owner
      <3>1. QED
        BY <2>4
    <2>6. page.project = project /\ page.profile = owner.name
      OBVIOUS
    <2>7. reply = Reply(200, page)
      <3> HIDE DEF C, page, names, reply
      <3>1. QED
        BY <1>1, <1>7, <2>1
    <2> HIDE DEF page, project, owner, reply
    <2>8. QED
      BY <2>1, <2>2, <2>4, <2>5, <2>6, <2>7
  <1>8. ASSUME Cardinality(C) # 1 PROVE reply.status # 200
    <2> HIDE DEF page, names, C, reply
    <2>1. reply = Reply(404, None) \/ reply = Reply(409, names)
      BY <1>1, <1>6, <1>8
    <2>2. QED
      BY <2>1 DEF Reply
  <1>9. ASSUME Cardinality(asking) = 1
        PROVE  /\ reply.status = 200 /\ reply.body.project.id = id
               /\ \E v \in asking : v.name = reply.body.profile /\ reply.body.project \in v.projects
    <2>1. reply.status = 200 /\ reply.body = page
      <3> HIDE DEF page, reply
      <3>1. QED
        BY <1>5, <1>7, <1>9 DEF Reply
    <2>2. page.project.id = id /\ \E v \in asking : v.name = page.profile /\ page.project \in v.projects
      BY <1>5, <1>7, <1>9
    <2> HIDE DEF page, reply, asking
    <2>3. QED
      BY <2>1, <2>2
  <1>10. ASSUME Cardinality(asking) # 1 PROVE reply.status # 200
    BY <1>5, <1>8, <1>10
  <1>11. QED
    BY <1>9, <1>10, Zenon DEF Placed

\* Every question is of a kind of its own.
LEMMA OnlyProjects == Next /\ ~AskProject => asked'.kind # "project"
  BY KindsAre DEF Next

LEMMA OnlyPages == Next /\ ~AskPage => asked'.kind # "page"
  BY KindsAre DEF Next

LEMMA TermKept == AsksOfRecords /\ TermAsks /\ [Next]_vars => TermAsks'
  <1> SUFFICES ASSUME AsksOfRecords, TermAsks, [Next]_vars PROVE TermAsks'
    OBVIOUS
  <1>1. CASE AskProject
    <2>1. PICK projects \in ProjectLists, term \in Terms :
            /\ asked' = [kind |-> "project", projects |-> projects, term |-> term]
            /\ answer' = ResolveOrThrow(projects, term)
      BY <1>1 DEF AskProject, Ask
    <2>2. Asked(projects, term)
      BY DEF AsksOfRecords, Asked, Compared
    <2>3. \A p, q \in Range(projects) : p.repo # None /\ q.repo = None => ProjectQualifier(q) # p.repo.path
      BY DEF AsksOfRecords
    <2>4. asked'.kind = "project" /\ asked'.projects = projects /\ asked'.term = term
      BY <2>1
    <2>5. QED
      BY <2>1, <2>2, <2>3, <2>4, TermAnswered DEF TermAsks
  <1>2. CASE UNCHANGED vars
    BY <1>2 DEF vars, TermAsks
  <1>3. CASE Next /\ ~AskProject
    <2>1. asked'.kind # "project"
      BY <1>3, OnlyProjects
    <2>2. QED
      BY <2>1 DEF TermAsks
  <1>4. QED
    BY <1>1, <1>2, <1>3

LEMMA PageKept == AsksOfRecords /\ PageAsks /\ [Next]_vars => PageAsks'
  <1> SUFFICES ASSUME AsksOfRecords, PageAsks, [Next]_vars PROVE PageAsks'
    OBVIOUS
  <1>1. CASE AskPage
    <2>1. PICK views \in ViewLists, request \in Requests :
            /\ asked' = [kind |-> "page", views |-> views, request |-> request, path |-> request.path]
            /\ answer' = Handle(views, request)
      BY <1>1 DEF AskPage, Ask
    <2>2. /\ asked'.kind = "page" /\ asked'.views = views /\ asked'.request = request
          /\ asked'.path = request.path
      BY <2>1
    <2>3. CASE request.path = "project" /\ answer'.status \in {200, 404, 409}
      <3>1. request.method \in {"GET", "HEAD"}
        BY <2>1, <2>3 DEF Handle, Reply
      <3>2. answer' = ProjectPage(views, request.id, request.profile)
        BY <2>1, <2>3, <3>1 DEF Handle
      <3>3. /\ views \in Seq(Range(views))
            /\ \A i, j \in DOMAIN views : views[i].name = views[j].name => i = j
        BY DEF AsksOfRecords
      <3>4. Placed(answer', views, request.id, request.profile)
        BY <3>2, <3>3, PageAnswered
      <3>5. QED
        BY <2>2, <3>4 DEF PageAsks, Placed
    <2>4. CASE ~(request.path = "project" /\ answer'.status \in {200, 404, 409})
      BY <2>2, <2>4 DEF PageAsks
    <2>5. QED
      BY <2>3, <2>4
  <1>2. CASE UNCHANGED vars
    BY <1>2 DEF vars, PageAsks
  <1>3. CASE Next /\ ~AskPage
    <2>1. asked'.kind # "page"
      BY <1>3, OnlyPages
    <2>2. QED
      BY <2>1 DEF PageAsks
  <1>4. QED
    BY <1>1, <1>2, <1>3

\* resolve.ts:7-10: in any list of projects, however a term lies in their names, a project
\* is only answered with when no other is named as exactly and none lies alike to the term,
\* and one that alone is named most exactly is never asked about; server.ts: an id that
\* several profiles have, or none, gets no page.
THEOREM TermsAsk == ASSUME AsksOfRecords PROVE Spec => []AsksRatherThanGuesses
  <1>1. Init => AsksRatherThanGuesses
    BY DEF Init, Nothing, AsksRatherThanGuesses, TermAsks, PageAsks
  <1>2. AsksRatherThanGuesses /\ [Next]_vars => AsksRatherThanGuesses'
    BY TermKept, PageKept DEF AsksRatherThanGuesses
  <1>3. QED
    BY <1>1, <1>2, PTL DEF Spec

(***************************************************************************)
(* What is put in order                                                    *)
(***************************************************************************)
Orders(R, S) ==
  /\ \A x \in S : <<x, x>> \notin R
  /\ \A x, y \in S : x # y => <<x, y>> \in R \/ <<y, x>> \in R
  /\ \A x, y, z \in S : <<x, y>> \in R /\ <<y, z>> \in R => <<x, z>> \in R

\* s has every member of S once, each after those that R puts before it.
Lines(s, S, R) ==
  /\ Cardinality(S) \in Nat /\ s \in [1..Cardinality(S) -> S]
  /\ \A x \in S : \E i \in 1..Cardinality(S) : s[i] = x
  /\ \A i, j \in 1..Cardinality(S) : i < j => <<s[i], s[j]>> \in R

Before(S, R, x) == {y \in S : <<y, x>> \in R}
Rank(S, R) == [x \in S |-> Cardinality(Before(S, R, x)) + 1]

LEMMA RankIs ==
  ASSUME NEW S, IsFiniteSet(S), NEW R, Orders(R, S)
  PROVE  /\ Cardinality(S) \in Nat
         /\ Rank(S, R) \in Injection(S, 1..Cardinality(S))
         /\ \A x, y \in S : <<x, y>> \in R => Rank(S, R)[x] < Rank(S, R)[y]
  <1> DEFINE N == Cardinality(S)
             c == [x \in S |-> Cardinality(Before(S, R, x))]
  <1>1. \A x \in S : Before(S, R, x) \in SUBSET S /\ x \notin Before(S, R, x)
    BY DEF Before, Orders
  <1>2. \A x \in S : IsFiniteSet(Before(S, R, x))
    BY <1>1, FS_Subset
  <1>3. \A x \in S : Cardinality(Before(S, R, x)) \in Nat
    BY <1>2, FS_CardinalityType
  <1>4. N \in Nat
    BY FS_CardinalityType
  <1>5. \A x \in S : c[x] \in Nat /\ c[x] = Cardinality(Before(S, R, x)) /\ Rank(S, R)[x] = c[x] + 1
    BY <1>3 DEF Rank
  <1>6. ASSUME NEW x \in S PROVE c[x] < N
    <2>1. Cardinality(Before(S, R, x)) <= N /\ Cardinality(Before(S, R, x)) # N
      BY <1>1, FS_Subset
    <2>2. QED
      BY <2>1, <1>3, <1>4, <1>5
  <1>7. ASSUME NEW x \in S, NEW y \in S, <<x, y>> \in R PROVE c[x] < c[y]
    <2>1. Before(S, R, x) \in SUBSET Before(S, R, y) /\ x \in Before(S, R, y) /\ x \notin Before(S, R, x)
      BY <1>7 DEF Before, Orders
    <2>2. /\ Cardinality(Before(S, R, x)) <= Cardinality(Before(S, R, y))
          /\ Cardinality(Before(S, R, y)) # Cardinality(Before(S, R, x))
      BY <1>2, <2>1, FS_Subset
    <2>3. QED
      BY <2>2, <1>3, <1>5
  <1>8. Rank(S, R) \in [S -> 1..N]
    <2>1. \A x \in S : Rank(S, R)[x] \in 1..N
      BY <1>4, <1>5, <1>6
    <2>2. QED
      BY <2>1 DEF Rank
  <1>9. \A x, y \in S : <<x, y>> \in R => Rank(S, R)[x] < Rank(S, R)[y]
    BY <1>5, <1>7
  <1>10. \A x, y \in S : Rank(S, R)[x] = Rank(S, R)[y] => x = y
    <2> SUFFICES ASSUME NEW x \in S, NEW y \in S, x # y PROVE Rank(S, R)[x] # Rank(S, R)[y]
      OBVIOUS
    <2>1. <<x, y>> \in R \/ <<y, x>> \in R
      BY DEF Orders
    <2>2. Rank(S, R)[x] \in Nat /\ Rank(S, R)[y] \in Nat
      BY <1>5
    <2>3. QED
      BY <2>1, <2>2, <1>9
  <1>11. QED
    BY <1>4, <1>8, <1>9, <1>10 DEF Injection, IsInjective

\* The members of a finite set in order are those of the set.
LEMMA InOrderIs ==
  ASSUME NEW S, IsFiniteSet(S), NEW R, Orders(R, S)
  PROVE  Lines(InOrder(S, R), S, R)
  <1> DEFINE N == Cardinality(S)
             rank == Rank(S, R)
             s == InOrder(S, R)
  <1>1. /\ N \in Nat /\ rank \in Injection(S, 1..N)
        /\ \A x, y \in S : <<x, y>> \in R => rank[x] < rank[y]
    BY RankIs
  <1>2. IsFiniteSet(1..N) /\ Cardinality(1..N) = N
    BY <1>1, FS_Interval
  <1>3. rank \in Surjection(S, 1..N)
    BY <1>1, <1>2, FS_Injection
  <1>4. /\ \A x \in S : rank[x] \in 1..N
        /\ \A x, y \in S : rank[x] = rank[y] => x = y
        /\ \A n \in 1..N : \E x \in S : rank[x] = n
    BY <1>1, <1>3 DEF Injection, IsInjective, Surjection
  <1>5. \A x \in S : rank[x] = Cardinality({y \in S : <<y, x>> \in R}) + 1
                     /\ Cardinality({y \in S : <<y, x>> \in R}) \in Nat
    <2>1. \A x \in S : {y \in S : <<y, x>> \in R} \in SUBSET S
      OBVIOUS
    <2>2. \A x \in S : IsFiniteSet({y \in S : <<y, x>> \in R})
      BY <2>1, FS_Subset
    <2>3. \A x \in S : Cardinality({y \in S : <<y, x>> \in R}) \in Nat
      BY <2>2, FS_CardinalityType
    <2>4. QED
      BY <2>3 DEF Rank, Before
  <1>6. ASSUME NEW n \in 1..N PROVE s[n] \in S /\ rank[s[n]] = n
    <2>1. s[n] = CHOOSE x \in S : Cardinality({y \in S : <<y, x>> \in R}) = n - 1
      BY DEF InOrder
    <2>2. PICK x \in S : rank[x] = n
      BY <1>4
    <2>3. Cardinality({y \in S : <<y, x>> \in R}) = n - 1
      BY <2>2, <1>5
    <2>4. s[n] \in S /\ Cardinality({y \in S : <<y, s[n]>> \in R}) = n - 1
      BY <2>1, <2>3
    <2>5. QED
      BY <2>4, <1>5
  <1>7. s \in [1..N -> S]
    <2> DEFINE at(n) == CHOOSE x \in S : Cardinality({y \in S : <<y, x>> \in R}) = n - 1
    <2>1. s = [n \in 1..N |-> at(n)]
      BY Zenon DEF InOrder
    <2> HIDE DEF at, s
    <2>2. \A n \in 1..N : at(n) \in S
      BY <2>1, <1>6
    <2>3. QED
      BY <2>1, <2>2
  <1>8. \A x \in S : \E i \in 1..N : s[i] = x
    BY <1>4, <1>6
  <1>9. ASSUME NEW i \in 1..N, NEW j \in 1..N, i < j PROVE <<s[i], s[j]>> \in R
    <2>1. s[i] \in S /\ s[j] \in S /\ rank[s[i]] = i /\ rank[s[j]] = j
      BY <1>6
    <2>2. s[i] # s[j]
      BY <2>1, <1>9
    <2>3. <<s[i], s[j]>> \in R \/ <<s[j], s[i]>> \in R
      BY <2>1, <2>2 DEF Orders
    <2>4. <<s[j], s[i]>> \in R => j < i
      BY <2>1, <1>1
    <2>5. QED
      BY <2>3, <2>4, <1>9
  <1>10. QED
    BY <1>1, <1>7, <1>8, <1>9 DEF Lines

\* The elements of a sequence at some places, in their order.
Picks(order, places) ==
  /\ Cardinality(places) \in Nat /\ order \in [1..Cardinality(places) -> places]
  /\ \A k \in places : \E i \in 1..Cardinality(places) : order[i] = k
  /\ \A i, j \in 1..Cardinality(places) : i < j => order[i] < order[j]

LEMMA ThoseAre ==
  ASSUME NEW T, NEW n \in Nat, NEW s \in [1..n -> T], NEW places \in SUBSET (1..n)
  PROVE  \E order : /\ Picks(order, places)
                    /\ Those(s, places) = [k \in 1..Cardinality(places) |-> s[order[k]]]
                    /\ Those(s, places) \in [1..Cardinality(places) -> T]
  <1> DEFINE R == {e \in places \X places : e[1] < e[2]}
             order == InOrder(places, R)
             N == Cardinality(places)
  <1>1. IsFiniteSet(places)
    <2>1. IsFiniteSet(1..n)
      BY FS_Interval
    <2>2. QED
      BY <2>1, FS_Subset
  <1>2. \A i, j \in places : <<i, j>> \in R <=> i < j
    OBVIOUS
  <1>3. Orders(R, places)
    <2> HIDE DEF R
    <2>1. \A i \in places : i \in Int
      OBVIOUS
    <2>2. QED
      BY <1>2, <2>1 DEF Orders
  <1> HIDE DEF R
  <1>4. Lines(order, places, R)
    BY <1>1, <1>3, InOrderIs
  <1>5. DOMAIN order = 1..N
    BY <1>4 DEF Lines
  <1>6. Those(s, places) = [k \in 1..N |-> s[order[k]]]
    BY <1>5, Zenon DEF Those, Picked, R
  <1> HIDE DEF order
  <1>7. Picks(order, places)
    <2>1. N \in Nat /\ order \in [1..N -> places]
      BY <1>4 DEF Lines
    <2>2. \A k \in places : \E i \in 1..N : order[i] = k
      BY <1>4 DEF Lines
    <2>3. ASSUME NEW i \in 1..N, NEW j \in 1..N, i < j PROVE order[i] < order[j]
      <3>1. <<order[i], order[j]>> \in R
        BY <1>4, <2>3 DEF Lines
      <3>2. order[i] \in places /\ order[j] \in places
        BY <2>1
      <3>3. QED
        BY <3>1, <3>2, <1>2
    <2>4. QED
      BY <2>1, <2>2, <2>3 DEF Picks
  <1>8. \A k \in 1..N : order[k] \in 1..n
    BY <1>4 DEF Lines
  <1>9. [k \in 1..N |-> s[order[k]]] \in [1..N -> T]
    BY <1>8
  <1>10. QED
    BY <1>6, <1>7, <1>9

\* The first elements of a sequence.
Lesser(n, m) == IF n < m THEN n ELSE m

IsList(s, n, T) == n \in Nat /\ s \in [1..n -> T]
Begins(t, s, k, n, T) ==
  /\ t \in [1..Lesser(k, n) -> T] /\ Lesser(k, n) \in 0..n
  /\ \A i \in 1..Lesser(k, n) : i \in 1..n /\ t[i] = s[i]

LEMMA FirstsAre ==
  ASSUME NEW T, NEW n, NEW s, IsList(s, n, T), NEW k \in Nat
  PROVE  Begins(Firsts(s, k), s, k, n, T)
  <1>1. Len(s) = n /\ n \in Nat /\ s \in [1..n -> T]
    BY DEF IsList
  <1>2. Firsts(s, k) = SubSeq(s, 1, Lesser(k, n))
    BY <1>1 DEF Firsts, Lesser
  <1>3. Lesser(k, n) \in 0..n
    BY <1>1 DEF Lesser
  <1>4. ASSUME NEW m \in 0..n
        PROVE  /\ SubSeq(s, 1, m) \in [1..m -> T]
               /\ \A i \in 1..m : i \in 1..n /\ SubSeq(s, 1, m)[i] = s[i]
    <2>1. s \in Seq(T) /\ m \in Nat /\ Len(s) = n
      BY <1>1
    <2>2. \A i \in 1..m : i \in 1..n /\ s[i] \in T
      BY <1>1
    <2>3. Len(SubSeq(s, 1, m)) = m /\ \A i \in 1..m : SubSeq(s, 1, m)[i] = s[i]
      BY <2>1, <2>2
    <2>4. SubSeq(s, 1, m) \in Seq(T)
      BY <2>1
    <2> DEFINE first == SubSeq(s, 1, m)
    <2> HIDE DEF first
    <2>5. first \in Seq(T) /\ Len(first) = m => first \in [1..m -> T]
      OBVIOUS
    <2>6. first \in [1..m -> T]
      BY <2>3, <2>4, <2>5 DEF first
    <2>7. QED
      BY <2>2, <2>3, <2>6 DEF first
  <1>5. QED
    BY <1>2, <1>3, <1>4 DEF Begins

(***************************************************************************)
(* Moments                                                                 *)
(***************************************************************************)
LEMMA LaterIs ==
  ASSUME NEW a \in Moment, NEW b \in Moment
  PROVE  /\ Later(a, b) <=> \/ a[1] > b[1]
                            \/ a[1] = b[1] /\ a[2] > b[2]
                            \/ a[1] = b[1] /\ a[2] = b[2] /\ a[3] > b[3]
                            \/ a[1] = b[1] /\ a[2] = b[2] /\ a[3] = b[3] /\ a[4] > b[4]
         /\ \A i \in 1..4 : a[i] \in Nat /\ b[i] \in Nat
         /\ a = b <=> a[1] = b[1] /\ a[2] = b[2] /\ a[3] = b[3] /\ a[4] = b[4]
  <1>1. DOMAIN a = 1..4 /\ \A i \in 1..4 : a[i] \in Nat /\ b[i] \in Nat
    BY DEF Moment
  <1>2. 1..4 = {1, 2, 3, 4}
    OBVIOUS
  <1>3. a = b <=> a[1] = b[1] /\ a[2] = b[2] /\ a[3] = b[3] /\ a[4] = b[4]
    BY <1>2 DEF Moment
  <1> DEFINE at(i) == a[i] > b[i] /\ \A j \in 1..(i - 1) : a[j] = b[j]
  <1>4. Later(a, b) <=> at(1) \/ at(2) \/ at(3) \/ at(4)
    BY <1>1, <1>2 DEF Later
  <1>5. /\ 1..0 = {} /\ 1..1 = {1} /\ 1..2 = {1, 2} /\ 1..3 = {1, 2, 3}
        /\ 1 - 1 = 0 /\ 2 - 1 = 1 /\ 3 - 1 = 2 /\ 4 - 1 = 3
    OBVIOUS
  <1>6. /\ at(1) <=> a[1] > b[1]
        /\ at(2) <=> a[1] = b[1] /\ a[2] > b[2]
        /\ at(3) <=> a[1] = b[1] /\ a[2] = b[2] /\ a[3] > b[3]
        /\ at(4) <=> a[1] = b[1] /\ a[2] = b[2] /\ a[3] = b[3] /\ a[4] > b[4]
    BY <1>5
  <1>7. QED
    BY <1>1, <1>3, <1>4, <1>6

LEMMA LaterOrders ==
  /\ \A a \in Moment : ~Later(a, a)
  /\ \A a, b \in Moment : a # b => Later(a, b) \/ Later(b, a)
  /\ \A a, b, c \in Moment : Later(a, b) /\ Later(b, c) => Later(a, c)
  <1>1. \A a \in Moment : ~Later(a, a)
    BY LaterIs
  <1>2. \A a, b \in Moment : a # b => Later(a, b) \/ Later(b, a)
    BY LaterIs
  <1>3. ASSUME NEW a \in Moment, NEW b \in Moment, NEW c \in Moment, Later(a, b), Later(b, c)
        PROVE  Later(a, c)
    BY <1>3, LaterIs
  <1>4. QED
    BY <1>1, <1>2, <1>3

\* What the walk does not enter is older than what is asked for.
LEMMA SkippedIsOlder ==
  ASSUME NEW a \in Moment, NEW since \in Moment, Skipped(a, since)
  PROVE  Later(since, a)
  BY LaterIs DEF Skipped

LEMMA LatestIs ==
  ASSUME NEW S, IsFiniteSet(S), S \subseteq Moment, S # {}, None \notin Moment
  PROVE  Latest(S) \in S /\ \A b \in S : ~Later(b, Latest(S))
  <1> DEFINE R == {e \in S \X S : Later(e[1], e[2])}
  <1>1. \A a, b \in S : <<a, b>> \in R <=> Later(a, b)
    OBVIOUS
  <1> HIDE DEF R
  <1>2. Orders(R, S)
    BY <1>1, LaterOrders DEF Orders
  <1> DEFINE s == InOrder(S, R)
             N == Cardinality(S)
  <1>3. Lines(s, S, R)
    BY <1>2, InOrderIs
  <1> HIDE DEF s
  <1>4. N \in Nat /\ N # 0
    BY <1>3, FS_EmptySet DEF Lines
  <1>5. 1 \in 1..N /\ s[1] \in S
    BY <1>3, <1>4 DEF Lines
  <1>6. ASSUME NEW b \in S, b # s[1] PROVE Later(s[1], b)
    <2>1. PICK i \in 1..N : s[i] = b
      BY <1>3 DEF Lines
    <2>2. 1 < i
      BY <2>1, <1>4, <1>6
    <2>3. <<s[1], b>> \in R
      BY <2>1, <2>2, <1>3, <1>5 DEF Lines
    <2>4. QED
      BY <2>3, <1>1, <1>5
  <1>7. /\ S \ {None} = S
        /\ \A a : S \ {None, a} = S \ {a}
    OBVIOUS
  <1> DEFINE is(a) == \A b \in S \ {a} : Later(a, b)
  <1>8. Latest(S) = CHOOSE a \in S : is(a)
    BY <1>7 DEF Latest
  <1>9. is(s[1])
    BY <1>6
  <1>10. Latest(S) \in S /\ is(Latest(S))
    BY <1>5, <1>8, <1>9
  <1>11. ASSUME NEW b \in S PROVE ~Later(b, Latest(S))
    <2>1. b \in Moment /\ Latest(S) \in Moment
      BY <1>10
    <2>2. CASE b = Latest(S)
      BY <2>1, <2>2, LaterOrders
    <2>3. CASE b # Latest(S)
      <3>1. Later(Latest(S), b)
        BY <2>3, <1>10
      <3>2. QED
        BY <3>1, <2>1, LaterOrders
    <2>4. QED
      BY <2>2, <2>3
  <1>12. QED
    BY <1>10, <1>11

(***************************************************************************)
(* The newest checkpoints                                                  *)
(***************************************************************************)
Wanted(files, since) == {f \in files : f.ok /\ (since = None \/ ~Later(since, f.at))}
Unreadable(files) == {f \in files : ~f.ok}

\* Newest first, with what is wanted and nothing else, until the limit or the spare files.
AreNewest(s, files, since, limit) ==
  /\ s \in [1..Len(s) -> Wanted(files, since)] /\ Len(s) \in Nat
  /\ limit # 0 => Len(s) <= limit
  /\ \A i, j \in 1..Len(s) : i < j => Later(s[i].at, s[j].at)
  /\ \A f \in Wanted(files, since) \ Range(s) :
       /\ \A i \in 1..Len(s) : Later(s[i].at, f.at)
       /\ limit = 0 \/ Len(s) < limit => Cardinality(Unreadable(files)) > Spare

\* The files that are entered in the order of the walk, and how many of them are listed.
Walks(w, files, since, limit, listed) ==
  LET entered == {f \in files : ~Skipped(f.at, since)}
  IN /\ w.n \in Nat /\ w.m \in 0..w.n /\ w.all \in [1..w.n -> entered]
     /\ \A f \in entered : \E i \in 1..w.n : w.all[i] = f
     /\ \A i, j \in 1..w.n : i < j => Later(w.all[i].at, w.all[j].at)
     /\ limit = 0 => w.m = w.n
     /\ w.m < w.n => w.m = limit
     /\ listed \in [1..w.m -> entered]
     /\ \A i \in 1..w.m : listed[i] = w.all[i]

LEMMA FilesListed ==
  ASSUME NEW files, Dated(files), NEW since, NEW limit \in Nat
  PROVE  \E w : Walks(w, files, since, limit, ListCheckpointFiles(files, since, limit))
  <1> DEFINE entered == {f \in files : ~Skipped(f.at, since)}
             R == {e \in entered \X entered : Later(e[1].at, e[2].at)}
             walked == InOrder(entered, R)
             n == Cardinality(entered)
             listed == ListCheckpointFiles(files, since, limit)
             m == IF limit = 0 THEN n ELSE Lesser(limit, n)
  <1>1. IsFiniteSet(entered)
    BY FS_Subset DEF Dated
  <1>2. /\ \A f \in entered : f.at \in Moment
        /\ \A f, g \in entered : f # g => f.at # g.at
        /\ \A f, g \in entered : <<f, g>> \in R <=> Later(f.at, g.at)
    BY DEF Dated
  <1>3. listed = IF limit = 0 THEN walked ELSE Firsts(walked, limit)
    BY DEF ListCheckpointFiles, Limited
  <1> HIDE DEF entered, R, listed
  <1>4. Orders(R, entered)
    <2>1. \A f \in entered : <<f, f>> \notin R
      BY <1>2, LaterOrders
    <2>2. \A f, g \in entered : f # g => <<f, g>> \in R \/ <<g, f>> \in R
      BY <1>2, LaterOrders
    <2>3. ASSUME NEW f \in entered, NEW g \in entered, NEW h \in entered, <<f, g>> \in R, <<g, h>> \in R
          PROVE  <<f, h>> \in R
      <3>1. f.at \in Moment /\ g.at \in Moment /\ h.at \in Moment /\ Later(f.at, g.at) /\ Later(g.at, h.at)
        BY <1>2, <2>3
      <3>2. Later(f.at, h.at)
        BY <3>1, LaterOrders
      <3>3. QED
        BY <3>2, <1>2
    <2>4. QED
      BY <2>1, <2>2, <2>3 DEF Orders
  <1>5. Lines(walked, entered, R)
    BY <1>1, <1>4, InOrderIs
  <1> HIDE DEF walked
  <1>6. /\ n \in Nat /\ walked \in [1..n -> entered]
        /\ \A f \in entered : \E i \in 1..n : walked[i] = f
    BY <1>5 DEF Lines
  <1>7. \A i, j \in 1..n : i < j => Later(walked[i].at, walked[j].at)
    <2>1. \A i, j \in 1..n : i < j => <<walked[i], walked[j]>> \in R
      BY <1>5 DEF Lines
    <2>2. QED
      BY <2>1, <1>2, <1>6
  <1> HIDE DEF n
  <1>8. /\ m \in 0..n /\ (limit = 0 => m = n) /\ (m < n => m = limit)
    BY <1>6 DEF Lesser
  <1>9. listed \in [1..m -> entered] /\ \A i \in 1..m : listed[i] = walked[i]
    <2>1. CASE limit = 0
      BY <2>1, <1>3, <1>6
    <2>2. CASE limit # 0
      <3>1. /\ Firsts(walked, limit) \in [1..Lesser(limit, n) -> entered]
            /\ \A i \in 1..Lesser(limit, n) : i \in 1..n /\ Firsts(walked, limit)[i] = walked[i]
        <4>1. IsList(walked, n, entered)
          BY <1>6 DEF IsList
        <4>2. Begins(Firsts(walked, limit), walked, limit, n, entered)
          BY <4>1, FirstsAre, Zenon
        <4>3. QED
          BY <4>2 DEF Begins
      <3>2. listed = Firsts(walked, limit) /\ m = Lesser(limit, n)
        BY <2>2, <1>3
      <3>3. QED
        BY <3>1, <3>2
    <2>3. QED
      BY <2>1, <2>2
  <1> HIDE DEF m
  <1> DEFINE w == [n |-> n, m |-> m, all |-> walked]
  <1>10. Walks(w, files, since, limit, listed)
    BY <1>6, <1>7, <1>8, <1>9 DEF entered, Walks
  <1>11. QED
    BY <1>10 DEF listed

LEMMA CheckpointsAre ==
  ASSUME NEW files, Dated(files), NEW since \in Moment \cup {None}, None \notin Moment,
         NEW limit \in Nat, Spare \in Nat
  PROVE  AreNewest(ListCheckpoints(files, since, limit), files, since, limit)
  <1> DEFINE entered == {f \in files : ~Skipped(f.at, since)}
             most == IF limit = 0 THEN 0 ELSE limit + Spare
             listed == ListCheckpointFiles(files, since, most)
             wanted == Wanted(files, since)
             kept == {i \in DOMAIN listed : listed[i].ok /\ (since = None \/ ~Later(since, listed[i].at))}
             read == Those(listed, kept)
             N == Cardinality(kept)
             s == ListCheckpoints(files, since, limit)
             L == IF limit = 0 THEN N ELSE Lesser(limit, N)
  <1>1. most \in Nat /\ (limit # 0 => most = limit + Spare) /\ (limit = 0 => most = 0)
    OBVIOUS
  <1>a. PICK w : Walks(w, files, since, most, listed)
    BY <1>1, FilesListed
  <1> DEFINE walked == w.all
             n == w.n
             m == w.m
  <1>2. /\ n \in Nat /\ m \in 0..n
        /\ walked \in [1..n -> entered]
        /\ \A f \in entered : \E i \in 1..n : walked[i] = f
        /\ \A i, j \in 1..n : i < j => Later(walked[i].at, walked[j].at)
        /\ most = 0 => m = n
        /\ m < n => m = most
        /\ listed \in [1..m -> entered]
        /\ \A i \in 1..m : listed[i] = walked[i]
    BY <1>a DEF Walks
  <1> HIDE DEF walked, n, m
  <1>3. s = IF limit = 0 THEN read ELSE Firsts(read, limit)
    BY DEF ListCheckpoints, ReadSince, Limited
  <1>4. kept \in SUBSET (1..m) /\ m \in Nat
    BY <1>2
  <1>5. \A f \in files : f.at \in Moment
    BY DEF Dated
  <1>6. ASSUME NEW f \in wanted PROVE f \in entered
    <2>1. f \in files /\ f.at \in Moment /\ (since = None \/ ~Later(since, f.at))
      BY <1>5 DEF Wanted
    <2>2. since = None => ~Skipped(f.at, since)
      BY DEF Skipped
    <2>3. since # None => ~Skipped(f.at, since)
      BY <2>1, SkippedIsOlder
    <2>4. QED
      BY <2>1, <2>2, <2>3
  <1>7. \A i \in 1..m : i \in kept <=> walked[i] \in wanted
    BY <1>2 DEF Wanted
  <1>8. \A i \in 1..n : walked[i] \in files /\ walked[i].at \in Moment
    BY <1>2, <1>5
  <1> HIDE DEF entered, most, listed, wanted, kept, s
  <1>9. PICK order : /\ Picks(order, kept)
                     /\ read = [k \in 1..N |-> listed[order[k]]]
                     /\ read \in [1..N -> entered]
    BY <1>2, <1>4, ThoseAre
  <1>10. /\ N \in Nat /\ order \in [1..N -> kept]
         /\ \A k \in kept : \E i \in 1..N : order[i] = k
         /\ \A i, j \in 1..N : i < j => order[i] < order[j]
    BY <1>9 DEF Picks
  <1> HIDE DEF N
  <1>11. \A k \in 1..N : /\ order[k] \in 1..m /\ order[k] \in 1..n /\ read[k] = walked[order[k]]
                         /\ read[k] \in wanted
    <2> SUFFICES ASSUME NEW k \in 1..N
                 PROVE  /\ order[k] \in 1..m /\ order[k] \in 1..n /\ read[k] = walked[order[k]]
                        /\ read[k] \in wanted
      OBVIOUS
    <2>1. order[k] \in kept /\ order[k] \in 1..m
      BY <1>4, <1>10
    <2>2. order[k] \in 1..n
      BY <2>1, <1>2
    <2>3. read[k] = listed[order[k]]
      BY <1>9
    <2>4. read[k] = walked[order[k]]
      BY <2>1, <2>3, <1>2
    <2>5. QED
      BY <2>1, <2>2, <2>4, <1>7
  <1> HIDE DEF read
  <1>12. L \in 0..N /\ (limit = 0 => L = N) /\ (L < N => L = limit) /\ (limit # 0 => L <= limit)
    BY <1>10 DEF Lesser
  <1>13. s \in [1..L -> entered] /\ \A i \in 1..L : i \in 1..N /\ s[i] = read[i]
    <2>1. CASE limit = 0
      BY <2>1, <1>3, <1>9, <1>10
    <2>2. CASE limit # 0
      <3>1. /\ Firsts(read, limit) \in [1..Lesser(limit, N) -> entered]
            /\ \A i \in 1..Lesser(limit, N) : i \in 1..N /\ Firsts(read, limit)[i] = read[i]
        <4>1. IsList(read, N, entered)
          BY <1>9, <1>10 DEF IsList
        <4>2. Begins(Firsts(read, limit), read, limit, N, entered)
          BY <4>1, FirstsAre, Zenon
        <4>3. QED
          BY <4>2 DEF Begins
      <3>2. s = Firsts(read, limit) /\ L = Lesser(limit, N)
        BY <2>2, <1>3
      <3>3. QED
        BY <3>1, <3>2
    <2>3. QED
      BY <2>1, <2>2
  <1> HIDE DEF L
  <1>14. Len(s) = L /\ L \in Nat /\ s \in [1..L -> wanted] /\ DOMAIN s = 1..L
    BY <1>10, <1>11, <1>12, <1>13
  <1>15. \A i, j \in 1..L : i < j => Later(s[i].at, s[j].at)
    <2> SUFFICES ASSUME NEW i \in 1..L, NEW j \in 1..L, i < j PROVE Later(s[i].at, s[j].at)
      OBVIOUS
    <2>1. i \in 1..N /\ j \in 1..N /\ order[i] < order[j]
      BY <1>10, <1>13
    <2>2. Later(walked[order[i]].at, walked[order[j]].at)
      BY <2>1, <1>2, <1>11
    <2>3. QED
      BY <2>1, <2>2, <1>11, <1>13
  <1>16. ASSUME NEW f \in wanted \ Range(s)
         PROVE  /\ \A i \in 1..L : Later(s[i].at, f.at)
                /\ limit = 0 \/ L < limit => Cardinality(Unreadable(files)) > Spare
    <2>1. PICK k \in 1..n : walked[k] = f
      BY <1>2, <1>6
    <2>2. CASE k \in 1..m
      <3>1. k \in kept
        BY <2>1, <2>2, <1>7
      <3>2. PICK q \in 1..N : order[q] = k
        BY <3>1, <1>10
      <3>3. read[q] = f
        BY <3>2, <2>1, <1>11
      <3>4. ~(q \in 1..L)
        BY <3>3, <1>13, <1>14 DEF Range
      <3>5. L < q /\ L < N
        BY <3>4, <1>10, <1>12
      <3>6. L = limit /\ limit # 0
        BY <3>5, <1>12
      <3>7. ASSUME NEW i \in 1..L PROVE Later(s[i].at, f.at)
        <4>1. i \in 1..N /\ i < q /\ s[i] = read[i]
          BY <3>5, <1>12, <1>13
        <4>2. order[i] < order[q]
          BY <4>1, <3>2, <1>10
        <4>3. Later(walked[order[i]].at, walked[order[q]].at)
          BY <4>1, <4>2, <1>2, <1>11
        <4>4. QED
          BY <4>1, <4>3, <3>2, <2>1, <1>11
      <3>8. QED
        BY <3>6, <3>7, <1>12
    <2>3. CASE k \notin 1..m
      <3>1. m < k /\ m < n /\ m \in Nat /\ n \in Nat
        BY <2>3, <1>2, <1>4
      <3>2. m = most /\ limit # 0 /\ m = limit + Spare
        BY <3>1, <1>1, <1>2
      <3>3. ASSUME NEW i \in 1..m PROVE i \in 1..n /\ Later(walked[i].at, f.at)
        BY <3>1, <2>1, <1>2
      <3>4. \A i \in 1..L : Later(s[i].at, f.at)
        <4> SUFFICES ASSUME NEW i \in 1..L PROVE Later(s[i].at, f.at)
          OBVIOUS
        <4>1. i \in 1..N /\ s[i] = walked[order[i]] /\ order[i] \in 1..m
          BY <1>11, <1>13
        <4>2. QED
          BY <4>1, <3>3
      <3>5. ASSUME L < limit PROVE Cardinality(Unreadable(files)) > Spare
        <4> DEFINE rest == (1..m) \ kept
                   file == [i \in rest |-> walked[i]]
        <4>1. L = N /\ N < limit
          BY <3>5, <1>10, <1>12
        <4>2. ASSUME NEW i \in rest PROVE walked[i] \in Unreadable(files)
          <5>1. i \in 1..n /\ Later(walked[i].at, f.at) /\ walked[i] \in files /\ walked[i].at \in Moment
            BY <3>3, <1>8
          <5>2. walked[i] \notin wanted
            BY <1>7
          <5>3. f.at \in Moment /\ (since = None \/ ~Later(since, f.at))
            BY <1>5 DEF Wanted, wanted
          <5>4. since = None \/ ~Later(since, walked[i].at)
            BY <5>1, <5>3, LaterOrders
          <5>5. QED
            BY <5>1, <5>2, <5>4 DEF Wanted, Unreadable, wanted
        <4>3. file \in Injection(rest, Unreadable(files))
          <5>1. file \in [rest -> Unreadable(files)]
            BY <4>2
          <5>2. ASSUME NEW i \in rest, NEW j \in rest, walked[i] = walked[j] PROVE i = j
            <6>1. i \in 1..n /\ j \in 1..n /\ walked[i].at \in Moment
              BY <3>3, <1>8
            <6>2. ~Later(walked[i].at, walked[j].at) /\ ~Later(walked[j].at, walked[i].at)
              BY <6>1, <5>2, LaterOrders
            <6>3. ~(i < j) /\ ~(j < i)
              BY <6>1, <6>2, <1>2
            <6>4. QED
              BY <6>1, <6>3
          <5>3. QED
            BY <5>1, <5>2 DEF Injection, IsInjective
        <4>4. IsFiniteSet(Unreadable(files)) /\ Cardinality(Unreadable(files)) \in Nat
          <5>1. Unreadable(files) \in SUBSET files /\ IsFiniteSet(files)
            BY DEF Unreadable, Dated
          <5>2. IsFiniteSet(Unreadable(files))
            BY <5>1, FS_Subset
          <5>3. QED
            BY <5>2, FS_CardinalityType
        <4>5. Cardinality(rest) <= Cardinality(Unreadable(files))
          BY <4>3, <4>4, FS_Injection
        <4>6. Cardinality(rest) = m - N
          <5>1. IsFiniteSet(1..m) /\ Cardinality(1..m) = m
            BY <3>1, FS_Interval
          <5>2. IsFiniteSet(kept)
            BY <5>1, <1>4, FS_Subset
          <5>3. Cardinality(rest) = Cardinality(1..m) - Cardinality((1..m) \cap kept)
            BY <5>1, <5>2, FS_Difference
          <5>4. (1..m) \cap kept = kept
            BY <1>4
          <5>5. QED
            BY <5>1, <5>3, <5>4 DEF N
        <4>7. QED
          BY <4>1, <4>4, <4>5, <4>6, <3>2, <1>10, <1>12
      <3>6. QED
        BY <3>2, <3>4, <3>5
    <2>4. QED
      BY <2>2, <2>3
  <1>17. QED
    BY <1>12, <1>14, <1>15, <1>16 DEF AreNewest, s, wanted

(***************************************************************************)
(* What is sorted                                                          *)
(***************************************************************************)
\* B says which go after which: never both ways, and what goes after another goes after
\* a third or the third after that other.
WeakOrder(B, n) ==
  /\ \A i, j \in 1..n : j \in B[i] => i \notin B[j]
  /\ \A i, j, k \in 1..n : j \in B[i] => k \in B[i] \/ j \in B[k]

\* t has the elements of s, each once, at the places given.
Arranges(order, place, t, s, n, T) ==
  /\ order \in [1..n -> 1..n] /\ place \in [1..n -> 1..n]
  /\ \A i \in 1..n : order[place[i]] = i
  /\ t = [k \in 1..n |-> s[order[k]]] /\ t \in [1..n -> T]

LEMMA SortedIs ==
  ASSUME NEW T, NEW n, NEW s, IsList(s, n, T), NEW B, WeakOrder(B, n)
  PROVE  \E order, place : /\ Arranges(order, place, Sorted(s, B), s, n, T)
                           /\ \A i, j \in 1..n : i < j => order[i] \notin B[order[j]]
  <1> DEFINE after(i, j) == j \in B[i] \/ (i \notin B[j] /\ i < j)
             R == {e \in (1..Len(s)) \X (1..Len(s)) : after(e[1], e[2])}
             order == InOrder(DOMAIN s, R)
             place == [i \in 1..n |-> CHOOSE k \in 1..n : order[k] = i]
  <1>1. n \in Nat /\ s \in [1..n -> T] /\ DOMAIN s = 1..n /\ Len(s) = n
    BY DEF IsList
  <1>2. \A i, j \in 1..n : <<i, j>> \in R <=> after(i, j)
    BY <1>1
  <1>3. Sorted(s, B) = [k \in DOMAIN order |-> s[order[k]]]
    BY Zenon DEF Sorted, Picked
  <1> HIDE DEF R
  <1>4. Orders(R, 1..n)
    <2>1. \A i \in 1..n : ~after(i, i)
      BY DEF WeakOrder
    <2>2. \A i, j \in 1..n : i # j => after(i, j) \/ after(j, i)
      OBVIOUS
    <2>3. ASSUME NEW i \in 1..n, NEW j \in 1..n, NEW k \in 1..n, after(i, j), after(j, k)
          PROVE  after(i, k)
      <3>1. /\ j \in B[i] => i \notin B[j] /\ (k \in B[i] \/ j \in B[k])
            /\ k \in B[j] => j \notin B[k] /\ (i \in B[j] \/ k \in B[i])
            /\ i \in B[k] => k \notin B[i] /\ (j \in B[k] \/ i \in B[j])
        BY DEF WeakOrder
      <3>2. i \in Nat /\ j \in Nat /\ k \in Nat
        OBVIOUS
      <3>3. QED
        BY <2>3, <3>1, <3>2
    <2> HIDE DEF after
    <2>4. QED
      BY <2>1, <2>2, <2>3, <1>2 DEF Orders
  <1>5. IsFiniteSet(1..n) /\ Cardinality(1..n) = n
    BY <1>1, FS_Interval
  <1>6. Lines(order, 1..n, R)
    BY <1>1, <1>4, <1>5, InOrderIs
  <1> HIDE DEF order
  <1>7. /\ order \in [1..n -> 1..n]
        /\ \A i \in 1..n : \E k \in 1..n : order[k] = i
        /\ \A i, j \in 1..n : i < j => <<order[i], order[j]>> \in R
    BY <1>5, <1>6 DEF Lines
  <1>8. /\ place \in [1..n -> 1..n]
        /\ \A i \in 1..n : order[place[i]] = i
    BY <1>7
  <1>9. Sorted(s, B) = [k \in 1..n |-> s[order[k]]]
    BY <1>3, <1>7
  <1>10. [k \in 1..n |-> s[order[k]]] \in [1..n -> T]
    BY <1>1, <1>7
  <1> HIDE DEF place
  <1>11. Arranges(order, place, Sorted(s, B), s, n, T)
    BY <1>7, <1>8, <1>9, <1>10 DEF Arranges
  <1>12. ASSUME NEW i \in 1..n, NEW j \in 1..n, i < j PROVE order[i] \notin B[order[j]]
    <2>1. order[i] \in 1..n /\ order[j] \in 1..n /\ after(order[i], order[j])
      BY <1>2, <1>7, <1>12
    <2>2. QED
      BY <2>1 DEF WeakOrder
  <1>13. QED
    BY <1>11, <1>12

LEMMA ByTimeIs ==
  ASSUME NEW T, NEW n, NEW s, IsList(s, n, T), \A i \in 1..n : s[i].at \in Moment
  PROVE  \E order, place : /\ Arranges(order, place, ByTime(s), s, n, T)
                           /\ \A i, j \in 1..n : i < j => ~Later(ByTime(s)[j].at, ByTime(s)[i].at)
  <1> DEFINE B == [i \in DOMAIN s |-> {j \in DOMAIN s : Later(s[i].at, s[j].at)}]
  <1>1. n \in Nat /\ s \in [1..n -> T] /\ DOMAIN s = 1..n
    BY DEF IsList
  <1>2. \A i, j \in 1..n : j \in B[i] <=> Later(s[i].at, s[j].at)
    BY <1>1
  <1>3. ByTime(s) = Sorted(s, B)
    BY Zenon DEF ByTime
  <1> HIDE DEF B
  <1>4. WeakOrder(B, n)
    <2>1. ASSUME NEW i \in 1..n, NEW j \in 1..n, j \in B[i] PROVE i \notin B[j]
      <3>1. s[i].at \in Moment /\ s[j].at \in Moment /\ Later(s[i].at, s[j].at)
        BY <1>2, <2>1
      <3>2. ~Later(s[j].at, s[i].at)
        BY <3>1, LaterOrders
      <3>3. QED
        BY <3>2, <1>2
    <2>2. ASSUME NEW i \in 1..n, NEW j \in 1..n, NEW k \in 1..n, j \in B[i], k \notin B[i]
          PROVE  j \in B[k]
      <3>1. /\ s[i].at \in Moment /\ s[j].at \in Moment /\ s[k].at \in Moment
            /\ Later(s[i].at, s[j].at) /\ ~Later(s[i].at, s[k].at)
        BY <1>2, <2>2
      <3>2. s[i].at = s[k].at \/ Later(s[k].at, s[i].at)
        BY <3>1, LaterOrders
      <3>3. Later(s[k].at, s[j].at)
        BY <3>1, <3>2, LaterOrders
      <3>4. QED
        BY <3>3, <1>2
    <2>3. QED
      BY <2>1, <2>2 DEF WeakOrder
  <1>5. PICK order, place : /\ Arranges(order, place, Sorted(s, B), s, n, T)
                            /\ \A i, j \in 1..n : i < j => order[i] \notin B[order[j]]
    BY <1>4, SortedIs
  <1>6. ASSUME NEW i \in 1..n, NEW j \in 1..n, i < j PROVE ~Later(ByTime(s)[j].at, ByTime(s)[i].at)
    <2>1. ByTime(s)[i] = s[order[i]] /\ ByTime(s)[j] = s[order[j]]
      BY <1>3, <1>5 DEF Arranges
    <2>2. order[i] \in 1..n /\ order[j] \in 1..n /\ order[i] \notin B[order[j]]
      BY <1>5, <1>6 DEF Arranges
    <2>3. QED
      BY <2>1, <2>2, <1>2
  <1>7. QED
    BY <1>3, <1>5, <1>6

(***************************************************************************)
(* The feed                                                                *)
(***************************************************************************)
Readable(files) == {g \in files : g.ok}
NewestAt(files) == Latest({f.at : f \in Readable(files)})

LEMMA NewestIs ==
  ASSUME NEW files, Dated(files), None \notin Moment, Spare \in Nat
  PROVE  LET s == ListCheckpoints(files, None, 1)
         IN /\ s # <<>> => s[1].at \in Moment
            /\ NewestAt(files) # None => NewestAt(files) \in Moment
            /\ NewestAt(files) # None /\ Cardinality(Unreadable(files)) <= Spare =>
                 s # <<>> /\ s[1].at = NewestAt(files)
  <1> DEFINE s == ListCheckpoints(files, None, 1)
             readable == Readable(files)
             moments == {f.at : f \in readable}
             newest == NewestAt(files)
  <1>1. AreNewest(s, files, None, 1)
    BY CheckpointsAre
  <1>2. Wanted(files, None) = readable /\ readable \in SUBSET files
    BY DEF Wanted, Readable
  <1>3. newest = Latest(moments)
    BY DEF NewestAt
  <1>4. \A f \in files : f.at \in Moment
    BY DEF Dated
  <1> HIDE DEF s, readable
  <1>5. moments \subseteq Moment /\ moments \ {None} = moments
    BY <1>2, <1>4
  <1>6. IsFiniteSet(moments)
    <2> DEFINE at == [f \in readable |-> f.at]
    <2>1. IsFiniteSet(readable)
      BY <1>2, FS_Subset DEF Dated
    <2>2. at \in Surjection(readable, moments)
      BY DEF Surjection
    <2> HIDE DEF at, moments
    <2>3. QED
      BY <2>1, <2>2, FS_Surjection
  <1>7. newest # None => moments # {}
    BY <1>3, <1>5 DEF Latest
  <1>8. newest # None => newest \in moments /\ \A b \in moments : ~Later(b, newest)
    <2> HIDE DEF moments, newest
    <2>1. QED
      BY <1>3, <1>5, <1>6, <1>7, LatestIs
  <1>9. /\ s \in [1..Len(s) -> readable] /\ Len(s) \in Nat /\ Len(s) <= 1
        /\ \A f \in readable \ Range(s) :
             /\ \A i \in 1..Len(s) : Later(s[i].at, f.at)
             /\ Len(s) < 1 => Cardinality(Unreadable(files)) > Spare
    BY <1>1, <1>2 DEF AreNewest
  <1>10. s # <<>> => 1 \in 1..Len(s) /\ s[1] \in readable
    BY <1>9
  <1>11. ASSUME newest # None, Cardinality(Unreadable(files)) <= Spare
         PROVE  s # <<>> /\ s[1].at = newest
    <2>1. PICK f \in readable : f.at = newest
      BY <1>8, <1>11
    <2>2. Cardinality(Unreadable(files)) \in Nat
      <3>1. Unreadable(files) \in SUBSET files /\ IsFiniteSet(files)
        BY DEF Unreadable, Dated
      <3>2. QED
        BY <3>1, FS_Subset, FS_CardinalityType
    <2>3. f \in Range(s)
      <3> SUFFICES ASSUME f \notin Range(s) PROVE FALSE
        OBVIOUS
      <3>1. Len(s) = 1
        BY <1>9, <1>11, <2>2
      <3>2. Later(s[1].at, newest) /\ s[1] \in readable
        BY <1>9, <2>1, <3>1
      <3>3. s[1].at \in moments
        BY <3>2
      <3>4. QED
        BY <3>2, <3>3, <1>8, <1>11
    <2>4. PICK i \in 1..Len(s) : s[i] = f
      BY <2>3, <1>9 DEF Range
    <2>5. i = 1 /\ s # <<>>
      BY <2>4, <1>9
    <2>6. QED
      BY <2>1, <2>4, <2>5
  <1>12. QED
    BY <1>2, <1>4, <1>5, <1>8, <1>10, <1>11 DEF s

\* The members of a finite set as some sequence.
LEMMA SetToSeqIs ==
  ASSUME NEW S, IsFiniteSet(S)
  PROVE  /\ IsList(SetToSeq(S), Cardinality(S), S)
         /\ \A x \in S : \E i \in 1..Cardinality(S) : SetToSeq(S)[i] = x
  <1> DEFINE N == Cardinality(S)
             s == SetToSeq(S)
  <1>1. N \in Nat /\ ExistsBijection(1..N, S)
    BY FS_CardinalityType
  <1>2. \E f \in [1..N -> S] : IsInjective(f)
    BY <1>1 DEF ExistsBijection, Bijection, Injection
  <1>3. s \in [1..N -> S] /\ IsInjective(s)
    BY <1>2 DEF SetToSeq
  <1>4. IsFiniteSet(1..N) /\ Cardinality(1..N) = N
    BY <1>1, FS_Interval
  <1> HIDE DEF s
  <1>5. s \in Injection(1..N, S)
    BY <1>3 DEF Injection
  <1>6. s \in Surjection(1..N, S)
    BY <1>4, <1>5, FS_Injection
  <1>7. QED
    BY <1>1, <1>3, <1>6 DEF IsList, Surjection, s

\* What the feed shows of the projects.
IsFeed(s, projects, since, limit) ==
  /\ IsList(s, Len(s), [project : projects, at : Moment])
  /\ Len(s) <= limit /\ Falling(s)
  /\ \A p \in projects : Shows(s, DOMAIN s, p, since, limit)

\* A row is shown if it is among the first, and if not no row shown is older.
LEMMA RowShown ==
  ASSUME NEW T, NEW n, NEW s, IsList(s, n, T), \A i \in 1..n : s[i].at \in Moment,
         NEW limit \in Nat, NEW k \in 1..n
  PROVE  LET t == Firsts(ByTime(s), limit)
         IN \/ \E i \in 1..Len(t) : t[i] = s[k]
            \/ Len(t) = limit /\ \A i \in 1..Len(t) : ~Later(s[k].at, t[i].at)
  <1> DEFINE r == ByTime(s)
             t == Firsts(r, limit)
             m == Lesser(limit, n)
  <1>1. PICK order, place : /\ Arranges(order, place, r, s, n, T)
                            /\ \A i, j \in 1..n : i < j => ~Later(r[j].at, r[i].at)
    BY ByTimeIs
  <1>2. n \in Nat
    BY DEF IsList
  <1>3. place[k] \in 1..n /\ r[place[k]] = s[k] /\ IsList(r, n, T)
    BY <1>1, <1>2 DEF Arranges, IsList
  <1>4. Begins(t, r, limit, n, T)
    BY <1>3, FirstsAre, Zenon
  <1> HIDE DEF t, r
  <1>5. /\ m \in 0..n /\ Len(t) = m /\ \A i \in 1..m : i \in 1..n /\ t[i] = r[i]
        /\ m < n => m = limit
    BY <1>2, <1>4 DEF Begins, Lesser
  <1> HIDE DEF m
  <1>6. ASSUME place[k] \in 1..m PROVE \E i \in 1..Len(t) : t[i] = s[k]
    BY <1>3, <1>5, <1>6
  <1>7. ASSUME place[k] \notin 1..m
        PROVE  Len(t) = limit /\ \A i \in 1..Len(t) : ~Later(s[k].at, t[i].at)
    <2>1. m < place[k] /\ m < n
      BY <1>2, <1>3, <1>5, <1>7
    <2>2. ASSUME NEW i \in 1..m PROVE ~Later(s[k].at, t[i].at)
      <3>1. i \in 1..n /\ i < place[k] /\ t[i] = r[i]
        BY <2>1, <1>2, <1>3, <1>5
      <3>2. QED
        BY <3>1, <1>1, <1>3
    <2>3. QED
      BY <2>1, <2>2, <1>5
  <1>8. QED
    BY <1>6, <1>7 DEF t, r

\* The first rows by time are rows, and fall.
LEMMA RowsFall ==
  ASSUME NEW T, NEW n, NEW s, IsList(s, n, T), \A i \in 1..n : s[i].at \in Moment,
         NEW limit \in Nat
  PROVE  LET t == Firsts(ByTime(s), limit)
         IN IsList(t, Len(t), T) /\ Len(t) <= limit /\ Falling(t)
  <1> DEFINE r == ByTime(s)
             t == Firsts(r, limit)
             m == Lesser(limit, n)
  <1>1. PICK order, place : /\ Arranges(order, place, r, s, n, T)
                            /\ \A i, j \in 1..n : i < j => ~Later(r[j].at, r[i].at)
    BY ByTimeIs
  <1>2. n \in Nat
    BY DEF IsList
  <1>3. IsList(r, n, T)
    BY <1>1, <1>2 DEF Arranges, IsList
  <1>4. Begins(t, r, limit, n, T)
    BY <1>3, FirstsAre, Zenon
  <1> HIDE DEF t, r
  <1>5. /\ m \in 0..n /\ t \in [1..m -> T] /\ \A i \in 1..m : i \in 1..n /\ t[i] = r[i]
        /\ m <= limit
    BY <1>2, <1>4 DEF Begins, Lesser
  <1> HIDE DEF m
  <1>6. Len(t) = m /\ DOMAIN t = 1..m /\ m \in Nat
    BY <1>2, <1>5
  <1>7. Falling(t)
    BY <1>1, <1>5, <1>6 DEF Falling
  <1>8. QED
    BY <1>5, <1>6, <1>7 DEF IsList, t, r

LEMMA FeedIs ==
  ASSUME NEW projects, Followed(projects), NEW since \in Moment \cup {None}, None \notin Moment,
         NEW limit \in Nat, Spare \in Nat
  PROVE  IsFeed(BuildRecent(projects, since, limit), projects, since, limit)
  <1> DEFINE first(p) == ListCheckpoints(p.files, None, 1)
             at(p) == IF first(p) # <<>> THEN first(p)[1].at ELSE p.active
             those == {p \in projects : at(p) # None /\ (since = None \/ ~Later(since, at(p)))}
             shown == SetToSeq(those)
             rows == [i \in DOMAIN shown |-> [project |-> shown[i], at |-> at(shown[i])]]
             n == Cardinality(those)
             T == [project : projects, at : Moment]
             s == BuildRecent(projects, since, limit)
  <1>1. s = Firsts(ByTime(rows), limit)
    BY Zenon DEF BuildRecent
  <1>2. \A p \in projects : Dated(p.files) /\ p.active \in Moment \cup {None}
    BY DEF Followed
  <1>3. \A p \in projects :
          /\ first(p) # <<>> => first(p)[1].at \in Moment
          /\ NewestAt(p.files) # None => NewestAt(p.files) \in Moment
          /\ NewestAt(p.files) # None /\ Cardinality(Unreadable(p.files)) <= Spare =>
               first(p) # <<>> /\ first(p)[1].at = NewestAt(p.files)
    BY <1>2, NewestIs
  <1> HIDE DEF first
  <1>4. \A p \in those : p \in projects /\ at(p) \in Moment
    BY <1>2, <1>3
  <1>5. those \in SUBSET projects /\ IsFiniteSet(those)
    <2>1. those \in SUBSET projects /\ IsFiniteSet(projects)
      BY DEF Followed
    <2>2. QED
      BY <2>1, FS_Subset
  <1>6. \A p \in projects : p \in those <=> at(p) # None /\ (since = None \/ ~Later(since, at(p)))
    OBVIOUS
  <1>7. ASSUME NEW p \in projects, NewestAt(p.files) # None, Cardinality(Unreadable(p.files)) <= Spare
        PROVE  at(p) = NewestAt(p.files) /\ at(p) # None
    BY <1>3, <1>7
  <1> HIDE DEF those, at, s
  <1>8. /\ IsList(shown, n, those)
        /\ \A p \in those : \E i \in 1..n : shown[i] = p
    BY <1>5, SetToSeqIs
  <1> HIDE DEF shown
  <1>9. n \in Nat /\ shown \in [1..n -> those]
    BY <1>8 DEF IsList
  <1> HIDE DEF n
  <1>10. \A i \in 1..n : shown[i] \in those /\ shown[i] \in projects /\ at(shown[i]) \in Moment
    BY <1>4, <1>9
  <1>11. /\ rows \in [1..n -> T]
         /\ \A i \in 1..n : rows[i].project = shown[i] /\ rows[i].at = at(shown[i])
    BY <1>9, <1>10
  <1> HIDE DEF rows
  <1>12. IsList(rows, n, T) /\ \A i \in 1..n : rows[i].at \in Moment
    BY <1>9, <1>10, <1>11 DEF IsList
  <1> HIDE DEF T
  <1>13. IsList(s, Len(s), T) /\ Len(s) <= limit /\ Falling(s)
    BY <1>1, <1>12, RowsFall
  <1>14. DOMAIN s = 1..Len(s)
    BY <1>13 DEF IsList
  <1>15. ASSUME NEW p \in projects PROVE Shows(s, DOMAIN s, p, since, limit)
    <2> DEFINE newest == Latest({f.at : f \in {g \in p.files : g.ok}})
    <2>1. newest = NewestAt(p.files) /\ {f \in p.files : ~f.ok} = Unreadable(p.files)
      BY DEF NewestAt, Readable, Unreadable
    <2>2. SUFFICES ASSUME newest # None, since = None \/ ~Later(since, newest),
                          Cardinality(Unreadable(p.files)) <= Spare
                   PROVE  \/ \E i \in 1..Len(s) : s[i].project = p /\ s[i].at = newest
                          \/ Len(s) = limit /\ \A i \in 1..Len(s) : ~Later(newest, s[i].at)
      BY <1>14, <2>1 DEF Shows
    <2> HIDE DEF newest
    <2>3. at(p) = newest /\ p \in those
      BY <1>6, <1>7, <2>1, <2>2
    <2>4. PICK k \in 1..n : shown[k] = p
      BY <2>3, <1>8
    <2>5. rows[k].project = p /\ rows[k].at = newest
      BY <2>3, <2>4, <1>11
    <2>6. \/ \E i \in 1..Len(s) : s[i] = rows[k]
          \/ Len(s) = limit /\ \A i \in 1..Len(s) : ~Later(rows[k].at, s[i].at)
      BY <1>1, <1>12, RowShown
    <2>7. QED
      BY <2>5, <2>6
  <1>16. QED
    BY <1>13, <1>15 DEF IsFeed, s, T

(***************************************************************************)
(* The feed of all profiles                                                *)
(***************************************************************************)
\* As many rows as are shown leave no room for an older one.
LEMMA RowsCrowd ==
  ASSUME NEW T, NEW n, NEW s, IsList(s, n, T), \A i \in 1..n : s[i].at \in Moment,
         NEW limit \in Nat, NEW x \in Moment, NEW j \in Nat, j + limit <= n,
         \A k \in 1..limit : ~Later(x, s[j + k].at)
  PROVE  LET t == Firsts(ByTime(s), limit)
         IN Len(t) = limit /\ \A i \in 1..Len(t) : ~Later(x, t[i].at)
  <1> DEFINE r == ByTime(s)
             t == Firsts(r, limit)
  <1>1. PICK order, place : /\ Arranges(order, place, r, s, n, T)
                            /\ \A i, k \in 1..n : i < k => ~Later(r[k].at, r[i].at)
    BY ByTimeIs
  <1>2. n \in Nat
    BY DEF IsList
  <1>3. IsList(r, n, T)
    BY <1>1, <1>2 DEF Arranges, IsList
  <1>4. Begins(t, r, limit, n, T)
    BY <1>3, FirstsAre, Zenon
  <1>a. \A i \in 1..n : place[i] \in 1..n /\ order[place[i]] = i /\ r[place[i]] = s[i]
    BY <1>1 DEF Arranges
  <1>b. \A i \in 1..n : r[i].at \in Moment
    BY <1>1 DEF Arranges
  <1> HIDE DEF t, r
  <1>5. Lesser(limit, n) = limit
    BY <1>2 DEF Lesser
  <1>6. Len(t) = limit /\ \A i \in 1..limit : i \in 1..n /\ t[i] = r[i]
    BY <1>4, <1>5 DEF Begins
  <1>7. ASSUME NEW i \in 1..limit, Later(x, r[i].at) PROVE FALSE
    <2>1. i \in 1..n /\ r[i].at \in Moment
      BY <1>6, <1>b
    <2>2. ASSUME NEW q \in 1..limit PROVE j + q \in 1..n /\ place[j + q] \in 1..(i - 1)
      <3>1. j + q \in 1..n
        BY <1>2
      <3>2. /\ place[j + q] \in 1..n /\ r[place[j + q]] = s[j + q] /\ s[j + q].at \in Moment
            /\ ~Later(x, s[j + q].at)
        BY <3>1, <1>a
      <3>3. place[j + q] # i
        BY <3>2, <1>7
      <3>4. ~(i < place[j + q])
        <4> SUFFICES ASSUME i < place[j + q] PROVE FALSE
          OBVIOUS
        <4>1. ~Later(s[j + q].at, r[i].at)
          BY <1>1, <2>1, <3>2
        <4>2. r[i].at = s[j + q].at \/ Later(r[i].at, s[j + q].at)
          BY <4>1, <2>1, <3>2, LaterOrders
        <4>3. Later(x, s[j + q].at)
          BY <4>2, <1>7, <2>1, <3>2, LaterOrders
        <4>4. QED
          BY <4>3, <3>2
      <3>5. QED
        BY <3>1, <3>2, <3>3, <3>4, <2>1
    <2> DEFINE g == [q \in 1..limit |-> place[j + q]]
    <2>3. g \in [1..limit -> 1..(i - 1)]
      BY <2>2
    <2>4. ASSUME NEW p \in 1..limit, NEW q \in 1..limit, g[p] = g[q] PROVE p = q
      <3>1. place[j + p] = place[j + q]
        BY <2>4
      <3>2. j + p = j + q
        BY <3>1, <2>2, <1>a
      <3>3. QED
        BY <3>2
    <2>5. g \in Injection(1..limit, 1..(i - 1))
      BY <2>3, <2>4 DEF Injection, IsInjective
    <2> HIDE DEF g
    <2>6. /\ IsFiniteSet(1..(i - 1)) /\ Cardinality(1..(i - 1)) = i - 1
          /\ Cardinality(1..limit) = limit
      BY FS_Interval
    <2>7. Cardinality(1..limit) <= Cardinality(1..(i - 1))
      BY <2>5, <2>6, FS_Injection
    <2>8. QED
      BY <2>6, <2>7
  <1>8. QED
    BY <1>6, <1>7 DEF t, r

LEMMA RowTagged ==
  ASSUME NEW P, NEW row \in [project : P, at : Moment], NEW name
  PROVE  OfProfile(row, name) = [project |-> row.project, at |-> row.at, profile |-> name]
  <1>1. DOMAIN row = {"project", "at"}
    OBVIOUS
  <1>2. QED
    BY <1>1 DEF OfProfile

PageOf(s, views) ==
  /\ Falling(s)
  /\ \A v \in Range(views) : \A p \in v.projects : p.status # "archived" =>
       Shows(s, {i \in DOMAIN s : s[i].profile = v.name}, p, None, RecentPageSize)

LEMMA RecentPageIs ==
  ASSUME NEW views, views \in Seq(Range(views)), \A v \in Range(views) : Followed(v.projects),
         None \notin Moment, RecentPageSize \in Nat, Spare \in Nat
  PROVE  PageOf(RecentPage(views), views)
  <1> DEFINE limit == RecentPageSize
             n == Len(views)
             some(i) == {p \in views[i].projects : p.status # "archived"}
             rows == [i \in DOMAIN views |-> BuildRecent(some(i), None, limit)]
             seqs == [i \in DOMAIN views |-> [k \in DOMAIN rows[i] |-> OfProfile(rows[i][k], views[i].name)]]
             P == UNION {v.projects : v \in Range(views)}
             T == [project : P, at : Moment, profile : {v.name : v \in Range(views)}]
             t == FlattenSeq(seqs)
             s == RecentPage(views)
  <1>1. n \in Nat /\ DOMAIN views = 1..n /\ \A i \in 1..n : views[i] \in Range(views)
    BY DEF Range
  <1>2. s = Firsts(ByTime(t), limit)
    BY Zenon DEF RecentPage, Tagged
  <1>3. ASSUME NEW i \in 1..n
        PROVE  /\ rows[i] = BuildRecent(some(i), None, limit)
               /\ IsFeed(rows[i], some(i), None, limit)
    <2>1. Followed(views[i].projects)
      BY <1>1
    <2>2. some(i) \in SUBSET views[i].projects
      OBVIOUS
    <2> HIDE DEF some
    <2>3. IsFiniteSet(some(i))
      BY <2>1, <2>2, FS_Subset DEF Followed
    <2>4. Followed(some(i))
      BY <2>1, <2>2, <2>3 DEF Followed
    <2>5. rows[i] = BuildRecent(some(i), None, limit)
      BY <1>1
    <2>6. QED
      BY <2>4, <2>5, FeedIs
  <1>4. ASSUME NEW i \in 1..n
        PROVE  /\ Len(rows[i]) \in Nat /\ DOMAIN rows[i] = 1..Len(rows[i])
               /\ \A k \in 1..Len(rows[i]) : rows[i][k] \in [project : some(i), at : Moment]
    BY <1>3 DEF IsFeed, IsList
  <1>5. ASSUME NEW i \in 1..n, NEW k \in 1..Len(rows[i])
        PROVE  /\ seqs[i][k] = [project |-> rows[i][k].project, at |-> rows[i][k].at,
                                profile |-> views[i].name]
               /\ seqs[i][k] \in T
    <2>1. rows[i][k] \in [project : some(i), at : Moment]
      BY <1>4
    <2>2. seqs[i][k] = OfProfile(rows[i][k], views[i].name)
      BY <1>1, <1>4
    <2> HIDE DEF rows, seqs
    <2>3. seqs[i][k] = [project |-> rows[i][k].project, at |-> rows[i][k].at, profile |-> views[i].name]
      BY <2>1, <2>2, RowTagged
    <2>4. rows[i][k].project \in P /\ rows[i][k].at \in Moment
      BY <2>1, <1>1
    <2>5. QED
      BY <2>3, <2>4, <1>1
  <1>6. \A i \in 1..n : Len(seqs[i]) = Len(rows[i]) /\ seqs[i] \in Seq(T)
    <2> SUFFICES ASSUME NEW i \in 1..n PROVE Len(seqs[i]) = Len(rows[i]) /\ seqs[i] \in Seq(T)
      OBVIOUS
    <2>1. seqs[i] = [k \in 1..Len(rows[i]) |-> OfProfile(rows[i][k], views[i].name)]
      BY <1>1, <1>4
    <2> HIDE DEF seqs, rows, T
    <2>2. \A k \in 1..Len(rows[i]) : seqs[i][k] \in T
      BY <1>5
    <2>3. seqs[i] \in [1..Len(rows[i]) -> T]
      BY <2>1, <2>2
    <2>4. \A m \in Nat : \A x \in [1..m -> T] : Len(x) = m /\ x \in Seq(T)
      OBVIOUS
    <2>5. Len(rows[i]) \in Nat
      BY <1>4
    <2>6. QED
      BY <2>3, <2>4, <2>5
  <1>7. seqs \in [1..n -> Seq(T)]
    <2> HIDE DEF rows, T
    <2>1. seqs = [i \in 1..n |-> [k \in DOMAIN rows[i] |-> OfProfile(rows[i][k], views[i].name)]]
      BY <1>1
    <2> HIDE DEF seqs
    <2>2. QED
      BY <2>1, <1>6
  <1> HIDE DEF rows, seqs, P, T, s, n
  <1>8. PICK f : Joins(f, n, T, seqs) /\ t = f[n]
    BY <1>1, <1>7, Flattened
  <1>9. Stays(f, n, T, seqs)
    BY <1>1, <1>7, <1>8, StaysJoined
  <1>10. t \in Seq(T)
    BY <1>1, <1>8 DEF Joins
  <1> HIDE DEF t
  <1>11. IsList(t, Len(t), T) /\ \A i \in 1..Len(t) : t[i].at \in Moment
    <2>1. Len(t) \in Nat /\ t \in [1..Len(t) -> T]
      BY <1>10
    <2>2. \A x \in T : x.at \in Moment
      BY DEF T
    <2>3. QED
      BY <2>1, <2>2 DEF IsList
  <1>12. Falling(s)
    BY <1>2, <1>11, RowsFall
  <1>13. IsList(s, Len(s), T)
    BY <1>2, <1>11, RowsFall
  <1>14. ASSUME NEW v \in Range(views), NEW p \in v.projects, p.status # "archived"
         PROVE  Shows(s, {i \in DOMAIN s : s[i].profile = v.name}, p, None, limit)
    <2> DEFINE newest == Latest({g.at : g \in {h \in p.files : h.ok}})
               few == Cardinality({g \in p.files : ~g.ok}) <= Spare
    <2>1. PICK i \in 1..n : views[i] = v
      BY <1>1 DEF Range
    <2>2. p \in some(i)
      BY <2>1, <1>14
    <2>3. IsFeed(rows[i], some(i), None, limit)
      BY <1>3
    <2>4. Shows(rows[i], DOMAIN rows[i], p, None, limit)
      BY <2>2, <2>3 DEF IsFeed
    <2>5. SUFFICES ASSUME newest # None, few
                   PROVE  \/ \E j \in 1..Len(s) : s[j].profile = v.name /\ s[j].project = p /\ s[j].at = newest
                          \/ Len(s) = limit /\ \A j \in 1..Len(s) : ~Later(newest, s[j].at)
      <3>1. DOMAIN s = 1..Len(s)
        BY <1>13 DEF IsList
      <3>2. QED
        BY <3>1, <2>5 DEF Shows
    <2>6. \/ \E k \in DOMAIN rows[i] : rows[i][k].project = p /\ rows[i][k].at = newest
          \/ Len(rows[i]) = limit /\ \A k \in DOMAIN rows[i] : ~Later(newest, rows[i][k].at)
      BY <2>4, <2>5 DEF Shows
    <2>a. newest \in Moment
      <3>1. Dated(p.files)
        BY DEF Followed
      <3>2. newest = NewestAt(p.files)
        BY DEF NewestAt, Readable
      <3>3. QED
        BY <3>1, <3>2, <2>5, NewestIs
    <2> HIDE DEF newest, few
    <2> DEFINE j == Len(f[i - 1])
    <2>7. /\ j \in Nat /\ j + Len(rows[i]) <= Len(t) /\ Len(rows[i]) \in Nat
          /\ \A k \in 1..Len(rows[i]) : /\ t[j + k] = seqs[i][k] /\ j + k \in 1..Len(t)
                                        /\ t[j + k].at = rows[i][k].at
                                        /\ t[j + k].project = rows[i][k].project
                                        /\ t[j + k].profile = v.name
      <3>1. /\ f[i - 1] \in Seq(T) /\ f[i] \in Seq(T)
            /\ Len(f[i]) = Len(f[i - 1]) + Len(seqs[i]) /\ Len(f[i]) <= Len(t)
            /\ \A k \in 1..Len(seqs[i]) : t[Len(f[i - 1]) + k] = seqs[i][k]
        BY <1>8, <1>9 DEF Stays
      <3>2. Len(seqs[i]) = Len(rows[i]) /\ Len(rows[i]) \in Nat /\ j \in Nat /\ Len(t) \in Nat
        BY <1>4, <1>6, <1>10, <3>1
      <3>a. Len(f[i]) = j + Len(rows[i]) /\ Len(f[i]) <= Len(t)
        BY <3>1, <3>2
      <3>b. \A k \in 1..Len(rows[i]) : t[j + k] = seqs[i][k]
        BY <3>1, <3>2
      <3> HIDE DEF j
      <3>3. /\ j + Len(rows[i]) <= Len(t)
            /\ \A k \in 1..Len(rows[i]) : t[j + k] = seqs[i][k] /\ j + k \in 1..Len(t)
        BY <3>2, <3>a, <3>b
      <3>4. \A k \in 1..Len(rows[i]) :
              seqs[i][k] = [project |-> rows[i][k].project, at |-> rows[i][k].at, profile |-> v.name]
        BY <1>5, <2>1
      <3>5. \A k \in 1..Len(rows[i]) : /\ seqs[i][k].at = rows[i][k].at
                                       /\ seqs[i][k].project = rows[i][k].project
                                       /\ seqs[i][k].profile = v.name
        <4> SUFFICES ASSUME NEW k \in 1..Len(rows[i])
                     PROVE  /\ seqs[i][k].at = rows[i][k].at
                            /\ seqs[i][k].project = rows[i][k].project
                            /\ seqs[i][k].profile = v.name
          OBVIOUS
        <4>1. seqs[i][k] = [project |-> rows[i][k].project, at |-> rows[i][k].at, profile |-> v.name]
          BY <3>4
        <4>2. QED
          BY <4>1
      <3>6. QED
        BY <3>2, <3>3, <3>5
    <2> HIDE DEF j
    <2>8. DOMAIN rows[i] = 1..Len(rows[i])
      BY <1>4
    <2>9. ASSUME NEW k \in DOMAIN rows[i], rows[i][k].project = p, rows[i][k].at = newest
          PROVE  \/ \E q \in 1..Len(s) : s[q].profile = v.name /\ s[q].project = p /\ s[q].at = newest
                 \/ Len(s) = limit /\ \A q \in 1..Len(s) : ~Later(newest, s[q].at)
      <3>1. /\ j + k \in 1..Len(t) /\ t[j + k].at = newest /\ t[j + k].project = p
            /\ t[j + k].profile = v.name
        BY <2>7, <2>8, <2>9
      <3>2. \/ \E q \in 1..Len(s) : s[q] = t[j + k]
            \/ Len(s) = limit /\ \A q \in 1..Len(s) : ~Later(t[j + k].at, s[q].at)
        BY <1>2, <1>11, <3>1, RowShown
      <3>3. QED
        BY <3>1, <3>2
    <2>10. ASSUME Len(rows[i]) = limit, \A k \in DOMAIN rows[i] : ~Later(newest, rows[i][k].at)
           PROVE  Len(s) = limit /\ \A q \in 1..Len(s) : ~Later(newest, s[q].at)
      <3>1. j + limit <= Len(t) /\ \A k \in 1..limit : ~Later(newest, t[j + k].at)
        BY <2>7, <2>8, <2>10
      <3>2. /\ Len(Firsts(ByTime(t), limit)) = limit
            /\ \A q \in 1..Len(Firsts(ByTime(t), limit)) : ~Later(newest, Firsts(ByTime(t), limit)[q].at)
        <4> HIDE DEF limit
        <4>1. limit \in Nat
          BY DEF limit
        <4>2. QED
          BY <1>11, <2>7, <2>a, <3>1, <4>1, RowsCrowd
      <3>3. QED
        BY <1>2, <3>2
    <2>11. QED
      BY <2>6, <2>9, <2>10
  <1>15. QED
    BY <1>12, <1>14 DEF PageOf, s

LEMMA CheckpointsKept ==
  FilesOfProjects /\ CheckpointsNewestFirst /\ [Next]_vars => CheckpointsNewestFirst'
  <1> SUFFICES ASSUME FilesOfProjects, CheckpointsNewestFirst, [Next]_vars
               PROVE  CheckpointsNewestFirst'
    OBVIOUS
  <1>1. CASE AskCheckpoints
    <2>1. PICK files \in Histories, since \in Sinces, limit \in Limits :
            /\ asked' = [kind |-> "checkpoints", files |-> files, since |-> since, limit |-> limit]
            /\ answer' = ListCheckpoints(files, since, limit)
      BY <1>1 DEF AskCheckpoints, Ask
    <2>2. AreNewest(answer', files, since, limit)
      BY <2>1, CheckpointsAre DEF FilesOfProjects
    <2>3. asked'.files = files /\ asked'.since = since /\ asked'.limit = limit
      BY <2>1
    <2>4. /\ DOMAIN answer' = 1..Len(answer') /\ Range(answer') \subseteq Wanted(files, since)
      BY <2>2 DEF AreNewest, Range
    <2>5. /\ Wanted(files, since) = {f \in files : f.ok /\ (since = None \/ ~Later(since, f.at))}
          /\ Unreadable(files) = {g \in files : ~g.ok}
      BY DEF Wanted, Unreadable
    <2>6. QED
      BY <2>2, <2>3, <2>4, <2>5 DEF CheckpointsNewestFirst, AreNewest
  <1>2. CASE UNCHANGED vars
    BY <1>2 DEF vars, CheckpointsNewestFirst
  <1>3. CASE Next /\ ~AskCheckpoints
    <2>1. asked'.kind # "checkpoints"
      BY <1>3, KindsAre DEF Next
    <2>2. QED
      BY <2>1 DEF CheckpointsNewestFirst
  <1>4. QED
    BY <1>1, <1>2, <1>3

LEMMA FeedKept == FilesOfProjects /\ FeedNewestFirst /\ [Next]_vars => FeedNewestFirst'
  <1> SUFFICES ASSUME FilesOfProjects, FeedNewestFirst, [Next]_vars PROVE FeedNewestFirst'
    OBVIOUS
  <1>1. CASE AskRecent
    <2>1. PICK projects \in Feeds, since \in Sinces, limit \in Limits \ {0} :
            /\ asked' = [kind |-> "recent", projects |-> projects, since |-> since, limit |-> limit]
            /\ answer' = BuildRecent(projects, since, limit)
      BY <1>1 DEF AskRecent, Ask
    <2>2. IsFeed(answer', projects, since, limit)
      BY <2>1, FeedIs DEF FilesOfProjects
    <2>3. asked'.projects = projects /\ asked'.since = since /\ asked'.limit = limit
      BY <2>1
    <2>4. QED
      BY <2>2, <2>3 DEF FeedNewestFirst, IsFeed
  <1>2. CASE UNCHANGED vars
    BY <1>2 DEF vars, FeedNewestFirst
  <1>3. CASE Next /\ ~AskRecent
    <2>1. asked'.kind # "recent"
      BY <1>3, KindsAre DEF Next
    <2>2. QED
      BY <2>1 DEF FeedNewestFirst
  <1>4. QED
    BY <1>1, <1>2, <1>3

LEMMA RecentPageKept == FilesOfProjects /\ PageNewestFirst /\ [Next]_vars => PageNewestFirst'
  <1> SUFFICES ASSUME FilesOfProjects, PageNewestFirst, [Next]_vars PROVE PageNewestFirst'
    OBVIOUS
  <1>1. CASE AskPage
    <2>1. PICK views \in ViewLists, request \in Requests :
            /\ asked' = [kind |-> "page", views |-> views, request |-> request, path |-> request.path]
            /\ answer' = Handle(views, request)
      BY <1>1 DEF AskPage, Ask
    <2>2. asked'.views = views /\ asked'.path = request.path
      BY <2>1
    <2>3. CASE request.path = "recent" /\ answer'.status = 200
      <3>1. request.method \in {"GET", "HEAD"}
        BY <2>1, <2>3 DEF Handle, Reply
      <3>2. answer' = Reply(200, RecentPage(views))
        BY <2>1, <2>3, <3>1 DEF Handle
      <3>3. PageOf(RecentPage(views), views)
        BY RecentPageIs DEF FilesOfProjects
      <3>4. answer'.body = RecentPage(views)
        BY <3>2 DEF Reply
      <3>5. QED
        BY <2>2, <3>3, <3>4 DEF PageNewestFirst, PageOf
    <2>4. CASE ~(request.path = "recent" /\ answer'.status = 200)
      BY <2>2, <2>4 DEF PageNewestFirst
    <2>5. QED
      BY <2>3, <2>4
  <1>2. CASE UNCHANGED vars
    BY <1>2 DEF vars, PageNewestFirst
  <1>3. CASE Next /\ ~AskPage
    <2>1. asked'.kind # "page"
      BY <1>3, OnlyPages
    <2>2. QED
      BY <2>1 DEF PageNewestFirst
  <1>4. QED
    BY <1>1, <1>2, <1>3

\* store.ts:211-216: for any files, limits and projects, however many of the files cannot
\* be read, what a list of checkpoints leaves out is older than what it has; and a feed,
\* of one profile or of all, has the newest checkpoint of a project or is full of others
\* no older, unless more of its files than the spare ones cannot be read.
THEOREM ListsTheNewest == ASSUME FilesOfProjects PROVE Spec => []NewestFirst
  <1>1. Init => NewestFirst
    BY DEF Init, Nothing, NewestFirst, CheckpointsNewestFirst, FeedNewestFirst, PageNewestFirst
  <1>2. NewestFirst /\ [Next]_vars => NewestFirst'
    BY CheckpointsKept, FeedKept, RecentPageKept DEF NewestFirst
  <1>3. QED
    BY <1>1, <1>2, PTL DEF Spec

(***************************************************************************)
(* The brief                                                               *)
(***************************************************************************)
\* t has of the elements of s the first of each key, in their order.
Once(o, t, s, n) ==
  /\ o.n \in Nat /\ o.at \in [1..o.n -> 1..n] /\ t = [q \in 1..o.n |-> s[o.at[q]]]
  /\ \A p, q \in 1..o.n : p < q => o.at[p] < o.at[q]
  /\ \A q \in 1..o.n : s[o.at[q]].key # None /\ \A j \in 1..(o.at[q] - 1) : s[j].key # s[o.at[q]].key
  /\ \A i \in 1..n : s[i].key # None => \E q \in 1..o.n : s[o.at[q]].key = s[i].key

LEMMA DedupeIs ==
  ASSUME NEW T, NEW n, NEW s, IsList(s, n, T)
  PROVE  \E o : Once(o, Dedupe(s), s, n) /\ IsList(Dedupe(s), o.n, T)
  <1> DEFINE first(i) == s[i].key # None /\ \A j \in 1..(i - 1) : s[j].key # s[i].key
             kept == {i \in 1..n : first(i)}
             N == Cardinality(kept)
             t == Dedupe(s)
  <1>1. n \in Nat /\ s \in [1..n -> T] /\ DOMAIN s = 1..n
    BY DEF IsList
  <1>2. t = Those(s, kept)
    BY <1>1 DEF Dedupe
  <1>3. kept \in SUBSET (1..n)
    OBVIOUS
  <1> HIDE DEF t
  <1>4. ASSUME NEW i \in 1..n, s[i].key # None PROVE \E k \in kept : s[k].key = s[i].key
    <2> DEFINE same == {j \in 1..n : s[j].key = s[i].key}
    <2>1. same \in SUBSET Nat /\ same # {}
      BY <1>1
    <2>2. PICK k \in same : \A j \in same : k <= j
      BY <2>1, Least
    <2>3. k \in 1..n /\ s[k].key = s[i].key
      BY <2>2
    <2>4. ASSUME NEW j \in 1..(k - 1) PROVE s[j].key # s[k].key
      <3>1. j \in 1..n /\ ~(k <= j)
        BY <1>1, <2>3
      <3>2. QED
        BY <2>2, <2>3, <3>1
    <2>5. QED
      BY <1>4, <2>3, <2>4
  <1>5. \A k \in kept : k \in 1..n /\ first(k)
    OBVIOUS
  <1> HIDE DEF kept
  <1>6. PICK order : /\ Picks(order, kept)
                     /\ Those(s, kept) = [k \in 1..N |-> s[order[k]]]
                     /\ Those(s, kept) \in [1..N -> T]
    BY <1>1, <1>3, ThoseAre
  <1>7. /\ N \in Nat /\ order \in [1..N -> kept]
        /\ \A k \in kept : \E i \in 1..N : order[i] = k
        /\ \A i, j \in 1..N : i < j => order[i] < order[j]
    BY <1>6 DEF Picks
  <1> HIDE DEF N
  <1> DEFINE o == [n |-> N, at |-> order]
  <1>8. Once(o, t, s, n)
    <2>1. order \in [1..N -> 1..n]
      BY <1>3, <1>7
    <2>2. \A q \in 1..N : first(order[q])
      BY <1>5, <1>7
    <2>3. \A i \in 1..n : s[i].key # None => \E q \in 1..N : s[order[q]].key = s[i].key
      BY <1>4, <1>7
    <2>4. o.n = N /\ o.at = order
      OBVIOUS
    <2> HIDE DEF o
    <2>5. QED
      BY <2>1, <2>2, <2>3, <2>4, <1>2, <1>6, <1>7 DEF Once
  <1>9. IsList(t, o.n, T)
    BY <1>2, <1>6, <1>7 DEF IsList
  <1>10. QED
    BY <1>8, <1>9 DEF t

\* What a list of a brief has of all that could be on it.
OnList(at, t, s, n, most) ==
  /\ Len(t) \in Nat /\ DOMAIN t = 1..Len(t) /\ at \in [1..Len(t) -> 1..n]
  /\ \A q \in 1..Len(t) : t[q] = s[at[q]] /\ t[q].key # None
  /\ \A p, q \in 1..Len(t) : p < q => at[p] < at[q]
  /\ \A q \in 1..Len(t) : \A j \in 1..(at[q] - 1) : s[j].key # t[q].key
  /\ \A i \in 1..n : s[i].key # None => Len(t) = most \/ \E q \in 1..Len(t) : t[q].key = s[i].key

LEMMA ListIs ==
  ASSUME NEW T, NEW n, NEW s, IsList(s, n, T), NEW most \in Nat
  PROVE  \E at : OnList(at, Firsts(Dedupe(s), most), s, n, most)
  <1> DEFINE d == Dedupe(s)
             t == Firsts(d, most)
  <1>1. PICK o : Once(o, d, s, n) /\ IsList(d, o.n, T)
    BY DedupeIs
  <1> DEFINE N == o.n
             order == o.at
             m == Lesser(most, N)
             at == [q \in 1..m |-> order[q]]
  <1>2. Begins(t, d, most, N, T)
    BY <1>1, FirstsAre, Zenon
  <1>3. /\ N \in Nat /\ order \in [1..N -> 1..n] /\ d = [q \in 1..N |-> s[order[q]]]
        /\ \A p, q \in 1..N : p < q => order[p] < order[q]
        /\ \A q \in 1..N : s[order[q]].key # None /\ \A j \in 1..(order[q] - 1) : s[j].key # s[order[q]].key
        /\ \A i \in 1..n : s[i].key # None => \E q \in 1..N : s[order[q]].key = s[i].key
    BY <1>1 DEF Once
  <1> HIDE DEF d, t, N, order
  <1>4. m \in 0..N /\ (m < N => m = most)
    BY <1>3 DEF Lesser
  <1>5. t \in [1..m -> T] /\ \A q \in 1..m : q \in 1..N /\ t[q] = d[q]
    BY <1>2 DEF Begins
  <1> HIDE DEF m
  <1>6. Len(t) = m /\ m \in Nat /\ DOMAIN t = 1..m
    BY <1>3, <1>4, <1>5
  <1>7. /\ at \in [1..m -> 1..n]
        /\ \A q \in 1..m : at[q] = order[q]
    BY <1>3, <1>5
  <1> HIDE DEF at
  <1>8. \A q \in 1..m : t[q] = s[order[q]] /\ q \in 1..N
    BY <1>3, <1>5
  <1>9. \A q \in 1..m : t[q] = s[at[q]] /\ t[q].key # None
    BY <1>3, <1>7, <1>8
  <1>10. \A p, q \in 1..m : p < q => at[p] < at[q]
    BY <1>3, <1>7, <1>8
  <1>11. ASSUME NEW q \in 1..m, NEW j \in 1..(at[q] - 1) PROVE s[j].key # t[q].key
    BY <1>3, <1>7, <1>8
  <1>12. ASSUME NEW i \in 1..n, s[i].key # None, m # most
         PROVE  \E q \in 1..m : t[q].key = s[i].key
    <2>1. PICK q \in 1..N : s[order[q]].key = s[i].key
      BY <1>3, <1>12
    <2>2. m = N
      BY <1>3, <1>4, <1>12
    <2>3. QED
      BY <2>1, <2>2, <1>8
  <1>13. OnList(at, t, s, n, most)
    BY <1>6, <1>7, <1>9, <1>10, <1>11, <1>12 DEF OnList
  <1>14. QED
    BY <1>13 DEF t, d

LEMMA IsSequence ==
  ASSUME NEW T, NEW n, NEW s, IsList(s, n, T)
  PROVE  s \in Seq(T) /\ Len(s) = n /\ n \in Nat /\ DOMAIN s = 1..n
  BY DEF IsList

\* What is collected of the checkpoints: each key of the first items.
Slots(lists) == Firsts(FlattenSeq(lists), CollectSlots)
Collects(c, f) ==
  /\ \A q \in 1..Len(c) : \E r \in DOMAIN f : f[r].key = c[q].key
  /\ \A r \in DOMAIN f : f[r].key # None => \E q \in 1..Len(c) : c[q].key = f[r].key

LEMMA CollectedAre ==
  ASSUME NEW T, NEW m \in Nat, NEW lists \in [1..m -> Seq(T)], CollectSlots \in Nat
  PROVE  /\ CollectRecent(lists) \in Seq(T)
         /\ Collects(CollectRecent(lists), Slots(lists))
  <1> DEFINE t == FlattenSeq(lists)
             f == Slots(lists)
             c == CollectRecent(lists)
  <1>1. PICK g : Joins(g, m, T, lists) /\ t = g[m]
    BY Flattened
  <1>2. t \in Seq(T)
    BY <1>1 DEF Joins
  <1>3. f = Firsts(t, CollectSlots) /\ c = Dedupe(f)
    BY DEF Slots, CollectRecent
  <1> HIDE DEF t, f, c
  <1>4. IsList(t, Len(t), T)
    BY <1>2 DEF IsList
  <1>5. Begins(f, t, CollectSlots, Len(t), T)
    BY <1>3, <1>4, FirstsAre, Zenon
  <1> DEFINE n == Lesser(CollectSlots, Len(t))
  <1>6. IsList(f, n, T)
    <2>1. Len(t) \in Nat
      BY <1>2
    <2>2. QED
      BY <1>5, <2>1 DEF Begins, IsList
  <1> HIDE DEF n
  <1>7. PICK o : Once(o, c, f, n) /\ IsList(c, o.n, T)
    BY <1>3, <1>6, DedupeIs
  <1>8. c \in Seq(T) /\ Len(c) = o.n
    BY <1>7, IsSequence
  <1>9. DOMAIN f = 1..n
    BY <1>6 DEF IsList
  <1>10. \A q \in 1..o.n : o.at[q] \in DOMAIN f /\ c[q] = f[o.at[q]]
    BY <1>7, <1>9 DEF Once
  <1>11. \A r \in DOMAIN f : f[r].key # None => \E q \in 1..o.n : f[o.at[q]].key = f[r].key
    BY <1>7, <1>9 DEF Once
  <1>a. \A q \in 1..Len(c) : \E r \in DOMAIN f : f[r].key = c[q].key
    BY <1>8, <1>10
  <1>b. ASSUME NEW r \in DOMAIN f, f[r].key # None PROVE \E q \in 1..Len(c) : c[q].key = f[r].key
    <2>1. PICK q \in 1..o.n : f[o.at[q]].key = f[r].key
      BY <1>11, <1>b
    <2>2. c[q].key = f[r].key
      BY <2>1, <1>10
    <2>3. QED
      BY <2>1, <2>2, <1>8
  <1>12. Collects(c, f)
    BY <1>a, <1>b DEF Collects
  <1>13. QED
    BY <1>8, <1>12 DEF c, f

SomeOf(t, s, places, T) ==
  /\ t \in Seq(T)
  /\ \A i \in DOMAIN t : \E k \in places : t[i] = s[k]
  /\ \A k \in places : \E i \in DOMAIN t : t[i] = s[k]

LEMMA SomeAre ==
  ASSUME NEW T, NEW n, NEW s, IsList(s, n, T), NEW places, places \subseteq 1..n
  PROVE  SomeOf(Those(s, places), s, places, T)
  <1> DEFINE t == Those(s, places)
             N == Cardinality(places)
  <1>1. n \in Nat /\ s \in [1..n -> T]
    BY DEF IsList
  <1>2. PICK order : /\ Picks(order, places)
                     /\ t = [k \in 1..N |-> s[order[k]]]
                     /\ t \in [1..N -> T]
    BY <1>1, ThoseAre
  <1> HIDE DEF t
  <1>3. /\ N \in Nat /\ order \in [1..N -> places]
        /\ \A k \in places : \E i \in 1..N : order[i] = k
    BY <1>2 DEF Picks
  <1> HIDE DEF N
  <1>4. t \in Seq(T) /\ DOMAIN t = 1..N
    BY <1>2, <1>3
  <1>5. \A i \in 1..N : t[i] = s[order[i]] /\ order[i] \in places
    BY <1>2, <1>3
  <1>6. \A k \in places : \E i \in 1..N : t[i] = s[k]
    BY <1>3, <1>5
  <1>7. SomeOf(t, s, places, T)
    BY <1>4, <1>5, <1>6 DEF SomeOf
  <1>8. QED
    BY <1>7 DEF t

\* The tasks that may come next, the last changed first, and those that block.
Open(task) == task.status \in {"todo", "in_progress"}
TasksIn(next, blocked, tasks) ==
  /\ next \in Seq(Range(tasks)) /\ blocked \in Seq(Range(tasks))
  /\ \A i \in DOMAIN next : Open(next[i])
  /\ \A t \in Range(tasks) : Open(t) => \E i \in DOMAIN next : next[i] = t
  /\ \A i, j \in DOMAIN next : i < j => next[i].updated >= next[j].updated
  /\ \A t \in Range(tasks) : t.status = "blocked" => \E i \in DOMAIN blocked : blocked[i] = t

LEMMA TasksAre ==
  ASSUME NEW tasks, tasks \in Seq(Range(tasks)), \A t \in Range(tasks) : t.updated \in Nat
  PROVE  TasksIn(NextTasks(tasks), Blockers(tasks), tasks)
  <1> DEFINE T == Range(tasks)
             open == {i \in DOMAIN tasks : tasks[i].status \in {"todo", "in_progress", "blocked"}}
             a == OpenTasks(tasks)
             going == {i \in DOMAIN a : a[i].status # "blocked"}
             u == Unblocked(tasks)
             B == [i \in DOMAIN u |-> {j \in DOMAIN u : u[i].updated > u[j].updated}]
             s == NextTasks(tasks)
             b == Blockers(tasks)
             held == {i \in DOMAIN tasks : tasks[i].status = "blocked"}
  <1>1. /\ IsList(tasks, Len(tasks), T) /\ DOMAIN tasks = 1..Len(tasks)
        /\ \A i \in DOMAIN tasks : tasks[i] \in T
        /\ \A t \in T : \E i \in DOMAIN tasks : tasks[i] = t
    BY DEF IsList, Range
  <1>2. /\ a = Those(tasks, open) /\ u = Those(a, going) /\ b = Those(tasks, held)
        /\ s = Sorted(u, B)
    BY Zenon DEF OpenTasks, Unblocked, Blockers, NextTasks
  <1> HIDE DEF T, a, u, s, b
  <1>3. open \subseteq 1..Len(tasks) /\ held \subseteq 1..Len(tasks)
    BY <1>1
  <1>4. /\ a \in Seq(T)
        /\ \A i \in DOMAIN a : \E k \in open : a[i] = tasks[k]
        /\ \A k \in open : \E i \in DOMAIN a : a[i] = tasks[k]
    <2> HIDE DEF open
    <2>1. SomeOf(a, tasks, open, T)
      BY <1>1, <1>2, <1>3, SomeAre, Zenon
    <2>2. QED
      BY <2>1 DEF SomeOf
  <1>5. /\ b \in Seq(T)
        /\ \A k \in held : \E i \in DOMAIN b : b[i] = tasks[k]
    <2> HIDE DEF held
    <2>1. SomeOf(b, tasks, held, T)
      BY <1>1, <1>2, <1>3, SomeAre, Zenon
    <2>2. QED
      BY <2>1 DEF SomeOf
  <1>6. IsList(a, Len(a), T) /\ going \subseteq 1..Len(a) /\ DOMAIN a = 1..Len(a)
    BY <1>4 DEF IsList
  <1>7. /\ u \in Seq(T)
        /\ \A i \in DOMAIN u : \E k \in going : u[i] = a[k]
        /\ \A k \in going : \E i \in DOMAIN u : u[i] = a[k]
    <2> HIDE DEF going
    <2>1. SomeOf(u, a, going, T)
      BY <1>2, <1>6, SomeAre, Zenon
    <2>2. QED
      BY <2>1 DEF SomeOf
  <1>8. \A i \in DOMAIN u : Open(u[i])
    <2> SUFFICES ASSUME NEW i \in DOMAIN u PROVE Open(u[i])
      OBVIOUS
    <2>1. PICK k \in going : u[i] = a[k]
      BY <1>7
    <2>2. a[k].status # "blocked" /\ k \in DOMAIN a
      OBVIOUS
    <2>3. PICK l \in open : a[k] = tasks[l]
      BY <1>4, <2>2
    <2>4. QED
      BY <2>1, <2>2, <2>3 DEF Open
  <1>9. ASSUME NEW t \in T, Open(t) PROVE \E i \in DOMAIN u : u[i] = t
    <2>1. PICK l \in DOMAIN tasks : tasks[l] = t
      BY <1>1
    <2>2. l \in open
      BY <1>9, <2>1 DEF Open
    <2>3. PICK k \in DOMAIN a : a[k] = t
      BY <1>4, <2>1, <2>2
    <2>4. k \in going
      BY <1>9, <2>3 DEF Open
    <2>5. QED
      BY <1>7, <2>3, <2>4
  <1>10. IsList(u, Len(u), T) /\ DOMAIN u = 1..Len(u)
    BY <1>7 DEF IsList
  <1>11. \A i \in 1..Len(u) : u[i].updated \in Nat
    BY <1>7 DEF T
  <1>12. \A i, j \in 1..Len(u) : j \in B[i] <=> u[i].updated > u[j].updated
    BY <1>10
  <1> HIDE DEF B
  <1>13. WeakOrder(B, Len(u))
    BY <1>11, <1>12 DEF WeakOrder
  <1>14. PICK order, place : /\ Arranges(order, place, s, u, Len(u), T)
                             /\ \A i, j \in 1..Len(u) : i < j => order[i] \notin B[order[j]]
    <2>1. \E order, place :
            /\ Arranges(order, place, Sorted(u, B), u, Len(u), T)
            /\ \A i, j \in 1..Len(u) : i < j => order[i] \notin B[order[j]]
      BY ONLY <1>10, <1>13, SortedIs
    <2>2. QED
      BY <1>2, <2>1
  <1>15. /\ order \in [1..Len(u) -> 1..Len(u)] /\ place \in [1..Len(u) -> 1..Len(u)]
         /\ \A i \in 1..Len(u) : order[place[i]] = i
         /\ s = [k \in 1..Len(u) |-> u[order[k]]] /\ s \in [1..Len(u) -> T] /\ Len(u) \in Nat
    BY <1>7, <1>14 DEF Arranges
  <1> DEFINE n == Len(u)
  <1> HIDE DEF n
  <1>16. s \in Seq(T) /\ DOMAIN s = 1..n /\ n \in Nat
    BY <1>15 DEF n
  <1>17. \A i \in 1..n : s[i] = u[order[i]] /\ order[i] \in 1..n /\ s[place[i]] = u[i] /\ place[i] \in 1..n
    BY <1>15 DEF n
  <1>18. \A i \in DOMAIN s : Open(s[i])
    BY <1>8, <1>10, <1>16, <1>17 DEF n
  <1>19. ASSUME NEW t \in T, Open(t) PROVE \E i \in DOMAIN s : s[i] = t
    <2>1. PICK i \in 1..n : u[i] = t
      BY <1>9, <1>10, <1>19 DEF n
    <2>2. s[place[i]] = t /\ place[i] \in 1..n
      BY <2>1, <1>17
    <2>3. QED
      BY <2>2, <1>16
  <1>20. ASSUME NEW i \in 1..n, NEW j \in 1..n, i < j PROVE s[i].updated >= s[j].updated
    <2>1. order[i] \notin B[order[j]]
      BY <1>14, <1>20 DEF n
    <2>2. ~(u[order[j]].updated > u[order[i]].updated)
      BY <2>1, <1>12, <1>17 DEF n
    <2>3. s[i] = u[order[i]] /\ s[j] = u[order[j]] /\ order[i] \in 1..n /\ order[j] \in 1..n
      BY <1>17
    <2>4. u[order[i]].updated \in Nat /\ u[order[j]].updated \in Nat
      BY <2>3, <1>11 DEF n
    <2>5. s[i].updated \in Nat /\ s[j].updated \in Nat /\ ~(s[j].updated > s[i].updated)
      BY <2>2, <2>3, <2>4
    <2>6. QED
      BY <2>5
  <1>21. \A t \in T : t.status = "blocked" => \E i \in DOMAIN b : b[i] = t
    BY <1>1, <1>5
  <1>22. TasksIn(s, b, tasks)
    BY <1>5, <1>16, <1>18, <1>19, <1>20, <1>21 DEF TasksIn, T
  <1>23. QED
    BY <1>22 DEF s, b

LEMMA InWider ==
  ASSUME NEW s, s \in Seq(Range(s)), NEW T, Range(s) \subseteq T
  PROVE  s \in Seq(T)
  <1>1. Len(s) \in Nat /\ s \in [1..Len(s) -> Range(s)]
    OBVIOUS
  <1>2. s \in [1..Len(s) -> T]
    BY <1>1
  <1>3. QED
    BY <1>1, <1>2

NewestOf(tasks, k) ==
  Max({t.updated : t \in {u \in Range(tasks) : u.text.key = k /\ u.status \in {"todo", "in_progress"}}})

\* The first task of a text is the last changed of them.
LEMMA FirstIsNewest ==
  ASSUME NEW tasks, \A t \in Range(tasks) : t.updated \in Nat,
         NEW next, NEW blocked, TasksIn(next, blocked, tasks),
         NEW i \in DOMAIN next, NEW k, next[i].text.key = k,
         \A j \in 1..(i - 1) : next[j].text.key # k
  PROVE  NewestOf(tasks, k) = next[i].updated
  <1> DEFINE M == {t.updated : t \in {u \in Range(tasks) : u.text.key = k /\ u.status \in {"todo", "in_progress"}}}
             m == next[i].updated
  <1>1. /\ next \in Seq(Range(tasks))
        /\ \A j \in DOMAIN next : Open(next[j])
        /\ \A t \in Range(tasks) : Open(t) => \E j \in DOMAIN next : next[j] = t
        /\ \A j, l \in DOMAIN next : j < l => next[j].updated >= next[l].updated
    BY DEF TasksIn
  <1>2. i \in Nat /\ DOMAIN next = 1..Len(next) /\ Len(next) \in Nat
        /\ \A j \in DOMAIN next : next[j] \in Range(tasks) /\ next[j].updated \in Nat
    BY <1>1
  <1>3. m \in M
    BY <1>1, <1>2 DEF Open
  <1>4. ASSUME NEW x \in M PROVE x \in Nat /\ m >= x
    <2>1. PICK t \in Range(tasks) : t.text.key = k /\ Open(t) /\ t.updated = x
      BY DEF Open
    <2>2. PICK j \in DOMAIN next : next[j] = t
      BY <1>1, <2>1
    <2>3. ~(j < i)
      BY <1>2, <2>1, <2>2
    <2>4. j = i \/ i < j
      BY <1>2, <2>3
    <2>5. m >= next[j].updated
      BY <1>1, <1>2, <2>4
    <2>6. QED
      BY <2>1, <2>2, <2>5, <1>2
  <1>5. m \in Nat
    BY <1>2
  <1> HIDE DEF M, m
  <1>6. \A x \in M : (\A y \in M : x >= y) => x = m
    BY <1>3, <1>4, <1>5
  <1>7. Max(M) = m
    BY <1>3, <1>4, <1>6 DEF Max
  <1>8. QED
    BY <1>7 DEF NewestOf, M, m

KeysOf(s) == [i \in DOMAIN s |-> s[i].key]

\* The next actions: those of the checkpoints, then the tasks, the last changed first.
NextInOrder(t, f, tasks) ==
  /\ IsInjective(KeysOf(t)) /\ None \notin Range(KeysOf(t))
  /\ \A i, j \in DOMAIN t : i < j /\ t[i].key \notin Range(KeysOf(f)) =>
       /\ t[j].key \notin Range(KeysOf(f))
       /\ NewestOf(tasks, t[i].key) >= NewestOf(tasks, t[j].key)
  /\ \A x \in Range(tasks) : x.text.key # None /\ Open(x) =>
       x.text.key \in Range(KeysOf(t)) \/ Len(t) = BriefMax

LEMMA KeysDiffer ==
  ASSUME NEW at, NEW t, NEW s, NEW n \in Nat, NEW most, OnList(at, t, s, n, most)
  PROVE  IsInjective(KeysOf(t)) /\ None \notin Range(KeysOf(t))
  <1>1. /\ Len(t) \in Nat /\ DOMAIN t = 1..Len(t) /\ at \in [1..Len(t) -> 1..n]
        /\ \A q \in 1..Len(t) : t[q] = s[at[q]] /\ t[q].key # None
        /\ \A p, q \in 1..Len(t) : p < q => at[p] < at[q]
        /\ \A q \in 1..Len(t) : \A j \in 1..(at[q] - 1) : s[j].key # t[q].key
    BY DEF OnList
  <1> DEFINE N == Len(t)
  <1> HIDE DEF N
  <1>2. ASSUME NEW p \in 1..N, NEW q \in 1..N, p < q PROVE t[p].key # t[q].key
    <2>1. at[p] \in 1..n /\ at[q] \in 1..n /\ at[p] < at[q]
      BY <1>1, <1>2 DEF N
    <2>2. at[p] \in 1..(at[q] - 1)
      BY <2>1
    <2>3. QED
      BY <1>1, <2>2 DEF N
  <1>3. ASSUME NEW p \in 1..N, NEW q \in 1..N, t[p].key = t[q].key PROVE p = q
    <2>1. p \in Nat /\ q \in Nat
      BY <1>1 DEF N
    <2>2. QED
      BY <1>2, <1>3, <2>1
  <1>4. DOMAIN KeysOf(t) = 1..N /\ \A q \in 1..N : KeysOf(t)[q] = t[q].key /\ t[q].key # None
    BY <1>1 DEF KeysOf, N
  <1>5. QED
    BY <1>3, <1>4 DEF IsInjective, Range

LEMMA NextIs ==
  ASSUME NEW tasks, \A t \in Range(tasks) : t.updated \in Nat,
         NEW next, NEW blocked, TasksIn(next, blocked, tasks),
         NEW T, NEW c \in Seq(T), Texts(next) \in Seq(T), NEW f, Collects(c, f), BriefMax \in Nat
  PROVE  NextInOrder(Firsts(Dedupe(c \o Texts(next)), BriefMax), f, tasks)
  <1> DEFINE x == Texts(next)
             s == c \o x
             n == Len(s)
             t == Firsts(Dedupe(s), BriefMax)
             C == Len(c)
  <1>1. /\ n = C + Len(x) /\ C \in Nat /\ Len(x) \in Nat /\ s \in Seq(T)
        /\ \A j \in 1..C : s[j] = c[j]
        /\ \A j \in 1..Len(x) : s[C + j] = x[j]
    BY TwoJoined
  <1>2. DOMAIN next = 1..Len(x) /\ \A j \in 1..Len(x) : x[j] = next[j].text
    <2>1. DOMAIN next = DOMAIN x /\ \A j \in DOMAIN x : x[j] = next[j].text
      BY DEF Texts
    <2>2. DOMAIN x = 1..Len(x)
      BY <1>1
    <2>3. QED
      BY <2>1, <2>2
  <1> HIDE DEF x, s, n, C
  <1>3. n \in Nat /\ IsList(s, n, T)
    BY <1>1 DEF IsList, n
  <1>4. PICK at : OnList(at, t, s, n, BriefMax)
    BY <1>3, ListIs
  <1> HIDE DEF t
  <1>5. /\ Len(t) \in Nat /\ DOMAIN t = 1..Len(t) /\ at \in [1..Len(t) -> 1..n]
        /\ \A q \in 1..Len(t) : t[q] = s[at[q]] /\ t[q].key # None
        /\ \A p, q \in 1..Len(t) : p < q => at[p] < at[q]
        /\ \A q \in 1..Len(t) : \A j \in 1..(at[q] - 1) : s[j].key # t[q].key
        /\ \A i \in 1..n : s[i].key # None => Len(t) = BriefMax \/ \E q \in 1..Len(t) : t[q].key = s[i].key
    BY <1>4 DEF OnList
  <1> DEFINE N == Len(t)
  <1> HIDE DEF N
  <1>6. /\ \A k : k \in Range(KeysOf(f)) <=> \E r \in DOMAIN f : f[r].key = k
        /\ \A k : k \in Range(KeysOf(t)) <=> \E q \in 1..N : t[q].key = k
    BY <1>5 DEF KeysOf, Range, N
  <1>7. /\ \A q \in 1..C : c[q].key \in Range(KeysOf(f))
        /\ \A k \in Range(KeysOf(f)) : k # None => \E q \in 1..C : c[q].key = k
    BY <1>6 DEF Collects, C
  \* What no checkpoint says stands behind what they say, and is of a task.
  <1>8. ASSUME NEW q \in 1..N, t[q].key \notin Range(KeysOf(f))
        PROVE  /\ at[q] \in 1..n /\ C < at[q] /\ at[q] - C \in DOMAIN next
               /\ NewestOf(tasks, t[q].key) = next[at[q] - C].updated
    <2>1. at[q] \in 1..n /\ t[q] = s[at[q]]
      BY <1>5 DEF N
    <2>2. ~(at[q] \in 1..C)
      BY <1>1, <1>7, <1>8, <2>1
    <2>3. C < at[q] /\ at[q] - C \in 1..Len(x) /\ C + (at[q] - C) = at[q]
      BY <1>1, <2>1, <2>2
    <2>4. next[at[q] - C].text.key = t[q].key
      BY <1>1, <1>2, <2>1, <2>3
    <2>5. ASSUME NEW j \in 1..((at[q] - C) - 1) PROVE next[j].text.key # t[q].key
      <3>1. j \in 1..Len(x) /\ C + j \in 1..(at[q] - 1)
        BY <1>1, <2>1, <2>3
      <3>2. s[C + j].key # t[q].key
        BY <3>1, <1>5 DEF N
      <3>3. QED
        BY <3>1, <3>2, <1>1, <1>2
    <2> DEFINE i == at[q] - C
    <2>6. i \in DOMAIN next
      BY <1>2, <2>3
    <2> HIDE DEF i
    <2>7. NewestOf(tasks, t[q].key) = next[i].updated
      BY <2>4, <2>5, <2>6, FirstIsNewest DEF i
    <2>8. QED
      BY <2>1, <2>3, <2>6, <2>7 DEF i
  <1>9. ASSUME NEW p \in 1..N, NEW q \in 1..N, p < q, t[p].key \notin Range(KeysOf(f))
        PROVE  /\ t[q].key \notin Range(KeysOf(f))
               /\ NewestOf(tasks, t[p].key) >= NewestOf(tasks, t[q].key)
    <2>1. at[p] \in 1..n /\ at[q] \in 1..n /\ at[p] < at[q] /\ C < at[p]
      BY <1>5, <1>8, <1>9 DEF N
    <2>2. t[q].key \notin Range(KeysOf(f))
      <3> SUFFICES ASSUME t[q].key \in Range(KeysOf(f)) PROVE FALSE
        OBVIOUS
      <3>1. t[q].key # None
        BY <1>5 DEF N
      <3>2. PICK j \in 1..C : c[j].key = t[q].key
        BY <1>7, <3>1
      <3>3. s[j].key = t[q].key /\ j \in 1..(at[q] - 1)
        BY <1>1, <2>1, <3>2
      <3>4. QED
        BY <1>5, <3>3 DEF N
    <2>3. /\ at[p] - C \in DOMAIN next /\ NewestOf(tasks, t[p].key) = next[at[p] - C].updated
          /\ at[q] - C \in DOMAIN next /\ NewestOf(tasks, t[q].key) = next[at[q] - C].updated
      BY <1>8, <1>9, <2>2
    <2>4. at[p] - C < at[q] - C
      BY <1>1, <2>1
    <2>5. next[at[p] - C].updated >= next[at[q] - C].updated
      BY <2>3, <2>4 DEF TasksIn
    <2>6. QED
      BY <2>2, <2>3, <2>5
  <1>10. ASSUME NEW task \in Range(tasks), task.text.key # None, Open(task)
         PROVE  task.text.key \in Range(KeysOf(t)) \/ Len(t) = BriefMax
    <2>1. PICK j \in DOMAIN next : next[j] = task
      BY <1>10 DEF TasksIn
    <2>2. C + j \in 1..n /\ s[C + j].key = task.text.key
      BY <1>1, <1>2, <2>1
    <2>3. QED
      BY <1>5, <1>6, <1>10, <2>2 DEF N
  <1>11. IsInjective(KeysOf(t)) /\ None \notin Range(KeysOf(t))
    BY <1>3, <1>4, KeysDiffer
  <1>12. NextInOrder(t, f, tasks)
    BY <1>5, <1>9, <1>10, <1>11 DEF NextInOrder, N
  <1>13. QED
    BY <1>12 DEF t, s, x

\* The blockers: none twice, and a blocked task only missing for a full list.
BlockersNamed(t, tasks) ==
  /\ IsInjective(KeysOf(t))
  /\ \A x \in Range(tasks) : x.text.key # None /\ x.status = "blocked" =>
       x.text.key \in Range(KeysOf(t)) \/ Len(t) = BriefMax

LEMMA BlockersAre ==
  ASSUME NEW tasks, NEW next, NEW blocked, TasksIn(next, blocked, tasks),
         NEW T, NEW c \in Seq(T), Texts(blocked) \in Seq(T), BriefMax \in Nat
  PROVE  BlockersNamed(Firsts(Dedupe(c \o Texts(blocked)), BriefMax), tasks)
  <1> DEFINE x == Texts(blocked)
             s == c \o x
             n == Len(s)
             t == Firsts(Dedupe(s), BriefMax)
             C == Len(c)
  <1>1. /\ n = C + Len(x) /\ C \in Nat /\ Len(x) \in Nat /\ s \in Seq(T)
        /\ \A j \in 1..Len(x) : s[C + j] = x[j]
    BY TwoJoined
  <1>2. DOMAIN blocked = 1..Len(x) /\ \A j \in 1..Len(x) : x[j] = blocked[j].text
    <2>1. DOMAIN blocked = DOMAIN x /\ \A j \in DOMAIN x : x[j] = blocked[j].text
      BY DEF Texts
    <2>2. DOMAIN x = 1..Len(x)
      BY <1>1
    <2>3. QED
      BY <2>1, <2>2
  <1> HIDE DEF x, s, n, C
  <1>3. n \in Nat /\ IsList(s, n, T)
    BY <1>1 DEF IsList, n
  <1>4. PICK at : OnList(at, t, s, n, BriefMax)
    BY <1>3, ListIs
  <1> HIDE DEF t
  <1>5. ASSUME NEW task \in Range(tasks), task.text.key # None, task.status = "blocked"
        PROVE  task.text.key \in Range(KeysOf(t)) \/ Len(t) = BriefMax
    <2>1. PICK j \in DOMAIN blocked : blocked[j] = task
      BY <1>5 DEF TasksIn
    <2>2. C + j \in 1..n /\ s[C + j].key = task.text.key
      BY <1>1, <1>2, <2>1
    <2>3. Len(t) = BriefMax \/ \E q \in 1..Len(t) : t[q].key = task.text.key
      BY <1>4, <1>5, <2>2 DEF OnList
    <2>4. DOMAIN t = 1..Len(t)
      BY <1>4 DEF OnList
    <2>5. QED
      BY <2>3, <2>4 DEF KeysOf, Range
  <1>6. IsInjective(KeysOf(t))
    BY <1>3, <1>4, KeysDiffer
  <1>7. BlockersNamed(t, tasks)
    BY <1>5, <1>6 DEF BlockersNamed
  <1>8. QED
    BY <1>7 DEF t, s, x

LEMMA ToldIs ==
  ASSUME NEW of, NEW brief, BriefMax \in Nat,
         NextInOrder(brief.nextActions,
                     Slots([i \in DOMAIN brief.checkpoints |-> brief.checkpoints[i].next]), of.tasks),
         BlockersNamed(brief.blockers, of.tasks)
  PROVE  ToldInOrder(of, brief)
  <1> DEFINE t == brief.nextActions
             lists == [i \in DOMAIN brief.checkpoints |-> brief.checkpoints[i].next]
             next == KeysOf(t)
             intents == Range(KeysOf(Slots(lists)))
             tasks == of.tasks
             missing(list, k) == k \notin Range(KeysOf(list)) /\ Len(list) < BriefMax
  <1>1. NextInOrder(t, Slots(lists), tasks) /\ BlockersNamed(brief.blockers, tasks)
    OBVIOUS
  <1> HIDE DEF t, lists, tasks
  <1>2. IsInjective(next) /\ IsInjective(KeysOf(brief.blockers)) /\ None \notin Range(next)
    BY <1>1 DEF NextInOrder, BlockersNamed
  <1>3. DOMAIN next = DOMAIN t /\ \A i \in DOMAIN t : next[i] = t[i].key
    BY DEF KeysOf
  <1> HIDE DEF next, intents
  <1>4. \A i, j \in DOMAIN next : i < j /\ next[i] \notin intents =>
          next[j] \notin intents /\ NewestOf(tasks, next[i]) >= NewestOf(tasks, next[j])
    BY <1>1, <1>3 DEF NextInOrder, intents
  <1>5. \A x \in Range(tasks) : x.text.key # None =>
          /\ x.status \in {"todo", "in_progress"} => ~missing(t, x.text.key)
          /\ x.status = "blocked" => ~missing(brief.blockers, x.text.key)
    BY <1>1 DEF NextInOrder, BlockersNamed, Open
  <1>6. QED
    BY <1>2, <1>4, <1>5, Zenon DEF ToldInOrder, NewestOf, KeysOf, Slots, t, lists, tasks, next, intents

LEMMA BriefIs ==
  ASSUME FilesOfProjects, BriefsOfProjects, NEW b \in Briefs, NEW limit \in Limits
  PROVE  ToldInOrder(b, BuildResumeBrief(b.project, b.files, b.tasks, limit))
  <1> DEFINE brief == BuildResumeBrief(b.project, b.files, b.tasks, limit)
             s == ListCheckpoints(b.files, None, limit)
             n == Len(s)
             next == [i \in DOMAIN s |-> s[i].next]
             blocking == [i \in DOMAIN s |-> s[i].blockers]
             tasks == NextTasks(b.tasks)
             blocked == Blockers(b.tasks)
             T == (UNION {Range(f.next) \cup Range(f.blockers) : f \in b.files})
                  \cup Range(b.project.blockers) \cup {t.text : t \in Range(b.tasks)}
  <1>1. /\ brief.checkpoints = s
        /\ brief.nextActions = Firsts(Dedupe(CollectRecent(next) \o Texts(tasks)), BriefMax)
        /\ brief.blockers = Firsts(Dedupe((b.project.blockers \o CollectRecent(blocking)) \o Texts(blocked)), BriefMax)
    BY DEF BuildResumeBrief
  <1>2. /\ CollectSlots \in Nat /\ BriefMax \in Nat /\ Dated(b.files)
        /\ b.project.blockers \in Seq(Range(b.project.blockers))
        /\ \A f \in b.files : f.next \in Seq(Range(f.next)) /\ f.blockers \in Seq(Range(f.blockers))
        /\ b.tasks \in Seq(Range(b.tasks)) /\ \A t \in Range(b.tasks) : t.updated \in Nat
    BY DEF BriefsOfProjects
  <1>3. Spare \in Nat /\ limit \in Nat /\ None \notin Moment
    BY DEF FilesOfProjects
  <1>4. AreNewest(s, b.files, None, limit)
    BY <1>2, <1>3, CheckpointsAre
  <1>5. TasksIn(tasks, blocked, b.tasks)
    BY <1>2, TasksAre
  <1>6. /\ \A f \in b.files : Range(f.next) \subseteq T /\ Range(f.blockers) \subseteq T
        /\ Range(b.project.blockers) \subseteq T
        /\ \A t \in Range(b.tasks) : t.text \in T
    <2>1. \A f \in b.files : Range(f.next) \cup Range(f.blockers) \subseteq T
      BY Zenon
    <2>2. Range(b.project.blockers) \subseteq T
      BY Zenon
    <2>3. \A t \in Range(b.tasks) : t.text \in T
      BY Zenon
    <2>4. QED
      BY <2>1, <2>2, <2>3, Zenon
  <1> HIDE DEF brief, s, tasks, blocked, T
  <1>7. n \in Nat /\ DOMAIN s = 1..n /\ \A i \in 1..n : s[i] \in b.files
    BY <1>4 DEF AreNewest, Wanted
  <1>8. b.project.blockers \in Seq(T)
    BY <1>2, <1>6, InWider
  <1>9. \A f \in b.files : f.next \in Seq(T) /\ f.blockers \in Seq(T)
    BY <1>2, <1>6, InWider
  <1>10. next \in [1..n -> Seq(T)] /\ blocking \in [1..n -> Seq(T)]
    BY <1>7, <1>9
  <1>11. Texts(tasks) \in Seq(T) /\ Texts(blocked) \in Seq(T)
    <2>1. ASSUME NEW u \in Seq(Range(b.tasks)) PROVE Texts(u) \in Seq(T)
      <3>1. Len(u) \in Nat /\ DOMAIN u = 1..Len(u) /\ \A i \in 1..Len(u) : u[i].text \in T
        BY <1>6
      <3>2. Texts(u) \in [1..Len(u) -> T]
        BY <3>1 DEF Texts
      <3>3. QED
        BY <3>1, <3>2
    <2>2. QED
      BY <2>1, <1>5 DEF TasksIn
  <1> HIDE DEF next, blocking, n
  <1>12. CollectRecent(next) \in Seq(T) /\ Collects(CollectRecent(next), Slots(next))
    BY <1>2, <1>7, <1>10, CollectedAre
  <1>13. CollectRecent(blocking) \in Seq(T)
    BY <1>2, <1>7, <1>10, CollectedAre
  <1>14. b.project.blockers \o CollectRecent(blocking) \in Seq(T)
    BY <1>8, <1>13
  <1>15. NextInOrder(brief.nextActions, Slots(next), b.tasks)
    BY <1>1, <1>2, <1>5, <1>11, <1>12, NextIs
  <1>16. BlockersNamed(brief.blockers, b.tasks)
    BY <1>1, <1>2, <1>5, <1>11, <1>14, BlockersAre
  <1>17. next = [i \in DOMAIN brief.checkpoints |-> brief.checkpoints[i].next]
    BY <1>1 DEF next
  <1>18. ToldInOrder(b, brief)
    BY <1>2, <1>15, <1>16, <1>17, ToldIs
  <1>19. QED
    BY <1>18 DEF brief

\* context.ts:180-183: whatever the checkpoints and tasks of a project, the next actions are
\* first what the checkpoints say and then the tasks, the last changed first; nothing is
\* there twice, and only a full list misses a task.
THEOREM BriefsInOrder == ASSUME FilesOfProjects, BriefsOfProjects PROVE Spec => []BriefInOrder
  <1>1. Init => BriefInOrder
    BY DEF Init, Nothing, BriefInOrder
  <1>2. BriefInOrder /\ [Next]_vars => BriefInOrder'
    <2> SUFFICES ASSUME BriefInOrder, [Next]_vars PROVE BriefInOrder'
      OBVIOUS
    <2>1. CASE AskBrief
      <3>1. PICK b \in Briefs, limit \in Limits :
              /\ asked' = [kind |-> "brief", of |-> b, limit |-> limit]
              /\ answer' = BuildResumeBrief(b.project, b.files, b.tasks, limit)
        BY <2>1 DEF AskBrief, Ask
      <3>2. asked'.of = b
        BY <3>1
      <3>3. ToldInOrder(b, answer')
        BY <3>1, BriefIs
      <3>4. QED
        BY <3>2, <3>3 DEF BriefInOrder
    <2>2. CASE UNCHANGED vars
      BY <2>2 DEF vars, BriefInOrder
    <2>3. CASE Next /\ ~AskBrief
      <3>1. asked'.kind # "brief"
        BY <2>3, KindsAre DEF Next
      <3>2. QED
        BY <3>1 DEF BriefInOrder
    <2>4. QED
      BY <2>1, <2>2, <2>3
  <1>3. QED
    BY <1>1, <1>2, PTL DEF Spec

(***************************************************************************)
(* Sums                                                                    *)
(***************************************************************************)
LEMMA UpTo ==
  ASSUME NEW m \in Nat
  PROVE  IsFiniteSet(1..m) /\ Cardinality(1..m) = m
  <1>1. IsFiniteSet(1..m) /\ Cardinality(1..m) = IF 1 > m THEN 0 ELSE m - 1 + 1
    BY FS_Interval
  <1>2. QED
    BY <1>1

\* The pairs of a member of I and a member of what S has for it.
Couples(I, S) == UNION {{i} \X S[i] : i \in I}

LEMMA CouplesAre ==
  ASSUME NEW I, NEW S
  PROVE  /\ \A c : c \in Couples(I, S) <=> \E i \in I : \E x \in S[i] : c = <<i, x>>
         /\ \A i \in I : \A x \in S[i] : <<i, x>> \in Couples(I, S)
         /\ \A c \in Couples(I, S) : c[1] \in I /\ c[2] \in S[c[1]] /\ c = <<c[1], c[2]>>
  <1>1. \A i, c : c \in {i} \X S[i] <=> \E x \in S[i] : c = <<i, x>>
    OBVIOUS
  <1>2. \A c : c \in Couples(I, S) <=> \E i \in I : \E x \in S[i] : c = <<i, x>>
    BY <1>1 DEF Couples
  <1>3. QED
    BY <1>2

LEMMA CouplesFinite ==
  ASSUME NEW I, IsFiniteSet(I), NEW S, \A i \in I : IsFiniteSet(S[i])
  PROVE  IsFiniteSet(Couples(I, S))
  <1> DEFINE T == {{i} \X S[i] : i \in I}
             f == [i \in I |-> {i} \X S[i]]
  <1>1. f \in Surjection(I, T)
    BY DEF Surjection
  <1>2. IsFiniteSet(T)
    <2> HIDE DEF f, T
    <2>1. QED
      BY <1>1, FS_Surjection
  <1>3. ASSUME NEW i \in I PROVE IsFiniteSet({i} \X S[i])
    BY FS_Singleton, FS_Product
  <1>4. \A t \in T : IsFiniteSet(t)
    BY <1>3
  <1>5. IsFiniteSet(UNION T)
    <2> HIDE DEF T
    <2>1. QED
      BY <1>2, <1>4, FS_UNION
  <1>6. QED
    BY <1>5 DEF Couples

\* What is in one-to-one correspondence has as many members.
OneToOne(f, A, B) ==
  /\ f \in [A -> B]
  /\ \A x, y \in A : f[x] = f[y] => x = y
  /\ \A b \in B : \E x \in A : f[x] = b

LEMMA AsMany ==
  ASSUME NEW A, IsFiniteSet(A), NEW B, NEW f, OneToOne(f, A, B)
  PROVE  IsFiniteSet(B) /\ Cardinality(B) = Cardinality(A) /\ Cardinality(A) \in Nat
  <1>1. f \in Bijection(A, B)
    BY DEF OneToOne, Bijection, Injection, Surjection, IsInjective
  <1>2. ExistsBijection(A, B)
    BY <1>1 DEF ExistsBijection
  <1>3. QED
    BY <1>2, FS_Bijection, FS_CardinalityType

LEMMA Corresponds ==
  ASSUME NEW A, IsFiniteSet(A), NEW B, IsFiniteSet(B), Cardinality(A) = Cardinality(B)
  PROVE  \E f : OneToOne(f, A, B)
  <1>1. PICK f : f \in Bijection(A, B)
    BY FS_SameCardinalityBij DEF ExistsBijection
  <1>2. QED
    BY <1>1 DEF OneToOne, Bijection, Injection, Surjection, IsInjective

LEMMA Composed ==
  ASSUME NEW A, NEW B, NEW C, NEW f, NEW g, OneToOne(f, A, B), OneToOne(g, B, C)
  PROVE  OneToOne([a \in A |-> g[f[a]]], A, C)
  <1>1. /\ \A a \in A : f[a] \in B
        /\ \A a, b \in A : f[a] = f[b] => a = b
        /\ \A b \in B : \E a \in A : f[a] = b
    BY DEF OneToOne
  <1>2. /\ \A b \in B : g[b] \in C
        /\ \A a, b \in B : g[a] = g[b] => a = b
        /\ \A c \in C : \E b \in B : g[b] = c
    BY DEF OneToOne
  <1>3. \A c \in C : \E a \in A : g[f[a]] = c
    BY <1>1, <1>2
  <1>4. QED
    BY <1>1, <1>2, <1>3 DEF OneToOne

LEMMA CouplesMatched ==
  ASSUME NEW I, NEW S, NEW T, NEW b, \A i \in I : OneToOne(b[i], S[i], T[i])
  PROVE  OneToOne([c \in Couples(I, S) |-> <<c[1], b[c[1]][c[2]]>>], Couples(I, S), Couples(I, T))
  <1> DEFINE C == Couples(I, S)
             D == Couples(I, T)
             g == [c \in C |-> <<c[1], b[c[1]][c[2]]>>]
  <1>1. /\ \A i \in I : \A x \in S[i] : <<i, x>> \in C
        /\ \A c \in C : c[1] \in I /\ c[2] \in S[c[1]] /\ c = <<c[1], c[2]>>
    BY CouplesAre
  <1>2. /\ \A i \in I : \A x \in T[i] : <<i, x>> \in D
        /\ \A c \in D : c[1] \in I /\ c[2] \in T[c[1]] /\ c = <<c[1], c[2]>>
    BY CouplesAre
  <1>3. OneToOne(g, C, D)
    <2> HIDE DEF C, D
    <2>1. ASSUME NEW c \in C PROVE <<c[1], b[c[1]][c[2]]>> \in D
      <3>1. OneToOne(b[c[1]], S[c[1]], T[c[1]]) /\ c[1] \in I /\ c[2] \in S[c[1]]
        BY <1>1
      <3>2. b[c[1]][c[2]] \in T[c[1]]
        BY <3>1 DEF OneToOne
      <3>3. QED
        BY <3>1, <3>2, <1>2
    <2>2. ASSUME NEW c \in C, NEW d \in C, g[c] = g[d] PROVE c = d
      <3>1. c[1] = d[1] /\ b[c[1]][c[2]] = b[d[1]][d[2]]
        BY <2>2
      <3>2. OneToOne(b[c[1]], S[c[1]], T[c[1]]) /\ c[2] \in S[c[1]] /\ d[2] \in S[c[1]]
        BY <1>1, <3>1
      <3>3. c[2] = d[2]
        BY <3>1, <3>2 DEF OneToOne
      <3>4. QED
        BY <3>1, <3>3, <1>1
    <2>3. ASSUME NEW d \in D PROVE \E c \in C : g[c] = d
      <3>1. d[1] \in I /\ d[2] \in T[d[1]] /\ d = <<d[1], d[2]>>
        BY <1>2
      <3>2. PICK x \in S[d[1]] : b[d[1]][x] = d[2]
        BY <3>1 DEF OneToOne
      <3>3. <<d[1], x>> \in C
        BY <3>1, <3>2, <1>1
      <3>4. g[<<d[1], x>>] = <<d[1], b[d[1]][x]>>
        BY <3>3
      <3>5. QED
        BY <3>1, <3>2, <3>3, <3>4
    <2>4. g \in [C -> D]
      BY <2>1
    <2> HIDE DEF g
    <2>5. QED
      BY <2>2, <2>3, <2>4 DEF OneToOne
  <1>4. QED
    BY <1>3

\* Pairs with sets of as many members are as many.
LEMMA SameCouples ==
  ASSUME NEW I, IsFiniteSet(I), NEW S, NEW T,
         \A i \in I : IsFiniteSet(S[i]) /\ IsFiniteSet(T[i]) /\ Cardinality(S[i]) = Cardinality(T[i])
  PROVE  Cardinality(Couples(I, T)) = Cardinality(Couples(I, S))
  <1> DEFINE b == [i \in I |-> CHOOSE f : OneToOne(f, S[i], T[i])]
             g == [c \in Couples(I, S) |-> <<c[1], b[c[1]][c[2]]>>]
  <1>1. ASSUME NEW i \in I PROVE OneToOne(b[i], S[i], T[i])
    <2>1. \E f : OneToOne(f, S[i], T[i])
      BY Corresponds
    <2>2. QED
      BY <2>1
  <1> HIDE DEF b
  <1>2. OneToOne(g, Couples(I, S), Couples(I, T))
    BY <1>1, CouplesMatched
  <1>3. IsFiniteSet(Couples(I, S))
    BY CouplesFinite
  <1> HIDE DEF g
  <1>4. QED
    BY <1>2, <1>3, AsMany

\* A sum of numbers of members is the number of pairs.
LEMMA TotalIs ==
  ASSUME NEW f, IsFiniteSet(DOMAIN f), NEW S,
         \A i \in DOMAIN f : IsFiniteSet(S[i]) /\ f[i] = Cardinality(S[i])
  PROVE  /\ Total(f) = Cardinality(Couples(DOMAIN f, S)) /\ Total(f) \in Nat
         /\ IsFiniteSet(Couples(DOMAIN f, S))
  <1> DEFINE I == DOMAIN f
             T == [i \in I |-> 1..f[i]]
  <1>1. ASSUME NEW i \in I PROVE IsFiniteSet(T[i]) /\ Cardinality(T[i]) = Cardinality(S[i])
    <2>1. f[i] \in Nat
      BY FS_CardinalityType
    <2>2. QED
      BY <2>1, FS_Interval
  <1>2. Total(f) = Cardinality(Couples(I, T))
    <2>1. {{i} \X (1..f[i]) : i \in DOMAIN f} = {{i} \X T[i] : i \in I}
      OBVIOUS
    <2>2. QED
      BY <2>1 DEF Total, Couples
  <1> HIDE DEF T, I
  <1>3. IsFiniteSet(I) /\ \A i \in I : IsFiniteSet(S[i])
    BY DEF I
  <1>4. Cardinality(Couples(I, T)) = Cardinality(Couples(I, S))
    BY <1>1, <1>3, SameCouples
  <1>5. IsFiniteSet(Couples(I, S))
    BY <1>3, CouplesFinite
  <1>6. QED
    BY <1>2, <1>4, <1>5, FS_CardinalityType DEF I

LEMMA TotalOfOne ==
  ASSUME NEW f, NEW x, DOMAIN f = {x}, NEW S, IsFiniteSet(S), f[x] = Cardinality(S)
  PROVE  Total(f) = Cardinality(S)
  <1> DEFINE T == [i \in {x} |-> S]
             C == Couples({x}, T)
             g == [c \in C |-> c[2]]
  <1>1. Total(f) = Cardinality(C) /\ IsFiniteSet(C)
    <2>1. IsFiniteSet(DOMAIN f)
      BY FS_Singleton
    <2>2. \A i \in DOMAIN f : IsFiniteSet(T[i]) /\ f[i] = Cardinality(T[i])
      OBVIOUS
    <2> HIDE DEF T
    <2>3. QED
      BY <2>1, <2>2, TotalIs
  <1>2. /\ \A s \in S : <<x, s>> \in C
        /\ \A c \in C : c[1] = x /\ c[2] \in S /\ c = <<c[1], c[2]>>
    BY CouplesAre
  <1>3. OneToOne(g, C, S)
    <2> HIDE DEF C
    <2>1. g \in [C -> S]
      BY <1>2
    <2>2. \A c, d \in C : g[c] = g[d] => c = d
      BY <1>2
    <2>3. \A s \in S : \E c \in C : g[c] = s
      BY <1>2
    <2>4. QED
      BY <2>1, <2>2, <2>3 DEF OneToOne
  <1> HIDE DEF C, g
  <1>4. QED
    BY <1>1, <1>3, AsMany

\* The members of a set are as many as those of each kind together.
LEMMA Parted ==
  ASSUME NEW A, IsFiniteSet(A), NEW k, DOMAIN k = A, k = [a \in A |-> k[a]], NEW f,
         f = [s \in {k[a] : a \in A} |-> Cardinality({a \in A : k[a] = s})]
  PROVE  Total(f) = Cardinality(A)
  <1> DEFINE K == {k[a] : a \in A}
             S == [s \in K |-> {a \in A : k[a] = s}]
             C == Couples(K, S)
             g == [a \in A |-> <<k[a], a>>]
  <1>1. IsFiniteSet(K) /\ DOMAIN f = K
    <2>1. k \in Surjection(A, K)
      BY DEF Surjection
    <2> HIDE DEF K
    <2>2. IsFiniteSet(K)
      BY <2>1, FS_Surjection
    <2>3. QED
      BY <2>2 DEF K
  <1>2. \A s \in K : IsFiniteSet(S[s]) /\ f[s] = Cardinality(S[s])
    <2> SUFFICES ASSUME NEW s \in K PROVE IsFiniteSet(S[s]) /\ f[s] = Cardinality(S[s])
      OBVIOUS
    <2>1. S[s] = {a \in A : k[a] = s} /\ f[s] = Cardinality({a \in A : k[a] = s})
      OBVIOUS
    <2>2. S[s] \in SUBSET A
      BY <2>1
    <2>3. QED
      BY <2>1, <2>2, FS_Subset
  <1>3. Total(f) = Cardinality(C)
    <2> HIDE DEF K, S
    <2>1. IsFiniteSet(DOMAIN f) /\ \A i \in DOMAIN f : IsFiniteSet(S[i]) /\ f[i] = Cardinality(S[i])
      BY <1>1, <1>2
    <2>2. Total(f) = Cardinality(Couples(DOMAIN f, S))
      BY ONLY <2>1, TotalIs
    <2>3. QED
      BY <1>1, <2>2
  <1>4. /\ \A s \in K : \A a \in S[s] : <<s, a>> \in C
        /\ \A c \in C : c[1] \in K /\ c[2] \in S[c[1]] /\ c = <<c[1], c[2]>>
    <2> HIDE DEF K, S
    <2>1. QED
      BY CouplesAre
  <1>5. \A a \in A : k[a] \in K /\ a \in S[k[a]]
    OBVIOUS
  <1>6. \A s \in K : \A a \in S[s] : a \in A /\ k[a] = s
    OBVIOUS
  <1>7. OneToOne(g, A, C)
    <2> HIDE DEF K, S, C
    <2>1. \A a \in A : <<k[a], a>> \in C
      BY <1>4, <1>5
    <2>2. g \in [A -> C]
      BY <2>1
    <2>3. \A a, b \in A : g[a] = g[b] => a = b
      OBVIOUS
    <2>4. ASSUME NEW c \in C PROVE \E a \in A : g[a] = c
      <3>1. c[2] \in A /\ k[c[2]] = c[1] /\ c = <<c[1], c[2]>>
        BY <1>4, <1>6
      <3>2. QED
        BY <3>1
    <2>5. QED
      BY <2>2, <2>3, <2>4 DEF OneToOne
  <1> HIDE DEF K, S, C, g
  <1>8. QED
    BY <1>3, <1>7, AsMany

(***************************************************************************)
(* The lists of projects                                                   *)
(***************************************************************************)
LEMMA ActivityIs ==
  ASSUME NEW p, {p.active, p.checkpointed, p.seen} \subseteq Moment \cup {None}, None \notin Moment
  PROVE  /\ p.active # None => /\ EffectiveActivity(p) \in Moment
                               /\ ~Later(p.active, EffectiveActivity(p))
         /\ {p.checkpointed, p.seen} = {None} => EffectiveActivity(p) = p.active
  <1> DEFINE S == {p.active, p.checkpointed, p.seen}
             T == S \ {None}
             a == EffectiveActivity(p)
  <1>2. IsFiniteSet(T) /\ T \subseteq Moment
    <2>1. S = ({p.active} \cup {p.checkpointed}) \cup {p.seen}
      OBVIOUS
    <2>2. IsFiniteSet(S)
      <3>1. IsFiniteSet({p.active})
        BY FS_Singleton
      <3>2. IsFiniteSet({p.active} \cup {p.checkpointed})
        BY <3>1, FS_AddElement
      <3>3. IsFiniteSet(({p.active} \cup {p.checkpointed}) \cup {p.seen})
        BY <3>2, FS_AddElement
      <3>4. QED
        BY <2>1, <3>3
    <2>3. T \in SUBSET S
      OBVIOUS
    <2>4. QED
      BY <2>2, <2>3, FS_Subset
  <1> DEFINE is(x) == \A b \in S \ {None, x} : Later(x, b)
  <1>1. a = IF T = {} THEN None ELSE CHOOSE x \in T : is(x)
    BY Zenon DEF EffectiveActivity, Latest
  <1>a. \A x : S \ {None, x} = T \ {x}
    OBVIOUS
  <1>3. ASSUME T # {} PROVE a \in T /\ \A b \in T : ~Later(b, a)
    <2> HIDE DEF S, T, a
    <2>1. Latest(T) \in T /\ \A b \in T : ~Later(b, Latest(T))
      BY <1>2, <1>3, LatestIs
    <2>2. is(Latest(T))
      BY <1>2, <1>a, <2>1, LaterOrders
    <2>3. a \in T /\ is(a)
      BY <1>1, <1>3, <2>1, <2>2
    <2>4. ASSUME NEW b \in T PROVE ~Later(b, a)
      <3>1. CASE b = a
        BY <3>1, <1>2, LaterOrders
      <3>2. CASE b # a
        <4>1. Later(a, b)
          BY <2>3, <3>2, <1>a
        <4>2. QED
          BY <4>1, <2>3, <1>2, LaterOrders
      <3>3. QED
        BY <3>1, <3>2
    <2>5. QED
      BY <2>3, <2>4
  <1>4. p.active # None => p.active \in T /\ a \in Moment /\ ~Later(p.active, a)
    BY <1>2, <1>3
  <1>5. ASSUME {p.checkpointed, p.seen} = {None} PROVE a = p.active
    <2>1. CASE p.active = None
      <3>1. T = {}
        BY <1>5, <2>1
      <3>2. QED
        BY <1>1, <2>1, <3>1
    <2>2. CASE p.active # None
      <3>1. T = {p.active}
        BY <1>5, <2>2
      <3>2. QED
        BY <1>3, <3>1
    <2>3. QED
      BY <2>1, <2>2
  <1>6. QED
    BY <1>4, <1>5

Both(projects, filter) ==
  /\ ~filter.all => FilterProjects(projects, filter)
                      \subseteq ToolListProjects(projects, StatusOf(filter), filter.stale)
  /\ ToolListProjects(projects, StatusOf(filter), filter.stale)
       \subseteq FilterProjects(projects, filter) \cup
            {p \in projects : \/ filter.deployed /\ ~p.deployed
                              \/ filter.dirty /\ ~p.dirty
                              \/ filter.stale # None /\ {p.checkpointed, p.seen} # {None}}

LEMMA BothList ==
  ASSUME NEW projects, NEW filter, None \notin Moment,
         \A p \in projects : {p.active, p.checkpointed, p.seen} \subseteq Moment \cup {None},
         filter.stale \in Moment \cup {None}, None \notin filter.statuses,
         \A s, t \in filter.statuses : s = t
  PROVE  Both(projects, filter)
  <1>1. /\ filter.statuses = {} => StatusOf(filter) = None
        /\ filter.statuses # {} => StatusOf(filter) \in filter.statuses
        /\ \A s \in filter.statuses : s = StatusOf(filter) /\ StatusOf(filter) # None
    BY DEF StatusOf
  <1>2. ASSUME NEW p \in FilterProjects(projects, filter), ~filter.all
        PROVE  p \in ToolListProjects(projects, StatusOf(filter), filter.stale)
    <2>1. /\ p \in projects
          /\ filter.statuses # {} => p.status \in filter.statuses
          /\ p.status = "archived" => filter.statuses # {}
          /\ filter.stale # None =>
               EffectiveActivity(p) = None \/ Later(filter.stale, EffectiveActivity(p))
      BY <1>2 DEF FilterProjects
    <2>2. IF StatusOf(filter) = None THEN p.status # "archived" ELSE p.status = StatusOf(filter)
      BY <2>1, <1>1
    <2>3. ASSUME filter.stale # None, p.active # None PROVE Later(filter.stale, p.active)
      <3>1. /\ EffectiveActivity(p) \in Moment /\ ~Later(p.active, EffectiveActivity(p))
            /\ p.active \in Moment /\ filter.stale \in Moment
        BY <2>1, <2>3, ActivityIs
      <3>2. Later(filter.stale, EffectiveActivity(p))
        BY <2>1, <2>3, <3>1
      <3>3. p.active = EffectiveActivity(p) \/ Later(EffectiveActivity(p), p.active)
        BY <3>1, LaterOrders
      <3>4. QED
        BY <3>1, <3>2, <3>3, LaterOrders
    <2>4. QED
      BY <2>1, <2>2, <2>3 DEF ToolListProjects
  <1>3. ASSUME NEW p \in ToolListProjects(projects, StatusOf(filter), filter.stale),
               ~(filter.deployed /\ ~p.deployed), ~(filter.dirty /\ ~p.dirty),
               ~(filter.stale # None /\ {p.checkpointed, p.seen} # {None})
        PROVE  p \in FilterProjects(projects, filter)
    <2>1. /\ p \in projects
          /\ IF StatusOf(filter) = None THEN p.status # "archived" ELSE p.status = StatusOf(filter)
          /\ filter.stale # None => p.active = None \/ Later(filter.stale, p.active)
      BY <1>3 DEF ToolListProjects
    <2>2. /\ filter.statuses # {} => p.status \in filter.statuses
          /\ p.status = "archived" => filter.all \/ filter.statuses # {}
      BY <1>1, <2>1
    <2>3. filter.stale # None => EffectiveActivity(p) = p.active
      BY <1>3, <2>1, ActivityIs
    <2>4. QED
      BY <1>3, <2>1, <2>2, <2>3 DEF FilterProjects
  <1>4. ToolListProjects(projects, StatusOf(filter), filter.stale) \subseteq projects
    BY DEF ToolListProjects
  <1>5. QED
    BY <1>2, <1>3, <1>4 DEF Both

LEMMA StatusCounts ==
  ASSUME NEW projects, IsFiniteSet(projects), NEW before
  PROVE  Total(StatusReport(projects, before).byStatus) = Cardinality(projects)
  <1> DEFINE k == [p \in projects |-> p.status]
             f == StatusReport(projects, before).byStatus
  <1>1. f = [s \in {p.status : p \in projects} |-> Cardinality({p \in projects : p.status = s})]
    BY DEF StatusReport
  <1>2. f = [s \in {k[p] : p \in projects} |-> Cardinality({p \in projects : k[p] = s})]
    <2>1. {k[p] : p \in projects} = {p.status : p \in projects}
      OBVIOUS
    <2>2. \A s : {p \in projects : k[p] = s} = {p \in projects : p.status = s}
      OBVIOUS
    <2> HIDE DEF k, f
    <2>3. QED
      BY <1>1, <2>1, <2>2
  <1>3. DOMAIN k = projects /\ k = [p \in projects |-> k[p]]
    OBVIOUS
  <1> HIDE DEF k, f
  <1>4. Total(f) = Cardinality(projects)
    BY <1>2, <1>3, Parted
  <1>5. QED
    BY <1>4 DEF f

(***************************************************************************)
(* The rows of all profiles                                                *)
(***************************************************************************)
Offsets(o, l, n) ==
  /\ n \in Nat /\ o \in [0..n -> Nat] /\ l \in [1..n -> Nat] /\ o[0] = 0
  /\ \A i \in 1..n : o[i] = o[i - 1] + l[i]

Placing(o, l, n) == [c \in Couples(1..n, [i \in 1..n |-> 1..l[i]]) |-> o[c[1] - 1] + c[2]]

LEMMA OffsetsRise ==
  ASSUME NEW n, NEW o, NEW l, Offsets(o, l, n)
  PROVE  \A i \in 0..n : \A k \in 0..i : o[k] <= o[i]
  <1> DEFINE Q == [i \in 0..n |-> {x \in {o[i]} : \A k \in 0..i : o[k] <= x}]
  <1>1. /\ n \in Nat /\ \A i \in 0..n : o[i] \in Nat
        /\ \A i \in 1..n : /\ o[i] = o[i - 1] + l[i] /\ l[i] \in Nat
                           /\ i - 1 \in 0..n /\ i \in 0..n
    BY DEF Offsets
  <1>2. ASSUME NEW i \in 1..n, o[i - 1] \in Q[i - 1] PROVE o[i] \in Q[i]
    <2>1. \A k \in 0..i - 1 : o[k] <= o[i - 1]
      BY <1>1, <1>2
    <2>2. ASSUME NEW k \in 0..i PROVE o[k] <= o[i]
      <3>1. CASE k = i
        BY <1>1, <3>1
      <3>2. CASE k # i
        <4>1. k \in 0..i - 1 /\ k \in 0..n
          BY <1>1, <3>2
        <4>2. QED
          BY <4>1, <2>1, <1>1
      <3>3. QED
        BY <3>1, <3>2
    <2>3. QED
      BY <2>2, <1>1
  <1>3. o[0] \in Q[0]
    BY <1>1
  <1>4. \A i \in 0..n : o[i] \in Q[i]
    <2>1. \A i \in 1..n : o[i - 1] \in Q[i - 1] => o[i] \in Q[i]
      BY <1>2
    <2> HIDE DEF Q
    <2>2. QED
      BY <1>1, <1>3, <2>1, Counted
  <1>5. QED
    BY <1>4

LEMMA PlacedOnce ==
  ASSUME NEW n, NEW o, NEW l, Offsets(o, l, n)
  PROVE  OneToOne(Placing(o, l, n), Couples(1..n, [i \in 1..n |-> 1..l[i]]), 1..o[n])
  <1> DEFINE S == [i \in 1..n |-> 1..l[i]]
             C == Couples(1..n, S)
             g == Placing(o, l, n)
  <1>1. /\ n \in Nat /\ o[0] = 0 /\ \A i \in 0..n : o[i] \in Nat
        /\ \A i \in 1..n : /\ o[i] = o[i - 1] + l[i] /\ l[i] \in Nat
                           /\ i - 1 \in 0..n /\ i \in 0..n
    BY DEF Offsets
  <1>2. \A i \in 0..n : \A k \in 0..i : o[k] <= o[i]
    BY OffsetsRise
  <1>3. /\ \A i \in 1..n : \A k \in 1..l[i] : <<i, k>> \in C
        /\ \A c \in C : c[1] \in 1..n /\ c[2] \in 1..l[c[1]] /\ c = <<c[1], c[2]>>
    <2>1. \A i \in 1..n : S[i] = 1..l[i]
      OBVIOUS
    <2> HIDE DEF S
    <2>2. QED
      BY <2>1, CouplesAre
  <1>4. \A c \in C : g[c] = o[c[1] - 1] + c[2]
    BY DEF Placing
  <1> HIDE DEF C
  <1>5. ASSUME NEW c \in C PROVE g[c] \in 1..o[n] /\ o[c[1] - 1] < g[c] /\ g[c] <= o[c[1]]
    <2>1. /\ c[1] \in 1..n /\ c[2] \in 1..l[c[1]] /\ g[c] = o[c[1] - 1] + c[2]
          /\ o[c[1]] = o[c[1] - 1] + l[c[1]] /\ o[c[1] - 1] \in Nat /\ l[c[1]] \in Nat
          /\ c[1] \in 0..n /\ o[n] \in Nat /\ n \in 0..n /\ c[1] \in 0..n
      BY <1>1, <1>3, <1>4
    <2>2. o[c[1]] <= o[n]
      BY <1>2, <2>1
    <2> HIDE DEF g
    <2>3. QED
      BY <2>1, <2>2
  <1>6. g \in [C -> 1..o[n]]
    <2>1. g = [c \in C |-> g[c]]
      BY DEF Placing, C
    <2> HIDE DEF g
    <2>2. QED
      BY <1>5, <2>1
  <1>7. ASSUME NEW c \in C, NEW d \in C, g[c] = g[d], c[1] < d[1] PROVE FALSE
    <2>1. c[1] \in 1..n /\ d[1] \in 1..n
      BY <1>3
    <2>2. c[1] \in 0..d[1] - 1 /\ d[1] - 1 \in 0..n
      BY <1>1, <1>7, <2>1
    <2>3. o[c[1]] <= o[d[1] - 1]
      BY <1>2, <2>2
    <2>4. g[c] <= o[c[1]] /\ o[d[1] - 1] < g[d] /\ g[c] \in Nat /\ o[c[1]] \in Nat /\ o[d[1] - 1] \in Nat
      BY <1>1, <1>5, <2>1, <2>2
    <2> HIDE DEF g
    <2>5. QED
      BY <1>7, <2>3, <2>4
  <1>8. ASSUME NEW c \in C, NEW d \in C, g[c] = g[d] PROVE c = d
    <2>1. c[1] \in 1..n /\ d[1] \in 1..n
      BY <1>3
    <2>2. c[1] = d[1]
      BY <1>7, <1>8, <2>1
    <2>3. /\ g[c] = o[c[1] - 1] + c[2] /\ g[d] = o[c[1] - 1] + d[2] /\ o[c[1] - 1] \in Nat
          /\ c[2] \in 1..l[c[1]] /\ d[2] \in 1..l[c[1]]
      BY <1>1, <1>3, <1>4, <2>1, <2>2
    <2>4. c[2] = d[2]
      <3>1. o[c[1] - 1] + c[2] = o[c[1] - 1] + d[2]
        BY <1>8, <2>3
      <3>2. c[2] \in Int /\ d[2] \in Int /\ o[c[1] - 1] \in Int
        BY <2>3
      <3>3. \A x, y, z \in Int : x + y = x + z => y = z
        OBVIOUS
      <3>4. QED
        BY <3>1, <3>2, <3>3
    <2>5. QED
      BY <1>3, <2>2, <2>4
  <1>9. ASSUME NEW q \in 1..o[n] PROVE \E c \in C : g[c] = q
    <2> DEFINE T == {i \in 0..n : q <= o[i]}
    <2>1. T \in SUBSET Nat /\ n \in T
      BY <1>1
    <2>2. PICK i \in T : \A k \in T : i <= k
      <3> HIDE DEF T
      <3>1. T # {}
        BY <2>1
      <3>2. QED
        BY <2>1, <3>1, Least
    <2>3. i \in 1..n
      BY <1>1, <2>2
    <2>4. i - 1 \notin T
      BY <2>2, <2>3
    <2>5. /\ o[i - 1] < q /\ q <= o[i] /\ o[i - 1] \in Nat /\ l[i] \in Nat
          /\ o[i] = o[i - 1] + l[i] /\ q \in Nat
      BY <1>1, <2>2, <2>3, <2>4
    <2>6. q - o[i - 1] \in 1..l[i]
      BY <2>5
    <2> DEFINE c == <<i, q - o[i - 1]>>
    <2>7. c \in C /\ c[1] = i /\ c[2] = q - o[i - 1]
      BY <1>3, <2>3, <2>6
    <2>8. g[c] = o[i - 1] + (q - o[i - 1])
      BY <1>4, <2>7
    <2> HIDE DEF g, c
    <2>9. g[c] = q
      BY <2>5, <2>8
    <2>10. QED
      BY <2>7, <2>9
  <1> HIDE DEF g
  <1>10. QED
    BY <1>6, <1>8, <1>9 DEF OneToOne, C, S, g

\* Every row of a profile has a place of its own among the rows of all.
Tags(at, views, rows, n, t) ==
  /\ Len(t) \in Nat /\ DOMAIN t = 1..Len(t)
  /\ OneToOne(at, Couples(1..n, [i \in 1..n |-> 1..Len(rows[i])]), 1..Len(t))
  /\ \A i \in 1..n : \A k \in 1..Len(rows[i]) :
       t[at[<<i, k>>]] = OfProfile(rows[i][k], views[i].name)

LEMMA TaggedIs ==
  ASSUME NEW n \in Nat, NEW views, DOMAIN views = 1..n, NEW R, NEW rows \in [1..n -> Seq(R)]
  PROVE  \E at : Tags(at, views, rows, n, Tagged(views, rows))
  <1> DEFINE T == {OfProfile(rows[i][k], views[i].name) : i \in 1..n, k \in Nat}
             seqs == [i \in 1..n |-> [k \in 1..Len(rows[i]) |-> OfProfile(rows[i][k], views[i].name)]]
             t == Tagged(views, rows)
  <1>1. \A i \in 1..n : Len(rows[i]) \in Nat /\ DOMAIN rows[i] = 1..Len(rows[i])
    OBVIOUS
  <1>2. t = FlattenSeq(seqs)
    <2>1. seqs = [i \in DOMAIN views |-> [k \in DOMAIN rows[i] |-> OfProfile(rows[i][k], views[i].name)]]
      BY <1>1
    <2> HIDE DEF seqs
    <2>2. QED
      BY <2>1 DEF Tagged
  <1>3. ASSUME NEW i \in 1..n PROVE seqs[i] \in Seq(T) /\ Len(seqs[i]) = Len(rows[i])
    <2>1. seqs[i] = [k \in 1..Len(rows[i]) |-> OfProfile(rows[i][k], views[i].name)]
      OBVIOUS
    <2>2. \A k \in 1..Len(rows[i]) : OfProfile(rows[i][k], views[i].name) \in T
      OBVIOUS
    <2> HIDE DEF seqs, T
    <2>3. seqs[i] \in [1..Len(rows[i]) -> T]
      BY <2>1, <2>2
    <2>4. \A m \in Nat : \A x \in [1..m -> T] : Len(x) = m /\ x \in Seq(T)
      OBVIOUS
    <2>5. QED
      BY <1>1, <2>3, <2>4
  <1>4. seqs \in [1..n -> Seq(T)]
    BY <1>3
  <1>5. \A i \in 1..n : \A k \in 1..Len(rows[i]) : seqs[i][k] = OfProfile(rows[i][k], views[i].name)
    OBVIOUS
  <1> HIDE DEF seqs, T, t
  <1>6. PICK f : Joins(f, n, T, seqs) /\ t = f[n]
    BY <1>2, <1>4, Flattened
  <1>7. Stays(f, n, T, seqs)
    BY <1>4, <1>6, StaysJoined
  <1>8. /\ f \in [0..n -> Seq(T)] /\ f[0] = <<>> /\ t \in Seq(T)
    <2>1. f \in [0..n -> Seq(T)] /\ f[0] = <<>> /\ n \in 0..n
      BY <1>6 DEF Joins
    <2>2. QED
      BY <2>1, <1>6
  <1> DEFINE o == [i \in 0..n |-> Len(f[i])]
             l == [i \in 1..n |-> Len(rows[i])]
  <1>9. /\ \A i \in 0..n : o[i] = Len(f[i]) /\ o[i] \in Nat
        /\ \A i \in 1..n : l[i] = Len(rows[i]) /\ l[i] \in Nat
        /\ o[n] = Len(t)
    BY <1>1, <1>6, <1>8
  <1>10. Offsets(o, l, n)
    <2>1. o[0] = 0
      BY <1>8
    <2>2. ASSUME NEW i \in 1..n PROVE o[i] = o[i - 1] + l[i]
      <3>1. Len(f[i]) = Len(f[i - 1]) + Len(seqs[i])
        BY <1>7 DEF Stays
      <3>2. i - 1 \in 0..n /\ i \in 0..n
        OBVIOUS
      <3> HIDE DEF o, l
      <3>3. QED
        BY <3>1, <3>2, <1>3, <1>9
    <2>3. o \in [0..n -> Nat] /\ l \in [1..n -> Nat]
      BY <1>9
    <2> HIDE DEF o, l
    <2>4. QED
      BY <2>1, <2>2, <2>3 DEF Offsets
  <1> DEFINE at == Placing(o, l, n)
             C == Couples(1..n, [i \in 1..n |-> 1..Len(rows[i])])
  <1>11. C = Couples(1..n, [i \in 1..n |-> 1..l[i]])
    <2>1. [i \in 1..n |-> 1..Len(rows[i])] = [i \in 1..n |-> 1..l[i]]
      BY <1>9
    <2>2. QED
      BY <2>1
  <1>12. OneToOne(at, C, 1..Len(t))
    <2> HIDE DEF o, l, at
    <2>1. OneToOne(at, Couples(1..n, [i \in 1..n |-> 1..l[i]]), 1..o[n])
      BY <1>10, PlacedOnce DEF at
    <2>2. QED
      BY <2>1, <1>9, <1>11
  <1>13. ASSUME NEW i \in 1..n, NEW k \in 1..Len(rows[i])
         PROVE  t[at[<<i, k>>]] = OfProfile(rows[i][k], views[i].name)
    <2>1. <<i, k>> \in C
      <3>1. \A x \in 1..n : \A y \in [z \in 1..n |-> 1..Len(rows[z])][x] : <<x, y>> \in C
        BY CouplesAre
      <3>2. QED
        BY <3>1
    <2> HIDE DEF o, l, C
    <2>2. at[<<i, k>>] = o[i - 1] + k
      BY <2>1, <1>11 DEF Placing
    <2>3. f[n][Len(f[i - 1]) + k] = seqs[i][k]
      BY <1>3, <1>7 DEF Stays
    <2>4. i - 1 \in 0..n
      OBVIOUS
    <2> HIDE DEF at
    <2>5. QED
      BY <2>2, <2>3, <2>4, <1>5, <1>6, <1>9
  <1>14. Len(t) \in Nat /\ DOMAIN t = 1..Len(t)
    BY <1>8
  <1> HIDE DEF at, C
  <1>15. QED
    BY <1>12, <1>13, <1>14 DEF Tags, C, t

LEMMA TagKeeps ==
  ASSUME NEW row, "project" \in DOMAIN row, NEW name
  PROVE  OfProfile(row, name).project = row.project /\ OfProfile(row, name).profile = name
  BY DEF OfProfile

\* Each profile i has rows for the members of S[i].
RowsFor(n, views, R, rows, S, f) ==
  /\ n \in Nat /\ DOMAIN views = 1..n /\ rows \in [1..n -> Seq(R)] /\ DOMAIN f = 1..n
  /\ \A i \in 1..n : /\ IsFiniteSet(S[i])
                     /\ Len(rows[i]) = Cardinality(S[i]) /\ f[i] = Cardinality(S[i])

\* The rows of all profiles are as many as what they stand for.
LEMMA RowsCounted ==
  ASSUME NEW n, NEW views, NEW R, NEW rows, NEW S, NEW f, RowsFor(n, views, R, rows, S, f)
  PROVE  Len(Tagged(views, rows)) = Total(f)
  <1> DEFINE T == [i \in 1..n |-> 1..Len(rows[i])]
             t == Tagged(views, rows)
  <1>a. n \in Nat /\ DOMAIN views = 1..n /\ rows \in [1..n -> Seq(R)] /\ DOMAIN f = 1..n
    BY DEF RowsFor
  <1>b. \A i \in 1..n : /\ IsFiniteSet(S[i])
                        /\ Len(rows[i]) = Cardinality(S[i]) /\ f[i] = Cardinality(S[i])
    BY DEF RowsFor
  <1>1. IsFiniteSet(1..n)
    BY <1>a, UpTo
  <1>2. ASSUME NEW i \in 1..n PROVE IsFiniteSet(T[i]) /\ Cardinality(T[i]) = Cardinality(S[i])
    <2>1. Len(rows[i]) \in Nat /\ T[i] = 1..Len(rows[i])
      BY <1>a
    <2>2. QED
      BY <2>1, <1>b, UpTo
  <1>3. PICK at : Tags(at, views, rows, n, t)
    <2> HIDE DEF t
    <2>1. \E at : Tags(at, views, rows, n, Tagged(views, rows))
      BY <1>a, TaggedIs
    <2>2. QED
      BY <2>1 DEF t
  <1>4. OneToOne(at, Couples(1..n, T), 1..Len(t)) /\ Len(t) \in Nat
    BY <1>3 DEF Tags
  <1> HIDE DEF T, t
  <1>5. IsFiniteSet(Couples(1..n, T))
    BY <1>1, <1>2, CouplesFinite
  <1>6. Cardinality(1..Len(t)) = Cardinality(Couples(1..n, T))
    BY <1>4, <1>5, AsMany
  <1>7. Cardinality(1..Len(t)) = Len(t)
    BY <1>4, UpTo
  <1>8. Cardinality(Couples(1..n, T)) = Cardinality(Couples(1..n, S))
    BY <1>1, <1>2, <1>b, SameCouples
  <1>9. Total(f) = Cardinality(Couples(1..n, S))
    <2>1. IsFiniteSet(DOMAIN f) /\ \A i \in DOMAIN f : IsFiniteSet(S[i]) /\ f[i] = Cardinality(S[i])
      BY <1>1, <1>a, <1>b
    <2>2. Total(f) = Cardinality(Couples(DOMAIN f, S))
      BY ONLY <2>1, TotalIs
    <2>3. QED
      BY <2>2, <1>a
  <1>10. QED
    BY <1>6, <1>7, <1>8, <1>9 DEF t

\* A list of records, one for each member, is as long as there are members.
LEMMA ListedEach ==
  ASSUME NEW M, IsFiniteSet(M), NEW f, f \in [M -> Range(f)], \A x, y \in M : f[x] = f[y] => x = y
  PROVE  SetToSeq(Range(f)) \in Seq(Range(f)) /\ Len(SetToSeq(Range(f))) = Cardinality(M)
  <1> DEFINE S == Range(f)
  <1>1. OneToOne(f, M, S)
    BY DEF OneToOne, Range
  <1> HIDE DEF S
  <1>2. IsFiniteSet(S) /\ Cardinality(S) = Cardinality(M)
    BY <1>1, AsMany
  <1>3. IsList(SetToSeq(S), Cardinality(S), S)
    BY <1>2, SetToSeqIs
  <1> DEFINE s == SetToSeq(S)
             N == Cardinality(S)
  <1> HIDE DEF s, N
  <1>4. N \in Nat /\ s \in [1..N -> S] /\ Len(s) = N
    BY <1>3 DEF IsList, s, N
  <1>5. s \in Seq(S) /\ Len(s) = N
    BY <1>4
  <1>6. QED
    BY <1>2, <1>5 DEF s, N, S

MachineRow(view, m) ==
  [machine |-> m, current |-> m = view.current,
   projects |-> Cardinality({p \in view.projects : m \in p.locations})]
RemoteRow(view, r) ==
  [server |-> r, projects |-> {p \in view.projects : \E d \in p.deployments : d.remote = r}]

LEMMA MachinesListed ==
  ASSUME NEW view, IsFiniteSet(view.machines)
  PROVE  /\ MachineRows(view) \in Seq({MachineRow(view, m) : m \in view.machines})
         /\ Len(MachineRows(view)) = Cardinality(view.machines)
  <1> DEFINE M == view.machines
             f == [m \in M |-> MachineRow(view, m)]
  <1>1. Range(f) = {MachineRow(view, m) : m \in M}
    BY DEF Range
  <1>2. \A x, y \in M : f[x] = f[y] => x = y
    <2> SUFFICES ASSUME NEW x \in M, NEW y \in M, f[x] = f[y] PROVE x = y
      OBVIOUS
    <2>1. MachineRow(view, x).machine = x /\ MachineRow(view, y).machine = y
      BY DEF MachineRow
    <2>2. QED
      BY <2>1
  <1>3. f \in [M -> Range(f)]
    BY <1>1
  <1>4. MachineRows(view) = SetToSeq(Range(f))
    BY <1>1, Zenon DEF MachineRows, MachineRow
  <1> HIDE DEF f, M
  <1>5. SetToSeq(Range(f)) \in Seq(Range(f)) /\ Len(SetToSeq(Range(f))) = Cardinality(M)
    BY <1>2, <1>3, ListedEach DEF M
  <1>6. QED
    BY <1>1, <1>4, <1>5 DEF M

LEMMA RemotesListed ==
  ASSUME NEW view, IsFiniteSet(view.servers)
  PROVE  /\ RemoteRows(view) \in Seq({RemoteRow(view, r) : r \in view.servers})
         /\ Len(RemoteRows(view)) = Cardinality(view.servers)
  <1> DEFINE M == view.servers
             f == [r \in M |-> RemoteRow(view, r)]
  <1>1. Range(f) = {RemoteRow(view, r) : r \in M}
    BY DEF Range
  <1>2. \A x, y \in M : f[x] = f[y] => x = y
    <2> SUFFICES ASSUME NEW x \in M, NEW y \in M, f[x] = f[y] PROVE x = y
      OBVIOUS
    <2>1. RemoteRow(view, x).server = x /\ RemoteRow(view, y).server = y
      BY DEF RemoteRow
    <2>2. QED
      BY <2>1
  <1>3. f \in [M -> Range(f)]
    BY <1>1
  <1>4. RemoteRows(view) = SetToSeq(Range(f))
    BY <1>1, Zenon DEF RemoteRows, RemoteRow
  <1> HIDE DEF f, M
  <1>5. SetToSeq(Range(f)) \in Seq(Range(f)) /\ Len(SetToSeq(Range(f))) = Cardinality(M)
    BY <1>2, <1>3, ListedEach DEF M
  <1>6. QED
    BY <1>1, <1>4, <1>5 DEF M

LEMMA Inverted ==
  ASSUME NEW A, NEW B, NEW f, OneToOne(f, A, B)
  PROVE  \E g : OneToOne(g, B, A) /\ \A b \in B : f[g[b]] = b
  <1> DEFINE g == [b \in B |-> CHOOSE a \in A : f[a] = b]
  <1>1. /\ \A a \in A : f[a] \in B
        /\ \A a, b \in A : f[a] = f[b] => a = b
        /\ \A b \in B : \E a \in A : f[a] = b
    BY DEF OneToOne
  <1>2. \A b \in B : g[b] \in A /\ f[g[b]] = b
    BY <1>1
  <1>3. g \in [B -> A]
    BY <1>2
  <1> HIDE DEF g
  <1>4. \A x, y \in B : g[x] = g[y] => x = y
    BY <1>2
  <1>5. \A a \in A : \E b \in B : g[b] = a
    <2> SUFFICES ASSUME NEW a \in A PROVE g[f[a]] = a /\ f[a] \in B
      OBVIOUS
    <2>1. QED
      BY <1>1, <1>2
  <1>6. QED
    BY <1>2, <1>3, <1>4, <1>5 DEF OneToOne

\* A sum is that of the same values in other places.
LEMMA TotalMoved ==
  ASSUME NEW f, IsFiniteSet(DOMAIN f), NEW h, NEW g, OneToOne(g, DOMAIN f, DOMAIN h),
         \A a \in DOMAIN f : f[a] \in Nat /\ f[a] = h[g[a]]
  PROVE  Total(f) = Total(h)
  <1> DEFINE A == DOMAIN f
             B == DOMAIN h
             S == [a \in A |-> 1..f[a]]
             T == [b \in B |-> 1..h[b]]
             C == Couples(A, S)
             D == Couples(B, T)
             m == [c \in C |-> <<g[c[1]], c[2]>>]
  <1>1. Total(f) = Cardinality(C) /\ Total(h) = Cardinality(D)
    <2>1. {{a} \X (1..f[a]) : a \in DOMAIN f} = {{a} \X S[a] : a \in A}
      OBVIOUS
    <2>2. {{b} \X (1..h[b]) : b \in DOMAIN h} = {{b} \X T[b] : b \in B}
      OBVIOUS
    <2>3. Total(f) = Cardinality(C)
      BY <2>1 DEF Total, Couples
    <2>4. Total(h) = Cardinality(D)
      BY <2>2 DEF Total, Couples
    <2>5. QED
      BY <2>3, <2>4
  <1>2. /\ \A a \in A : g[a] \in B /\ S[a] = T[g[a]]
        /\ \A a, b \in A : g[a] = g[b] => a = b
        /\ \A b \in B : \E a \in A : g[a] = b
    BY DEF OneToOne
  <1>3. IsFiniteSet(C)
    <2>1. \A a \in A : IsFiniteSet(S[a])
      <3> SUFFICES ASSUME NEW a \in A PROVE IsFiniteSet(S[a])
        OBVIOUS
      <3>1. S[a] = 1..f[a] /\ f[a] \in Int
        OBVIOUS
      <3>2. QED
        BY <3>1, FS_Interval
    <2> HIDE DEF S
    <2>2. QED
      BY <2>1, CouplesFinite
  <1>4. /\ \A a \in A : \A k \in S[a] : <<a, k>> \in C
        /\ \A c \in C : c[1] \in A /\ c[2] \in S[c[1]] /\ c = <<c[1], c[2]>>
    <2> HIDE DEF A, S
    <2>1. QED
      BY CouplesAre
  <1>5. /\ \A b \in B : \A k \in T[b] : <<b, k>> \in D
        /\ \A d \in D : d[1] \in B /\ d[2] \in T[d[1]] /\ d = <<d[1], d[2]>>
    <2> HIDE DEF B, T
    <2>1. QED
      BY CouplesAre
  <1>6. OneToOne(m, C, D)
    <2> HIDE DEF A, B, S, T, C, D
    <2>1. \A c \in C : <<g[c[1]], c[2]>> \in D
      BY <1>2, <1>4, <1>5
    <2>2. m \in [C -> D]
      BY <2>1
    <2>3. \A c, d \in C : m[c] = m[d] => c = d
      <3> SUFFICES ASSUME NEW c \in C, NEW d \in C, m[c] = m[d] PROVE c = d
        OBVIOUS
      <3>1. g[c[1]] = g[d[1]] /\ c[2] = d[2]
        OBVIOUS
      <3>2. c[1] = d[1]
        BY <3>1, <1>2, <1>4
      <3>3. QED
        BY <3>1, <3>2, <1>4
    <2>4. ASSUME NEW d \in D PROVE \E c \in C : m[c] = d
      <3>1. d[1] \in B /\ d[2] \in T[d[1]] /\ d = <<d[1], d[2]>>
        BY <1>5
      <3>2. PICK a \in A : g[a] = d[1]
        BY <1>2, <3>1
      <3>3. <<a, d[2]>> \in C
        BY <1>2, <1>4, <3>1, <3>2
      <3>4. m[<<a, d[2]>>] = d
        BY <3>1, <3>2, <3>3
      <3>5. QED
        BY <3>3, <3>4
    <2> HIDE DEF m
    <2>5. QED
      BY <2>2, <2>3, <2>4 DEF OneToOne
  <1> HIDE DEF C, D, m
  <1>7. QED
    BY <1>1, <1>3, <1>6, AsMany

SumOfSums(I, F, S, f, h) ==
  /\ IsFiniteSet(I)
  /\ \A i \in I : DOMAIN F[i] = S[i] /\ IsFiniteSet(S[i]) /\ \A x \in S[i] : F[i][x] \in Nat
  /\ DOMAIN f = I /\ \A i \in I : f[i] = Total(F[i])
  /\ DOMAIN h = Couples(I, S) /\ \A c \in Couples(I, S) : h[c] = F[c[1]][c[2]]

\* A sum of sums is one sum, over all pairs.
LEMMA TotalOfTotals ==
  ASSUME NEW I, NEW F, NEW S, NEW f, NEW h, SumOfSums(I, F, S, f, h)
  PROVE  Total(f) = Total(h)
  <1> DEFINE C == Couples(I, S)
             T == [i \in I |-> [x \in S[i] |-> 1..F[i][x]]]
             U == [i \in I |-> Couples(S[i], T[i])]
             V == [c \in C |-> 1..h[c]]
             D == Couples(I, U)
             E == Couples(C, V)
             m == [d \in D |-> <<<<d[1], d[2][1]>>, d[2][2]>>]
  <1>a. /\ IsFiniteSet(I) /\ DOMAIN f = I /\ DOMAIN h = C
        /\ \A i \in I : DOMAIN F[i] = S[i] /\ IsFiniteSet(S[i]) /\ f[i] = Total(F[i])
        /\ \A i \in I : \A x \in S[i] : F[i][x] \in Nat
        /\ \A c \in C : h[c] = F[c[1]][c[2]]
    BY DEF SumOfSums
  <1>1. ASSUME NEW i \in I
        PROVE  /\ Total(F[i]) = Cardinality(U[i]) /\ IsFiniteSet(U[i])
               /\ \A x \in S[i] : T[i][x] = 1..F[i][x]
    <2>1. U[i] = Couples(DOMAIN F[i], T[i])
      BY <1>a
    <2>2. \A x \in S[i] : T[i][x] = 1..F[i][x]
      OBVIOUS
    <2> HIDE DEF T, U
    <2>3. \A x \in DOMAIN F[i] : IsFiniteSet(T[i][x]) /\ F[i][x] = Cardinality(T[i][x])
      <3> SUFFICES ASSUME NEW x \in S[i] PROVE IsFiniteSet(T[i][x]) /\ F[i][x] = Cardinality(T[i][x])
        BY <1>a
      <3>1. F[i][x] \in Nat /\ T[i][x] = 1..F[i][x]
        BY <2>2, <1>a
      <3>2. QED
        BY <3>1, UpTo
    <2>4. IsFiniteSet(DOMAIN F[i])
      BY <1>a
    <2>5. /\ Total(F[i]) = Cardinality(Couples(DOMAIN F[i], T[i]))
          /\ IsFiniteSet(Couples(DOMAIN F[i], T[i]))
      BY ONLY <2>3, <2>4, TotalIs
    <2>6. QED
      BY <2>1, <2>2, <2>5
  <1>2. Total(f) = Cardinality(D) /\ IsFiniteSet(D)
    <2>1. DOMAIN f = I /\ \A i \in I : f[i] = Total(F[i])
      BY <1>a
    <2> HIDE DEF U
    <2>2. IsFiniteSet(DOMAIN f) /\ \A i \in DOMAIN f : IsFiniteSet(U[i]) /\ f[i] = Cardinality(U[i])
      BY <1>1, <2>1, <1>a
    <2>3. Total(f) = Cardinality(Couples(DOMAIN f, U)) /\ IsFiniteSet(Couples(DOMAIN f, U))
      BY ONLY <2>2, TotalIs
    <2>4. QED
      BY <2>1, <2>3
  <1>3. Total(h) = Cardinality(E)
    <2>1. {{c} \X (1..h[c]) : c \in DOMAIN h} = {{c} \X V[c] : c \in C}
      BY <1>a
    <2>2. QED
      BY <2>1 DEF Total, Couples
  <1>4. /\ \A i \in I : \A x \in S[i] : <<i, x>> \in C
        /\ \A c \in C : c[1] \in I /\ c[2] \in S[c[1]] /\ c = <<c[1], c[2]>>
    BY CouplesAre
  <1>5. /\ \A i \in I : \A u \in U[i] : <<i, u>> \in D
        /\ \A d \in D : d[1] \in I /\ d[2] \in U[d[1]] /\ d = <<d[1], d[2]>>
    <2> HIDE DEF U
    <2>1. QED
      BY CouplesAre
  <1>6. ASSUME NEW i \in I
        PROVE  /\ \A x \in S[i] : \A k \in T[i][x] : <<x, k>> \in U[i]
               /\ \A u \in U[i] : u[1] \in S[i] /\ u[2] \in T[i][u[1]] /\ u = <<u[1], u[2]>>
    <2>1. U[i] = Couples(S[i], T[i])
      OBVIOUS
    <2> HIDE DEF U, T
    <2>2. QED
      BY <2>1, CouplesAre
  <1>7. /\ \A c \in C : \A k \in V[c] : <<c, k>> \in E
        /\ \A e \in E : e[1] \in C /\ e[2] \in V[e[1]] /\ e = <<e[1], e[2]>>
    <2> HIDE DEF C, V
    <2>1. QED
      BY CouplesAre
  <1>8. \A i \in I : \A x \in S[i] : V[<<i, x>>] = T[i][x]
    <2>1. \A c \in C : V[c] = 1..F[c[1]][c[2]]
      BY <1>a
    <2> HIDE DEF V, T, C
    <2>2. QED
      BY <2>1, <1>1, <1>4
  <1>9. OneToOne(m, D, E)
    <2> HIDE DEF C, T, U, V, D, E
    <2>1. ASSUME NEW d \in D PROVE /\ d[1] \in I /\ d[2][1] \in S[d[1]] /\ d[2][2] \in T[d[1]][d[2][1]]
                                   /\ d = <<d[1], <<d[2][1], d[2][2]>>>>
      BY <1>5, <1>6
    <2>2. \A d \in D : <<<<d[1], d[2][1]>>, d[2][2]>> \in E
      BY <2>1, <1>4, <1>7, <1>8
    <2>3. m \in [D -> E]
      BY <2>2
    <2>4. \A d, e \in D : m[d] = m[e] => d = e
      <3> SUFFICES ASSUME NEW d \in D, NEW e \in D, m[d] = m[e] PROVE d = e
        OBVIOUS
      <3>1. d[1] = e[1] /\ d[2][1] = e[2][1] /\ d[2][2] = e[2][2]
        OBVIOUS
      <3>2. QED
        BY <3>1, <2>1
    <2>5. ASSUME NEW e \in E PROVE \E d \in D : m[d] = e
      <3>1. /\ e[1] \in C /\ e[2] \in V[e[1]] /\ e = <<e[1], e[2]>>
            /\ e[1][1] \in I /\ e[1][2] \in S[e[1][1]] /\ e[1] = <<e[1][1], e[1][2]>>
        BY <1>4, <1>7
      <3> DEFINE d == <<e[1][1], <<e[1][2], e[2]>>>>
      <3>2. e[2] \in T[e[1][1]][e[1][2]]
        BY <3>1, <1>8
      <3>3. d \in D
        BY <3>1, <3>2, <1>5, <1>6
      <3>4. m[d] = <<<<e[1][1], e[1][2]>>, e[2]>>
        BY <3>3
      <3>5. QED
        BY <3>1, <3>3, <3>4
    <2> HIDE DEF m
    <2>6. QED
      BY <2>3, <2>4, <2>5 DEF OneToOne
  <1> HIDE DEF D, E, m
  <1>10. QED
    BY <1>2, <1>3, <1>9, AsMany

(***************************************************************************)
(* The overview                                                            *)
(***************************************************************************)
SummaryOf(p) == [project |-> p, environments |-> {d.environment : d \in p.deployments}]

\* Each project has one row.
ListsEach(s, projects) ==
  /\ s \in Seq({SummaryOf(p) : p \in projects}) /\ Len(s) = Cardinality(projects)
  /\ \E pos : OneToOne(pos, projects, 1..Len(s)) /\ \A p \in projects : s[pos[p]].project = p

LEMMA SummariesAre ==
  ASSUME NEW view, IsFiniteSet(view.projects), None \notin Moment,
         \A p \in view.projects : p.active \in Moment \cup {None}
  PROVE  ListsEach(ProjectSummaries(view), view.projects)
  <1> DEFINE P == view.projects
             N == Cardinality(P)
             before(p, q) == p.active # None /\ (q.active = None \/ Later(p.active, q.active))
             l == SetToSeq(P)
             B == [i \in DOMAIN l |-> {j \in DOMAIN l : before(l[i], l[j])}]
             t == Sorted(l, B)
             s == ProjectSummaries(view)
  <1>1. IsList(l, N, P) /\ \A x \in P : \E i \in 1..N : l[i] = x
    BY SetToSeqIs
  <1>2. N \in Nat /\ DOMAIN l = 1..N /\ \A i \in 1..N : l[i] \in P
    <2> HIDE DEF N, l
    <2>1. QED
      BY <1>1 DEF IsList
  <1>3. \A i, j \in 1..N : j \in B[i] <=> before(l[i], l[j])
    <2> HIDE DEF N
    <2>1. QED
      BY <1>2
  <1>4. s = [k \in DOMAIN t |-> [project |-> t[k], environments |-> {d.environment : d \in t[k].deployments}]]
    BY Zenon DEF ProjectSummaries
  <1> HIDE DEF B, l, N, s
  <1>5. WeakOrder(B, N)
    <2>1. ASSUME NEW i \in 1..N, NEW j \in 1..N, j \in B[i] PROVE i \notin B[j]
      <3>1. l[i].active \in Moment \cup {None} /\ l[j].active \in Moment \cup {None} /\ before(l[i], l[j])
        BY <1>2, <1>3, <2>1
      <3>2. ~before(l[j], l[i])
        BY <3>1, LaterOrders
      <3>3. QED
        BY <3>2, <1>3
    <2>2. ASSUME NEW i \in 1..N, NEW j \in 1..N, NEW k \in 1..N, j \in B[i], k \notin B[i]
          PROVE  j \in B[k]
      <3> DEFINE a == l[i].active
                 b == l[j].active
                 c == l[k].active
      <3>1. /\ a \in Moment \cup {None} /\ b \in Moment \cup {None} /\ c \in Moment \cup {None}
            /\ a # None /\ (b = None \/ Later(a, b)) /\ c # None /\ ~Later(a, c)
        BY <1>2, <1>3, <2>2
      <3> HIDE DEF a, b, c
      <3>2. a = c \/ Later(c, a)
        BY <3>1, LaterOrders
      <3>3. c # None /\ (b = None \/ Later(c, b))
        BY <3>1, <3>2, LaterOrders
      <3>4. QED
        BY <3>3, <1>3 DEF a, b, c
    <2>3. QED
      BY <2>1, <2>2 DEF WeakOrder
  <1>6. PICK order, place : Arranges(order, place, t, l, N, P)
    BY <1>1, <1>5, SortedIs
  <1>7. /\ t \in [1..N -> P] /\ order \in [1..N -> 1..N] /\ place \in [1..N -> 1..N]
        /\ \A k \in 1..N : t[k] = l[order[k]]
        /\ \A i \in 1..N : order[place[i]] = i
    BY <1>6 DEF Arranges
  <1> HIDE DEF t
  <1>8. \A x \in P : \E k \in 1..N : t[k] = x
    <2> SUFFICES ASSUME NEW x \in P PROVE \E k \in 1..N : t[k] = x
      OBVIOUS
    <2>1. PICK i \in 1..N : l[i] = x
      BY <1>1
    <2>2. place[i] \in 1..N /\ t[place[i]] = x
      BY <1>7, <2>1
    <2>3. QED
      BY <2>2
  <1>9. t \in Surjection(1..N, P)
    BY <1>7, <1>8 DEF Surjection
  <1>10. IsFiniteSet(1..N) /\ Cardinality(1..N) = Cardinality(P)
    BY <1>2, UpTo DEF N
  <1>11. t \in Injection(1..N, P)
    BY <1>9, <1>10, FS_SurjSameCardinalityImpliesInj
  <1>12. OneToOne(t, 1..N, P)
    BY <1>7, <1>8, <1>11 DEF OneToOne, Injection, IsInjective
  <1>13. s = [k \in 1..N |-> SummaryOf(t[k])]
    <2>1. DOMAIN t = 1..N
      BY <1>7
    <2>2. QED
      BY <1>4, <2>1 DEF SummaryOf
  <1>14. s \in [1..N -> {SummaryOf(p) : p \in P}]
    BY <1>7, <1>13
  <1>15. s \in Seq({SummaryOf(p) : p \in P}) /\ Len(s) = N
    BY <1>2, <1>14
  <1>16. PICK pos : OneToOne(pos, P, 1..N) /\ \A p \in P : t[pos[p]] = p
    BY <1>12, Inverted
  <1>17. ASSUME NEW p \in P PROVE s[pos[p]].project = p
    <2>1. pos[p] \in 1..N
      BY <1>16 DEF OneToOne
    <2>2. s[pos[p]] = SummaryOf(p)
      BY <2>1, <1>13, <1>16
    <2>3. QED
      BY <2>2 DEF SummaryOf
  <1>18. QED
    BY <1>15, <1>16, <1>17 DEF ListsEach, N, s

\* Each project of each profile has one row, which names the profile.
Projects(views, n) == [i \in 1..n |-> views[i].projects]

PagesEach(t, views, n, g) ==
  /\ Len(t) \in Nat /\ DOMAIN t = 1..Len(t)
  /\ OneToOne(g, Couples(1..n, Projects(views, n)), 1..Len(t))
  /\ \A i \in 1..n : \A p \in views[i].projects :
       t[g[<<i, p>>]].project = p /\ t[g[<<i, p>>]].profile = views[i].name

LEMMA ProjectsPaged ==
  ASSUME NEW n \in Nat, NEW views, DOMAIN views = 1..n,
         NEW rows \in [1..n -> Seq(UNION {{SummaryOf(p) : p \in views[i].projects} : i \in 1..n})],
         \A i \in 1..n : ListsEach(rows[i], views[i].projects)
  PROVE  \E g : PagesEach(Tagged(views, rows), views, n, g)
  <1> DEFINE R == UNION {{SummaryOf(p) : p \in views[i].projects} : i \in 1..n}
             t == Tagged(views, rows)
             P == Projects(views, n)
             K == [i \in 1..n |-> 1..Len(rows[i])]
             pos == [i \in 1..n |-> CHOOSE f : /\ OneToOne(f, P[i], K[i])
                                               /\ \A p \in P[i] : rows[i][f[p]].project = p]
  <1>1. PICK at : Tags(at, views, rows, n, t)
    <2> HIDE DEF t
    <2>1. \E at : Tags(at, views, rows, n, Tagged(views, rows))
      BY TaggedIs
    <2>2. QED
      BY <2>1 DEF t
  <1>2. ASSUME NEW i \in 1..n
        PROVE  OneToOne(pos[i], P[i], K[i]) /\ \A p \in P[i] : rows[i][pos[i][p]].project = p
    <2>1. P[i] = views[i].projects /\ K[i] = 1..Len(rows[i])
      BY DEF Projects
    <2>2. \E f : OneToOne(f, P[i], K[i]) /\ \A p \in P[i] : rows[i][f[p]].project = p
      BY <2>1 DEF ListsEach
    <2>3. QED
      BY <2>2
  <1>3. \A i \in 1..n : P[i] = views[i].projects /\ K[i] = 1..Len(rows[i])
    BY DEF Projects
  <1> DEFINE b == [c \in Couples(1..n, P) |-> <<c[1], pos[c[1]][c[2]]>>]
             g == [c \in Couples(1..n, P) |-> at[b[c]]]
  <1> HIDE DEF pos, P, t
  <1>4. OneToOne(b, Couples(1..n, P), Couples(1..n, K))
    <2> HIDE DEF K
    <2>1. QED
      BY <1>2, CouplesMatched
  <1>5. OneToOne(at, Couples(1..n, K), 1..Len(t)) /\ Len(t) \in Nat /\ DOMAIN t = 1..Len(t)
    BY <1>1 DEF Tags
  <1>6. OneToOne(g, Couples(1..n, P), 1..Len(t))
    <2> HIDE DEF K, b
    <2>1. QED
      BY <1>4, <1>5, Composed
  <1>7. ASSUME NEW i \in 1..n, NEW p \in views[i].projects
        PROVE  t[g[<<i, p>>]].project = p /\ t[g[<<i, p>>]].profile = views[i].name
    <2> DEFINE k == pos[i][p]
    <2>1. p \in P[i] /\ <<i, p>> \in Couples(1..n, P)
      BY <1>3, CouplesAre
    <2>2. k \in 1..Len(rows[i]) /\ rows[i][k].project = p
      BY <1>2, <1>3, <2>1 DEF OneToOne
    <2>3. g[<<i, p>>] = at[<<i, k>>]
      BY <2>1
    <2>4. t[at[<<i, k>>]] = OfProfile(rows[i][k], views[i].name)
      BY <1>1, <2>2 DEF Tags
    <2>5. rows[i][k] \in R
      <3>1. rows[i] \in Seq(R)
        OBVIOUS
      <3> HIDE DEF R, k
      <3>2. QED
        BY <2>2, <3>1
    <2>6. "project" \in DOMAIN rows[i][k]
      <3>1. PICK j \in 1..n : rows[i][k] \in {SummaryOf(q) : q \in views[j].projects}
        BY <2>5
      <3>2. PICK q : rows[i][k] = SummaryOf(q)
        BY <3>1
      <3>3. "project" \in DOMAIN SummaryOf(q)
        BY DEF SummaryOf
      <3>4. QED
        BY <3>2, <3>3
    <2> HIDE DEF k, g
    <2>7. QED
      BY <2>2, <2>3, <2>4, <2>6, TagKeeps
  <1> HIDE DEF g
  <1>8. QED
    BY <1>5, <1>6, <1>7 DEF PagesEach, P, t

\* The counts of the profiles, each added up.
OfStatus(view, s) == {p \in view.projects : p.status = s}
Deployed(view) == [p \in view.projects |-> Cardinality(p.deployments)]

AddsUp(overview, views, n) ==
  /\ overview.projects = Total([i \in 1..n |-> Cardinality(views[i].projects)])
  /\ overview.machines = Total([i \in 1..n |-> Cardinality(views[i].machines)])
  /\ overview.remotes = Total([i \in 1..n |-> Cardinality(views[i].servers)])
  /\ overview.deployments = Total([i \in 1..n |-> Total(Deployed(views[i]))])
  /\ overview.by_status = [s \in UNION {Statuses(views[i]) : i \in 1..n} |->
                             Total([i \in 1..n |-> Cardinality(OfStatus(views[i], s))])]

Countable(view) ==
  /\ IsFiniteSet(view.projects) /\ IsFiniteSet(view.machines) /\ IsFiniteSet(view.servers)
  /\ \A p \in view.projects : IsFiniteSet(p.deployments)

LEMMA CountsOf ==
  ASSUME NEW view, Countable(view)
  PROVE  /\ Cardinality(view.projects) \in Nat
         /\ Cardinality(view.machines) \in Nat
         /\ Cardinality(view.servers) \in Nat
         /\ \A p \in view.projects : Deployed(view)[p] \in Nat
         /\ Total(Deployed(view)) \in Nat
         /\ \A s : IsFiniteSet(OfStatus(view, s)) /\ Cardinality(OfStatus(view, s)) \in Nat
         /\ \A s : s \notin Statuses(view) => Cardinality(OfStatus(view, s)) = 0
  <1> DEFINE f == Deployed(view)
             S == [p \in view.projects |-> p.deployments]
  <1>1. /\ Cardinality(view.projects) \in Nat /\ Cardinality(view.machines) \in Nat
        /\ Cardinality(view.servers) \in Nat /\ \A p \in view.projects : Cardinality(p.deployments) \in Nat
    BY FS_CardinalityType DEF Countable
  <1>2. DOMAIN f = view.projects /\ \A p \in view.projects : f[p] = Cardinality(p.deployments)
    BY DEF Deployed
  <1>3. Total(f) \in Nat
    <2>1. \A p \in view.projects : S[p] = p.deployments
      OBVIOUS
    <2> HIDE DEF f, S
    <2>2. IsFiniteSet(DOMAIN f) /\ \A i \in DOMAIN f : IsFiniteSet(S[i]) /\ f[i] = Cardinality(S[i])
      BY <1>2, <2>1 DEF Countable
    <2>3. QED
      BY ONLY <2>2, TotalIs
  <1>4. ASSUME NEW s
        PROVE  /\ IsFiniteSet(OfStatus(view, s)) /\ Cardinality(OfStatus(view, s)) \in Nat
               /\ s \notin Statuses(view) => Cardinality(OfStatus(view, s)) = 0
    <2>1. OfStatus(view, s) \in SUBSET view.projects
      BY DEF OfStatus
    <2>2. IsFiniteSet(OfStatus(view, s))
      BY <2>1, FS_Subset DEF Countable
    <2>3. s \notin Statuses(view) => OfStatus(view, s) = {}
      BY DEF Statuses, OfStatus
    <2>4. QED
      BY <2>2, <2>3, FS_CardinalityType, FS_EmptySet
  <1>5. QED
    BY <1>1, <1>2, <1>3, <1>4

LEMMA OneTerm ==
  ASSUME NEW f, DOMAIN f = 1..1, f[1] \in Nat
  PROVE  Total(f) = f[1]
  <1>1. IsFiniteSet(1..f[1]) /\ Cardinality(1..f[1]) = f[1]
    BY UpTo
  <1>2. DOMAIN f = {1}
    OBVIOUS
  <1>3. QED
    BY <1>1, <1>2, TotalOfOne

LEMMA OneProfile ==
  ASSUME NEW views, Countable(views[1])
  PROVE  AddsUp(BuildOverview(views[1]), views, 1)
  <1> DEFINE v == views[1]
             o == BuildOverview(v)
             projects == [i \in 1..1 |-> Cardinality(views[i].projects)]
             machines == [i \in 1..1 |-> Cardinality(views[i].machines)]
             remotes == [i \in 1..1 |-> Cardinality(views[i].servers)]
             deployments == [i \in 1..1 |-> Total(Deployed(views[i]))]
             status(s) == [i \in 1..1 |-> Cardinality(OfStatus(views[i], s))]
  <1>1. /\ o.projects = Cardinality(v.projects) /\ o.machines = Cardinality(v.machines)
        /\ o.remotes = Cardinality(v.servers) /\ o.deployments = Total(Deployed(v))
        /\ o.by_status = [s \in Statuses(v) |-> Cardinality(OfStatus(v, s))]
    BY DEF BuildOverview, Deployed, OfStatus
  <1>2. /\ DOMAIN projects = 1..1 /\ projects[1] = Cardinality(v.projects)
        /\ DOMAIN machines = 1..1 /\ machines[1] = Cardinality(v.machines)
        /\ DOMAIN remotes = 1..1 /\ remotes[1] = Cardinality(v.servers)
        /\ DOMAIN deployments = 1..1 /\ deployments[1] = Total(Deployed(v))
        /\ \A s : DOMAIN status(s) = 1..1 /\ status(s)[1] = Cardinality(OfStatus(v, s))
    OBVIOUS
  <1> HIDE DEF projects, machines, remotes, deployments, status, o
  <1>3. Total(projects) = o.projects
    BY <1>1, <1>2, CountsOf, OneTerm
  <1>4. Total(machines) = o.machines
    BY <1>1, <1>2, CountsOf, OneTerm
  <1>5. Total(remotes) = o.remotes
    BY <1>1, <1>2, CountsOf, OneTerm
  <1>6. Total(deployments) = o.deployments
    BY <1>1, <1>2, CountsOf, OneTerm
  <1>7. ASSUME NEW s PROVE Total(status(s)) = Cardinality(OfStatus(v, s))
    BY <1>2, CountsOf, OneTerm
  <1>8. UNION {Statuses(views[i]) : i \in 1..1} = Statuses(v)
    <2>1. {Statuses(views[i]) : i \in 1..1} = {Statuses(v)}
      OBVIOUS
    <2>2. QED
      BY <2>1
  <1>9. [s \in UNION {Statuses(views[i]) : i \in 1..1} |-> Total(status(s))] = o.by_status
    BY <1>1, <1>7, <1>8
  <1>10. QED
    BY <1>3, <1>4, <1>5, <1>6, <1>9 DEF AddsUp, projects, machines, remotes, deployments, status, o

LEMMA SeveralProfiles ==
  ASSUME NEW n \in Nat, NEW views, DOMAIN views = 1..n, \A i \in 1..n : Countable(views[i])
  PROVE  AddsUp(MergeOverviews([i \in 1..n |-> BuildOverview(views[i])]), views, n)
  <1> DEFINE parts == [i \in 1..n |-> BuildOverview(views[i])]
             o == MergeOverviews(parts)
             of(part, s) == IF s \in DOMAIN part.by_status THEN part.by_status[s] ELSE 0
  <1>1. DOMAIN parts = 1..n
    OBVIOUS
  <1>2. ASSUME NEW i \in 1..n
        PROVE  /\ parts[i].projects = Cardinality(views[i].projects)
               /\ parts[i].machines = Cardinality(views[i].machines)
               /\ parts[i].remotes = Cardinality(views[i].servers)
               /\ parts[i].deployments = Total(Deployed(views[i]))
               /\ DOMAIN parts[i].by_status = Statuses(views[i])
               /\ \A s : of(parts[i], s) = Cardinality(OfStatus(views[i], s))
    <2>1. parts[i] = BuildOverview(views[i])
      OBVIOUS
    <2> HIDE DEF parts
    <2>2. /\ parts[i].projects = Cardinality(views[i].projects)
          /\ parts[i].machines = Cardinality(views[i].machines)
          /\ parts[i].remotes = Cardinality(views[i].servers)
          /\ parts[i].deployments = Total(Deployed(views[i]))
          /\ parts[i].by_status = [s \in Statuses(views[i]) |-> Cardinality(OfStatus(views[i], s))]
      BY <2>1 DEF BuildOverview, Deployed, OfStatus
    <2>3. \A s : s \notin Statuses(views[i]) => Cardinality(OfStatus(views[i], s)) = 0
      BY CountsOf
    <2>4. QED
      BY <2>2, <2>3
  <1> HIDE DEF parts
  <1>3. /\ o.projects = Total([i \in 1..n |-> parts[i].projects])
        /\ o.machines = Total([i \in 1..n |-> parts[i].machines])
        /\ o.remotes = Total([i \in 1..n |-> parts[i].remotes])
        /\ o.deployments = Total([i \in 1..n |-> parts[i].deployments])
        /\ o.by_status = [s \in UNION {DOMAIN parts[i].by_status : i \in 1..n} |->
                            Total([i \in 1..n |-> of(parts[i], s)])]
    BY <1>1 DEF MergeOverviews
  <1> HIDE DEF o, of
  <1>4. /\ [i \in 1..n |-> parts[i].projects] = [i \in 1..n |-> Cardinality(views[i].projects)]
        /\ [i \in 1..n |-> parts[i].machines] = [i \in 1..n |-> Cardinality(views[i].machines)]
        /\ [i \in 1..n |-> parts[i].remotes] = [i \in 1..n |-> Cardinality(views[i].servers)]
        /\ [i \in 1..n |-> parts[i].deployments] = [i \in 1..n |-> Total(Deployed(views[i]))]
        /\ \A s : [i \in 1..n |-> of(parts[i], s)] = [i \in 1..n |-> Cardinality(OfStatus(views[i], s))]
        /\ {DOMAIN parts[i].by_status : i \in 1..n} = {Statuses(views[i]) : i \in 1..n}
    BY <1>2
  <1>5. o.by_status = [s \in UNION {Statuses(views[i]) : i \in 1..n} |->
                         Total([i \in 1..n |-> Cardinality(OfStatus(views[i], s))])]
    BY <1>3, <1>4
  <1>6. QED
    BY <1>3, <1>4, <1>5 DEF AddsUp, o, parts

LEMMA OverviewIs ==
  ASSUME NEW n \in Nat, NEW views, DOMAIN views = 1..n, \A i \in 1..n : Countable(views[i])
  PROVE  AddsUp(OverviewPage(views), views, n)
  <1> DEFINE parts == [i \in 1..n |-> BuildOverview(views[i])]
  <1>1. parts = [i \in DOMAIN views |-> BuildOverview(views[i])] /\ Len(parts) = n
    OBVIOUS
  <1>2. OverviewPage(views) = IF n = 1 THEN parts[1] ELSE MergeOverviews(parts)
    BY <1>1 DEF OverviewPage
  <1>3. CASE n = 1
    <2>1. parts[1] = BuildOverview(views[1])
      BY <1>3
    <2>2. Countable(views[1])
      BY <1>3
    <2>3. QED
      BY <1>2, <1>3, <2>1, <2>2, OneProfile
  <1>4. CASE n # 1
    BY <1>2, <1>4, SeveralProfiles
  <1>5. QED
    BY <1>3, <1>4

LEMMA StatusSum ==
  ASSUME NEW n \in Nat, NEW views, \A i \in 1..n : Countable(views[i]), NEW o, AddsUp(o, views, n)
  PROVE  o.projects = Total(o.by_status)
  <1> DEFINE P == Projects(views, n)
             C == Couples(1..n, P)
             k == [c \in C |-> c[2].status]
             f == o.by_status
             K == UNION {Statuses(views[i]) : i \in 1..n}
             T(s) == [i \in 1..n |-> OfStatus(views[i], s)]
             counts == [i \in 1..n |-> Cardinality(views[i].projects)]
             each(s) == [i \in 1..n |-> Cardinality(OfStatus(views[i], s))]
  <1>1. \A i \in 1..n : P[i] = views[i].projects /\ IsFiniteSet(P[i])
    BY DEF Projects, Countable
  <1>2. /\ \A i \in 1..n : \A x \in P[i] : <<i, x>> \in C
        /\ \A c \in C : c[1] \in 1..n /\ c[2] \in P[c[1]] /\ c = <<c[1], c[2]>>
    BY CouplesAre
  <1>3. IsFiniteSet(1..n)
    BY UpTo
  <1>4. Total(counts) = Cardinality(C) /\ IsFiniteSet(C)
    <2>1. DOMAIN counts = 1..n /\ \A i \in 1..n : counts[i] = Cardinality(views[i].projects)
      OBVIOUS
    <2> HIDE DEF counts, P
    <2>2. IsFiniteSet(DOMAIN counts) /\ \A i \in DOMAIN counts : IsFiniteSet(P[i]) /\ counts[i] = Cardinality(P[i])
      BY <1>1, <1>3, <2>1
    <2>3. /\ Total(counts) = Cardinality(Couples(DOMAIN counts, P))
          /\ IsFiniteSet(Couples(DOMAIN counts, P))
      BY ONLY <2>2, TotalIs
    <2>4. QED
      BY <2>1, <2>3
  <1>5. DOMAIN k = C /\ \A c \in C : k[c] = c[2].status
    OBVIOUS
  <1> HIDE DEF P, C
  <1>6. {k[c] : c \in C} = K
    <2>1. ASSUME NEW c \in C PROVE k[c] \in K
      <3>1. c[1] \in 1..n /\ c[2] \in views[c[1]].projects
        BY <1>1, <1>2
      <3>2. k[c] \in Statuses(views[c[1]])
        BY <3>1 DEF Statuses
      <3>3. QED
        BY <3>1, <3>2
    <2>2. ASSUME NEW s \in K PROVE \E c \in C : k[c] = s
      <3>1. PICK i \in 1..n : s \in Statuses(views[i])
        OBVIOUS
      <3>2. PICK p \in views[i].projects : p.status = s
        BY <3>1 DEF Statuses
      <3>3. <<i, p>> \in C
        BY <1>1, <1>2
      <3>4. k[<<i, p>>] = s
        BY <3>2, <3>3
      <3>5. QED
        BY <3>3, <3>4
    <2> HIDE DEF K, k
    <2>3. QED
      BY <2>1, <2>2
  <1>7. ASSUME NEW s \in K PROVE Total(each(s)) = Cardinality({c \in C : k[c] = s})
    <2>1. \A i \in 1..n : T(s)[i] = OfStatus(views[i], s)
      OBVIOUS
    <2>2. DOMAIN each(s) = 1..n /\ \A i \in 1..n : each(s)[i] = Cardinality(OfStatus(views[i], s))
      OBVIOUS
    <2>3. \A i \in 1..n : IsFiniteSet(OfStatus(views[i], s))
      BY CountsOf
    <2> DEFINE e == each(s)
               t == T(s)
    <2> HIDE DEF T, each, e, t
    <2>4. IsFiniteSet(DOMAIN e) /\ \A i \in DOMAIN e : IsFiniteSet(t[i]) /\ e[i] = Cardinality(t[i])
      BY <1>3, <2>1, <2>2, <2>3 DEF e, t
    <2>5. Total(e) = Cardinality(Couples(DOMAIN e, t))
      BY ONLY <2>4, TotalIs
    <2>6. Couples(1..n, t) = {c \in C : k[c] = s}
      <3>1. /\ \A i \in 1..n : \A x \in t[i] : <<i, x>> \in Couples(1..n, t)
            /\ \A c \in Couples(1..n, t) : c[1] \in 1..n /\ c[2] \in t[c[1]] /\ c = <<c[1], c[2]>>
        BY CouplesAre
      <3>2. \A i \in 1..n : \A x : x \in t[i] <=> x \in P[i] /\ x.status = s
        BY <1>1, <2>1 DEF t, OfStatus
      <3>3. ASSUME NEW c \in Couples(1..n, t) PROVE c \in C /\ k[c] = s
        <4>1. c[1] \in 1..n /\ c[2] \in P[c[1]] /\ c[2].status = s /\ c = <<c[1], c[2]>>
          BY <3>1, <3>2
        <4>2. c \in C
          BY <4>1, <1>2
        <4>3. QED
          BY <4>1, <4>2
      <3>4. ASSUME NEW c \in C, k[c] = s PROVE c \in Couples(1..n, t)
        <4>1. c[1] \in 1..n /\ c[2] \in P[c[1]] /\ c[2].status = s /\ c = <<c[1], c[2]>>
          BY <3>4, <1>2
        <4>2. QED
          BY <4>1, <3>1, <3>2
      <3> HIDE DEF k
      <3>5. QED
        BY <3>3, <3>4
    <2>7. QED
      BY <2>2, <2>5, <2>6 DEF e
  <1>8. f = [s \in K |-> Total(each(s))] /\ o.projects = Total(counts)
    BY DEF AddsUp
  <1> HIDE DEF each, T, counts, f
  <1>9. f = [s \in {k[c] : c \in C} |-> Cardinality({c \in C : k[c] = s})]
    <2> HIDE DEF K, k
    <2>1. QED
      BY <1>6, <1>7, <1>8
  <1>10. k = [c \in C |-> k[c]]
    OBVIOUS
  <1> HIDE DEF k, K
  <1>11. Total(f) = Cardinality(C)
    BY <1>4, <1>5, <1>9, <1>10, Parted
  <1>12. QED
    BY <1>4, <1>8, <1>11 DEF f

LEMMA DeploymentSum ==
  ASSUME NEW n \in Nat, NEW views, \A i \in 1..n : Countable(views[i]),
         NEW t, NEW g, PagesEach(t, views, n, g)
  PROVE  Total([i \in 1..n |-> Total(Deployed(views[i]))])
           = Total([j \in DOMAIN t |-> Cardinality(t[j].project.deployments)])
  <1> DEFINE F == [i \in 1..n |-> Deployed(views[i])]
             P == Projects(views, n)
             C == Couples(1..n, P)
             e == [i \in 1..n |-> Total(Deployed(views[i]))]
             f == [c \in C |-> F[c[1]][c[2]]]
             h == [j \in DOMAIN t |-> Cardinality(t[j].project.deployments)]
  <1>1. \A i \in 1..n : P[i] = views[i].projects /\ IsFiniteSet(P[i]) /\ F[i] = Deployed(views[i])
    BY DEF Projects, Countable
  <1>2. \A i \in 1..n : DOMAIN Deployed(views[i]) = P[i]
    BY <1>1 DEF Deployed
  <1>3. \A i \in 1..n : \A p \in P[i] : /\ Deployed(views[i])[p] \in Nat
                                        /\ Deployed(views[i])[p] = Cardinality(p.deployments)
    BY <1>1, CountsOf DEF Deployed
  <1>4. IsFiniteSet(1..n)
    BY UpTo
  <1>5. DOMAIN e = 1..n /\ \A i \in 1..n : e[i] = Total(F[i])
    BY <1>1
  <1>6. DOMAIN f = C /\ \A c \in C : f[c] = F[c[1]][c[2]]
    OBVIOUS
  <1> HIDE DEF F, P, e, f, C
  <1>a. Total(e) = Total(f)
    <2>1. \A i \in 1..n : DOMAIN F[i] = P[i] /\ IsFiniteSet(P[i]) /\ \A x \in P[i] : F[i][x] \in Nat
      BY <1>1, <1>2, <1>3
    <2>2. DOMAIN f = Couples(1..n, P) /\ \A c \in Couples(1..n, P) : f[c] = F[c[1]][c[2]]
      BY <1>6 DEF C
    <2>3. SumOfSums(1..n, F, P, e, f)
      BY <1>4, <1>5, <2>1, <2>2 DEF SumOfSums
    <2>4. QED
      BY <2>3, TotalOfTotals
  <1>7. OneToOne(g, C, 1..Len(t)) /\ DOMAIN t = 1..Len(t)
    BY DEF PagesEach, P, C
  <1>8. \A c \in C : c[1] \in 1..n /\ c[2] \in P[c[1]] /\ c = <<c[1], c[2]>>
    BY CouplesAre DEF C
  <1>9. IsFiniteSet(C)
    BY <1>1, <1>4, CouplesFinite DEF C
  <1>10. ASSUME NEW c \in C PROVE f[c] \in Nat /\ f[c] = h[g[c]]
    <2> DEFINE i == c[1]
               p == c[2]
    <2>1. i \in 1..n /\ p \in P[i] /\ p \in views[i].projects /\ c = <<i, p>>
      BY <1>1, <1>8
    <2>2. f[c] = Cardinality(p.deployments) /\ f[c] \in Nat
      BY <2>1, <1>1, <1>3, <1>6
    <2>3. t[g[c]].project = p
      BY <2>1 DEF PagesEach
    <2>4. g[c] \in DOMAIN t
      BY <1>7 DEF OneToOne
    <2>5. h[g[c]] = Cardinality(p.deployments)
      BY <2>3, <2>4
    <2>6. QED
      BY <2>2, <2>5
  <1>11. DOMAIN f = C /\ DOMAIN h = 1..Len(t)
    BY <1>6, <1>7
  <1> HIDE DEF h
  <1>12. Total(f) = Total(h)
    <2>1. IsFiniteSet(DOMAIN f) /\ OneToOne(g, DOMAIN f, DOMAIN h)
      BY <1>7, <1>9, <1>11
    <2>2. \A a \in DOMAIN f : f[a] \in Nat /\ f[a] = h[g[a]]
      BY <1>10, <1>11
    <2>3. QED
      BY ONLY <2>1, <2>2, TotalMoved
  <1>13. QED
    BY <1>a, <1>12 DEF e, h

ProjectPages(views) == Tagged(views, [i \in DOMAIN views |-> ProjectSummaries(views[i])])
MachinePages(views) == Tagged(views, [i \in DOMAIN views |-> MachineRows(views[i])])
RemotePages(views) == Tagged(views, [i \in DOMAIN views |-> RemoteRows(views[i])])

LEMMA SumsAre ==
  ASSUME NEW n \in Nat, NEW views, DOMAIN views = 1..n, None \notin Moment,
         \A i \in 1..n : /\ Countable(views[i])
                         /\ \A p \in views[i].projects : p.active \in Moment \cup {None}
  PROVE  Sums(OverviewPage(views), views, ProjectPages(views), MachinePages(views), RemotePages(views))
  <1> DEFINE o == OverviewPage(views)
             t == ProjectPages(views)
             summaries == [i \in 1..n |-> ProjectSummaries(views[i])]
             machines == [i \in 1..n |-> MachineRows(views[i])]
             remotes == [i \in 1..n |-> RemoteRows(views[i])]
             R == UNION {{SummaryOf(p) : p \in views[i].projects} : i \in 1..n}
             M == UNION {{MachineRow(views[i], m) : m \in views[i].machines} : i \in 1..n}
             V == UNION {{RemoteRow(views[i], r) : r \in views[i].servers} : i \in 1..n}
  <1>1. AddsUp(o, views, n)
    BY OverviewIs
  <1>2. /\ t = Tagged(views, summaries)
        /\ MachinePages(views) = Tagged(views, machines)
        /\ RemotePages(views) = Tagged(views, remotes)
    BY DEF ProjectPages, MachinePages, RemotePages
  <1> HIDE DEF o, t
  <1>3. \A i \in 1..n : ListsEach(summaries[i], views[i].projects)
    <2> SUFFICES ASSUME NEW i \in 1..n PROVE ListsEach(ProjectSummaries(views[i]), views[i].projects)
      OBVIOUS
    <2>1. QED
      BY SummariesAre DEF Countable
  <1>a. \A X, Y, s : s \in Seq(X) /\ X \subseteq Y => s \in Seq(Y)
    <2> SUFFICES ASSUME NEW X, NEW Y, NEW s \in Seq(X), X \subseteq Y PROVE s \in Seq(Y)
      OBVIOUS
    <2>1. s \in [1..Len(s) -> Y] /\ Len(s) \in Nat
      OBVIOUS
    <2>2. QED
      BY <2>1
  <1>4. summaries \in [1..n -> Seq(R)]
    <2> SUFFICES ASSUME NEW i \in 1..n PROVE summaries[i] \in Seq(R)
      OBVIOUS
    <2>1. summaries[i] \in Seq({SummaryOf(p) : p \in views[i].projects})
      BY <1>3 DEF ListsEach
    <2>2. {SummaryOf(p) : p \in views[i].projects} \subseteq R
      OBVIOUS
    <2> HIDE DEF R, summaries
    <2>3. QED
      BY <2>1, <2>2, <1>a
  <1>5. /\ machines \in [1..n -> Seq(M)]
        /\ \A i \in 1..n : Len(machines[i]) = Cardinality(views[i].machines)
    <2> SUFFICES ASSUME NEW i \in 1..n
                 PROVE  machines[i] \in Seq(M) /\ Len(machines[i]) = Cardinality(views[i].machines)
      OBVIOUS
    <2>1. /\ machines[i] \in Seq({MachineRow(views[i], m) : m \in views[i].machines})
          /\ Len(machines[i]) = Cardinality(views[i].machines)
      BY MachinesListed DEF Countable
    <2>2. {MachineRow(views[i], m) : m \in views[i].machines} \subseteq M
      OBVIOUS
    <2> HIDE DEF M, machines
    <2>3. QED
      BY <2>1, <2>2, <1>a
  <1>6. /\ remotes \in [1..n -> Seq(V)]
        /\ \A i \in 1..n : Len(remotes[i]) = Cardinality(views[i].servers)
    <2> SUFFICES ASSUME NEW i \in 1..n
                 PROVE  remotes[i] \in Seq(V) /\ Len(remotes[i]) = Cardinality(views[i].servers)
      OBVIOUS
    <2>1. /\ remotes[i] \in Seq({RemoteRow(views[i], r) : r \in views[i].servers})
          /\ Len(remotes[i]) = Cardinality(views[i].servers)
      BY RemotesListed DEF Countable
    <2>2. {RemoteRow(views[i], r) : r \in views[i].servers} \subseteq V
      OBVIOUS
    <2> HIDE DEF V, remotes
    <2>3. QED
      BY <2>1, <2>2, <1>a
  <1> HIDE DEF summaries, machines, remotes, R, M, V
  <1>7. o.projects = Len(t)
    <2> DEFINE S == [i \in 1..n |-> views[i].projects]
               f == [i \in 1..n |-> Cardinality(views[i].projects)]
    <2>1. \A i \in 1..n : S[i] = views[i].projects
      OBVIOUS
    <2>2. DOMAIN f = 1..n /\ \A i \in 1..n : f[i] = Cardinality(S[i])
      BY <2>1
    <2> HIDE DEF S, f
    <2>3. \A i \in 1..n : IsFiniteSet(S[i]) /\ Len(summaries[i]) = Cardinality(S[i])
      BY <1>3, <2>1 DEF ListsEach, Countable
    <2>4. n \in Nat /\ DOMAIN views = 1..n /\ summaries \in [1..n -> Seq(R)]
      BY <1>4
    <2>5. RowsFor(n, views, R, summaries, S, f)
      BY <2>2, <2>3, <2>4 DEF RowsFor
    <2>6. Len(Tagged(views, summaries)) = Total(f)
      BY <2>5, RowsCounted
    <2>7. QED
      BY <1>1, <1>2, <2>6 DEF AddsUp, f
  <1>8. o.machines = Len(MachinePages(views))
    <2> DEFINE S == [i \in 1..n |-> views[i].machines]
               f == [i \in 1..n |-> Cardinality(views[i].machines)]
    <2>1. \A i \in 1..n : S[i] = views[i].machines
      OBVIOUS
    <2>2. DOMAIN f = 1..n /\ \A i \in 1..n : f[i] = Cardinality(S[i])
      BY <2>1
    <2> HIDE DEF S, f
    <2>3. \A i \in 1..n : IsFiniteSet(S[i]) /\ Len(machines[i]) = Cardinality(S[i])
      BY <1>5, <2>1 DEF Countable
    <2>4. n \in Nat /\ DOMAIN views = 1..n /\ machines \in [1..n -> Seq(M)]
      BY <1>5
    <2>5. RowsFor(n, views, M, machines, S, f)
      BY <2>2, <2>3, <2>4 DEF RowsFor
    <2>6. Len(Tagged(views, machines)) = Total(f)
      BY <2>5, RowsCounted
    <2>7. QED
      BY <1>1, <1>2, <2>6 DEF AddsUp, f
  <1>9. o.remotes = Len(RemotePages(views))
    <2> DEFINE S == [i \in 1..n |-> views[i].servers]
               f == [i \in 1..n |-> Cardinality(views[i].servers)]
    <2>1. \A i \in 1..n : S[i] = views[i].servers
      OBVIOUS
    <2>2. DOMAIN f = 1..n /\ \A i \in 1..n : f[i] = Cardinality(S[i])
      BY <2>1
    <2> HIDE DEF S, f
    <2>3. \A i \in 1..n : IsFiniteSet(S[i]) /\ Len(remotes[i]) = Cardinality(S[i])
      BY <1>6, <2>1 DEF Countable
    <2>4. n \in Nat /\ DOMAIN views = 1..n /\ remotes \in [1..n -> Seq(V)]
      BY <1>6
    <2>5. RowsFor(n, views, V, remotes, S, f)
      BY <2>2, <2>3, <2>4 DEF RowsFor
    <2>6. Len(Tagged(views, remotes)) = Total(f)
      BY <2>5, RowsCounted
    <2>7. QED
      BY <1>1, <1>2, <2>6 DEF AddsUp, f
  <1>10. o.projects = Total(o.by_status)
    BY <1>1, StatusSum
  <1>11. PICK g : PagesEach(t, views, n, g)
    <2>1. \E g : PagesEach(Tagged(views, summaries), views, n, g)
      BY <1>3, <1>4, ProjectsPaged DEF R
    <2>2. QED
      BY <1>2, <2>1
  <1>12. o.deployments = Total([j \in DOMAIN t |-> Cardinality(t[j].project.deployments)])
    <2>1. o.deployments = Total([i \in 1..n |-> Total(Deployed(views[i]))])
      BY <1>1 DEF AddsUp
    <2>2. Total([i \in 1..n |-> Total(Deployed(views[i]))])
            = Total([j \in DOMAIN t |-> Cardinality(t[j].project.deployments)])
      BY <1>11, DeploymentSum
    <2>3. QED
      BY <2>1, <2>2
  <1>13. ASSUME NEW j \in DOMAIN t
         PROVE  \E v \in Range(views) : v.name = t[j].profile /\ t[j].project \in v.projects
    <2> DEFINE C == Couples(1..n, Projects(views, n))
    <2>1. PICK c \in C : g[c] = j
      BY <1>11 DEF PagesEach, OneToOne
    <2>2. c[1] \in 1..n /\ c[2] \in Projects(views, n)[c[1]] /\ c = <<c[1], c[2]>>
      BY CouplesAre
    <2>3. c[2] \in views[c[1]].projects
      BY <2>2 DEF Projects
    <2>4. t[j].project = c[2] /\ t[j].profile = views[c[1]].name
      BY <1>11, <2>1, <2>2, <2>3 DEF PagesEach
    <2>5. views[c[1]] \in Range(views)
      BY <2>2 DEF Range
    <2>6. QED
      BY <2>3, <2>4, <2>5
  <1>14. QED
    BY <1>7, <1>8, <1>9, <1>10, <1>12, <1>13 DEF Sums, o, t

LEMMA StatusKept ==
  FilesOfProjects /\ CountsOfRecords /\ StatusAgrees /\ [Next]_vars => StatusAgrees'
  <1> SUFFICES ASSUME FilesOfProjects, CountsOfRecords, StatusAgrees, [Next]_vars PROVE StatusAgrees'
    OBVIOUS
  <1>1. CASE AskStatus
    <2> DEFINE filter(before) ==
                 [statuses |-> {}, all |-> FALSE, stale |-> before, deployed |-> FALSE, dirty |-> FALSE]
    <2>1. PICK projects \in Portfolios, before \in {f.stale : f \in Filters} \ {None} :
            /\ asked' = [kind |-> "status", projects |-> projects, stale |-> before]
            /\ answer' = [report |-> StatusReport(projects, before),
                          review |-> FilterProjects(projects, filter(before))]
      BY <1>1 DEF AskStatus, Ask
    <2>2. StatusReport(projects, before).stale = FilterProjects(projects, filter(before))
      <3>1. before # None
        OBVIOUS
      <3>2. ASSUME NEW p \in projects
            PROVE  p \in StatusReport(projects, before).stale <=> p \in FilterProjects(projects, filter(before))
        BY <3>1 DEF StatusReport, FilterProjects
      <3>3. /\ StatusReport(projects, before).stale \subseteq projects
            /\ FilterProjects(projects, filter(before)) \subseteq projects
        BY DEF StatusReport, FilterProjects
      <3>4. QED
        BY <3>2, <3>3
    <2>3. Total(StatusReport(projects, before).byStatus) = Cardinality(projects)
      BY StatusCounts DEF CountsOfRecords
    <2>4. /\ asked'.projects = projects /\ answer'.report = StatusReport(projects, before)
          /\ answer'.review = FilterProjects(projects, filter(before))
      BY <2>1
    <2>5. QED
      BY <2>2, <2>3, <2>4 DEF StatusAgrees
  <1>2. CASE UNCHANGED vars
    BY <1>2 DEF vars, StatusAgrees
  <1>3. CASE Next /\ ~AskStatus
    <2>1. asked'.kind # "status"
      BY <1>3, KindsAre DEF Next
    <2>2. QED
      BY <2>1 DEF StatusAgrees
  <1>4. QED
    BY <1>1, <1>2, <1>3

LEMMA ListsKept ==
  FilesOfProjects /\ CountsOfRecords /\ ListsAgree /\ [Next]_vars => ListsAgree'
  <1> SUFFICES ASSUME FilesOfProjects, CountsOfRecords, ListsAgree, [Next]_vars PROVE ListsAgree'
    OBVIOUS
  <1>1. CASE AskProjects
    <2>1. PICK projects \in Portfolios, filter \in Filters :
            /\ asked' = [kind |-> "projects", projects |-> projects, filter |-> filter]
            /\ answer' = [command |-> FilterProjects(projects, filter),
                          tool |-> ToolListProjects(projects, StatusOf(filter), filter.stale)]
      BY <1>1 DEF AskProjects, Ask
    <2>2. /\ None \notin Moment
          /\ \A p \in projects : {p.active, p.checkpointed, p.seen} \subseteq Moment \cup {None}
          /\ filter.stale \in Moment \cup {None} /\ None \notin filter.statuses
          /\ \A s, t \in filter.statuses : s = t
      BY DEF FilesOfProjects, CountsOfRecords
    <2>3. Both(projects, filter)
      BY <2>2, BothList
    <2>4. /\ asked'.projects = projects /\ asked'.filter = filter
          /\ answer'.command = FilterProjects(projects, filter)
          /\ answer'.tool = ToolListProjects(projects, StatusOf(filter), filter.stale)
      BY <2>1
    <2>5. QED
      BY <2>3, <2>4 DEF ListsAgree, Both
  <1>2. CASE UNCHANGED vars
    BY <1>2 DEF vars, ListsAgree
  <1>3. CASE Next /\ ~AskProjects
    <2>1. asked'.kind # "projects"
      BY <1>3, KindsAre DEF Next
    <2>2. QED
      BY <2>1 DEF ListsAgree
  <1>4. QED
    BY <1>1, <1>2, <1>3

LEMMA OverviewKept ==
  FilesOfProjects /\ CountsOfRecords /\ OverviewAgrees /\ [Next]_vars => OverviewAgrees'
  <1> SUFFICES ASSUME FilesOfProjects, CountsOfRecords, OverviewAgrees, [Next]_vars PROVE OverviewAgrees'
    OBVIOUS
  <1>1. CASE AskPage
    <2>1. PICK views \in ViewLists, request \in Requests :
            /\ asked' = [kind |-> "page", views |-> views, request |-> request, path |-> request.path]
            /\ answer' = Handle(views, request)
      BY <1>1 DEF AskPage, Ask
    <2>2. asked'.views = views /\ asked'.request = request /\ asked'.path = request.path
      BY <2>1
    <2>3. CASE request.path = "overview" /\ answer'.status = 200
      <3> DEFINE other(path) == [request EXCEPT !.path = path]
                 rows(path) == Handle(views, other(path)).body
                 n == Len(views)
      <3>1. request.method \in {"GET", "HEAD"}
        BY <2>1, <2>3 DEF Handle, Reply
      <3>2. answer'.body = OverviewPage(views)
        BY <2>1, <2>3, <3>1 DEF Handle, Reply
      <3>3. \A path : other(path).path = path /\ other(path).method = request.method
        BY DEF CountsOfRecords
      <3>4. /\ rows("projects") = ProjectPages(views)
            /\ rows("machines") = MachinePages(views)
            /\ rows("remotes") = RemotePages(views)
        <4>1. ASSUME NEW r, r.method \in {"GET", "HEAD"}
              PROVE  /\ r.path = "projects" => Handle(views, r).body = ProjectPages(views)
                     /\ r.path = "machines" => Handle(views, r).body = MachinePages(views)
                     /\ r.path = "remotes" => Handle(views, r).body = RemotePages(views)
          BY <4>1 DEF Handle, Reply, ProjectPages, MachinePages, RemotePages
        <4> HIDE DEF other
        <4>2. QED
          BY <3>1, <3>3, <4>1
      <3>5. n \in Nat /\ DOMAIN views = 1..n
        BY DEF FilesOfProjects
      <3>6. ASSUME NEW i \in 1..n
            PROVE  /\ Countable(views[i])
                   /\ \A p \in views[i].projects : p.active \in Moment \cup {None}
        <4>1. views[i] \in Range(views)
          BY <3>5 DEF Range
        <4>2. Followed(views[i].projects)
          BY <4>1 DEF FilesOfProjects
        <4>3. /\ IsFiniteSet(views[i].machines) /\ IsFiniteSet(views[i].servers)
              /\ \A p \in views[i].projects : IsFiniteSet(p.deployments)
          BY <4>1 DEF CountsOfRecords
        <4>4. QED
          BY <4>2, <4>3 DEF Countable, Followed
      <3>7. None \notin Moment
        BY DEF FilesOfProjects
      <3>8. Sums(OverviewPage(views), views, ProjectPages(views), MachinePages(views), RemotePages(views))
        <4> HIDE DEF n
        <4>1. QED
          BY <3>5, <3>6, <3>7, SumsAre
      <3> HIDE DEF rows
      <3>9. Sums(answer'.body, views, rows("projects"), rows("machines"), rows("remotes"))
        BY <3>2, <3>4, <3>8
      <3>10. QED
        BY <2>2, <3>9 DEF OverviewAgrees, rows, other
    <2>4. CASE ~(request.path = "overview" /\ answer'.status = 200)
      BY <2>2, <2>4 DEF OverviewAgrees
    <2>5. QED
      BY <2>3, <2>4
  <1>2. CASE UNCHANGED vars
    BY <1>2 DEF vars, OverviewAgrees
  <1>3. CASE Next /\ ~AskPage
    <2>1. asked'.kind # "page"
      BY <1>3, OnlyPages
    <2>2. QED
      BY <2>1 DEF OverviewAgrees
  <1>4. QED
    BY <1>1, <1>2, <1>3

\* status.ts:114-124, projects.ts:109-110 and server.ts: for any projects, filters and
\* profiles, the projects status calls untouched are those the command it names lists and
\* its counts are of all; the command and the tool list the same projects of a status; and
\* the totals of the overview are those of the dashboard's lists, in which each project of
\* each profile has one row.
THEOREM ListingsMatch == ASSUME FilesOfProjects, CountsOfRecords PROVE Spec => []ListingsAgree
  <1>1. Init => ListingsAgree
    BY DEF Init, Nothing, ListingsAgree, StatusAgrees, OverviewAgrees, ListsAgree
  <1>2. ListingsAgree /\ [Next]_vars => ListingsAgree'
    BY StatusKept, OverviewKept, ListsKept DEF ListingsAgree
  <1>3. QED
    BY <1>1, <1>2, PTL DEF Spec

(***************************************************************************)
(* The occurrences of a term                                               *)
(***************************************************************************)
LEMMA MinIs ==
  ASSUME NEW T \in SUBSET Nat, T # {}
  PROVE  Min(T) \in T /\ \A x \in T : Min(T) <= x
  <1>1. \E n \in T : \A k \in T : n <= k
    BY Least
  <1>2. QED
    BY <1>1 DEF Min

IsText(text) == text \in Seq(Range(text))
IsTerm(term) == term \in Seq(Range(term)) /\ term # <<>>

LEMMA StartsAre ==
  ASSUME NEW text, IsText(text), NEW term, IsTerm(term)
  PROVE  /\ Len(text) \in Nat /\ DOMAIN text = 1..Len(text) /\ Len(term) \in Nat /\ Len(term) > 0
         /\ \A i : i \in Starts(text, term) <=> i \in DOMAIN text /\ OccursAt(term, text, i)
         /\ \A i \in Starts(text, term) : i \in 1..Len(text) /\ i + Len(term) - 1 <= Len(text)
  <1> DEFINE n == Len(text)
             m == Len(term)
  <1>1. n \in Nat /\ DOMAIN text = 1..n /\ m \in Nat /\ m > 0 /\ DOMAIN term = 1..m
    BY DEF IsText, IsTerm
  <1>2. \A i : i \in Starts(text, term) <=> i \in 1..(n + 1 - m) /\ SubSeq(text, i, i + m - 1) = term
    BY DEF Starts
  <1>3. ASSUME NEW i \in 1..n, i + m - 1 <= n
        PROVE  SubSeq(text, i, i + m - 1) = term <=> \A k \in 1..m : text[i + k - 1] = term[k]
    <2> DEFINE s == SubSeq(text, i, i + m - 1)
    <2>1. /\ s = [k \in 1..m |-> text[i + k - 1]]
      <3>1. SubSeq(text, i, i + m - 1) = [k \in 1..(i + m - 1 - i + 1) |-> text[k + i - 1]]
        BY <1>1, <1>3 DEF IsText
      <3>2. i + m - 1 - i + 1 = m
        BY <1>1
      <3>3. \A k \in 1..m : k + i - 1 = i + k - 1
        BY <1>1
      <3>4. QED
        BY <3>1, <3>2, <3>3
    <2>2. term = [k \in 1..m |-> term[k]]
      BY <1>1 DEF IsTerm
    <2> HIDE DEF s, m
    <2>3. s = term <=> \A k \in 1..m : text[i + k - 1] = term[k]
      BY <2>1, <2>2
    <2>4. QED
      BY <2>3 DEF s
  <1>4. ASSUME NEW i, i \in Starts(text, term)
        PROVE  i \in 1..n /\ OccursAt(term, text, i) /\ i + m - 1 <= n
    <2>1. i \in 1..n /\ i + m - 1 <= n /\ SubSeq(text, i, i + m - 1) = term
      BY <1>1, <1>2, <1>4
    <2>2. \A k \in 1..m : text[i + k - 1] = term[k]
      BY <1>3, <2>1
    <2>3. \A k \in 1..m : i + k - 1 \in 1..n
      BY <1>1, <2>1
    <2>4. QED
      BY <1>1, <2>1, <2>2, <2>3 DEF OccursAt
  <1>5. ASSUME NEW i, i \in DOMAIN text, OccursAt(term, text, i)
        PROVE  i \in Starts(text, term)
    <2>1. m \in DOMAIN term /\ i \in 1..n
      BY <1>1, <1>5
    <2>2. i + m - 1 \in 1..n /\ \A k \in 1..m : text[i + k - 1] = term[k]
      BY <1>1, <1>5, <2>1 DEF OccursAt
    <2>3. SubSeq(text, i, i + m - 1) = term
      BY <1>3, <2>1, <2>2
    <2>4. i \in 1..(n + 1 - m)
      BY <1>1, <2>1, <2>2
    <2>5. QED
      BY <1>2, <2>3, <2>4
  <1>6. QED
    BY <1>1, <1>4, <1>5

\* What is found are occurrences, and some if there is any.
LEMMA OccurrencesAre ==
  ASSUME NEW text, IsText(text), NEW term, IsTerm(term)
  PROVE  /\ Occurrences(text, term) \subseteq Starts(text, term)
         /\ Starts(text, term) # {} => Occurrences(text, term) # {}
  <1> DEFINE S == Starts(text, term)
             n == Len(text)
             m == Len(term)
             indexOf(i) == Min({n + 1} \cup {s \in S : s >= i})
             Runs(f) == f = [k \in 0..n |-> IF k = 0 THEN indexOf(1) ELSE indexOf(f[k - 1] + m)]
             step == [k \in 1..n |-> [u \in Nat |-> indexOf(u + m)]]
             index == CHOOSE f : Runs(f)
  <1>1. n \in Nat /\ m \in Nat /\ m > 0 /\ S \subseteq 1..n
    BY StartsAre
  <1>2. Occurrences(text, term) = {index[k] : k \in 0..n} \cap S
    BY Zenon DEF Occurrences
  <1> HIDE DEF n, m, S
  <1>3. ASSUME NEW i \in Nat
        PROVE  /\ indexOf(i) \in Nat /\ indexOf(i) \in {n + 1} \cup {s \in S : s >= i}
               /\ \A s \in S : s >= i => indexOf(i) <= s
    <2> DEFINE T == {n + 1} \cup {s \in S : s >= i}
    <2>1. T \in SUBSET Nat /\ T # {}
      <3>1. n + 1 \in T /\ n + 1 \in Nat
        BY <1>1
      <3>2. \A s \in S : s \in Nat
        BY <1>1
      <3>3. QED
        BY <3>1, <3>2
    <2> HIDE DEF T
    <2>2. Min(T) \in T /\ \A x \in T : Min(T) <= x
      BY <2>1, MinIs
    <2>3. Min(T) \in Nat
      BY <2>1, <2>2
    <2>4. QED
      BY <2>2, <2>3 DEF T
  <1> DEFINE first == indexOf(1)
  <1> HIDE DEF indexOf
  <1>4. CanRepeat(n, Nat, first, step)
    <2>1. first \in Nat
      BY <1>3
    <2>2. step \in [1..n -> [Nat -> Nat]]
      <3>1. \A u \in Nat : indexOf(u + m) \in Nat
        BY <1>1, <1>3
      <3>2. QED
        BY <3>1
    <2> HIDE DEF first, step
    <2>3. QED
      BY <1>1, <2>1, <2>2 DEF CanRepeat
  <1>5. \A k \in 1..n : \A u \in Nat : step[k][u] = indexOf(u + m)
    OBVIOUS
  <1> HIDE DEF step
  <1>6. \E f : Runs(f)
    <2>1. PICK f : Repeats(f, n, Nat, first, step)
      BY <1>4, Iterated
    <2>2. f \in [0..n -> Nat] /\ f[0] = first /\ \A k \in 1..n : f[k] = step[k][f[k - 1]]
      BY <2>1 DEF Repeats
    <2>3. \A k \in 1..n : f[k] = indexOf(f[k - 1] + m)
      <3>1. \A k \in 1..n : f[k - 1] \in Nat
        BY <1>1, <2>2
      <3>2. QED
        BY <1>5, <2>2, <3>1
    <2>4. \A k \in 0..n : f[k] = IF k = 0 THEN indexOf(1) ELSE indexOf(f[k - 1] + m)
      <3>1. \A k \in 0..n : k # 0 => k \in 1..n
        BY <1>1
      <3>2. QED
        BY <2>2, <2>3, <3>1
    <2>5. Runs(f)
      BY <2>2, <2>4
    <2>6. QED
      BY <2>5
  <1>7. index[0] = indexOf(1)
    <2>1. Runs(index)
      BY <1>6
    <2> HIDE DEF index
    <2>2. QED
      BY <1>1, <2>1
  <1>8. ASSUME NEW s \in S PROVE index[0] \in S
    <2>1. s >= 1 /\ s \in 1..n
      BY <1>1
    <2>2. indexOf(1) <= s /\ indexOf(1) \in {n + 1} \cup S
      BY <1>3, <2>1
    <2>3. indexOf(1) # n + 1
      BY <1>1, <2>1, <2>2
    <2>4. QED
      BY <1>7, <2>2, <2>3
  <1>9. S # {} => Occurrences(text, term) # {}
    <2>1. 0 \in 0..n
      BY <1>1
    <2> HIDE DEF index
    <2>2. QED
      BY <1>2, <1>8, <2>1
  <1>10. Occurrences(text, term) \subseteq S
    <2> HIDE DEF index
    <2>1. QED
      BY <1>2
  <1>11. QED
    BY <1>9, <1>10 DEF S

(***************************************************************************)
(* Ranges merged                                                           *)
(***************************************************************************)
\* m is the ranges rs as far as they touch: apart from one another, whole, and no more.
Merges(m, rs) ==
  /\ m \in Seq(Nat \X Nat)
  /\ \A i \in 1..Len(m) : m[i][1] < m[i][2]
  /\ \A i, j \in 1..Len(m) : i < j => m[i][2] < m[j][1]
  /\ \A r \in rs : \E i \in 1..Len(m) : m[i][1] <= r[1] /\ r[2] <= m[i][2]
  /\ \A i \in 1..Len(m), x \in Nat : In(m[i], x) => \E r \in rs : In(r, x)

LEMMA TwoOrMore ==
  ASSUME NEW a \in Nat, NEW b \in Nat
  PROVE  Max({a, b}) = IF a < b THEN b ELSE a
  <1> DEFINE c == IF a < b THEN b ELSE a
  <1>1. c \in {a, b} /\ \A y \in {a, b} : c >= y
    OBVIOUS
  <1>2. \A x \in {a, b} : (\A y \in {a, b} : x >= y) => x = c
    OBVIOUS
  <1>3. Max({a, b}) \in {a, b} /\ \A y \in {a, b} : Max({a, b}) >= y
    BY <1>1 DEF Max
  <1>4. QED
    BY <1>2, <1>3

LEMMA TwoOrLess ==
  ASSUME NEW a \in Nat, NEW b \in Nat
  PROVE  Min({a, b}) = IF a < b THEN a ELSE b
  <1> DEFINE c == IF a < b THEN a ELSE b
  <1>1. c \in {a, b} /\ \A y \in {a, b} : c <= y
    OBVIOUS
  <1>2. \A x \in {a, b} : (\A y \in {a, b} : x <= y) => x = c
    OBVIOUS
  <1>3. Min({a, b}) \in {a, b} /\ \A y \in {a, b} : Min({a, b}) <= y
    BY <1>1 DEF Min
  <1>4. QED
    BY <1>2, <1>3

\* One range more: it widens the last, or comes after it.
LEMMA RangeAdded ==
  ASSUME NEW m \in Seq(Nat \X Nat), NEW r \in Nat \X Nat
  PROVE  LET n == Len(m)
             t == WithRange(m, r)
         IN /\ t \in Seq(Nat \X Nat)
            /\ \/ /\ m # <<>> /\ r[1] <= m[n][2] /\ Len(t) = n
                  /\ \A i \in 1..n : i # n => t[i] = m[i]
                  /\ t[n][1] = m[n][1] /\ t[n][2] = IF m[n][2] < r[2] THEN r[2] ELSE m[n][2]
               \/ /\ m = <<>> \/ m[n][2] < r[1]
                  /\ Len(t) = n + 1 /\ \A i \in 1..n : t[i] = m[i]
                  /\ t[n + 1] = r
  <1> DEFINE n == Len(m)
             t == WithRange(m, r)
  <1>1. n \in Nat /\ \A i \in 1..n : m[i] \in Nat \X Nat
    OBVIOUS
  <1>2. CASE m # <<>> /\ r[1] <= m[n][2]
    <2> DEFINE v == IF m[n][2] < r[2] THEN r[2] ELSE m[n][2]
               q == [m[n] EXCEPT ![2] = v]
    <2>1. n \in 1..n /\ m[n] \in Nat \X Nat
      BY <1>1, <1>2
    <2>2. Max({m[n][2], r[2]}) = v
      <3>1. m[n][2] \in Nat /\ r[2] \in Nat
        BY <2>1
      <3>2. QED
        BY <3>1, TwoOrMore
    <2>3. t = [m EXCEPT ![n] = q]
      <3>1. t = [m EXCEPT ![n] = [m[n] EXCEPT ![2] = Max({m[n][2], r[2]})]]
        BY <1>2 DEF WithRange
      <3>2. QED
        BY <2>2, <3>1
    <2>4. q \in Nat \X Nat /\ q[1] = m[n][1] /\ q[2] = v
      <3>1. v \in Nat
        BY <2>1
      <3> HIDE DEF v
      <3>2. PICK a \in Nat, b \in Nat : m[n] = <<a, b>>
        BY <2>1
      <3>3. q = <<a, v>>
        BY <3>2
      <3>4. QED
        BY <3>1, <3>2, <3>3
    <2> HIDE DEF q, v
    <2>5. t \in Seq(Nat \X Nat) /\ Len(t) = n
      <3> HIDE DEF t
      <3>1. m \in [1..n -> Nat \X Nat]
        OBVIOUS
      <3> HIDE DEF n
      <3>2. t \in [1..n -> Nat \X Nat]
        BY <2>3, <2>4, <3>1
      <3>3. QED
        BY <1>1, <3>2
    <2>6. t[n] = q /\ \A i \in 1..n : i # n => t[i] = m[i]
      BY <2>1, <2>3
    <2>7. QED
      BY <1>2, <2>4, <2>5, <2>6 DEF v
  <1>3. CASE ~(m # <<>> /\ r[1] <= m[n][2])
    <2>1. t = Append(m, r)
      BY <1>3 DEF WithRange
    <2>2. t \in Seq(Nat \X Nat) /\ Len(t) = n + 1 /\ t[n + 1] = r /\ \A i \in 1..n : t[i] = m[i]
      BY <1>1, <2>1
    <2>3. m = <<>> \/ m[n][2] < r[1]
      <3>1. ASSUME m # <<>> PROVE m[n][2] \in Nat /\ r[1] \in Nat
        BY <1>1, <3>1
      <3>2. QED
        BY <1>3, <3>1
    <2>4. QED
      BY <2>2, <2>3
  <1>4. QED
    BY <1>2, <1>3

\* The ranges so far, none of which begins after x.
MergesUpTo(m, rs, x) == Merges(m, rs) /\ (m # <<>> => m[Len(m)][1] <= x)

LEMMA MoreMerged ==
  ASSUME NEW m, NEW rs \in SUBSET (Nat \X Nat), NEW r \in Nat \X Nat, r[1] < r[2],
         MergesUpTo(m, rs, r[1])
  PROVE  MergesUpTo(WithRange(m, r), rs \cup {r}, r[1])
  <1> DEFINE n == Len(m)
             t == WithRange(m, r)
             k == Len(t)
  <1>1. /\ m \in Seq(Nat \X Nat) /\ n \in Nat
        /\ \A i \in 1..n : m[i][1] < m[i][2]
        /\ \A i, j \in 1..n : i < j => m[i][2] < m[j][1]
        /\ \A q \in rs : \E i \in 1..n : m[i][1] <= q[1] /\ q[2] <= m[i][2]
        /\ \A i \in 1..n, x \in Nat : In(m[i], x) => \E q \in rs : In(q, x)
        /\ m # <<>> => n \in 1..n /\ m[n][1] <= r[1]
    BY DEF MergesUpTo, Merges
  <1>2. \A i \in 1..n : m[i] \in Nat \X Nat /\ m[i][1] \in Nat /\ m[i][2] \in Nat
    BY <1>1
  <1>3. r[1] \in Nat /\ r[2] \in Nat /\ \A q \in rs : q[1] \in Nat /\ q[2] \in Nat
    OBVIOUS
  <1>4. t \in Seq(Nat \X Nat)
    BY <1>1, RangeAdded
  <1>5. CASE /\ m # <<>> /\ r[1] <= m[n][2] /\ k = n
             /\ \A i \in 1..n : i # n => t[i] = m[i]
             /\ t[n][1] = m[n][1] /\ t[n][2] = IF m[n][2] < r[2] THEN r[2] ELSE m[n][2]
    <2> HIDE DEF t, k, n
    <2>1. n \in 1..n /\ m[n][1] <= r[1] /\ n \in Nat
      BY <1>1, <1>5
    <2>2. m[n][2] <= t[n][2] /\ r[2] <= t[n][2] /\ t[n][2] \in Nat /\ t[n][1] \in Nat
      BY <1>2, <1>3, <1>5, <2>1
    <2>3. \A i \in 1..k : t[i][1] < t[i][2]
      <3>1. \A i \in 1..n : i # n => t[i][1] < t[i][2]
        BY <1>1, <1>5
      <3>2. t[n][1] < t[n][2]
        BY <1>1, <1>2, <1>5, <2>1, <2>2
      <3>3. QED
        BY <1>5, <3>1, <3>2
    <2>4. ASSUME NEW i \in 1..k, NEW j \in 1..k, i < j PROVE t[i][2] < t[j][1]
      <3>1. i \in 1..n /\ j \in 1..n /\ i # n
        BY <1>5, <2>1, <2>4
      <3>2. t[i] = m[i] /\ t[j][1] = m[j][1]
        BY <1>5, <3>1
      <3>3. QED
        BY <1>1, <2>4, <3>1, <3>2
    <2>5. ASSUME NEW q \in rs \cup {r} PROVE \E i \in 1..k : t[i][1] <= q[1] /\ q[2] <= t[i][2]
      <3>1. CASE q = r
        BY <1>5, <2>1, <2>2, <3>1
      <3>2. CASE q \in rs
        <4>1. PICK i \in 1..n : m[i][1] <= q[1] /\ q[2] <= m[i][2]
          BY <1>1, <3>2
        <4>2. t[i][1] = m[i][1] /\ m[i][2] <= t[i][2] /\ t[i][2] \in Nat
          BY <1>2, <1>5, <2>2
        <4>3. q[2] <= t[i][2]
          BY <1>2, <1>3, <3>2, <4>1, <4>2
        <4>4. QED
          BY <1>5, <4>1, <4>2, <4>3
      <3>3. QED
        BY <3>1, <3>2
    <2>6. ASSUME NEW i \in 1..k, NEW x \in Nat, In(t[i], x) PROVE \E q \in rs \cup {r} : In(q, x)
      <3>1. i \in 1..n /\ t[i][1] = m[i][1] /\ t[i][1] <= x /\ x < t[i][2]
        BY <1>5, <2>6 DEF In
      <3>2. CASE x < m[i][2]
        <4>1. In(m[i], x)
          BY <3>1, <3>2 DEF In
        <4>2. QED
          BY <1>1, <3>1, <4>1
      <3>3. CASE ~(x < m[i][2])
        <4>1. i = n
          BY <1>5, <3>1, <3>3
        <4>2. m[n][2] <= x /\ x < r[2]
          BY <1>2, <1>3, <1>5, <2>1, <3>1, <3>3, <4>1
        <4>3. r[1] <= x
          BY <1>2, <1>3, <1>5, <2>1, <4>2
        <4>4. QED
          BY <4>2, <4>3 DEF In
      <3>4. QED
        BY <3>2, <3>3
    <2>7. t[k][1] <= r[1]
      BY <1>5, <2>1
    <2>8. QED
      BY <1>4, <2>3, <2>4, <2>5, <2>6, <2>7 DEF MergesUpTo, Merges, k, t
  <1>6. CASE /\ m = <<>> \/ m[n][2] < r[1]
             /\ k = n + 1 /\ \A i \in 1..n : t[i] = m[i]
             /\ t[n + 1] = r
    <2>0. m = <<>> => n = 0
      OBVIOUS
    <2> HIDE DEF t, k, n
    <2>1. n \in Nat /\ \A i \in 1..k : i \in 1..n \/ (i = n + 1 /\ t[i] = r)
      BY <1>1, <1>6
    <2>2. ASSUME NEW i \in 1..n PROVE m[i][2] < r[1]
      <3>1. m[n][2] < r[1] /\ n \in 1..n
        BY <1>1, <1>6, <2>0
      <3>2. i # n => m[i][2] < m[n][1] /\ m[n][1] < m[n][2]
        BY <1>1, <3>1
      <3>3. QED
        BY <1>2, <1>3, <3>1, <3>2
    <2>3. \A i \in 1..k : t[i][1] < t[i][2]
      BY <1>1, <1>6, <2>1
    <2>4. ASSUME NEW i \in 1..k, NEW j \in 1..k, i < j PROVE t[i][2] < t[j][1]
      <3>1. i \in 1..n
        BY <1>6, <2>1, <2>4
      <3>2. QED
        BY <1>1, <1>6, <2>1, <2>2, <2>4, <3>1
    <2>5. ASSUME NEW q \in rs \cup {r} PROVE \E i \in 1..k : t[i][1] <= q[1] /\ q[2] <= t[i][2]
      <3>1. CASE q = r
        <4>1. n + 1 \in 1..k /\ t[n + 1] = q
          BY <1>1, <1>6, <3>1
        <4>2. QED
          BY <1>3, <3>1, <4>1
      <3>2. CASE q \in rs
        <4>1. PICK i \in 1..n : m[i][1] <= q[1] /\ q[2] <= m[i][2]
          BY <1>1, <3>2
        <4>2. i \in 1..k /\ t[i] = m[i]
          BY <1>1, <1>6
        <4>3. QED
          BY <4>1, <4>2
      <3>3. QED
        BY <3>1, <3>2
    <2>6. ASSUME NEW i \in 1..k, NEW x \in Nat, In(t[i], x) PROVE \E q \in rs \cup {r} : In(q, x)
      BY <1>1, <1>6, <2>1, <2>6
    <2>7. t[k][1] <= r[1]
      BY <1>3, <1>6
    <2>8. QED
      BY <1>4, <2>3, <2>4, <2>5, <2>6, <2>7 DEF MergesUpTo, Merges, k, t
  <1>7. QED
    <2>1. \/ /\ m # <<>> /\ r[1] <= m[n][2] /\ k = n
             /\ \A i \in 1..n : i # n => t[i] = m[i]
             /\ t[n][1] = m[n][1] /\ t[n][2] = IF m[n][2] < r[2] THEN r[2] ELSE m[n][2]
          \/ /\ m = <<>> \/ m[n][2] < r[1]
             /\ k = n + 1 /\ \A i \in 1..n : t[i] = m[i]
             /\ t[n + 1] = r
      BY <1>1, RangeAdded
    <2>2. QED
      BY <1>5, <1>6, <2>1

LEMMA MergedAre ==
  ASSUME NEW ranges \in SUBSET (Nat \X Nat), IsFiniteSet(ranges), \A r \in ranges : r[1] < r[2]
  PROVE  Merges(MergeRanges(ranges), ranges)
  <1> DEFINE n == Cardinality(ranges)
             R == {e \in ranges \X ranges : StartsBefore(e[1], e[2])}
             sorted == InOrder(ranges, R)
             Runs(f) == f = [k \in 0..n |-> IF k = 0 THEN <<>> ELSE WithRange(f[k - 1], sorted[k])]
             merged == CHOOSE f : Runs(f)
             U == Seq(Nat \X Nat)
             step == [k \in 1..n |-> [u \in U |-> WithRange(u, sorted[k])]]
  <1>1. n \in Nat
    BY FS_CardinalityType
  <1>2. MergeRanges(ranges) = merged[n]
    BY Zenon DEF MergeRanges
  <1>3. \A r, q \in ranges : <<r, q>> \in R <=> r[1] < q[1] \/ (r[1] = q[1] /\ r[2] < q[2])
    BY DEF StartsBefore
  <1> HIDE DEF R
  <1>4. Lines(sorted, ranges, R)
    <2>1. \A r \in ranges : r[1] \in Nat /\ r[2] \in Nat /\ r = <<r[1], r[2]>>
      OBVIOUS
    <2>2. Orders(R, ranges)
      <3>1. \A r \in ranges : <<r, r>> \notin R
        BY <1>3, <2>1
      <3>2. ASSUME NEW r \in ranges, NEW q \in ranges, r # q PROVE <<r, q>> \in R \/ <<q, r>> \in R
        <4>1. r[1] # q[1] \/ r[2] # q[2]
          BY <2>1, <3>2
        <4>2. QED
          BY <1>3, <2>1, <4>1
      <3>3. ASSUME NEW r \in ranges, NEW q \in ranges, NEW s \in ranges, <<r, q>> \in R, <<q, s>> \in R
            PROVE  <<r, s>> \in R
        BY <1>3, <2>1, <3>3
      <3>4. QED
        BY <3>1, <3>2, <3>3 DEF Orders
    <2>3. QED
      BY <2>2, InOrderIs
  <1> HIDE DEF sorted
  <1>5. /\ \A i \in 1..n : sorted[i] \in ranges
        /\ \A r \in ranges : \E i \in 1..n : sorted[i] = r
        /\ \A i, j \in 1..n : i < j => sorted[i][1] <= sorted[j][1]
    <2>1. /\ sorted \in [1..n -> ranges]
          /\ \A r \in ranges : \E i \in 1..n : sorted[i] = r
          /\ \A i, j \in 1..n : i < j => <<sorted[i], sorted[j]>> \in R
      BY <1>4 DEF Lines
    <2>2. ASSUME NEW i \in 1..n, NEW j \in 1..n, i < j PROVE sorted[i][1] <= sorted[j][1]
      <3>1. sorted[i] \in ranges /\ sorted[j] \in ranges /\ <<sorted[i], sorted[j]>> \in R
        BY <2>1, <2>2
      <3>2. sorted[i][1] \in Nat /\ sorted[j][1] \in Nat
        BY <3>1
      <3>3. QED
        BY <1>3, <3>1, <3>2
    <2>3. QED
      BY <2>1, <2>2
  <1> HIDE DEF n
  <1>6. CanRepeat(n, U, <<>>, step)
    <2>1. \A k \in 1..n, u \in U : WithRange(u, sorted[k]) \in U
      <3>1. \A k \in 1..n : sorted[k] \in Nat \X Nat
        BY <1>5
      <3>2. QED
        BY <3>1, RangeAdded
    <2>2. <<>> \in U
      OBVIOUS
    <2> HIDE DEF U
    <2>3. step \in [1..n -> [U -> U]]
      BY <2>1
    <2>4. QED
      BY <1>1, <2>2, <2>3 DEF CanRepeat
  <1>7. \A k \in 1..n, u \in U : step[k][u] = WithRange(u, sorted[k])
    OBVIOUS
  <1> HIDE DEF step, U
  <1>8. \E f : Runs(f)
    <2>1. PICK f : Repeats(f, n, U, <<>>, step)
      BY <1>6, Iterated
    <2>2. f \in [0..n -> U] /\ f[0] = <<>> /\ \A k \in 1..n : f[k] = step[k][f[k - 1]]
      BY <2>1 DEF Repeats
    <2>3. \A k \in 1..n : f[k] = WithRange(f[k - 1], sorted[k])
      <3>1. \A k \in 1..n : f[k - 1] \in U
        BY <1>1, <2>2
      <3>2. QED
        BY <1>7, <2>2, <3>1
    <2>4. \A k \in 0..n : f[k] = IF k = 0 THEN <<>> ELSE WithRange(f[k - 1], sorted[k])
      <3>1. \A k \in 0..n : k # 0 => k \in 1..n
        BY <1>1
      <3>2. QED
        BY <2>2, <2>3, <3>1
    <2>5. Runs(f)
      BY <2>2, <2>4
    <2>6. QED
      BY <2>5
  <1>9. merged[0] = <<>> /\ \A k \in 1..n : merged[k] = WithRange(merged[k - 1], sorted[k])
    <2>1. Runs(merged)
      BY <1>8
    <2> HIDE DEF merged
    <2>2. QED
      BY <1>1, <2>1
  <1> HIDE DEF merged
  <1> DEFINE some(k) == {sorted[i] : i \in 1..k}
             Q == [k \in 0..n |-> {m \in Seq(Nat \X Nat) :
                     Merges(m, some(k)) /\ (m # <<>> => k \in 1..n /\ m[Len(m)][1] <= sorted[k][1])}]
  <1>10. \A k \in 0..n : merged[k] \in Q[k]
    <2>1. merged[0] \in Q[0]
      <3>1. some(0) = {} /\ 0 \in 0..n /\ <<>> \in Seq(Nat \X Nat) /\ Len(<<>>) = 0
        BY <1>1
      <3> HIDE DEF some
      <3>2. Merges(<<>>, some(0))
        BY <3>1 DEF Merges
      <3>3. QED
        BY <1>9, <3>1, <3>2
    <2>2. ASSUME NEW k \in 1..n, merged[k - 1] \in Q[k - 1] PROVE merged[k] \in Q[k]
      <3> DEFINE m == merged[k - 1]
                 r == sorted[k]
      <3>1. k - 1 \in 0..n /\ k \in 0..n /\ k \in Nat /\ (k - 1 \in 1..n => k - 1 < k)
        BY <1>1
      <3>2. /\ m \in Seq(Nat \X Nat) /\ Merges(m, some(k - 1))
            /\ m # <<>> => k - 1 \in 1..n /\ m[Len(m)][1] <= sorted[k - 1][1]
        <4> HIDE DEF some, m
        <4>1. m \in Q[k - 1]
          BY <2>2 DEF m
        <4>2. QED
          BY <3>1, <4>1
      <3>3. r \in ranges /\ r \in Nat \X Nat /\ r[1] < r[2]
        BY <1>5
      <3>4. some(k) = some(k - 1) \cup {r}
        BY <1>1, <3>1
      <3>5. some(k - 1) \in SUBSET (Nat \X Nat)
        BY <1>1, <1>5, <3>1
      <3> HIDE DEF some, m
      <3>6. m # <<>> => m[Len(m)][1] <= r[1]
        <4> SUFFICES ASSUME m # <<>> PROVE m[Len(m)][1] <= r[1]
          OBVIOUS
        <4>1. m[Len(m)] \in Nat \X Nat
          BY <3>2
        <4>2. sorted[k - 1] \in Nat \X Nat /\ sorted[k - 1][1] <= r[1]
          BY <1>5, <3>1, <3>2
        <4>3. m[Len(m)][1] \in Nat /\ sorted[k - 1][1] \in Nat /\ r[1] \in Nat
          BY <3>3, <4>1, <4>2
        <4>4. QED
          BY <3>2, <4>2, <4>3
      <3>7. MergesUpTo(WithRange(m, r), some(k - 1) \cup {r}, r[1])
        <4> HIDE DEF r
        <4>1. MergesUpTo(m, some(k - 1), r[1])
          BY <3>2, <3>6 DEF MergesUpTo
        <4>2. QED
          BY <3>3, <3>5, <4>1, MoreMerged
      <3>8. merged[k] = WithRange(m, r)
        BY <1>9 DEF m
      <3>9. merged[k] \in Seq(Nat \X Nat) /\ Merges(merged[k], some(k))
            /\ (merged[k] # <<>> => merged[k][Len(merged[k])][1] <= sorted[k][1])
        BY <3>4, <3>7, <3>8 DEF MergesUpTo, Merges
      <3>10. QED
        BY <3>1, <3>9
    <2> HIDE DEF Q
    <2>3. QED
      BY <1>1, <2>1, <2>2, Counted
  <1>11. Merges(merged[n], some(n))
    <2>1. n \in 0..n
      BY <1>1
    <2> HIDE DEF some
    <2>2. QED
      BY <1>10, <2>1
  <1>12. some(n) = ranges
    BY <1>5
  <1>13. QED
    BY <1>2, <1>11, <1>12

(***************************************************************************)
(* The terms of a query in a text                                          *)
(***************************************************************************)
IsQuery(terms) == terms \in Seq(Range(terms)) /\ \A term \in Range(terms) : IsTerm(term)

LEMMA TermsAre ==
  ASSUME NEW terms, IsQuery(terms)
  PROVE  /\ Len(terms) \in Nat /\ DOMAIN terms = 1..Len(terms)
         /\ \A k \in DOMAIN terms : terms[k] \in Range(terms) /\ IsTerm(terms[k])
  BY DEF IsQuery, Range

LEMMA FoundAll ==
  ASSUME NEW text, IsText(text), NEW terms, IsQuery(terms)
  PROVE  AllFound(text, terms) <=> HoldsAll(text, terms)
  <1>1. ASSUME NEW k \in DOMAIN terms
        PROVE  Occurrences(text, terms[k]) # {} <=> Holds(text, terms[k])
    <2> DEFINE term == terms[k]
    <2>1. IsTerm(term)
      BY TermsAre
    <2> HIDE DEF term
    <2>2. \A i : i \in Starts(text, term) <=> i \in DOMAIN text /\ OccursAt(term, text, i)
      BY <2>1, StartsAre
    <2>3. Occurrences(text, term) # {} <=> Starts(text, term) # {}
      BY <2>1, OccurrencesAre
    <2>4. QED
      BY <2>2, <2>3 DEF Holds, term
  <1>2. QED
    BY <1>1 DEF AllFound, HoldsAll

\* The ranges found are occurrences, with one of each term.
LEMMA RangesAre ==
  ASSUME NEW text, IsText(text), NEW terms, IsQuery(terms)
  PROVE  /\ RangesOf(text, terms) \in SUBSET (Nat \X Nat) /\ IsFiniteSet(RangesOf(text, terms))
         /\ \A r \in RangesOf(text, terms) : r[1] < r[2] /\ r[1] \in DOMAIN text
         /\ \A r \in RangesOf(text, terms) : \E k \in DOMAIN terms :
              OccursAt(terms[k], text, r[1]) /\ r = <<r[1], r[1] + Len(terms[k])>>
         /\ AllFound(text, terms) =>
              \A k \in DOMAIN terms : \E s \in DOMAIN text :
                /\ OccursAt(terms[k], text, s) /\ Len(terms[k]) \in Nat \ {0}
                /\ <<s, s + Len(terms[k])>> \in RangesOf(text, terms)
  <1> DEFINE n == Len(text)
             ranges == RangesOf(text, terms)
  <1>1. n \in Nat /\ DOMAIN text = 1..n
    BY DEF IsText
  <1>2. ASSUME NEW k \in DOMAIN terms
        PROVE  /\ Len(terms[k]) \in Nat /\ Len(terms[k]) > 0
               /\ Occurrences(text, terms[k]) \subseteq Starts(text, terms[k])
               /\ \A s \in Starts(text, terms[k]) :
                    s \in 1..n /\ OccursAt(terms[k], text, s) /\ s + Len(terms[k]) - 1 <= n
    <2>1. IsTerm(terms[k])
      BY TermsAre
    <2>2. QED
      BY <2>1, StartsAre, OccurrencesAre
  <1>3. ASSUME NEW r \in ranges
        PROVE  \E k \in DOMAIN terms : \E s \in Occurrences(text, terms[k]) : r = <<s, s + Len(terms[k])>>
    BY DEF RangesOf
  <1> HIDE DEF n
  <1>4. ASSUME NEW r \in ranges
        PROVE  /\ r \in (1..n) \X (1..(n + 1)) /\ r[1] < r[2] /\ r[1] \in DOMAIN text
               /\ \E k \in DOMAIN terms : OccursAt(terms[k], text, r[1]) /\ r = <<r[1], r[1] + Len(terms[k])>>
    <2>1. PICK k \in DOMAIN terms : \E s \in Occurrences(text, terms[k]) : r = <<s, s + Len(terms[k])>>
      BY <1>3
    <2>2. PICK s \in Occurrences(text, terms[k]) : r = <<s, s + Len(terms[k])>>
      BY <2>1
    <2>3. s \in 1..n /\ OccursAt(terms[k], text, s) /\ s + Len(terms[k]) - 1 <= n
      BY <1>2
    <2>4. s + Len(terms[k]) \in 1..(n + 1) /\ s < s + Len(terms[k])
      BY <1>1, <1>2, <2>3
    <2>5. r[1] = s /\ r[2] = s + Len(terms[k])
      BY <2>2
    <2>6. QED
      BY <1>1, <2>2, <2>3, <2>4, <2>5
  <1>5. IsFiniteSet(ranges) /\ ranges \in SUBSET (Nat \X Nat)
    <2>1. IsFiniteSet(1..n) /\ IsFiniteSet(1..(n + 1))
      BY <1>1, FS_Interval
    <2>2. IsFiniteSet((1..n) \X (1..(n + 1)))
      BY <2>1, FS_Product
    <2>3. ranges \subseteq (1..n) \X (1..(n + 1))
      BY <1>4
    <2>4. IsFiniteSet(ranges)
      BY <2>2, <2>3, FS_Subset
    <2>5. (1..n) \X (1..(n + 1)) \subseteq Nat \X Nat
      BY <1>1
    <2> HIDE DEF ranges
    <2>6. QED
      BY <2>3, <2>4, <2>5
  <1>6. ASSUME AllFound(text, terms), NEW k \in DOMAIN terms
        PROVE  \E s \in DOMAIN text :
                 /\ OccursAt(terms[k], text, s) /\ Len(terms[k]) \in Nat \ {0}
                 /\ <<s, s + Len(terms[k])>> \in ranges
    <2>1. PICK s : s \in Occurrences(text, terms[k])
      BY <1>6 DEF AllFound
    <2>2. <<s, s + Len(terms[k])>> \in ranges
      BY <2>1 DEF RangesOf
    <2>3. s \in DOMAIN text /\ OccursAt(terms[k], text, s)
      BY <1>1, <1>2, <2>1
    <2>4. QED
      BY <1>2, <2>2, <2>3
  <1>7. QED
    BY <1>4, <1>5, <1>6

\* What is highlighted are whole occurrences, without overlap.
LEMMA HighlightsAre ==
  ASSUME NEW text, IsText(text), NEW terms, IsQuery(terms), AllFound(text, terms)
  PROVE  /\ Merges(MergeRanges(RangesOf(text, terms)), RangesOf(text, terms))
         /\ Highlights(text, terms, MergeRanges(RangesOf(text, terms)))
  <1> DEFINE rs == RangesOf(text, terms)
             m == MergeRanges(rs)
  <1>1. /\ rs \in SUBSET (Nat \X Nat) /\ IsFiniteSet(rs)
        /\ \A r \in rs : r[1] < r[2] /\ r[1] \in DOMAIN text
        /\ \A r \in rs : \E k \in DOMAIN terms :
             OccursAt(terms[k], text, r[1]) /\ r = <<r[1], r[1] + Len(terms[k])>>
        /\ \A k \in DOMAIN terms : \E s \in DOMAIN text :
             /\ OccursAt(terms[k], text, s) /\ Len(terms[k]) \in Nat \ {0}
             /\ <<s, s + Len(terms[k])>> \in rs
    BY RangesAre
  <1>2. \A i \in DOMAIN text : i \in Nat
    BY DEF IsText
  <1> HIDE DEF rs
  <1>3. Merges(m, rs)
    BY <1>1, MergedAre
  <1> HIDE DEF m
  <1>4. /\ m \in Seq(Nat \X Nat) /\ DOMAIN m = 1..Len(m) /\ Len(m) \in Nat
        /\ \A i \in 1..Len(m) : m[i] \in Nat \X Nat /\ m[i][1] \in Nat /\ m[i][2] \in Nat
        /\ \A i, j \in 1..Len(m) : i < j => m[i][2] < m[j][1]
        /\ \A r \in rs : \E i \in 1..Len(m) : m[i][1] <= r[1] /\ r[2] <= m[i][2]
        /\ \A i \in 1..Len(m), x \in Nat : In(m[i], x) => \E r \in rs : In(r, x)
    BY <1>3 DEF Merges
  <1>5. ASSUME NEW k \in DOMAIN terms
        PROVE  \E r \in Range(m), i \in DOMAIN text :
                 OccursAt(terms[k], text, i) /\ In(r, i) /\ In(r, i + Len(terms[k]) - 1)
    <2>1. PICK s \in DOMAIN text : /\ OccursAt(terms[k], text, s) /\ Len(terms[k]) \in Nat \ {0}
                                   /\ <<s, s + Len(terms[k])>> \in rs
      BY <1>1
    <2> DEFINE l == Len(terms[k])
    <2>2. s \in Nat /\ l \in Nat /\ l > 0
      BY <1>2, <2>1
    <2>3. PICK i \in 1..Len(m) : m[i][1] <= s /\ s + l <= m[i][2]
      <3>1. <<s, s + l>>[1] = s /\ <<s, s + l>>[2] = s + l
        OBVIOUS
      <3>2. QED
        BY <1>4, <2>1, <3>1
    <2>4. m[i] \in Range(m)
      BY <1>4 DEF Range
    <2> HIDE DEF l
    <2>5. In(m[i], s) /\ In(m[i], s + l - 1)
      BY <1>4, <2>2, <2>3 DEF In
    <2>6. QED
      BY <2>1, <2>4, <2>5 DEF l
  <1>6. ASSUME NEW r \in Range(m), NEW i \in DOMAIN text, In(r, i)
        PROVE  \E term \in Range(terms), s \in DOMAIN text :
                 OccursAt(term, text, s) /\ In(<<s, s + Len(term)>>, i)
    <2>1. PICK j \in 1..Len(m) : r = m[j]
      BY <1>4 DEF Range
    <2>2. PICK q \in rs : In(q, i)
      BY <1>2, <1>4, <1>6, <2>1
    <2>3. PICK k \in DOMAIN terms : OccursAt(terms[k], text, q[1]) /\ q = <<q[1], q[1] + Len(terms[k])>>
      BY <1>1
    <2>4. terms[k] \in Range(terms)
      BY DEF Range
    <2>5. q[1] \in DOMAIN text
      BY <1>1
    <2>6. QED
      BY <2>2, <2>3, <2>4, <2>5
  <1>7. Highlights(text, terms, m)
    BY <1>4, <1>5, <1>6 DEF Highlights
  <1>8. QED
    BY <1>3, <1>7 DEF m, rs

LEMMA BestIs ==
  ASSUME NEW text, NEW term, Occurrences(text, term) # {}
  PROVE  Best(text, term) \in 1..3
  <1> DEFINE S == Occurrences(text, term)
             T == {0} \cup {WordScore(text, s, Len(term)) : s \in S}
  <1>1. \A s : WordScore(text, s, Len(term)) \in 1..3
    BY DEF WordScore
  <1>2. PICK s : s \in S
    OBVIOUS
  <1>3. T \subseteq 0..3 /\ 0 \in T /\ \E x \in T : x \in 1..3
    BY <1>1, <1>2
  <1>4. Best(text, term) = Max(T)
    BY Zenon DEF Best
  <1> HIDE DEF T, S
  <1>5. \E x \in T : \A y \in T : x >= y
    <2>1. CASE 3 \in T
      BY <1>3, <2>1
    <2>2. CASE 3 \notin T /\ 2 \in T
      BY <1>3, <2>2
    <2>3. CASE 3 \notin T /\ 2 \notin T
      BY <1>3, <2>3
    <2>4. QED
      BY <2>1, <2>2, <2>3
  <1>6. Max(T) \in T /\ \A y \in T : Max(T) >= y
    BY <1>5 DEF Max
  <1> DEFINE best == Max(T)
  <1> HIDE DEF best
  <1>7. best \in 0..3 /\ \E x \in 1..3 : best >= x
    BY <1>3, <1>6 DEF best
  <1>8. best \in 1..3
    BY <1>7
  <1>9. QED
    BY <1>4, <1>8 DEF best

LEMMA ScoreIs ==
  ASSUME NEW text, NEW terms, IsQuery(terms), terms # <<>>, AllFound(text, terms)
  PROVE  /\ Total([i \in DOMAIN terms |-> Best(text, terms[i])]) \in Nat
         /\ Total([i \in DOMAIN terms |-> Best(text, terms[i])]) > 0
  <1> DEFINE I == DOMAIN terms
             f == [i \in I |-> Best(text, terms[i])]
             S == [i \in I |-> 1..f[i]]
             C == Couples(I, S)
  <1>1. \A i \in I : f[i] \in 1..3
    BY BestIs DEF AllFound
  <1>2. IsFiniteSet(I) /\ 1 \in I /\ DOMAIN f = I
    <2>1. Len(terms) \in Nat /\ I = 1..Len(terms) /\ Len(terms) # 0
      BY DEF IsQuery
    <2>2. IsFiniteSet(1..Len(terms))
      BY <2>1, FS_Interval
    <2>3. QED
      BY <2>1, <2>2
  <1> HIDE DEF f, I
  <1>3. \A i \in I : IsFiniteSet(S[i]) /\ f[i] = Cardinality(S[i])
    <2>1. ASSUME NEW i \in I PROVE IsFiniteSet(1..f[i]) /\ Cardinality(1..f[i]) = f[i]
      <3>1. f[i] \in Int /\ f[i] >= 1
        BY <1>1
      <3>2. QED
        BY <3>1, FS_Interval
    <2>2. QED
      BY <2>1
  <1>4. <<1, 1>> \in C
    <2>1. 1 \in S[1]
      BY <1>1, <1>2
    <2>2. QED
      BY <1>2, <2>1 DEF Couples
  <1> HIDE DEF C, S
  <1>5. Total(f) = Cardinality(C) /\ Total(f) \in Nat /\ IsFiniteSet(C)
    BY <1>2, <1>3, TotalIs DEF C
  <1>6. Total(f) # 0
    BY <1>4, <1>5, FS_EmptySet
  <1>7. QED
    BY <1>5, <1>6 DEF f, I

\* A text is found when it holds every term, and gets a score.
Matching(text, terms, match) ==
  /\ match # None <=> HoldsAll(text, terms)
  /\ match # None => /\ match.score \in Nat /\ match.score > 0
                     /\ Merges(match.highlights, RangesOf(text, terms))
                     /\ Highlights(text, terms, match.highlights)
                     /\ \A r \in RangesOf(text, terms) : r[1] \in DOMAIN text

LEMMA TextMatches ==
  ASSUME NEW text, IsText(text), NEW terms, IsQuery(terms), terms # <<>>,
         None \notin [score : Nat, highlights : Seq(Nat \X Nat)]
  PROVE  Matching(text, terms, MatchText(text, terms))
  <1>1. AllFound(text, terms) <=> HoldsAll(text, terms)
    BY FoundAll
  <1>2. CASE text = <<>> \/ ~AllFound(text, terms)
    <2>1. MatchText(text, terms) = None
      BY <1>2 DEF MatchText
    <2>2. ~HoldsAll(text, terms)
      <3>1. CASE text = <<>>
        <4>1. DOMAIN text = {}
          BY <3>1
        <4>2. 1 \in DOMAIN terms
          BY DEF IsQuery
        <4>3. QED
          BY <4>1, <4>2 DEF HoldsAll, Holds
      <3>2. QED
        BY <1>1, <1>2, <3>1
    <2>3. QED
      BY <2>1, <2>2 DEF Matching
  <1>3. CASE ~(text = <<>> \/ ~AllFound(text, terms))
    <2> DEFINE score == Total([i \in DOMAIN terms |-> Best(text, terms[i])])
               highlights == MergeRanges(RangesOf(text, terms))
    <2>1. MatchText(text, terms) = [score |-> score, highlights |-> highlights]
      BY <1>3 DEF MatchText
    <2>2. score \in Nat /\ score > 0
      BY <1>3, ScoreIs
    <2>3. Merges(highlights, RangesOf(text, terms)) /\ Highlights(text, terms, highlights)
      BY <1>3, HighlightsAre
    <2>4. \A r \in RangesOf(text, terms) : r[1] \in DOMAIN text
      BY RangesAre
    <2> HIDE DEF score, highlights
    <2>5. highlights \in Seq(Nat \X Nat)
      BY <2>3 DEF Merges
    <2>6. MatchText(text, terms) \in [score : Nat, highlights : Seq(Nat \X Nat)]
      BY <2>1, <2>2, <2>5
    <2>7. MatchText(text, terms) # None
      BY <2>6
    <2>8. MatchText(text, terms).score = score /\ MatchText(text, terms).highlights = highlights
      BY <2>1
    <2>9. QED
      BY <1>1, <1>3, <2>2, <2>3, <2>4, <2>7, <2>8 DEF Matching
  <1>4. QED
    BY <1>2, <1>3

(***************************************************************************)
(* A text with marks                                                       *)
(***************************************************************************)
LEMMA SliceIs ==
  ASSUME NEW X, NEW n \in Nat, NEW s \in [1..n -> X], NEW a \in 1..(n + 1), NEW b \in (a - 1)..n
  PROVE  /\ SubSeq(s, a, b) \in Seq(X) /\ Len(SubSeq(s, a, b)) = b - a + 1
         /\ \A i \in 1..(b - a + 1) : a + i - 1 \in 1..n /\ SubSeq(s, a, b)[i] = s[a + i - 1]
  <1>1. \A i \in 1..(b - a + 1) : a + i - 1 \in 1..n /\ s[a + i - 1] \in X
    OBVIOUS
  <1>2. s \in Seq(X) /\ Len(s) = n
    OBVIOUS
  <1>3. \A i \in a..b : s[i] \in X
    OBVIOUS
  <1>4. SubSeq(s, a, b) = [i \in 1..(b - a + 1) |-> s[i + a - 1]]
    BY <1>2
  <1>5. \A i \in 1..(b - a + 1) : i + a - 1 = a + i - 1
    OBVIOUS
  <1> DEFINE t == SubSeq(s, a, b)
             m == b - a + 1
  <1>6. m \in Nat
    OBVIOUS
  <1> HIDE DEF t, m
  <1>7. t = [i \in 1..m |-> s[i + a - 1]] /\ \A i \in 1..m : s[i + a - 1] \in X
    BY <1>1, <1>4, <1>5 DEF t, m
  <1>8. t \in Seq(X) /\ Len(t) = m /\ \A i \in 1..m : t[i] = s[i + a - 1]
    BY <1>6, <1>7
  <1>9. QED
    BY <1>1, <1>5, <1>8 DEF t, m

\* Where what was at j is with a mark before a and one before e.
Shifted(j, a, e) == IF j < a THEN j ELSE IF j < e THEN j + 1 ELSE j + 2

WithMarks(u, s, n, a, e, X) ==
  /\ u \in [1..(n + 2) -> X] /\ u[a] = Bold /\ u[e + 1] = Plain
  /\ \A j \in 1..n : u[Shifted(j, a, e)] = s[j]

LEMMA BothJoined ==
  ASSUME NEW X, NEW s \in Seq(X), NEW t \in Seq(X)
  PROVE  /\ s \o t \in Seq(X) /\ Len(s \o t) = Len(s) + Len(t)
         /\ \A j \in 1..Len(s) : (s \o t)[j] = s[j]
         /\ \A j \in 1..Len(t) : (s \o t)[Len(s) + j] = t[j]
  <1>1. s \o t \in Seq(X)
    OBVIOUS
  <1>2. QED
    BY <1>1, TwoJoined

LEMMA MarkedIs ==
  ASSUME NEW X, Bold \in X, Plain \in X, NEW n \in Nat, NEW s \in [1..n -> X],
         NEW range, NEW length, NEW a \in 1..n, NEW e \in 1..(n + 1), a < e,
         range[1] = a, Min({range[2], length + 1}) = e
  PROVE  WithMarks(Marked(s, range, length), s, n, a, e, X)
  <1> DEFINE s1 == SubSeq(s, 1, a - 1)
             s2 == SubSeq(s, a, e - 1)
             s3 == SubSeq(s, e, Len(s))
             t1 == s1 \o <<Bold>>
             t2 == t1 \o s2
             t3 == t2 \o <<Plain>>
             u == t3 \o s3
  <1>0. a \in Nat /\ e \in Nat /\ Len(s) = n
    OBVIOUS
  <1>1. Marked(s, range, length) = u
    BY DEF Marked
  <1>2. /\ s1 \in Seq(X) /\ Len(s1) = a - 1 /\ \A i \in 1..(a - 1) : s1[i] = s[i]
        /\ s2 \in Seq(X) /\ Len(s2) = e - a /\ \A i \in 1..(e - a) : s2[i] = s[a + i - 1]
        /\ s3 \in Seq(X) /\ Len(s3) = n - e + 1 /\ \A i \in 1..(n - e + 1) : s3[i] = s[e + i - 1]
    <2>1. /\ 1 \in 1..(n + 1) /\ a - 1 \in (1 - 1)..n /\ a - 1 - 1 + 1 = a - 1
          /\ \A i \in 1..(a - 1) : 1 + i - 1 = i
      BY <1>0
    <2>2. a \in 1..(n + 1) /\ e - 1 \in (a - 1)..n /\ e - 1 - a + 1 = e - a
      BY <1>0
    <2>3. n \in (e - 1)..n
      BY <1>0
    <2>4. s1 \in Seq(X) /\ Len(s1) = a - 1 /\ \A i \in 1..(a - 1) : s1[i] = s[i]
      <3>1. /\ s1 \in Seq(X) /\ Len(s1) = a - 1 - 1 + 1
            /\ \A i \in 1..(a - 1 - 1 + 1) : s1[i] = s[1 + i - 1]
        BY <2>1, SliceIs
      <3> HIDE DEF s1
      <3>2. QED
        BY <2>1, <3>1
    <2>5. s2 \in Seq(X) /\ Len(s2) = e - a /\ \A i \in 1..(e - a) : s2[i] = s[a + i - 1]
      <3>1. /\ s2 \in Seq(X) /\ Len(s2) = e - 1 - a + 1
            /\ \A i \in 1..(e - 1 - a + 1) : s2[i] = s[a + i - 1]
        BY <2>2, SliceIs
      <3> HIDE DEF s2
      <3>2. QED
        BY <2>2, <3>1
    <2>6. s3 \in Seq(X) /\ Len(s3) = n - e + 1 /\ \A i \in 1..(n - e + 1) : s3[i] = s[e + i - 1]
      BY <1>0, <2>3, SliceIs
    <2>7. QED
      BY <2>4, <2>5, <2>6
  <1> HIDE DEF s1, s2, s3
  <1>3. <<Bold>> \in Seq(X) /\ Len(<<Bold>>) = 1 /\ <<Plain>> \in Seq(X) /\ Len(<<Plain>>) = 1
    OBVIOUS
  <1>4. /\ t1 \in Seq(X) /\ Len(t1) = a /\ t1[a] = Bold
        /\ \A i \in 1..(a - 1) : t1[i] = s[i]
    <2>1. /\ Len(t1) = Len(s1) + 1 /\ \A j \in 1..Len(s1) : t1[j] = s1[j]
          /\ t1[Len(s1) + 1] = Bold /\ t1 \in Seq(X)
      <3>1. 1 \in 1..Len(<<Bold>>) /\ <<Bold>>[1] = Bold
        OBVIOUS
      <3>2. QED
        <4>1. s1 \in Seq(X) /\ <<Bold>> \in Seq(X) /\ Len(<<Bold>>) = 1
          BY <1>2, <1>3
        <4>2. t1 \in Seq(X) /\ Len(t1) = Len(s1) + 1 /\ \A j \in 1..Len(s1) : t1[j] = s1[j]
          BY ONLY <4>1, BothJoined
        <4>3. t1[Len(s1) + 1] = <<Bold>>[1]
          BY ONLY <3>1, <4>1, BothJoined
        <4>4. QED
          BY <3>1, <4>2, <4>3
    <2> HIDE DEF t1
    <2>2. QED
      BY <1>0, <1>2, <2>1
  <1> HIDE DEF t1
  <1>5. /\ t2 \in Seq(X) /\ Len(t2) = e /\ t2[a] = Bold
        /\ \A i \in 1..(a - 1) : t2[i] = s[i]
        /\ \A i \in a..(e - 1) : t2[i + 1] = s[i]
    <2>1. /\ Len(t2) = Len(t1) + Len(s2) /\ t2 \in Seq(X)
          /\ \A j \in 1..Len(t1) : t2[j] = t1[j]
          /\ \A j \in 1..Len(s2) : t2[Len(t1) + j] = s2[j]
      <3>1. t1 \in Seq(X) /\ s2 \in Seq(X)
        BY <1>2, <1>4
      <3>2. QED
        BY ONLY <3>1, BothJoined
    <2> HIDE DEF t2
    <2>2. ASSUME NEW i \in a..(e - 1) PROVE t2[i + 1] = s[i]
      <3>1. i - a + 1 \in 1..(e - a) /\ a + (i - a + 1) = i + 1 /\ a + (i - a + 1) - 1 = i
        BY <1>0
      <3>2. t2[a + (i - a + 1)] = s2[i - a + 1] /\ s2[i - a + 1] = s[a + (i - a + 1) - 1]
        BY <1>2, <1>4, <2>1, <3>1
      <3>3. QED
        BY <3>1, <3>2
    <2>3. QED
      BY <1>0, <1>2, <1>4, <2>1, <2>2
  <1> HIDE DEF t2
  <1>6. /\ t3 \in Seq(X) /\ Len(t3) = e + 1 /\ t3[a] = Bold /\ t3[e + 1] = Plain
        /\ \A i \in 1..(a - 1) : t3[i] = s[i]
        /\ \A i \in a..(e - 1) : t3[i + 1] = s[i]
    <2>1. /\ Len(t3) = Len(t2) + 1 /\ \A j \in 1..Len(t2) : t3[j] = t2[j]
          /\ t3[Len(t2) + 1] = Plain /\ t3 \in Seq(X)
      <3>1. 1 \in 1..Len(<<Plain>>) /\ <<Plain>>[1] = Plain
        OBVIOUS
      <3>2. t2 \in Seq(X) /\ <<Plain>> \in Seq(X) /\ Len(<<Plain>>) = 1
        BY <1>3, <1>5
      <3>3. t3 \in Seq(X) /\ Len(t3) = Len(t2) + 1 /\ \A j \in 1..Len(t2) : t3[j] = t2[j]
        BY ONLY <3>2, BothJoined
      <3>4. t3[Len(t2) + 1] = <<Plain>>[1]
        BY ONLY <3>1, <3>2, BothJoined
      <3>5. QED
        BY <3>1, <3>3, <3>4
    <2> HIDE DEF t3
    <2>2. \A i \in a..(e - 1) : i + 1 \in 1..e
      BY <1>0
    <2>3. a \in 1..e /\ \A i \in 1..(a - 1) : i \in 1..e
      BY <1>0
    <2>4. QED
      BY <1>0, <1>5, <2>1, <2>2, <2>3
  <1> HIDE DEF t3
  <1>7. /\ u \in Seq(X) /\ Len(u) = n + 2 /\ u[a] = Bold /\ u[e + 1] = Plain
        /\ \A i \in 1..(a - 1) : u[i] = s[i]
        /\ \A i \in a..(e - 1) : u[i + 1] = s[i]
        /\ \A i \in e..n : u[i + 2] = s[i]
    <2>1. /\ Len(u) = Len(t3) + Len(s3) /\ u \in Seq(X)
          /\ \A j \in 1..Len(t3) : u[j] = t3[j]
          /\ \A j \in 1..Len(s3) : u[Len(t3) + j] = s3[j]
      <3>1. t3 \in Seq(X) /\ s3 \in Seq(X)
        BY <1>2, <1>6
      <3>2. QED
        BY ONLY <3>1, BothJoined
    <2> HIDE DEF u
    <2>2. ASSUME NEW i \in e..n PROVE u[i + 2] = s[i]
      <3>1. i - e + 1 \in 1..(n - e + 1) /\ e + 1 + (i - e + 1) = i + 2 /\ e + (i - e + 1) - 1 = i
        BY <1>0
      <3>2. u[e + 1 + (i - e + 1)] = s3[i - e + 1] /\ s3[i - e + 1] = s[e + (i - e + 1) - 1]
        BY <1>2, <1>6, <2>1, <3>1
      <3>3. QED
        BY <3>1, <3>2
    <2>3. \A i \in a..(e - 1) : i + 1 \in 1..(e + 1)
      BY <1>0
    <2>4. a \in 1..(e + 1) /\ e + 1 \in 1..(e + 1) /\ \A i \in 1..(a - 1) : i \in 1..(e + 1)
      BY <1>0
    <2>5. Len(u) = n + 2
      BY <1>0, <1>2, <1>6, <2>1
    <2>6. QED
      BY <1>6, <2>1, <2>2, <2>3, <2>4, <2>5
  <1> HIDE DEF u
  <1>8. u \in [1..(n + 2) -> X]
    BY <1>7
  <1>9. ASSUME NEW j \in 1..n PROVE u[Shifted(j, a, e)] = s[j]
    <2>1. CASE j < a
      <3>1. j \in 1..(a - 1) /\ Shifted(j, a, e) = j
        BY <1>0, <2>1 DEF Shifted
      <3>2. QED
        BY <1>7, <3>1
    <2>2. CASE ~(j < a) /\ j < e
      <3>1. j \in a..(e - 1) /\ Shifted(j, a, e) = j + 1
        BY <1>0, <2>2 DEF Shifted
      <3>2. QED
        BY <1>7, <3>1
    <2>3. CASE ~(j < a) /\ ~(j < e)
      <3>1. j \in e..n /\ Shifted(j, a, e) = j + 2
        BY <1>0, <2>3 DEF Shifted
      <3>2. QED
        BY <1>7, <3>1
    <2>4. QED
      BY <2>1, <2>2, <2>3
  <1>10. QED
    BY <1>1, <1>7, <1>8, <1>9 DEF WithMarks

\* In bold is what has a mark before it that nothing has ended.
BoldAt(s, i) == \E j \in 1..i : s[j] = Bold /\ \A k \in j..i : s[k] # Plain

\* s is the text t with marks: the letter at i is at p[i], those before x are where they
\* were, and those of the ranges done are in bold.
Spread(s, p, t, l, x, done, X) ==
  /\ Len(s) \in Nat /\ s \in [1..Len(s) -> X]
  /\ p \in [1..l -> 1..Len(s)]
  /\ \A i, j \in 1..l : i < j => p[i] < p[j]
  /\ \A i \in 1..l : s[p[i]] = t[i]
  /\ \A j \in 1..Len(s) : s[j] \notin {Bold, Plain} => \E i \in 1..l : p[i] = j
  /\ \A i \in 1..l : BoldAt(s, p[i]) <=> \E r \in done : In(r, i)
  /\ x \in 1..(l + 1) /\ \A i \in 1..l : i < x => p[i] = i

LEMMA ShiftedApart ==
  ASSUME NEW a \in Nat, NEW e \in Nat, a < e, NEW j \in Nat, NEW k \in Nat
  PROVE  /\ Shifted(j, a, e) \in Nat
         /\ j < k => Shifted(j, a, e) < Shifted(k, a, e)
         /\ j <= Shifted(j, a, e) /\ Shifted(j, a, e) <= j + 2
         /\ j < a => Shifted(j, a, e) = j
         /\ a <= j /\ j < e => Shifted(j, a, e) = j + 1
         /\ e <= j => Shifted(j, a, e) = j + 2
  BY DEF Shifted

\* Where a place is after the shift, unless a mark is there.
LEMMA ShiftedFrom ==
  ASSUME NEW n \in Nat, NEW a \in 1..n, NEW e \in 1..(n + 1), a < e,
         NEW j \in 1..(n + 2), j # a, j # e + 1
  PROVE  \E k \in 1..n : Shifted(k, a, e) = j
  <1>1. CASE j < a
    <2>1. j \in 1..n /\ Shifted(j, a, e) = j
      BY <1>1 DEF Shifted
    <2>2. QED
      BY <2>1
  <1>2. CASE a < j /\ j <= e
    <2>1. j - 1 \in 1..n /\ Shifted(j - 1, a, e) = j
      BY <1>2 DEF Shifted
    <2>2. QED
      BY <2>1
  <1>3. CASE e + 1 < j
    <2>1. j - 2 \in 1..n /\ Shifted(j - 2, a, e) = j
      BY <1>3 DEF Shifted
    <2>2. QED
      BY <2>1
  <1>4. QED
    BY <1>1, <1>2, <1>3

\* The range r ends, in the text, at e, before those in bold.
EndsBefore(r, e, x, l) ==
  r \in Nat \X Nat /\ r[1] \in 1..l /\ r[1] < r[2] /\ e = Min({r[2], l + 1}) /\ e <= x

LEMMA MoreSpread ==
  ASSUME NEW X, Bold \in X, Plain \in X, NEW l \in Nat, NEW t,
         \A i \in 1..l : t[i] \notin {Bold, Plain},
         NEW s, NEW p, NEW x, NEW done, Spread(s, p, t, l, x, done, X),
         NEW r, NEW e, EndsBefore(r, e, x, l)
  PROVE  \E q : Spread(Marked(s, r, l), q, t, l, r[1], done \cup {r}, X)
  <1> DEFINE n == Len(s)
             a == r[1]
             u == Marked(s, r, l)
             q == [i \in 1..l |-> Shifted(p[i], a, e)]
  <1>1. /\ n \in Nat /\ s \in [1..n -> X] /\ p \in [1..l -> 1..n]
        /\ \A i, j \in 1..l : i < j => p[i] < p[j]
        /\ \A i \in 1..l : s[p[i]] = t[i]
        /\ \A j \in 1..n : s[j] \notin {Bold, Plain} => \E i \in 1..l : p[i] = j
        /\ \A i \in 1..l : BoldAt(s, p[i]) <=> \E d \in done : In(d, i)
        /\ x \in 1..(l + 1) /\ \A i \in 1..l : i < x => p[i] = i
    BY DEF Spread
  <1>2. /\ a \in 1..l /\ a \in Nat /\ x \in Nat /\ e \in Nat /\ a < e /\ e <= x /\ x <= l + 1 /\ e <= r[2] /\ r[2] \in Nat
        /\ e = r[2] \/ e = l + 1
    <2>1. r[2] \in Nat /\ l + 1 \in Nat /\ a \in 1..l /\ a < r[2] /\ e <= x
      BY DEF EndsBefore
    <2>2. e = IF r[2] < l + 1 THEN r[2] ELSE l + 1
      <3>1. e = Min({r[2], l + 1})
        BY DEF EndsBefore
      <3>2. QED
        BY <2>1, <3>1, TwoOrLess
    <2> HIDE DEF a
    <2>3. QED
      BY <1>1, <2>1, <2>2
  <1> HIDE DEF n, a
  <1>3. ASSUME NEW i \in 1..l, i < x PROVE i \in 1..n /\ p[i] = i /\ s[i] = t[i]
    <2>1. p[i] = i /\ p[i] \in 1..n
      BY <1>1, <1>3
    <2>2. s[p[i]] = t[i]
      BY <1>1
    <2>3. QED
      BY <2>1, <2>2
  <1>4. a \in 1..n /\ e \in 1..(n + 1)
    <2>1. e - 1 \in 1..l /\ e - 1 < x /\ a < x
      BY <1>1, <1>2
    <2>2. e - 1 \in 1..n /\ a \in 1..n
      BY <1>2, <1>3, <2>1
    <2>3. QED
      BY <1>1, <1>2, <2>2
  <1>5. WithMarks(u, s, n, a, e, X)
    <2>1. e = Min({r[2], l + 1})
      BY DEF EndsBefore
    <2>2. QED
      BY <1>1, <1>2, <1>4, <2>1, MarkedIs DEF a
  <1>6. /\ u \in [1..(n + 2) -> X] /\ u[a] = Bold /\ u[e + 1] = Plain
        /\ \A j \in 1..n : u[Shifted(j, a, e)] = s[j]
    BY <1>5 DEF WithMarks
  <1> HIDE DEF u
  <1>7. Len(u) = n + 2
    BY <1>1, <1>6
  <1>8. ASSUME NEW i \in 1..l
        PROVE  /\ q[i] \in 1..(n + 2) /\ u[q[i]] = t[i]
               /\ i < a => q[i] = i
               /\ a <= i /\ i < e => q[i] = i + 1
               /\ e <= i => p[i] \in e..n /\ q[i] = p[i] + 2
    <2>1. q[i] = Shifted(p[i], a, e) /\ p[i] \in 1..n /\ p[i] \in Nat
      BY <1>1
    <2>2. /\ q[i] \in Nat /\ p[i] <= q[i] /\ q[i] <= p[i] + 2
          /\ p[i] < a => q[i] = p[i]
          /\ a <= p[i] /\ p[i] < e => q[i] = p[i] + 1
          /\ e <= p[i] => q[i] = p[i] + 2
      <3> DEFINE j == p[i]
      <3>1. a \in Nat /\ e \in Nat /\ a < e /\ j \in Nat /\ q[i] = Shifted(j, a, e)
        BY <1>2, <2>1
      <3> HIDE DEF j
      <3>2. /\ Shifted(j, a, e) \in Nat /\ j <= Shifted(j, a, e) /\ Shifted(j, a, e) <= j + 2
            /\ j < a => Shifted(j, a, e) = j
            /\ a <= j /\ j < e => Shifted(j, a, e) = j + 1
            /\ e <= j => Shifted(j, a, e) = j + 2
        BY ONLY <3>1, ShiftedApart
      <3>3. QED
        BY <3>1, <3>2 DEF j
    <2>3. u[q[i]] = t[i]
      BY <1>1, <1>6, <2>1
    <2>4. i < x => p[i] = i
      BY <1>1
    <2>5. i < a => q[i] = i
      BY <1>1, <1>2, <2>2, <2>4
    <2>6. a <= i /\ i < e => q[i] = i + 1
      BY <1>1, <1>2, <2>2, <2>4
    <2>7. ASSUME e <= i PROVE p[i] \in e..n
      <3>1. e - 1 \in 1..l /\ e - 1 < x /\ e - 1 < i
        BY <1>1, <1>2, <2>7
      <3>2. p[e - 1] = e - 1 /\ p[e - 1] < p[i]
        BY <1>1, <3>1
      <3>3. QED
        BY <1>2, <2>1, <3>2
    <2>8. e <= i => q[i] = p[i] + 2
      <3>1. e <= i => e <= p[i]
        BY <1>2, <2>7
      <3>2. QED
        BY <2>2, <3>1
    <2>9. QED
      BY <1>1, <2>1, <2>2, <2>3, <2>5, <2>6, <2>7, <2>8
  <1>9. ASSUME NEW i \in 1..l, NEW j \in 1..l, i < j PROVE q[i] < q[j]
    <2>1. p[i] \in Nat /\ p[j] \in Nat /\ p[i] < p[j]
      BY <1>1, <1>9
    <2>2. QED
      BY <1>2, <2>1, ShiftedApart
  <1>10. q \in [1..l -> 1..(n + 2)]
    BY <1>8
  <1>11. ASSUME NEW j \in 1..(n + 2), u[j] \notin {Bold, Plain} PROVE \E i \in 1..l : q[i] = j
    <2>1. j # a /\ j # e + 1
      BY <1>6, <1>11
    <2>2. PICK k \in 1..n : Shifted(k, a, e) = j
      <3>1. n \in Nat /\ a \in 1..n /\ e \in 1..(n + 1) /\ a < e
        BY <1>1, <1>2, <1>4
      <3>2. QED
        BY ONLY <2>1, <3>1, j \in 1..(n + 2), ShiftedFrom
    <2>3. s[k] \notin {Bold, Plain}
      BY <1>6, <1>11, <2>2
    <2>4. PICK i \in 1..l : p[i] = k
      BY <1>1, <2>3
    <2>5. QED
      BY <2>2, <2>4
  <1> HIDE DEF q
  <1>12. \A i \in 1..(x - 1) : i \in 1..l /\ s[i] = t[i] /\ s[i] # Bold /\ s[i] # Plain
    BY <1>1, <1>2, <1>3
  <1>13. /\ \A j \in 1..(a - 1) : u[j] = s[j]
         /\ \A j \in a..(e - 1) : u[j + 1] = s[j]
         /\ \A j \in e..n : u[j + 2] = s[j]
    <2>1. ASSUME NEW j \in 1..(a - 1) PROVE u[j] = s[j]
      <3>1. j \in 1..n /\ Shifted(j, a, e) = j
        BY <1>1, <1>2, <1>4 DEF Shifted
      <3>2. QED
        BY <1>6, <3>1
    <2>2. ASSUME NEW j \in a..(e - 1) PROVE u[j + 1] = s[j]
      <3>1. j \in 1..n /\ Shifted(j, a, e) = j + 1
        BY <1>1, <1>2, <1>4 DEF Shifted
      <3>2. QED
        BY <1>6, <3>1
    <2>3. ASSUME NEW j \in e..n PROVE u[j + 2] = s[j]
      <3>1. j \in 1..n /\ Shifted(j, a, e) = j + 2
        BY <1>1, <1>2, <1>4 DEF Shifted
      <3>2. QED
        BY <1>6, <3>1
    <2>4. QED
      BY <2>1, <2>2, <2>3
  <1>14. ASSUME NEW i \in 1..l PROVE BoldAt(u, q[i]) <=> \E d \in done \cup {r} : In(d, i)
    <2>1. CASE i < a
      <3>1. q[i] = i /\ i < x /\ p[i] = i
        BY <1>1, <1>2, <1>8, <2>1
      <3>2. \A j \in 1..i : j \in 1..(a - 1) /\ j \in 1..(x - 1)
        <4>1. i <= a - 1 /\ i <= x - 1 /\ i \in Nat /\ a - 1 \in Nat /\ x - 1 \in Nat
          BY <1>2, <2>1, <3>1
        <4>2. QED
          BY <4>1
      <3>3. ~BoldAt(u, q[i])
        BY <1>12, <1>13, <3>1, <3>2 DEF BoldAt
      <3>4. ~BoldAt(s, p[i])
        BY <1>12, <3>1, <3>2 DEF BoldAt
      <3>5. ~In(r, i)
        BY <1>2, <2>1 DEF In, a
      <3>6. QED
        BY <1>1, <3>3, <3>4, <3>5
    <2>2. CASE a <= i /\ i < e
      <3>1. q[i] = i + 1
        BY <1>8, <2>2
      <3>2. ASSUME NEW k \in a..(i + 1) PROVE u[k] # Plain
        <4>1. CASE k = a
          BY <1>6, <4>1 DEF Bold, Plain
        <4>2. CASE k # a
          <5>1. k - 1 \in a..(e - 1) /\ k - 1 \in 1..(x - 1) /\ k - 1 + 1 = k
            BY <1>1, <1>2, <2>2, <4>2
          <5>2. u[k] = s[k - 1]
            BY <1>13, <5>1
          <5>3. QED
            BY <1>12, <5>1, <5>2
        <4>3. QED
          BY <4>1, <4>2
      <3>3. a \in 1..(i + 1)
        BY <1>2, <2>2
      <3>4. BoldAt(u, q[i])
        BY <1>6, <3>1, <3>2, <3>3 DEF BoldAt
      <3>5. In(r, i)
        BY <1>2, <2>2 DEF In, a
      <3>6. QED
        BY <3>4, <3>5
    <2>3. CASE e <= i
      <3>1. p[i] \in e..n /\ q[i] = p[i] + 2
        BY <1>8, <2>3
      <3>2. ~In(r, i)
        BY <1>2, <2>3 DEF In
      <3>3. ASSUME NEW j \in 1..q[i], u[j] = Bold, \A k \in j..q[i] : u[k] # Plain
            PROVE  BoldAt(s, p[i])
        <4>1. e + 1 \notin j..q[i]
          BY <1>6, <3>3
        <4>2. e + 1 < j /\ j \in Nat
          BY <1>2, <3>1, <4>1
        <4>3. j - 2 \in 1..p[i] /\ j - 2 \in e..n /\ j - 2 + 2 = j
          BY <1>1, <1>2, <3>1, <4>2
        <4>4. s[j - 2] = Bold
          BY <1>13, <3>3, <4>3
        <4>5. ASSUME NEW k \in (j - 2)..p[i] PROVE s[k] # Plain
          <5>1. k + 2 \in j..q[i] /\ k \in e..n
            BY <1>1, <1>2, <3>1, <4>2
          <5>2. QED
            BY <1>13, <3>3, <5>1
        <4>6. QED
          BY <4>3, <4>4, <4>5 DEF BoldAt
      <3>4. ASSUME NEW j \in 1..p[i], s[j] = Bold, \A k \in j..p[i] : s[k] # Plain
            PROVE  BoldAt(u, q[i])
        <4>1. j \notin 1..(x - 1)
          BY <1>12, <3>4
        <4>2. j \in e..n
          BY <1>1, <1>2, <3>1, <4>1
        <4>3. u[j + 2] = Bold /\ j + 2 \in 1..q[i]
          BY <1>13, <3>1, <3>4, <4>2
        <4>4. ASSUME NEW k \in (j + 2)..q[i] PROVE u[k] # Plain
          <5>1. k - 2 \in j..p[i] /\ k - 2 \in e..n /\ k - 2 + 2 = k
            BY <1>1, <1>2, <3>1, <4>2
          <5>2. QED
            BY <1>13, <3>4, <5>1
        <4>5. QED
          BY <4>3, <4>4 DEF BoldAt
      <3>5. BoldAt(u, q[i]) <=> BoldAt(s, p[i])
        BY <3>3, <3>4 DEF BoldAt
      <3>6. QED
        BY <1>1, <3>2, <3>5
    <2>4. QED
      BY <1>2, <2>1, <2>2, <2>3
  <1>15. a \in 1..(l + 1) /\ \A i \in 1..l : i < a => q[i] = i
    BY <1>2, <1>8
  <1>16. \A i \in 1..l : u[q[i]] = t[i]
    BY <1>8
  <1>17. Spread(u, q, t, l, a, done \cup {r}, X)
    <2>1. Len(u) \in Nat /\ u \in [1..Len(u) -> X] /\ q \in [1..l -> 1..Len(u)]
      BY <1>1, <1>6, <1>7, <1>10
    <2>2. \A j \in 1..Len(u) : u[j] \notin {Bold, Plain} => \E i \in 1..l : q[i] = j
      BY <1>7, <1>11
    <2>3. QED
      BY <1>9, <1>14, <1>15, <1>16, <2>1, <2>2 DEF Spread
  <1>18. QED
    BY <1>17 DEF u, a

IsPlain(t, l, X) == l \in Nat /\ Bold \in X /\ Plain \in X /\ t \in [1..l -> X \ {Bold, Plain}]

\* The ranges from the last to the first, none of which touches another.
Descending(s, n) ==
  /\ n \in Nat /\ s \in [1..n -> Nat \X Nat]
  /\ \A i \in 1..n : 0 < s[i][1] /\ s[i][1] < s[i][2]
  /\ \A i, j \in 1..n : i < j => s[j][2] < s[i][1]

\* One range more: not shown, or set in bold.
Marking(u, r, l) == IF r[1] > l THEN u ELSE Marked(u, r, l)

\* u is the text t with the first k ranges of s in bold.
Bolded(u, t, l, s, k, X) ==
  \E p, x : /\ Spread(u, p, t, l, x, {s[i] : i \in 1..k}, X)
            /\ x = l + 1 \/ \E i \in 1..k : x = s[i][1]

LEMMA NoneBold ==
  ASSUME NEW X, NEW l, NEW t, IsPlain(t, l, X), NEW s
  PROVE  Bolded(t, t, l, s, 0, X)
  <1> DEFINE p == [i \in 1..l |-> i]
             none == {s[i] : i \in 1..0}
  <1>1. l \in Nat /\ t \in [1..l -> X] /\ \A i \in 1..l : t[i] \notin {Bold, Plain}
    BY DEF IsPlain
  <1>2. Len(t) = l
    BY <1>1
  <1>3. ASSUME NEW i \in 1..l PROVE ~BoldAt(t, p[i])
    <2>1. \A j \in 1..i : j \in 1..l
      BY <1>1
    <2>2. QED
      BY <1>1, <2>1 DEF BoldAt
  <1>4. none = {}
    OBVIOUS
  <1>5. l + 1 \in 1..(l + 1)
    BY <1>1
  <1> HIDE DEF none
  <1>6. Spread(t, p, t, l, l + 1, none, X)
    BY <1>1, <1>2, <1>3, <1>4, <1>5 DEF Spread
  <1> HIDE DEF p
  <1>7. QED
    BY <1>6 DEF Bolded, none

LEMMA OneBolder ==
  ASSUME NEW X, NEW l, NEW t, IsPlain(t, l, X), NEW n, NEW s, Descending(s, n), NEW k \in 1..n,
         NEW u, Bolded(u, t, l, s, k - 1, X)
  PROVE  Bolded(Marking(u, s[k], l), t, l, s, k, X)
  <1> DEFINE done == {s[i] : i \in 1..(k - 1)}
             now == {s[i] : i \in 1..k}
             r == s[k]
  <1>1. l \in Nat /\ Bold \in X /\ Plain \in X /\ \A i \in 1..l : t[i] \notin {Bold, Plain}
    BY DEF IsPlain
  <1>2. /\ n \in Nat /\ r \in Nat \X Nat /\ 0 < r[1] /\ r[1] < r[2] /\ r[1] \in Nat /\ r[2] \in Nat
        /\ \A i \in 1..(k - 1) : r[2] < s[i][1]
    <2>1. n \in Nat /\ \A i \in 1..(k - 1) : i \in 1..n /\ i < k
      BY DEF Descending
    <2>2. QED
      BY <2>1 DEF Descending
  <1>3. now = done \cup {r}
    BY <1>2
  <1>4. PICK p, x : Spread(u, p, t, l, x, done, X) /\ (x = l + 1 \/ \E i \in 1..(k - 1) : x = s[i][1])
    BY DEF Bolded
  <1>5. k \in 1..k /\ \A i \in 1..(k - 1) : i \in 1..k
    BY <1>2
  <1> HIDE DEF done, now
  <1>6. CASE r[1] > l
    <2>1. \A i \in 1..l : ~In(r, i)
      BY <1>1, <1>2, <1>6 DEF In
    <2>2. Spread(u, p, t, l, x, now, X)
      <3>1. \A i \in 1..l : (\E d \in done : In(d, i)) <=> \E d \in now : In(d, i)
        BY <1>3, <2>1
      <3>2. QED
        BY <1>4, <3>1 DEF Spread
    <2>3. Marking(u, s[k], l) = u
      BY <1>6 DEF Marking
    <2>4. x = l + 1 \/ \E i \in 1..k : x = s[i][1]
      BY <1>4, <1>5
    <2>5. QED
      BY <2>2, <2>3, <2>4 DEF Bolded, now
  <1>7. CASE ~(r[1] > l)
    <2> DEFINE e == Min({r[2], l + 1})
    <2>1. r[1] \in 1..l
      BY <1>1, <1>2, <1>7
    <2>2. e <= x
      <3>1. e <= r[2] /\ e <= l + 1 /\ e \in Nat
        BY <1>1, <1>2, TwoOrLess
      <3>2. x \in Nat
        BY <1>1, <1>4 DEF Spread
      <3> HIDE DEF e
      <3>3. QED
        BY <1>1, <1>2, <1>4, <3>1, <3>2
    <2> HIDE DEF e
    <2>3. \E q : Spread(Marked(u, r, l), q, t, l, r[1], done \cup {r}, X)
      <3>1. EndsBefore(r, e, x, l)
        BY <1>2, <2>1, <2>2 DEF EndsBefore, e
      <3> HIDE DEF r
      <3>2. Spread(u, p, t, l, x, done, X)
        BY <1>4
      <3>3. QED
        BY <1>1, <3>1, <3>2, MoreSpread
    <2>4. Marking(u, s[k], l) = Marked(u, r, l)
      BY <1>7 DEF Marking
    <2>5. QED
      BY <1>3, <1>5, <2>3, <2>4 DEF Bolded, now
  <1>8. QED
    BY <1>6, <1>7

\* The ranges of a text, from first to last.
Ascending(m, n) ==
  /\ n \in Nat /\ m \in [1..n -> Nat \X Nat]
  /\ \A i \in 1..n : 0 < m[i][1] /\ m[i][1] < m[i][2]
  /\ \A i, j \in 1..n : i < j => m[i][2] < m[j][1]

StartsLater(m) == [i \in DOMAIN m |-> {j \in DOMAIN m : m[i][1] > m[j][1]}]

LEMMA SortedDescends ==
  ASSUME NEW n, NEW m, Ascending(m, n)
  PROVE  /\ Descending(Sorted(m, StartsLater(m)), n)
         /\ {Sorted(m, StartsLater(m))[i] : i \in 1..n} = Range(m)
  <1> DEFINE B == StartsLater(m)
             s == Sorted(m, B)
             P == Nat \X Nat
  <1>1. /\ n \in Nat /\ m \in [1..n -> P] /\ DOMAIN m = 1..n
        /\ \A i \in 1..n : 0 < m[i][1] /\ m[i][1] < m[i][2]
        /\ \A i, j \in 1..n : i < j => m[i][2] < m[j][1]
    BY DEF Ascending
  <1>2. \A i \in 1..n : m[i][1] \in Nat /\ m[i][2] \in Nat
    BY <1>1
  <1>3. \A i, j \in 1..n : j \in B[i] <=> m[i][1] > m[j][1]
    BY <1>1 DEF StartsLater
  <1> HIDE DEF B
  <1>4. WeakOrder(B, n)
    <2>1. ASSUME NEW i \in 1..n, NEW j \in 1..n, j \in B[i] PROVE i \notin B[j]
      BY <1>2, <1>3, <2>1
    <2>2. ASSUME NEW i \in 1..n, NEW j \in 1..n, NEW k \in 1..n, j \in B[i]
          PROVE  k \in B[i] \/ j \in B[k]
      BY <1>2, <1>3, <2>2
    <2>3. QED
      BY <2>1, <2>2 DEF WeakOrder
  <1>5. IsList(m, n, P)
    BY <1>1 DEF IsList
  <1> HIDE DEF P
  <1>6. PICK order, place : /\ Arranges(order, place, s, m, n, P)
                            /\ \A i, j \in 1..n : i < j => order[i] \notin B[order[j]]
    BY <1>4, <1>5, SortedIs
  <1>7. /\ order \in [1..n -> 1..n] /\ place \in [1..n -> 1..n]
        /\ \A i \in 1..n : order[place[i]] = i
        /\ s = [k \in 1..n |-> m[order[k]]] /\ s \in [1..n -> P]
    BY <1>6 DEF Arranges
  <1> HIDE DEF s
  <1>8. \A i \in 1..n : s[i] = m[order[i]] /\ order[i] \in 1..n
    BY <1>7
  <1>9. \A i, j \in 1..n : order[i] = order[j] => i = j
    <2>1. order \in Surjection(1..n, 1..n)
      BY <1>7 DEF Surjection
    <2>2. IsFiniteSet(1..n)
      BY <1>1, FS_Interval
    <2>3. order \in Injection(1..n, 1..n)
      BY <2>1, <2>2, FS_SurjSameCardinalityImpliesInj
    <2>4. QED
      BY <2>3 DEF Injection, IsInjective
  <1>10. ASSUME NEW i \in 1..n, NEW j \in 1..n, i < j PROVE s[j][2] < s[i][1]
    <2>1. order[i] # order[j]
      BY <1>1, <1>9, <1>10
    <2>2. ~(m[order[j]][1] > m[order[i]][1])
      BY <1>3, <1>6, <1>8, <1>10
    <2>3. CASE order[i] < order[j]
      <3>1. m[order[i]][2] < m[order[j]][1] /\ m[order[i]][1] < m[order[i]][2]
        BY <1>1, <1>8, <2>3
      <3>2. QED
        BY <1>2, <1>8, <2>2, <3>1
    <2>4. CASE order[j] < order[i]
      BY <1>1, <1>8, <2>4
    <2>5. QED
      BY <1>8, <2>1, <2>3, <2>4
  <1>11. Descending(s, n)
    BY <1>1, <1>7, <1>8, <1>10 DEF Descending, P
  <1>12. {s[i] : i \in 1..n} = Range(m)
    <2>1. \A i \in 1..n : s[place[i]] = m[i] /\ place[i] \in 1..n
      BY <1>7, <1>8
    <2>2. QED
      BY <1>1, <1>8, <2>1 DEF Range
  <1>13. QED
    BY <1>11, <1>12 DEF s, B

\* What is printed is the text with its ranges in bold.
LEMMA HighlightBolds ==
  ASSUME NEW X, NEW text, NEW width, NEW n, NEW m, Ascending(m, n),
         NEW l, NEW t, t = Trimmed(text, width), l = Len(t), IsPlain(t, l, X)
  PROVE  \E p, x : Spread(Highlight(text, m, width), p, t, l, x, Range(m), X)
  <1> DEFINE s == Sorted(m, StartsLater(m))
             Runs(f) == f = [k \in 0..n |-> IF k = 0 THEN t
                                            ELSE IF s[k][1] > l THEN f[k - 1]
                                            ELSE Marked(f[k - 1], s[k], l)]
             result == CHOOSE f : Runs(f)
             U == Seq(X)
             Q == [k \in 0..n |-> {u \in U : Bolded(u, t, l, s, k, X)}]
             step == [k \in 1..n |-> [u \in U |-> IF u \in Q[k - 1] THEN Marking(u, s[k], l) ELSE <<>>]]
  <1>1. n \in Nat /\ Len(m) = n /\ l \in Nat
    BY DEF Ascending, IsPlain
  <1>2. Highlight(text, m, width) = result[n]
    <2>1. Highlight(text, m, width) = (CHOOSE f : Runs(f))[Len(m)]
      <3> DEFINE R2(f) == f = [k \in 0..Len(m) |-> IF k = 0 THEN Trimmed(text, width)
                                            ELSE IF s[k][1] > Len(Trimmed(text, width)) THEN f[k - 1]
                                            ELSE Marked(f[k - 1], s[k], Len(Trimmed(text, width)))]
      <3>1. Highlight(text, m, width) = (CHOOSE f : R2(f))[Len(m)]
        BY Zenon DEF Highlight, StartsLater
      <3>2. \A f : R2(f) <=> Runs(f)
        <4> HIDE DEF s
        <4>1. QED
          BY <1>1
      <3>3. (CHOOSE f : R2(f)) = CHOOSE f : Runs(f)
        <4> HIDE DEF R2, Runs
        <4>1. QED
          BY <3>2, Zenon
      <3>4. QED
        BY <3>1, <3>3
    <2>2. QED
      BY <1>1, <2>1
  <1>3. Descending(s, n) /\ {s[i] : i \in 1..n} = Range(m)
    BY SortedDescends
  <1> HIDE DEF s
  <1>4. t \in U /\ t \in Q[0]
    <2>1. Bolded(t, t, l, s, 0, X)
      BY NoneBold
    <2>2. t \in U /\ 0 \in 0..n
      BY <1>1 DEF IsPlain
    <2>3. QED
      BY <2>1, <2>2
  <1>5. ASSUME NEW k \in 1..n, NEW u \in Q[k - 1] PROVE Marking(u, s[k], l) \in Q[k]
    <2>1. k - 1 \in 0..n /\ k \in 0..n
      BY <1>1
    <2>2. Bolded(u, t, l, s, k - 1, X)
      BY <1>5, <2>1
    <2> DEFINE v == Marking(u, s[k], l)
    <2>3. Bolded(v, t, l, s, k, X)
      BY <1>3, <2>2, OneBolder
    <2> HIDE DEF v
    <2>4. v \in U
      <3>1. Len(v) \in Nat /\ v \in [1..Len(v) -> X]
        BY <2>3 DEF Bolded, Spread
      <3>2. QED
        BY <3>1
    <2>5. v \in Q[k]
      BY <2>1, <2>3, <2>4
    <2>6. QED
      BY <2>5 DEF v
  <1>6. \A k \in 0..n : Q[k] \subseteq U
    OBVIOUS
  <1> HIDE DEF Q
  <1>7. CanRepeat(n, U, t, step)
    <2>1. \A k \in 1..n, u \in U : (IF u \in Q[k - 1] THEN Marking(u, s[k], l) ELSE <<>>) \in U
      <3>1. \A k \in 1..n : k \in 0..n
        BY <1>1
      <3>2. <<>> \in U
        OBVIOUS
      <3> HIDE DEF U
      <3>3. QED
        BY <1>5, <1>6, <3>1, <3>2
    <2> HIDE DEF U
    <2>2. step \in [1..n -> [U -> U]]
      BY <2>1
    <2>3. QED
      BY <1>1, <1>4, <2>2 DEF CanRepeat
  <1>8. \A k \in 1..n, u \in U : u \in Q[k - 1] => step[k][u] = Marking(u, s[k], l)
    OBVIOUS
  <1> HIDE DEF step, U
  <1>9. ASSUME NEW f, f[0] = t, \A k \in 1..n : f[k - 1] \in Q[k - 1] => f[k] = Marking(f[k - 1], s[k], l)
        PROVE  \A k \in 0..n : f[k] \in Q[k]
    <2>1. \A k \in 1..n : f[k - 1] \in Q[k - 1] => f[k] \in Q[k]
      BY <1>5, <1>9
    <2>2. f[0] \in Q[0]
      BY <1>4, <1>9
    <2>3. QED
      BY <1>1, <2>1, <2>2, Counted
  <1>10. \E f : Runs(f)
    <2>1. PICK f : Repeats(f, n, U, t, step)
      BY <1>7, Iterated
    <2>2. f \in [0..n -> U] /\ f[0] = t /\ \A k \in 1..n : f[k] = step[k][f[k - 1]]
      BY <2>1 DEF Repeats
    <2>3. \A k \in 1..n : f[k - 1] \in Q[k - 1] => f[k] = Marking(f[k - 1], s[k], l)
      <3>1. \A k \in 1..n : f[k - 1] \in U
        BY <1>1, <2>2
      <3>2. QED
        BY <1>8, <2>2, <3>1
    <2>4. \A k \in 0..n : f[k] \in Q[k]
      BY <1>9, <2>2, <2>3
    <2>5. ASSUME NEW k \in 0..n
          PROVE  f[k] = IF k = 0 THEN t ELSE IF s[k][1] > l THEN f[k - 1] ELSE Marked(f[k - 1], s[k], l)
      <3>1. CASE k = 0
        BY <2>2, <3>1
      <3>2. CASE k # 0
        <4>1. k \in 1..n /\ k - 1 \in 0..n
          BY <1>1, <3>2
        <4>2. f[k] = Marking(f[k - 1], s[k], l)
          BY <2>3, <2>4, <4>1
        <4>3. QED
          BY <3>2, <4>2 DEF Marking
      <3>3. QED
        BY <3>1, <3>2
    <2>6. f = [k \in 0..n |-> IF k = 0 THEN t ELSE IF s[k][1] > l THEN f[k - 1] ELSE Marked(f[k - 1], s[k], l)]
      BY <2>2, <2>5
    <2>7. QED
      BY <2>6
  <1>11. \A k \in 0..n : result[k] \in Q[k]
    <2>1. Runs(result)
      BY <1>10
    <2> HIDE DEF result
    <2>2. result[0] = t
      BY <1>1, <2>1
    <2>3. ASSUME NEW k \in 1..n PROVE result[k] = Marking(result[k - 1], s[k], l)
      <3>1. k \in 0..n /\ k # 0
        BY <1>1
      <3>2. result[k] = IF s[k][1] > l THEN result[k - 1] ELSE Marked(result[k - 1], s[k], l)
        BY <2>1, <3>1
      <3>3. QED
        BY <3>2 DEF Marking
    <2> HIDE DEF Runs
    <2>4. QED
      BY <1>9, <2>2, <2>3
  <1> HIDE DEF result
  <1>12. Bolded(result[n], t, l, s, n, X)
    <2>1. n \in 0..n
      BY <1>1
    <2>2. result[n] \in Q[n]
      BY <1>11, <2>1
    <2>3. QED
      BY <2>1, <2>2 DEF Q
  <1>13. QED
    BY <1>2, <1>3, <1>12 DEF Bolded

LEMMA TrimmedIs ==
  ASSUME NEW text, IsText(text), Range(text) \cap {Bold, Plain} = {}, NEW width \in Nat \ {0}
  PROVE  LET t == Trimmed(text, width)
             l == Len(t)
         IN /\ IsPlain(t, l, Range(text) \cup {Ellipsis, Bold, Plain})
            /\ l = Min({width, Len(text)})
            /\ \A i \in 1..l : t[i] = IF Len(text) > width /\ i = width THEN Ellipsis ELSE text[i]
  <1> DEFINE n == Len(text)
             S == Range(text)
             X == S \cup {Ellipsis, Bold, Plain}
             t == Trimmed(text, width)
             l == IF width < n THEN width ELSE n
  <1>1. n \in Nat /\ text \in [1..n -> S] /\ S \cap {Bold, Plain} = {}
    BY DEF IsText
  <1>2. Ellipsis \notin {Bold, Plain}
    BY DEF Ellipsis, Bold, Plain
  <1> HIDE DEF S, n
  <1>3. l \in Nat /\ Min({width, n}) = l
    BY <1>1, TwoOrLess
  <1>4. /\ t \in [1..l -> X \ {Bold, Plain}]
        /\ \A i \in 1..l : t[i] = IF n > width /\ i = width THEN Ellipsis ELSE text[i]
    <2>1. CASE n > width
      <3> DEFINE f == Firsts(text, width - 1)
      <3>1. l = width /\ width - 1 \in Nat /\ Lesser(width - 1, n) = width - 1
        BY <1>1, <2>1 DEF Lesser
      <3>2. IsList(text, n, S)
        BY <1>1 DEF IsList
      <3>3. Begins(f, text, width - 1, n, S)
        BY <3>1, <3>2, FirstsAre
      <3>4. f \in [1..(width - 1) -> S] /\ \A i \in 1..(width - 1) : f[i] = text[i]
        BY <3>1, <3>3 DEF Begins
      <3>5. t = Append(f, Ellipsis)
        BY <2>1 DEF Trimmed, n
      <3> HIDE DEF f, t
      <3>6. f \in Seq(X) /\ Len(f) = width - 1
        BY <3>1, <3>4
      <3>7. t \in Seq(X) /\ Len(t) = width /\ t[width] = Ellipsis /\ \A i \in 1..(width - 1) : t[i] = f[i]
        BY <3>1, <3>5, <3>6
      <3>8. ASSUME NEW i \in 1..l
            PROVE  t[i] \in X \ {Bold, Plain} /\ t[i] = IF n > width /\ i = width THEN Ellipsis ELSE text[i]
        <4>1. CASE i = width
          BY <1>2, <2>1, <3>7, <4>1
        <4>2. CASE i # width
          <5>1. i \in 1..(width - 1)
            BY <3>1, <4>2
          <5>2. t[i] = text[i] /\ t[i] \in S
            BY <3>4, <3>7, <5>1
          <5>3. QED
            BY <1>1, <4>2, <5>2
        <4>3. QED
          BY <4>1, <4>2
      <3>9. DOMAIN t = 1..l /\ t = [i \in 1..l |-> t[i]]
        BY <3>1, <3>7
      <3>10. t \in [1..l -> X \ {Bold, Plain}]
        BY <3>8, <3>9
      <3>11. QED
        BY <3>8, <3>10
    <2>2. CASE ~(n > width)
      <3>1. l = n /\ t = text
        BY <1>1, <2>2 DEF Trimmed, n
      <3>2. \A i \in 1..n : text[i] \in X \ {Bold, Plain}
        BY <1>1
      <3>3. QED
        BY <1>1, <2>2, <3>1, <3>2
    <2>3. QED
      BY <2>1, <2>2
  <1> HIDE DEF t, l
  <1>5. Len(t) = l
    BY <1>3, <1>4
  <1>6. QED
    BY <1>3, <1>4, <1>5 DEF IsPlain, t, S, n

\* Of the first j letters and marks, the letters are those up to the letter at c.
UpToLetter(s, p, l, j, c) == c \in 0..l /\ j \in 0..Len(s) /\ \A i \in 1..l : p[i] <= j <=> i <= c

LEMMA LettersCounted ==
  ASSUME NEW X, NEW l, NEW t, IsPlain(t, l, X), NEW s, NEW p, NEW x, NEW done,
         Spread(s, p, t, l, x, done, X), NEW j, NEW c, UpToLetter(s, p, l, j, c)
  PROVE  Cardinality({k \in 1..j : s[k] \notin {Bold, Plain}}) = c
  <1> DEFINE K == {k \in 1..j : s[k] \notin {Bold, Plain}}
             n == Len(s)
             f == [i \in 1..c |-> p[i]]
  <1>1. /\ l \in Nat /\ \A i \in 1..l : t[i] \notin {Bold, Plain}
        /\ n \in Nat /\ p \in [1..l -> 1..n]
        /\ \A a, b \in 1..l : a < b => p[a] < p[b]
        /\ \A i \in 1..l : s[p[i]] = t[i]
        /\ \A k \in 1..n : s[k] \notin {Bold, Plain} => \E i \in 1..l : p[i] = k
        /\ c \in 0..l /\ c \in Nat /\ j \in 0..n /\ \A i \in 1..l : p[i] <= j <=> i <= c
    BY DEF IsPlain, Spread, UpToLetter
  <1> HIDE DEF n
  <1>2. \A i \in 1..c : i \in 1..l /\ p[i] \in 1..j
    <2>1. j \in Nat /\ c \in Nat /\ c <= l
      BY <1>1 DEF n
    <2>2. QED
      BY <1>1, <2>1
  <1>3. OneToOne(f, 1..c, K)
    <2>1. \A i \in 1..c : f[i] = p[i] /\ p[i] \in K
      BY <1>1, <1>2
    <2>2. ASSUME NEW a \in 1..c, NEW b \in 1..c, f[a] = f[b] PROVE a = b
      <3>1. p[a] = p[b] /\ a \in 1..l /\ b \in 1..l /\ p[a] \in Nat
        BY <1>1, <1>2, <2>2
      <3>2. ~(a < b) /\ ~(b < a)
        BY <1>1, <3>1
      <3>3. QED
        BY <3>1, <3>2
    <2>3. ASSUME NEW k \in K PROVE \E i \in 1..c : f[i] = k
      <3>1. k \in 1..n /\ k <= j
        BY <1>1 DEF n
      <3>2. PICK i \in 1..l : p[i] = k
        BY <1>1, <3>1
      <3>3. i \in 1..c
        BY <1>1, <3>1, <3>2
      <3>4. QED
        BY <3>2, <3>3
    <2> HIDE DEF K
    <2>4. f \in [1..c -> K]
      BY <2>1
    <2>5. QED
      BY <2>2, <2>3, <2>4 DEF OneToOne
  <1>4. IsFiniteSet(1..c) /\ Cardinality(1..c) = c
    BY <1>1, UpTo
  <1> HIDE DEF K, f
  <1>5. Cardinality(K) = c
    BY <1>3, <1>4, AsMany
  <1>6. QED
    BY <1>5 DEF K

\* What is printed of a match are the letters of the text, with the ranges in bold.
LEMMA PrintedIs ==
  ASSUME NEW text, IsText(text), Range(text) \cap {Bold, Plain} = {}, Width \in Nat \ {0},
         NEW n, NEW m, Ascending(m, n)
  PROVE  Printed(Highlight(text, m, Width), text, m)
  <1> DEFINE X == Range(text) \cup {Ellipsis, Bold, Plain}
             t == Trimmed(text, Width)
             l == Len(t)
             s == Highlight(text, m, Width)
             at(i) == Cardinality({j \in 1..i : s[j] \notin {Bold, Plain}})
  <1>1. /\ IsPlain(t, l, X) /\ l = Min({Width, Len(text)})
        /\ \A i \in 1..l : t[i] = IF Len(text) > Width /\ i = Width THEN Ellipsis ELSE text[i]
    BY TrimmedIs
  <1> HIDE DEF X
  <1>2. PICK p, x : Spread(s, p, t, l, x, Range(m), X)
    BY <1>1, HighlightBolds
  <1>3. /\ l \in Nat /\ Len(s) \in Nat /\ DOMAIN s = 1..Len(s) /\ p \in [1..l -> 1..Len(s)]
        /\ \A i, j \in 1..l : i < j => p[i] < p[j]
        /\ \A i \in 1..l : s[p[i]] = t[i]
        /\ \A j \in 1..Len(s) : s[j] \notin {Bold, Plain} => \E i \in 1..l : p[i] = j
        /\ \A i \in 1..l : BoldAt(s, p[i]) <=> \E r \in Range(m) : In(r, i)
    BY <1>1, <1>2 DEF IsPlain, Spread
  <1> HIDE DEF s, t, l
  <1>4. at(Len(s)) = l
    <2>1. UpToLetter(s, p, l, Len(s), l)
      BY <1>3 DEF UpToLetter
    <2>2. QED
      BY <1>1, <1>2, <2>1, LettersCounted
  <1>5. ASSUME NEW i \in 1..l PROVE at(p[i]) = i
    <2>1. i \in 0..l /\ p[i] \in 0..Len(s)
      BY <1>3
    <2>2. ASSUME NEW k \in 1..l PROVE p[k] <= p[i] <=> k <= i
      <3>1. p[k] \in Nat /\ p[i] \in Nat
        BY <1>3
      <3>2. k < i => p[k] < p[i]
        BY <1>3
      <3>3. i < k => p[i] < p[k]
        BY <1>3
      <3>4. k = i \/ k < i \/ i < k
        BY <1>3
      <3>5. QED
        BY <3>1, <3>2, <3>3, <3>4
    <2> DEFINE j == p[i]
    <2> HIDE DEF j
    <2>3. UpToLetter(s, p, l, j, i)
      BY <2>1, <2>2 DEF j, UpToLetter
    <2>4. at(j) = i
      BY <1>1, <1>2, <2>3, LettersCounted
    <2>5. QED
      BY <2>4 DEF j
  <1>6. ASSUME NEW j \in DOMAIN s, s[j] \notin {Bold, Plain}
        PROVE  /\ s[j] = IF Len(text) > Width /\ at(j) = Width THEN Ellipsis ELSE text[at(j)]
               /\ BoldAt(s, j) <=> \E r \in Range(m) : In(r, at(j))
    <2>1. PICK i \in 1..l : p[i] = j
      BY <1>3, <1>6
    <2>2. at(j) = i
      BY <1>5, <2>1
    <2> HIDE DEF at
    <2>3. QED
      BY <1>1, <1>3, <2>1, <2>2
  <1>7. Printed(s, text, m)
    <2>1. at(Len(s)) = Min({Width, Len(text)})
      BY <1>1, <1>4
    <2>2. QED
      BY <1>6, <2>1 DEF Printed, BoldAt
  <1>8. QED
    BY <1>7 DEF s

(***************************************************************************)
(* What a search finds                                                     *)
(***************************************************************************)
LEMMA HighestIs ==
  ASSUME NEW S \in SUBSET Nat, IsFiniteSet(S), S # {}, NEW f, \A i \in S : f[i] \in Nat
  PROVE  \E i \in S : \A j \in S : f[j] <= f[i]
  <1> DEFINE R == {e \in S \X S : f[e[1]] > f[e[2]] \/ (f[e[1]] = f[e[2]] /\ e[1] < e[2])}
             n == Cardinality(S)
             s == InOrder(S, R)
  <1>1. \A i, j \in S : <<i, j>> \in R <=> f[i] > f[j] \/ (f[i] = f[j] /\ i < j)
    OBVIOUS
  <1> HIDE DEF R
  <1>2. Orders(R, S)
    <2>1. \A i \in S : <<i, i>> \notin R
      BY <1>1
    <2>2. \A i, j \in S : i # j => <<i, j>> \in R \/ <<j, i>> \in R
      BY <1>1
    <2>3. \A i, j, k \in S : <<i, j>> \in R /\ <<j, k>> \in R => <<i, k>> \in R
      BY <1>1
    <2>4. QED
      BY <2>1, <2>2, <2>3 DEF Orders
  <1>3. Lines(s, S, R)
    BY <1>2, InOrderIs
  <1> HIDE DEF s
  <1>4. n \in Nat /\ n # 0
    BY FS_CardinalityType, FS_EmptySet
  <1>5. /\ s \in [1..n -> S] /\ \A x \in S : \E i \in 1..n : s[i] = x
        /\ \A i, j \in 1..n : i < j => <<s[i], s[j]>> \in R
    BY <1>3 DEF Lines
  <1> HIDE DEF n
  <1>6. 1 \in 1..n /\ s[1] \in S
    BY <1>4, <1>5
  <1>7. ASSUME NEW j \in S PROVE f[j] <= f[s[1]]
    <2>1. PICK k \in 1..n : s[k] = j
      BY <1>5
    <2>2. CASE k = 1
      BY <1>6, <2>1, <2>2
    <2>3. CASE k # 1
      <3>1. <<s[1], s[k]>> \in R
        BY <1>4, <1>5, <1>6, <2>3
      <3>2. f[s[1]] > f[j] \/ f[s[1]] = f[j]
        BY <1>1, <1>6, <2>1, <3>1
      <3>3. f[s[1]] \in Nat /\ f[j] \in Nat
        BY <1>6
      <3>4. QED
        BY <3>2, <3>3
    <2>4. QED
      BY <2>2, <2>3
  <1>8. QED
    BY <1>6, <1>7

Scopes == {"project", "state", "task", "decision", "remote", "checkpoint"}
IsItem(item, T) ==
  /\ item.texts \in Seq(T) /\ \A text \in T : IsText(text)
  /\ item.scope \in Scopes /\ (item.scope = "checkpoint" => item.age \in 1..4)

LEMMA WeightIs ==
  ASSUME NEW item, NEW T, IsItem(item, T), NEW m \in Nat
  PROVE  /\ m * ScopeWeight(item.scope) * Factor(item) \in Nat
         /\ item.scope = "task" => ScopeWeight(item.scope) = 6 /\ Factor(item) = IF item.done THEN 4 ELSE 10
         /\ item.scope = "checkpoint" => ScopeWeight(item.scope) = 3 /\ Factor(item) = <<16, 13, 10, 8>>[item.age]
  <1> DEFINE w == ScopeWeight(item.scope)
             f == Factor(item)
  <1>1. w \in {3, 4, 5, 6, 8, 10}
    BY DEF IsItem, Scopes, ScopeWeight
  <1>2. item.scope = "task" => w = 6 /\ f = IF item.done THEN 4 ELSE 10
    BY DEF ScopeWeight, Factor
  <1>3. item.scope = "checkpoint" => w = 3 /\ f = <<16, 13, 10, 8>>[item.age]
    BY DEF ScopeWeight, Factor
  <1>4. f \in {4, 8, 10, 13, 16}
    <2>1. CASE item.scope = "checkpoint"
      BY <1>3, <2>1 DEF IsItem
    <2>2. CASE item.scope = "task"
      BY <1>2, <2>2
    <2>3. CASE item.scope \notin {"task", "checkpoint"}
      BY <2>3 DEF Factor
    <2>4. QED
      BY <2>1, <2>2, <2>3
  <1> HIDE DEF w, f
  <1>5. m * w \in Nat
    BY <1>1
  <1> DEFINE c == m * w
  <1> HIDE DEF c
  <1>6. c * f \in Nat
    BY <1>4, <1>5 DEF c
  <1>7. QED
    BY <1>2, <1>3, <1>6 DEF w, f, c

\* The place of the text an item is shown by is one of those found.
LEMMA ShownIs ==
  ASSUME NEW item, NEW matches, NEW found \in SUBSET Nat, IsFiniteSet(found), found # {},
         \A i \in found : matches[i].score \in Nat
  PROVE  Shown(item, matches, found) \in found
  <1> DEFINE f == [i \in found |-> matches[i].score]
             best == {i \in found : \A j \in found : matches[j].score <= matches[i].score}
  <1>1. \E i \in found : \A j \in found : f[j] <= f[i]
    <2>1. \A i \in found : f[i] \in Nat
      OBVIOUS
    <2> HIDE DEF f
    <2>2. QED
      BY <2>1, HighestIs
  <1>2. best # {} /\ best \in SUBSET found /\ best \in SUBSET Nat
    BY <1>1
  <1> HIDE DEF best
  <1>3. Min(best) \in best
    BY <1>2, MinIs
  <1>4. Min(found) \in found
    BY MinIs
  <1>5. QED
    BY <1>2, <1>3, <1>4 DEF Shown, best

Asking(terms) ==
  /\ IsQuery(terms) /\ terms # <<>>
  /\ None \notin [score : Nat, highlights : Seq(Nat \X Nat)]

Matches(texts, terms) == [i \in DOMAIN texts |-> MatchText(texts[i], terms)]
FoundIn(matches) == {i \in DOMAIN matches : matches[i] # None}
\* What the texts of an item count, whatever else it is.
Base(item, terms) ==
  Matches(item.texts, terms)[Shown(item, Matches(item.texts, terms), FoundIn(Matches(item.texts, terms)))].score
HeldBy(item, terms) == \E text \in Range(item.texts) : HoldsAll(text, terms)

\* An item is a hit exactly if one of its texts holds the terms, and each hit counts.
LEMMA HitIs ==
  ASSUME NEW items, NEW T, NEW item \in items, IsItem(item, T), NEW terms, Asking(terms),
         None \notin [item : items, text : T, score : Nat]
  PROVE  /\ HitOf(item, terms) # None <=> HeldBy(item, terms)
         /\ HeldBy(item, terms) =>
              /\ HitOf(item, terms).item = item /\ HitOf(item, terms).score \in Nat
              /\ Base(item, terms) \in Nat /\ Base(item, terms) > 0
              /\ HitOf(item, terms).score = Base(item, terms) * ScopeWeight(item.scope) * Factor(item)
  <1> DEFINE texts == item.texts
             matches == Matches(texts, terms)
             found == FoundIn(matches)
             k == Shown(item, matches, found)
             n == Len(texts)
  <1>1. n \in Nat /\ DOMAIN texts = 1..n /\ \A i \in 1..n : texts[i] \in T /\ IsText(texts[i])
    BY DEF IsItem
  <1>2. DOMAIN matches = 1..n /\ \A i \in 1..n : matches[i] = MatchText(texts[i], terms)
    BY <1>1 DEF Matches
  <1>3. \A i \in 1..n : Matching(texts[i], terms, matches[i])
    BY <1>1, <1>2, TextMatches DEF Asking
  <1>4. HitOf(item, terms) = HitFrom(item, matches, found)
    BY DEF HitOf, HitIn, Matches, FoundIn
  <1> HIDE DEF n, matches
  <1>5. \A i : i \in found <=> i \in 1..n /\ HoldsAll(texts[i], terms)
    BY <1>2, <1>3 DEF FoundIn, Matching
  <1>6. found # {} <=> HeldBy(item, terms)
    <2>1. Range(texts) = {texts[i] : i \in 1..n}
      BY <1>1 DEF Range
    <2> HIDE DEF found
    <2>2. QED
      BY <1>5, <2>1 DEF HeldBy
  <1>7. CASE found = {}
    BY <1>4, <1>6, <1>7 DEF HitFrom
  <1>8. CASE found # {}
    <2>1. /\ found \in SUBSET Nat /\ IsFiniteSet(found)
          /\ \A i \in found : matches[i].score \in Nat /\ matches[i].score > 0
      <3>1. \A i \in found : i \in 1..n /\ matches[i] # None
        BY <1>2 DEF FoundIn
      <3>2. IsFiniteSet(1..n) /\ found \in SUBSET (1..n) /\ found \in SUBSET Nat
        BY <1>1, <3>1, FS_Interval
      <3>3. IsFiniteSet(found)
        BY <3>2, FS_Subset
      <3>4. QED
        BY <1>3, <3>1, <3>2, <3>3 DEF Matching
    <2> HIDE DEF found
    <2>2. k \in found
      BY <1>8, <2>1, ShownIs
    <2> HIDE DEF k
    <2>3. k \in 1..n /\ texts[k] \in T /\ matches[k].score \in Nat /\ matches[k].score > 0
      BY <1>1, <1>5, <2>1, <2>2
    <2> DEFINE score == matches[k].score * ScopeWeight(item.scope) * Factor(item)
    <2>4. score \in Nat
      BY <2>3, WeightIs
    <2>5. HitOf(item, terms) = [item |-> item, text |-> texts[k], score |-> score]
      BY <1>4, <1>8 DEF HitFrom, HitAt, k
    <2>6. Base(item, terms) = matches[k].score
      BY DEF Base, k, found, matches
    <2> HIDE DEF score
    <2>7. HitOf(item, terms) \in [item : items, text : T, score : Nat]
      BY <2>3, <2>4, <2>5
    <2>8. HitOf(item, terms) # None
      BY <2>7
    <2>9. HitOf(item, terms).item = item /\ HitOf(item, terms).score = score
      BY <2>5
    <2>10. QED
      BY <1>6, <1>8, <2>3, <2>4, <2>6, <2>8, <2>9 DEF score
  <1>9. QED
    BY <1>7, <1>8

\* Of two records of one text, the one a reader needs less counts less.
LEMMA OutranksByScore ==
  ASSUME NEW items, NEW T, NEW a \in items, IsItem(a, T), NEW b \in items, IsItem(b, T),
         NEW terms, Asking(terms), None \notin [item : items, text : T, score : Nat],
         Outranks(a, b), HeldBy(b, terms)
  PROVE  HeldBy(a, terms) /\ HitOf(a, terms).score > HitOf(b, terms).score
  <1>1. a.texts = b.texts /\ a.scope = b.scope
    BY DEF Outranks
  <1>2. HeldBy(a, terms)
    BY <1>1 DEF HeldBy
  <1>3. Base(a, terms) = Base(b, terms)
    BY <1>1 DEF Base, Shown
  <1> DEFINE m == Base(b, terms)
  <1>4. /\ m \in Nat /\ m > 0
        /\ HitOf(a, terms).score = m * ScopeWeight(a.scope) * Factor(a)
        /\ HitOf(b, terms).score = m * ScopeWeight(b.scope) * Factor(b)
    <2>1. /\ Base(b, terms) \in Nat /\ Base(b, terms) > 0
          /\ HitOf(b, terms).score = Base(b, terms) * ScopeWeight(b.scope) * Factor(b)
      BY HitIs
    <2>2. HitOf(a, terms).score = Base(a, terms) * ScopeWeight(a.scope) * Factor(a)
      BY <1>2, HitIs
    <2>3. QED
      BY <1>3, <2>1, <2>2
  <1> HIDE DEF m
  <1>5. CASE a.scope = "task" /\ ~a.done /\ b.done
    <2>1. ScopeWeight(a.scope) = 6 /\ Factor(a) = 10 /\ ScopeWeight(b.scope) = 6 /\ Factor(b) = 4
      BY <1>1, <1>5, WeightIs
    <2>2. m * 6 * 10 > m * 6 * 4
      BY <1>4
    <2>3. QED
      BY <1>2, <1>4, <2>1, <2>2
  <1>6. CASE a.scope = "checkpoint" /\ a.age < b.age
    <2>1. /\ ScopeWeight(a.scope) = 3 /\ Factor(a) = <<16, 13, 10, 8>>[a.age]
          /\ ScopeWeight(b.scope) = 3 /\ Factor(b) = <<16, 13, 10, 8>>[b.age]
      BY <1>1, <1>6, WeightIs
    <2>2. a.age \in 1..4 /\ b.age \in 1..4
      BY <1>1, <1>6 DEF IsItem
    <2>3. \A i, j \in 1..4 : i < j => /\ <<16, 13, 10, 8>>[i] > <<16, 13, 10, 8>>[j]
                                      /\ <<16, 13, 10, 8>>[i] \in {16, 13, 10, 8}
                                      /\ <<16, 13, 10, 8>>[j] \in {16, 13, 10, 8}
      OBVIOUS
    <2>4. Factor(a) > Factor(b) /\ Factor(a) \in {16, 13, 10, 8} /\ Factor(b) \in {16, 13, 10, 8}
      BY <1>6, <2>1, <2>2, <2>3
    <2>5. m * 3 \in Nat /\ m * 3 > 0
      BY <1>4
    <2> DEFINE c == m * 3
    <2> HIDE DEF c
    <2>6. \A f, g \in {16, 13, 10, 8} : f > g => c * f > c * g
      BY <2>5 DEF c
    <2>7. QED
      BY <1>2, <1>4, <2>1, <2>4, <2>6 DEF c
  <1>7. QED
    BY <1>5, <1>6 DEF Outranks

\* The hits from the highest score to the lowest.
Ranked(t, hits, n) ==
  /\ n \in Nat /\ t \in [1..n -> hits]
  /\ \A h \in hits : \E i \in 1..n : t[i] = h
  /\ \A i, j \in 1..n : i < j => t[j].score <= t[i].score

LEMMA ByScoreIs ==
  ASSUME NEW hits, IsFiniteSet(hits), \A h \in hits : h.score \in Nat
  PROVE  Ranked(ByScore(SetToSeq(hits)), hits, Cardinality(hits))
  <1> DEFINE s == SetToSeq(hits)
             n == Cardinality(hits)
             B == [i \in DOMAIN s |-> {j \in DOMAIN s : s[i].score > s[j].score}]
             t == Sorted(s, B)
  <1>1. IsList(s, n, hits) /\ \A h \in hits : \E i \in 1..n : s[i] = h
    BY SetToSeqIs
  <1>2. ByScore(SetToSeq(hits)) = t
    BY Zenon DEF ByScore
  <1> HIDE DEF s, n
  <1>3. n \in Nat /\ s \in [1..n -> hits] /\ DOMAIN s = 1..n
    BY <1>1 DEF IsList
  <1>4. \A i \in 1..n : s[i].score \in Nat
    BY <1>3
  <1>5. \A i, j \in 1..n : j \in B[i] <=> s[i].score > s[j].score
    BY <1>3
  <1> HIDE DEF B
  <1>6. WeakOrder(B, n)
    <2>1. ASSUME NEW i \in 1..n, NEW j \in 1..n, j \in B[i] PROVE i \notin B[j]
      BY <1>4, <1>5, <2>1
    <2>2. ASSUME NEW i \in 1..n, NEW j \in 1..n, NEW k \in 1..n, j \in B[i]
          PROVE  k \in B[i] \/ j \in B[k]
      BY <1>4, <1>5, <2>2
    <2>3. QED
      BY <2>1, <2>2 DEF WeakOrder
  <1>7. PICK order, place : /\ Arranges(order, place, t, s, n, hits)
                            /\ \A i, j \in 1..n : i < j => order[i] \notin B[order[j]]
    BY <1>1, <1>6, SortedIs
  <1>8. /\ order \in [1..n -> 1..n] /\ place \in [1..n -> 1..n]
        /\ \A i \in 1..n : order[place[i]] = i
        /\ t = [k \in 1..n |-> s[order[k]]] /\ t \in [1..n -> hits]
    BY <1>7 DEF Arranges
  <1> HIDE DEF t
  <1>9. \A h \in hits : \E i \in 1..n : t[i] = h
    <2>1. ASSUME NEW h \in hits PROVE \E i \in 1..n : t[i] = h
      <3>1. PICK i \in 1..n : s[i] = h
        BY <1>1
      <3>2. t[place[i]] = h /\ place[i] \in 1..n
        BY <1>8, <3>1
      <3>3. QED
        BY <3>2
    <2>2. QED
      BY <2>1
  <1>10. ASSUME NEW i \in 1..n, NEW j \in 1..n, i < j PROVE t[j].score <= t[i].score
    <2>1. t[i] = s[order[i]] /\ t[j] = s[order[j]] /\ order[i] \in 1..n /\ order[j] \in 1..n
      BY <1>8
    <2>2. ~(s[order[j]].score > s[order[i]].score)
      BY <1>5, <1>7, <1>10, <2>1
    <2>3. QED
      BY <1>4, <2>1, <2>2
  <1>11. QED
    BY <1>2, <1>3, <1>8, <1>9, <1>10 DEF Ranked, n, s

\* A search answers with what its terms are in, the records needed most first.
LEMMA HitsAre ==
  ASSUME NEW items, IsFiniteSet(items), NEW T, \A item \in items : IsItem(item, T),
         NEW terms, IsQuery(terms), None \notin [score : Nat, highlights : Seq(Nat \X Nat)],
         None \notin [item : items, text : T, score : Nat], NEW limit \in Nat
  PROVE  Hits(Search(items, terms, limit), items, terms, limit)
  <1> DEFINE r == Search(items, terms, limit)
             hit(item) == HitOf(item, terms)
             hits == {hit(item) : item \in items} \ {None}
             n == Cardinality(hits)
             t == ByScore(SetToSeq(hits))
             m == Lesser(limit, n)
  <1>1. CASE terms = <<>>
    <2>1. r = <<>>
      BY <1>1 DEF Search
    <2>2. Range(r) = {}
      BY <2>1 DEF Range
    <2> HIDE DEF r
    <2>3. Hits(r, items, terms, limit)
      BY <1>1, <2>2 DEF Hits
    <2>4. QED
      BY <2>3 DEF r
  <1>2. CASE terms # <<>>
    <2>1. Asking(terms)
      BY <1>2 DEF Asking
    <2>2. \A item \in items : /\ hit(item) # None <=> HeldBy(item, terms)
                              /\ HeldBy(item, terms) => hit(item).item = item /\ hit(item).score \in Nat
      BY <2>1, HitIs
    <2>3. \A a, b \in items : Outranks(a, b) /\ HeldBy(b, terms) =>
            HeldBy(a, terms) /\ hit(a).score > hit(b).score
      BY <2>1, OutranksByScore
    <2>4. r = Firsts(t, limit)
      BY <1>2 DEF Search
    <2>5. IsFiniteSet(hits)
      <3> DEFINE all == {hit(item) : item \in items}
                 f == [item \in items |-> hit(item)]
      <3>1. f \in Surjection(items, all)
        BY DEF Surjection
      <3>2. IsFiniteSet(all)
        <4> HIDE DEF f, all
        <4>1. QED
          BY <3>1, FS_Surjection
      <3>3. hits \in SUBSET all
        OBVIOUS
      <3> HIDE DEF all, hits
      <3>4. QED
        BY <3>2, <3>3, FS_Subset
    <2> HIDE DEF hit, r
    <2>6. \A h \in hits : \E item \in items : h = hit(item) /\ HeldBy(item, terms)
      BY <2>2
    <2>7. \A item \in items : HeldBy(item, terms) => hit(item) \in hits
      BY <2>2
    <2> HIDE DEF hits
    <2>8. \A h \in hits : h.score \in Nat
      BY <2>2, <2>6
    <2>9. Ranked(t, hits, n)
      BY <2>5, <2>8, ByScoreIs
    <2> HIDE DEF t
    <2>10. /\ n \in Nat /\ t \in [1..n -> hits]
           /\ \A h \in hits : \E i \in 1..n : t[i] = h
           /\ \A i, j \in 1..n : i < j => t[j].score <= t[i].score
      BY <2>9 DEF Ranked
    <2> HIDE DEF n
    <2>11. Begins(r, t, limit, n, hits)
      <3>1. IsList(t, n, hits)
        BY <2>10 DEF IsList
      <3>2. QED
        BY <2>4, <3>1, FirstsAre
    <2>12. /\ r \in [1..m -> hits] /\ m \in 0..n /\ \A i \in 1..m : i \in 1..n /\ r[i] = t[i]
      BY <2>11 DEF Begins
    <2>13. m \in Nat /\ DOMAIN r = 1..m /\ Len(r) = m
      BY <2>10, <2>12
    <2>14. m < limit => m = n
      BY <2>10 DEF Lesser
    <2> HIDE DEF m
    <2>15. ASSUME NEW item \in items, \E h \in Range(r) : h.item = item
           PROVE  HeldBy(item, terms) /\ \E i \in 1..m : r[i] = hit(item)
      <3>1. PICK i \in 1..m : r[i].item = item
        BY <2>13, <2>15 DEF Range
      <3>2. r[i] \in hits
        BY <2>12
      <3>3. PICK other \in items : r[i] = hit(other) /\ HeldBy(other, terms)
        BY <2>6, <3>2
      <3>4. other = item
        BY <2>2, <3>1, <3>3
      <3>5. QED
        BY <3>3, <3>4
    <2>16. ASSUME NEW item \in items, m < limit, HeldBy(item, terms)
           PROVE  \E h \in Range(r) : h.item = item
      <3>1. PICK i \in 1..n : t[i] = hit(item)
        BY <2>7, <2>10, <2>16
      <3>2. i \in 1..m /\ r[i] = hit(item)
        BY <2>12, <2>14, <2>16, <3>1
      <3>3. r[i] \in Range(r)
        BY <2>13, <3>2 DEF Range
      <3>4. QED
        BY <2>2, <2>16, <3>2, <3>3
    <2>17. ASSUME NEW a \in items, NEW b \in items, Outranks(a, b), \E h \in Range(r) : h.item = b
           PROVE  \E i, j \in DOMAIN r : i < j /\ r[i].item = a /\ r[j].item = b
      <3>1. PICK j \in 1..m : r[j] = hit(b) /\ HeldBy(b, terms)
        BY <2>15, <2>17
      <3>2. HeldBy(a, terms) /\ hit(a).score > hit(b).score
        BY <2>3, <2>17, <3>1
      <3>3. PICK i \in 1..n : t[i] = hit(a)
        BY <2>7, <2>10, <3>2
      <3>4. t[j] = hit(b) /\ j \in 1..n
        BY <2>12, <3>1
      <3>5. hit(a).score \in Nat /\ hit(b).score \in Nat
        BY <2>2, <3>1, <3>2
      <3>6. i < j
        <4>1. i # j
          BY <3>2, <3>3, <3>4, <3>5
        <4>2. j < i => hit(a).score <= hit(b).score
          BY <2>10, <3>3, <3>4
        <4>3. QED
          BY <3>2, <3>3, <3>4, <3>5, <4>1, <4>2
      <3>7. i \in 1..m
        BY <2>13, <3>3, <3>6
      <3>8. r[i] = hit(a)
        BY <2>12, <3>3, <3>7
      <3>9. r[i].item = a /\ r[j].item = b
        BY <2>2, <3>1, <3>2, <3>8
      <3>10. QED
        BY <2>13, <3>6, <3>7, <3>9
    <2>18. Hits(r, items, terms, limit)
      BY <2>13, <2>15, <2>16, <2>17 DEF Hits, HeldBy
    <2>19. QED
      BY <2>18 DEF r
  <1>3. QED
    BY <1>1, <1>2

LEMMA HighlightsAscend ==
  ASSUME NEW text, IsText(text), NEW terms, NEW m, Merges(m, RangesOf(text, terms)),
         \A r \in RangesOf(text, terms) : r[1] \in DOMAIN text
  PROVE  Ascending(m, Len(m))
  <1> DEFINE rs == RangesOf(text, terms)
             n == Len(m)
  <1>1. /\ n \in Nat /\ m \in [1..n -> Nat \X Nat]
        /\ \A i \in 1..n : m[i][1] < m[i][2]
        /\ \A i, j \in 1..n : i < j => m[i][2] < m[j][1]
        /\ \A i \in 1..n, x \in Nat : In(m[i], x) => \E r \in rs : In(r, x)
    <2>1. m \in Seq(Nat \X Nat)
      BY DEF Merges
    <2>2. n \in Nat /\ m \in [1..n -> Nat \X Nat]
      BY <2>1
    <2> HIDE DEF rs
    <2>3. QED
      BY <2>2 DEF Merges, rs
  <1>2. \A r \in rs : r[1] \in Nat /\ 0 < r[1]
    BY DEF IsText
  <1> HIDE DEF n, rs
  <1>3. ASSUME NEW i \in 1..n PROVE 0 < m[i][1]
    <2>1. m[i][1] \in Nat /\ m[i][2] \in Nat /\ m[i][1] < m[i][2]
      BY <1>1
    <2>2. In(m[i], m[i][1])
      BY <2>1 DEF In
    <2>3. PICK r \in rs : In(r, m[i][1])
      BY <1>1, <2>1, <2>2
    <2>4. QED
      BY <1>2, <2>1, <2>3 DEF In
  <1>4. QED
    BY <1>1, <1>3 DEF Ascending, n

LEMMA SearchedAre ==
  ASSUME SearchesOfTexts
  PROVE  /\ \A text \in SearchTexts : IsText(text) /\ Range(text) \cap {Bold, Plain} = {}
         /\ \A terms \in Queries : IsQuery(terms)
         /\ \A items \in Collections :
              /\ IsFiniteSet(items) /\ None \notin [item : items, text : SearchedTexts, score : Nat]
              /\ \A item \in items : IsItem(item, SearchedTexts)
  <1>1. \A text \in SearchedTexts : IsText(text) /\ Range(text) \cap {Bold, Plain} = {}
    BY DEF SearchesOfTexts, IsText
  <1>2. \A text \in SearchTexts : text \in SearchedTexts
    BY DEF SearchedTexts
  <1>3. ASSUME NEW terms \in Queries PROVE IsQuery(terms)
    BY DEF SearchesOfTexts, IsQuery, IsTerm
  <1>4. ASSUME NEW items \in Collections, NEW item \in items PROVE IsItem(item, SearchedTexts)
    <2>1. Range(item.texts) \subseteq SearchedTexts
      BY DEF SearchedTexts
    <2>2. /\ item.texts \in Seq(Range(item.texts))
          /\ item.scope \in {"project", "state", "task", "decision", "remote", "checkpoint"}
          /\ item.scope = "checkpoint" => item.age \in 1..4
      BY DEF SearchesOfTexts
    <2>3. item.texts \in Seq(SearchedTexts)
      BY <2>1, <2>2
    <2>4. QED
      BY <1>1, <2>2, <2>3 DEF IsItem, Scopes
  <1>5. \A items \in Collections :
          IsFiniteSet(items) /\ None \notin [item : items, text : SearchedTexts, score : Nat]
    BY DEF SearchesOfTexts
  <1>6. QED
    BY <1>1, <1>2, <1>3, <1>4, <1>5

LEMMA TextsKept == SearchesOfTexts /\ TextsMatch /\ [Next]_vars => TextsMatch'
  <1> SUFFICES ASSUME SearchesOfTexts, TextsMatch, [Next]_vars PROVE TextsMatch'
    OBVIOUS
  <1>1. CASE AskText
    <2>1. PICK text \in SearchTexts, terms \in Queries \ {<<>>} :
            /\ asked' = [kind |-> "text", text |-> text, terms |-> terms]
            /\ answer' = MatchText(text, terms)
      BY <1>1 DEF AskText, Ask
    <2>2. IsText(text) /\ IsQuery(terms)
      BY SearchedAre
    <2>3. None \notin [score : Nat, highlights : Seq(Nat \X Nat)]
      BY DEF SearchesOfTexts
    <2>4. Matching(text, terms, MatchText(text, terms))
      BY <2>2, <2>3, TextMatches
    <2>5. asked'.text = text /\ asked'.terms = terms
      BY <2>1
    <2>6. (answer' # None) = HoldsAll(text, terms)
      <3>1. HoldsAll(text, terms) \in BOOLEAN
        BY DEF HoldsAll
      <3>2. QED
        BY <2>1, <2>4, <3>1 DEF Matching
    <2>7. answer' # None => Highlights(text, terms, answer'.highlights)
      BY <2>1, <2>4 DEF Matching
    <2>8. QED
      BY <2>5, <2>6, <2>7 DEF TextsMatch
  <1>2. CASE UNCHANGED vars
    BY <1>2 DEF vars, TextsMatch
  <1>3. CASE Next /\ ~AskText
    <2>1. asked'.kind # "text"
      BY <1>3, KindsAre DEF Next
    <2>2. QED
      BY <2>1 DEF TextsMatch
  <1>4. QED
    BY <1>1, <1>2, <1>3

LEMMA PrintedKept == SearchesOfTexts /\ TextsPrinted /\ [Next]_vars => TextsPrinted'
  <1> SUFFICES ASSUME SearchesOfTexts, TextsPrinted, [Next]_vars PROVE TextsPrinted'
    OBVIOUS
  <1>1. CASE AskPrinted
    <2>1. PICK text \in SearchTexts, terms \in Queries \ {<<>>} :
            LET ranges == MatchText(text, terms).highlights
            IN /\ MatchText(text, terms) # None
               /\ asked' = [kind |-> "printed", text |-> text, ranges |-> ranges]
               /\ answer' = Highlight(text, ranges, Width)
      BY <1>1 DEF AskPrinted, Ask
    <2> DEFINE ranges == MatchText(text, terms).highlights
    <2>2. IsText(text) /\ Range(text) \cap {Bold, Plain} = {} /\ IsQuery(terms)
      BY SearchedAre
    <2>3. None \notin [score : Nat, highlights : Seq(Nat \X Nat)] /\ Width \in Nat \ {0}
      BY DEF SearchesOfTexts
    <2>4. Matching(text, terms, MatchText(text, terms))
      BY <2>2, <2>3, TextMatches
    <2>5. Merges(ranges, RangesOf(text, terms)) /\ \A r \in RangesOf(text, terms) : r[1] \in DOMAIN text
      BY <2>1, <2>4 DEF Matching
    <2>6. asked'.text = text /\ asked'.ranges = ranges /\ answer' = Highlight(text, ranges, Width)
      BY <2>1
    <2> HIDE DEF ranges
    <2>7. Ascending(ranges, Len(ranges))
      BY <2>2, <2>5, HighlightsAscend
    <2>8. Printed(Highlight(text, ranges, Width), text, ranges)
      BY <2>2, <2>3, <2>7, PrintedIs
    <2>9. QED
      BY <2>6, <2>8 DEF TextsPrinted
  <1>2. CASE UNCHANGED vars
    BY <1>2 DEF vars, TextsPrinted
  <1>3. CASE Next /\ ~AskPrinted
    <2>1. asked'.kind # "printed"
      BY <1>3, KindsAre DEF Next
    <2>2. QED
      BY <2>1 DEF TextsPrinted
  <1>4. QED
    BY <1>1, <1>2, <1>3

LEMMA HitsKept == FilesOfProjects /\ SearchesOfTexts /\ HitsRanked /\ [Next]_vars => HitsRanked'
  <1> SUFFICES ASSUME FilesOfProjects, SearchesOfTexts, HitsRanked, [Next]_vars PROVE HitsRanked'
    OBVIOUS
  <1>1. CASE AskSearch
    <2>1. PICK items \in Collections, terms \in Queries, limit \in Limits \ {0} :
            /\ asked' = [kind |-> "search", items |-> items, terms |-> terms, limit |-> limit]
            /\ answer' = Search(items, terms, limit)
      BY <1>1 DEF AskSearch, Ask
    <2>2. /\ IsQuery(terms) /\ IsFiniteSet(items) /\ \A item \in items : IsItem(item, SearchedTexts)
          /\ None \notin [item : items, text : SearchedTexts, score : Nat]
      BY SearchedAre
    <2>3. None \notin [score : Nat, highlights : Seq(Nat \X Nat)] /\ limit \in Nat
      BY DEF SearchesOfTexts, FilesOfProjects
    <2>4. Hits(Search(items, terms, limit), items, terms, limit)
      BY <2>2, <2>3, HitsAre
    <2>5. asked'.items = items /\ asked'.terms = terms /\ asked'.limit = limit
      BY <2>1
    <2>6. QED
      BY <2>1, <2>4, <2>5 DEF HitsRanked
  <1>2. CASE UNCHANGED vars
    BY <1>2 DEF vars, HitsRanked
  <1>3. CASE Next /\ ~AskSearch
    <2>1. asked'.kind # "search"
      BY <1>3, KindsAre DEF Next
    <2>2. QED
      BY <2>1 DEF HitsRanked
  <1>4. QED
    BY <1>1, <1>2, <1>3

\* search.ts:281-284 and commands/search.ts:85-88: for any texts, terms, records and width,
\* what is found holds every term and what holds every term is found, what is highlighted
\* are whole occurrences apart from one another, the marks of what is printed leave every
\* letter in place and set exactly the highlighted ones in bold, and a record stands above
\* one of the same text that is done or older.
THEOREM SearchFindsAll == ASSUME FilesOfProjects, SearchesOfTexts PROVE Spec => []SearchMeansAll
  <1>1. Init => SearchMeansAll
    BY DEF Init, Nothing, SearchMeansAll, TextsMatch, TextsPrinted, HitsRanked
  <1>2. SearchMeansAll /\ [Next]_vars => SearchMeansAll'
    BY TextsKept, PrintedKept, HitsKept DEF SearchMeansAll
  <1>3. QED
    BY <1>1, <1>2, PTL DEF Spec

=============================================================================
