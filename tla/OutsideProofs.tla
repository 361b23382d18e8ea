---------------------------- MODULE OutsideProofs ----------------------------
(***************************************************************************)
(* What StateNest says of things that are not its own: the servers of the  *)
(* SSH configuration, of which Servers imports and deploys to some; and    *)
(* the plugin in Claude Code, which Plugin installs and removes.           *)
(***************************************************************************)
EXTENDS Servers, Plugin, WellFoundedInduction, TLAPS

(***************************************************************************)
(* Repetition                                                              *)
(***************************************************************************)
\* Every set of naturals has a least one: what takes the place of induction below.
LEMMA Least ==
  ASSUME NEW T \in SUBSET Nat, T # {}
  PROVE  \E n \in T : \A k \in T : n <= k
  <1>1. IsWellFoundedOn(OpToRel(<, Nat), Nat)
    BY NatLessThanWellFounded, Zenon
  <1>2. PICK n \in T : \A k \in T : <<k, n>> \notin OpToRel(<, Nat)
    BY ONLY <1>1, T \in SUBSET Nat, T # {}, WFMin, Zenon
  <1>3. \A k \in T : ~(k < n)
    BY <1>2, Zenon DEF OpToRel
  <1>4. QED
    BY <1>3

\* What holds first, and after each step if it did before, holds to the end.
LEMMA Counted ==
  ASSUME NEW n \in Nat, NEW f, NEW Q, f[0] \in Q[0],
         \A i \in 1..n : f[i - 1] \in Q[i - 1] => f[i] \in Q[i]
  PROVE  \A i \in 0..n : f[i] \in Q[i]
  <1> DEFINE T == {i \in 0..n : f[i] \notin Q[i]}
  <1>1. SUFFICES ASSUME T # {} PROVE FALSE
    OBVIOUS
  <1>2. PICK i \in T : \A k \in T : i <= k
    <2>1. T \in SUBSET Nat
      OBVIOUS
    <2> HIDE DEF T
    <2>2. QED
      BY <1>1, <2>1, Least
  <1>3. i \in 1..n /\ f[i] \notin Q[i]
    OBVIOUS
  <1>4. i - 1 \in 0..n /\ ~(i <= i - 1)
    BY <1>3
  <1>5. f[i - 1] \in Q[i - 1]
    BY <1>2, <1>4
  <1>6. QED
    BY <1>3, <1>5

\* f repeats a step n times.
Repeats(f, n, U, base, step) ==
  /\ f \in [0..n -> U] /\ f[0] = base
  /\ \A i \in 1..n : f[i] = step[i][f[i - 1]]

CanRepeat(n, U, base, step) == n \in Nat /\ base \in U /\ step \in [1..n -> [U -> U]]

\* From any beginning a step can be repeated as often as there is something to do.
LEMMA Iterated ==
  ASSUME NEW n, NEW U, NEW base, NEW step, CanRepeat(n, U, base, step)
  PROVE  \E f : Repeats(f, n, U, base, step)
  <1> DEFINE Runs(f, m) == Repeats(f, m, U, base, step)
             T == {m \in 0..n : ~\E f : Runs(f, m)}
  <1>0. n \in Nat /\ base \in U /\ step \in [1..n -> [U -> U]]
    BY DEF CanRepeat
  <1>1. SUFFICES ASSUME T # {} PROVE FALSE
    <2>1. n \in 0..n
      BY <1>0
    <2>2. ASSUME T = {} PROVE \E f : Runs(f, n)
      BY <2>1, <2>2
    <2>3. QED
      BY <2>2
  <1>2. PICK m \in T : \A k \in T : m <= k
    <2>1. T \in SUBSET Nat
      OBVIOUS
    <2> HIDE DEF T
    <2>2. QED
      BY <1>1, <2>1, Least
  <1>3. m \in 0..n /\ ~\E f : Runs(f, m)
    OBVIOUS
  <1>4. m # 0
    <2>1. Runs([i \in 0..0 |-> base], 0)
      BY <1>0 DEF Repeats
    <2>2. QED
      BY <2>1, <1>3
  <1>5. m - 1 \in 0..n /\ ~(m <= m - 1) /\ m \in 1..n
    BY <1>0, <1>3, <1>4
  <1>6. PICK f : Runs(f, m - 1)
    BY <1>2, <1>5
  <1> DEFINE g == [i \in 0..m |-> IF i = m THEN step[m][f[m - 1]] ELSE f[i]]
  <1>7. f \in [0..m - 1 -> U] /\ f[0] = base /\ \A i \in 1..m - 1 : f[i] = step[i][f[i - 1]]
    BY <1>6 DEF Repeats
  <1>8. step[m][f[m - 1]] \in U
    <2>1. f[m - 1] \in U
      BY <1>5, <1>7
    <2>2. QED
      BY <2>1, <1>0, <1>5
  <1>9. g \in [0..m -> U] /\ g[0] = base
    BY <1>0, <1>5, <1>7, <1>8
  <1>10. ASSUME NEW i \in 1..m PROVE g[i] = step[i][g[i - 1]]
    <2>1. CASE i = m
      BY <2>1, <1>5
    <2>2. CASE i # m
      <3>1. i \in 1..m - 1 /\ i - 1 # m /\ i \in 0..m /\ i - 1 \in 0..m
        BY <2>2, <1>5
      <3>2. QED
        BY <3>1, <2>2, <1>7
    <2>3. QED
      BY <2>1, <2>2
  <1> HIDE DEF g
  <1>11. Runs(g, m)
    BY <1>9, <1>10 DEF Repeats
  <1>12. QED
    BY <1>3, <1>11

(***************************************************************************)
(* Sequences                                                               *)
(***************************************************************************)

\* f joins the first sequences of seqs, each time one more.
Joins(f, n, S, seqs) ==
  /\ f \in [0..n -> Seq(S)] /\ f[0] = <<>>
  /\ \A i \in 1..n : f[i] = f[i - 1] \o seqs[i]

LEMMA Joined ==
  ASSUME NEW S, NEW n \in Nat, NEW seqs \in [1..n -> Seq(S)]
  PROVE  \E f : Joins(f, n, S, seqs)
  <1> DEFINE U == Seq(S)
             e == <<>>
             step == [i \in 1..n |-> [u \in U |-> u \o seqs[i]]]
  <1>1. step \in [1..n -> [U -> U]]
    <2>1. ASSUME NEW i \in 1..n, NEW u \in U PROVE u \o seqs[i] \in U
      OBVIOUS
    <2>2. QED
      BY <2>1
  <1>2. e \in U
    OBVIOUS
  <1>6. \A i \in 1..n, u \in U : step[i][u] = u \o seqs[i]
    OBVIOUS
  <1>7. CanRepeat(n, U, e, step)
    BY <1>1, <1>2 DEF CanRepeat
  <1> HIDE DEF step, U, e
  <1>3. PICK f \in [0..n -> U] : f[0] = e /\ \A i \in 1..n : f[i] = step[i][f[i - 1]]
    <2>1. PICK f : Repeats(f, n, U, e, step)
      BY <1>7, Iterated
    <2>2. QED
      BY <2>1 DEF Repeats
  <1>4. \A i \in 1..n : f[i - 1] \in U
    BY <1>3
  <1>5. QED
    <2>1. \A i \in 1..n : f[i] = f[i - 1] \o seqs[i]
      BY <1>3, <1>4, <1>6
    <2>2. QED
      BY <1>3, <2>1 DEF U, e, Joins

\* FlattenSeq puts one sequence after the other.
LEMMA Flattened ==
  ASSUME NEW S, NEW n \in Nat, NEW seqs \in [1..n -> Seq(S)]
  PROVE  \E f : Joins(f, n, S, seqs) /\ FlattenSeq(seqs) = f[n]
  <1> DEFINE Runs(h) == h = [i \in 1..n |-> IF i = 1 THEN seqs[i] ELSE h[i - 1] \o seqs[i]]
  <1>0. n \in Nat /\ (\A i \in 1..n : seqs[i] \in Seq(S)) /\ Len(seqs) = n
    OBVIOUS
  <1>1. PICK f \in [0..n -> Seq(S)] : f[0] = <<>> /\ \A i \in 1..n : f[i] = f[i - 1] \o seqs[i]
    <2>1. PICK f : Joins(f, n, S, seqs)
      BY Joined
    <2>2. QED
      BY <2>1 DEF Joins
  <1>a. n # 0 => 1 \in 1..n /\ f[1] = seqs[1]
    <2>1. ASSUME n # 0 PROVE 1 \in 1..n /\ f[1] = seqs[1]
      <3>1. 1 \in 1..n /\ 1 - 1 = 0
        BY <1>0, <2>1
      <3>2. f[1] = <<>> \o seqs[1]
        BY <3>1, <1>1
      <3>3. <<>> \o seqs[1] = seqs[1]
        BY <3>1, <1>0
      <3>4. QED
        BY <3>1, <3>2, <3>3
    <2>2. QED
      BY <2>1
  <1>2. CASE n = 0
    <2>1. seqs = <<>>
      BY <1>2
    <2>2. FlattenSeq(seqs) = <<>>
      BY <2>1, <1>0, <1>2 DEF FlattenSeq
    <2>3. QED
      BY <2>2, <1>1, <1>2 DEF Joins
  <1>3. CASE n # 0
    <2> DEFINE g == [i \in 1..n |-> f[i]]
    <2>1. Runs(g)
      <3>1. ASSUME NEW i \in 1..n PROVE g[i] = IF i = 1 THEN seqs[i] ELSE g[i - 1] \o seqs[i]
        <4>1. CASE i = 1
          BY <4>1, <1>a, <1>3
        <4>2. CASE i # 1
          <5>1. i - 1 \in 1..n
            BY <4>2, <1>0
          <5>2. g[i - 1] = f[i - 1] /\ g[i] = f[i] /\ f[i] = f[i - 1] \o seqs[i]
            BY <5>1, <1>1
          <5>3. QED
            BY <5>2, <4>2
        <4>3. QED
          BY <4>1, <4>2
      <3>2. QED
        BY <3>1
    <2>2. ASSUME NEW h, Runs(h) PROVE h[n] = f[n]
      <3> DEFINE Q == [i \in 0..n |-> IF i = 0 THEN {h[0]} ELSE {f[i]}]
      <3>1. \A i \in 1..n : h[i] = IF i = 1 THEN seqs[i] ELSE h[i - 1] \o seqs[i]
        BY <2>2
      <3>2. ASSUME NEW i \in 1..n, h[i - 1] \in Q[i - 1] PROVE h[i] \in Q[i]
        <4>1. CASE i = 1
          BY <4>1, <1>0, <1>a, <1>3, <3>1
        <4>2. CASE i # 1
          <5>1. h[i - 1] = f[i - 1]
            BY <4>2, <3>2, <1>0
          <5>2. h[i] = h[i - 1] \o seqs[i] /\ f[i] = f[i - 1] \o seqs[i]
            BY <4>2, <1>1, <3>1
          <5>3. i \in 0..n /\ i # 0
            BY <1>0
          <5>4. QED
            BY <5>1, <5>2, <5>3
        <4>3. QED
          BY <4>1, <4>2
      <3>3. h[0] \in Q[0]
        BY <1>0
      <3>6. \A i \in 1..n : h[i - 1] \in Q[i - 1] => h[i] \in Q[i]
        BY <3>2
      <3> HIDE DEF Q
      <3>7. \A i \in 0..n : h[i] \in Q[i]
        BY <1>0, <3>6, <3>3, Counted
      <3>8. n \in 0..n
        BY <1>0
      <3>4. h[n] \in Q[n]
        BY <3>7, <3>8, Zenon
      <3>5. QED
        BY <3>4, <1>0, <1>3 DEF Q
    <2>3. FlattenSeq(seqs) = (CHOOSE h : Runs(h))[n]
      BY <1>0, <1>3 DEF FlattenSeq
    <2>4. FlattenSeq(seqs) = f[n]
      <3> HIDE DEF Runs, g
      <3>1. QED
        BY <2>1, <2>2, <2>3
    <2>5. QED
      BY <2>4, <1>1 DEF Joins
  <1>4. QED
    BY <1>2, <1>3

LEMMA RangeAppended ==
  ASSUME NEW S, NEW t \in Seq(S), NEW x
  PROVE  Range(Append(t, x)) = Range(t) \cup {x}
  <1> DEFINE u == Append(t, x)
  <1>1. DOMAIN u = 1..Len(t) + 1 /\ DOMAIN t = 1..Len(t) /\ Len(t) \in Nat
    OBVIOUS
  <1>2. (\A i \in 1..Len(t) : u[i] = t[i]) /\ u[Len(t) + 1] = x
    OBVIOUS
  <1>3. 1..Len(t) + 1 = (1..Len(t)) \cup {Len(t) + 1}
    BY <1>1
  <1> HIDE DEF u
  <1>4. QED
    BY <1>1, <1>2, <1>3 DEF Range, u

LEMMA InjectiveAppended ==
  ASSUME NEW S, NEW t \in Seq(S), NEW x, x \notin Range(t), IsInjective(t)
  PROVE  IsInjective(Append(t, x))
  <1> DEFINE u == Append(t, x)
  <1>1. DOMAIN u = 1..Len(t) + 1 /\ DOMAIN t = 1..Len(t) /\ Len(t) \in Nat
    OBVIOUS
  <1>2. (\A i \in 1..Len(t) : u[i] = t[i]) /\ u[Len(t) + 1] = x
    OBVIOUS
  <1>3. \A i \in 1..Len(t) + 1 : i \in 1..Len(t) \/ i = Len(t) + 1
    BY <1>1
  <1> HIDE DEF u
  <1>4. QED
    BY <1>1, <1>2, <1>3 DEF Range, IsInjective, u

LEMMA InItsRange ==
  ASSUME NEW S, NEW t \in Seq(S)
  PROVE  t \in Seq(Range(t))
  <1> DEFINE R == Range(t)
  <1>1. Len(t) \in Nat /\ t = [i \in 1..Len(t) |-> t[i]] /\ DOMAIN t = 1..Len(t)
    OBVIOUS
  <1>2. \A i \in 1..Len(t) : t[i] \in R
    BY <1>1 DEF Range
  <1> HIDE DEF R
  <1>3. t \in [1..Len(t) -> R]
    BY <1>1, <1>2
  <1>4. t \in Seq(R)
    BY <1>1, <1>3
  <1>5. QED
    BY <1>4 DEF R

\* What is left of a sequence is what it had, but for the elements taken out, and
\* nothing stands twice that did not before.
LEMMA LeftWithout ==
  ASSUME NEW S, NEW s \in Seq(S), NEW set
  PROVE  /\ Without(s, set) \in Seq(S)
         /\ Range(Without(s, set)) = Range(s) \ set
         /\ IsInjective(s) => IsInjective(Without(s, set))
  <1> DEFINE n == Len(s)
             seqs == [i \in 1..n |-> IF s[i] \in set THEN <<>> ELSE <<s[i]>>]
             Left(i, t) == /\ t \in Seq(S)
                           /\ Range(t) = {s[j] : j \in 1..i} \ set
                           /\ IsInjective(s) => IsInjective(t)
  <1>1. n \in Nat /\ DOMAIN s = 1..n /\ \A i \in 1..n : s[i] \in S
    OBVIOUS
  <1>2. seqs \in [1..n -> Seq(S)]
    OBVIOUS
  <1>3. Without(s, set) = FlattenSeq(seqs)
    BY <1>1 DEF Without
  <1>4. \A i \in 1..n : seqs[i] = IF s[i] \in set THEN <<>> ELSE <<s[i]>>
    OBVIOUS
  <1> HIDE DEF n, seqs
  <1>5. PICK f : Joins(f, n, S, seqs) /\ FlattenSeq(seqs) = f[n]
    BY <1>1, <1>2, Flattened
  <1>6. Left(0, f[0])
    <2>1. f[0] = <<>>
      BY <1>5 DEF Joins
    <2>2. QED
      BY <2>1 DEF Range, IsInjective
  <1>7. ASSUME NEW i \in 1..n, Left(i - 1, f[i - 1]) PROVE Left(i, f[i])
    <2> DEFINE t == f[i - 1]
    <2>1. t \in Seq(S) /\ Range(t) = {s[j] : j \in 1..i - 1} \ set
      BY <1>7
    <2>2. f[i] = t \o seqs[i]
      BY <1>5 DEF Joins
    <2>3. 1..i = (1..i - 1) \cup {i} /\ i \in 1..n /\ i \notin 1..i - 1 /\ 1..i \subseteq 1..n
      BY <1>1
    <2> HIDE DEF t
    <2>4. CASE s[i] \in set
      <3>1. f[i] = t
        <4>1. t \o <<>> = t
          BY <2>1
        <4>2. QED
          BY <4>1, <2>2, <2>4, <1>4
      <3>2. {s[j] : j \in 1..i} \ set = {s[j] : j \in 1..i - 1} \ set
        BY <2>3, <2>4
      <3>3. QED
        BY <1>7, <3>1, <3>2 DEF t
    <2>5. CASE s[i] \notin set
      <3>1. f[i] = Append(t, s[i]) /\ s[i] \in S
        <4>1. \A x \in S : t \o <<x>> = Append(t, x)
          BY <2>1
        <4>2. QED
          BY <4>1, <2>2, <2>5, <1>1, <1>4
      <3>2. Range(f[i]) = Range(t) \cup {s[i]}
        BY <2>1, <3>1, RangeAppended
      <3>3. {s[j] : j \in 1..i} \ set = ({s[j] : j \in 1..i - 1} \ set) \cup {s[i]}
        BY <2>3, <2>5
      <3>4. ASSUME IsInjective(s) PROVE IsInjective(f[i])
        <4>1. s[i] \notin {s[j] : j \in 1..i - 1}
          BY <1>1, <2>3, <3>4 DEF IsInjective
        <4>2. IsInjective(t)
          BY <1>7, <3>4 DEF t
        <4>3. QED
          BY <2>1, <3>1, <4>1, <4>2, InjectiveAppended
      <3>5. QED
        BY <2>1, <3>1, <3>2, <3>3, <3>4
    <2>6. QED
      BY <2>4, <2>5
  <1>8. Left(n, f[n])
    <2> DEFINE Q == [i \in 0..n |-> {t \in Seq(S) : Left(i, t)}]
    <2>0. \A i \in 0..n : \A t : t \in Q[i] <=> Left(i, t)
      OBVIOUS
    <2>1. f[0] \in Q[0] /\ \A i \in 1..n : f[i - 1] \in Q[i - 1] => f[i] \in Q[i]
      <3>1. 0 \in 0..n /\ \A i \in 1..n : i \in 0..n /\ i - 1 \in 0..n
        BY <1>1
      <3> HIDE DEF Q, Left
      <3>2. QED
        BY <2>0, <3>1, <1>6, <1>7
    <2>2. \A i \in 0..n : f[i] \in Q[i]
      <3> HIDE DEF Q
      <3>1. QED
        BY <1>1, <2>1, Counted
    <2>3. n \in 0..n
      BY <1>1
    <2>4. QED
      <3> HIDE DEF Q, Left
      <3>1. QED
        BY <2>0, <2>2, <2>3
  <1>9. Range(s) = {s[j] : j \in 1..n}
    BY <1>1 DEF Range
  <1>10. QED
    BY <1>3, <1>5, <1>8, <1>9

(***************************************************************************)
(* Deployments                                                             *)
(***************************************************************************)

\* The deployments of a project as they may be kept or saved.
Recorded(deployments) ==
  /\ deployments \in Seq(Range(deployments))
  /\ IsInjective(deployments)
  /\ \A d \in Range(deployments) : d.remote \notin ids

\* What the commands have read stays true: an id once handed out is never free again.
DeployInv ==
  /\ projects = [p \in Projects |-> projects[p]] /\ \A p \in Projects : Recorded(projects[p])
  /\ doing = [c \in Commands |-> doing[c]] /\ local = [c \in Commands |-> local[c]]
  /\ \A r \in remotes : r.id \notin ids
  /\ \A c \in Commands : doing[c] = "deploying" =>
       Recorded(local[c].deployments) /\ local[c].remote \notin ids

LEMMA StaysRecorded ==
  ASSUME NEW deployments, Recorded(deployments), ids' \subseteq ids
  PROVE  /\ deployments \in Seq(Range(deployments)) /\ IsInjective(deployments)
         /\ \A d \in Range(deployments) : d.remote \notin ids'
  BY DEF Recorded

\* What a command saves has the target once, and is recorded as what it read was.
LEMMA SavesRecorded ==
  ASSUME NEW deployments, Recorded(deployments), NEW remote, remote \notin ids, NEW environment
  PROVE  /\ Recorded(Append(Others(deployments, remote, environment),
                            [remote |-> remote, environment |-> environment]))
         /\ Recorded(Remaining(deployments, remote, environment))
  <1> DEFINE target == [remote |-> remote, environment |-> environment]
             others == Others(deployments, remote, environment)
             left == Remaining(deployments, remote, environment)
             S == Range(deployments)
  <1>1. /\ deployments \in Seq(S) /\ IsInjective(deployments)
        /\ \A d \in S : d.remote \notin ids
    BY DEF Recorded
  <1>2. others \in Seq(S) /\ Range(others) = S \ {target} /\ IsInjective(others)
    BY <1>1, LeftWithout DEF Others
  <1>3. left \in Seq(S) /\ Range(left) \subseteq S /\ IsInjective(left)
    BY <1>1, LeftWithout DEF Remaining
  <1>4. target.remote = remote
    OBVIOUS
  <1> HIDE DEF target, others, left, S
  <1>5. /\ Range(Append(others, target)) = Range(others) \cup {target}
        /\ IsInjective(Append(others, target))
    BY <1>2, RangeAppended, InjectiveAppended
  <1>6. others \in Seq(Range(others)) /\ left \in Seq(Range(left))
    BY <1>2, <1>3, InItsRange
  <1>7. Append(others, target) \in Seq(Range(others) \cup {target})
    <2> DEFINE U == Range(others) \cup {target}
    <2>1. others \in Seq(U) /\ target \in U
      BY <1>6
    <2> HIDE DEF U
    <2>2. Append(others, target) \in Seq(U)
      BY <2>1
    <2>3. QED
      BY <2>2 DEF U
  <1>8. Recorded(Append(others, target))
    BY <1>1, <1>2, <1>4, <1>5, <1>7 DEF Recorded
  <1>9. Recorded(left)
    BY <1>1, <1>3, <1>6 DEF Recorded
  <1>10. QED
    BY <1>8, <1>9 DEF target, others, left

LEMMA DeployInit == ServersInit => DeployInv
  BY DEF ServersInit, DeployInv, Recorded, Range, IsInjective, Nothing

\* A command that leaves the deployments alone.
LEMMA DeployInvKept ==
  ASSUME DeployInv, projects' = projects, ids' \subseteq ids,
         \A r \in remotes' : r.id \notin ids',
         doing' = [c \in Commands |-> doing'[c]], local' = [c \in Commands |-> local'[c]],
         \A c \in Commands : doing'[c] = "deploying" => doing[c] = "deploying" /\ local'[c] = local[c]
  PROVE  DeployInv'
  <1>1. \A p \in Projects : /\ projects'[p] \in Seq(Range(projects'[p]))
                            /\ IsInjective(projects'[p])
                            /\ \A d \in Range(projects'[p]) : d.remote \notin ids'
    BY StaysRecorded DEF DeployInv
  <1>2. ASSUME NEW c \in Commands, doing'[c] = "deploying"
        PROVE  /\ local'[c].deployments \in Seq(Range(local'[c].deployments))
               /\ IsInjective(local'[c].deployments)
               /\ \A d \in Range(local'[c].deployments) : d.remote \notin ids'
               /\ local'[c].remote \notin ids'
    BY <1>2, StaysRecorded DEF DeployInv
  <1>3. projects' = [p \in Projects |-> projects'[p]]
    BY DEF DeployInv
  <1>4. QED
    BY <1>1, <1>2, <1>3 DEF DeployInv, Recorded

\* A server that is registered takes its id.
LEMMA SaveTakesId ==
  ASSUME NEW c, NEW remote, SaveRemote(c, remote), \A r \in remotes : r.id \notin ids
  PROVE  ids' \subseteq ids /\ \A r \in remotes' : r.id \notin ids'
  BY DEF SaveRemote

LEMMA DeployNext == DeployInv /\ [ServersNext]_serversVars => DeployInv'
  <1>1. SUFFICES ASSUME DeployInv, [ServersNext]_serversVars PROVE DeployInv'
    OBVIOUS
  <1>2. CASE UNCHANGED serversVars
    BY <1>1, <1>2 DEF DeployInv, Recorded, serversVars
  <1>3. ASSUME NEW c \in Commands, ServersStep(c) PROVE DeployInv'
    <2>0. /\ \A r \in remotes : r.id \notin ids
          /\ doing = [d \in Commands |-> doing[d]] /\ local = [d \in Commands |-> local[d]]
      BY <1>1 DEF DeployInv
    <2> DEFINE Turned(next) ==
          /\ doing' = [d \in Commands |-> IF d = c THEN next ELSE doing[d]]
          /\ local' = [d \in Commands |-> IF d = c THEN local'[c] ELSE local[d]]
    <2>1. ASSUME NEW next, NEW read, Turn(c, next, read) PROVE Turned(next) /\ local'[c] = read
      BY <2>0, <2>1 DEF Turn
    <2>2. ASSUME NEW next, next # "deploying", Turned(next),
                 projects' = projects, ids' \subseteq ids, \A r \in remotes' : r.id \notin ids'
          PROVE DeployInv'
      BY <1>1, <2>2, DeployInvKept
    <2>3. CASE AddRemote(c)
      <3>1. ids' \subseteq ids /\ \A r \in remotes' : r.id \notin ids'
        BY <2>0, <2>3, SaveTakesId DEF AddRemote
      <3>2. projects' = projects /\ doing' = doing /\ local' = local
        BY <2>3 DEF AddRemote
      <3>3. QED
        BY <1>1, <2>0, <3>1, <3>2, DeployInvKept
    <2>4. CASE StartRemove(c)
      BY <2>0, <2>1, <2>2, <2>4 DEF StartRemove
    <2>5. CASE DeleteRemote(c)
      BY <2>0, <2>1, <2>2, <2>5 DEF DeleteRemote, Ends
    <2>6. CASE StartImport(c)
      BY <2>0, <2>1, <2>2, <2>6 DEF StartImport
    <2>7. CASE Choose(c)
      <3>1. projects' = projects /\ remotes' = remotes /\ ids' = ids
        BY <2>7 DEF Choose
      <3>2. PICK chosen : IF chosen = {} THEN Ends(c)
                          ELSE Turn(c, "saving", [local[c] EXCEPT !.hosts = chosen])
        BY <2>7 DEF Choose
      <3>3. Turned("idle") \/ Turned("saving")
        BY <2>1, <3>2 DEF Ends
      <3>4. QED
        BY <2>0, <2>2, <3>1, <3>3
    <2>8. CASE SaveImported(c)
      <3>1. ids' \subseteq ids /\ \A r \in remotes' : r.id \notin ids'
        BY <2>0, <2>8, SaveTakesId DEF SaveImported
      <3>2. projects' = projects
        BY <2>8 DEF SaveImported
      <3>3. Turned("idle") \/ Turned("saving")
        BY <2>1, <2>8 DEF SaveImported, Ends
      <3>4. QED
        BY <2>2, <3>1, <3>2, <3>3
    <2>9. CASE StartDeploy(c)
      <3>1. PICK p \in Projects, r \in remotes, kind \in {"add", "remove"},
                 environment \in Environments \cup {None} :
              Turn(c, "deploying", [kind |-> kind, project |-> p, deployments |-> projects[p],
                                    remote |-> r.id, environment |-> environment])
        BY <2>9 DEF StartDeploy, ResolveRemote, Exact, Partial
      <3>2. Turned("deploying") /\ local'[c].deployments = projects[p] /\ local'[c].remote = r.id
        BY <2>1, <3>1
      <3>3. projects' = projects /\ remotes' = remotes /\ ids' = ids
        BY <2>9 DEF StartDeploy
      <3>4. ASSUME NEW d \in Commands, doing'[d] = "deploying"
            PROVE Recorded(local'[d].deployments) /\ local'[d].remote \notin ids
        <4>1. CASE d = c
          BY <4>1, <3>2, <1>1, <2>0 DEF DeployInv
        <4>2. CASE d # c
          BY <4>2, <3>2, <3>4, <1>1 DEF DeployInv
        <4>3. QED
          BY <4>1, <4>2
      <3>5. QED
        BY <1>1, <3>2, <3>3, <3>4 DEF DeployInv, Recorded
    <2>10. CASE SaveDeployments(c)
      <3> DEFINE l == local[c]
                 kept == Append(Others(l.deployments, l.remote, l.environment),
                                [remote |-> l.remote, environment |-> l.environment])
                 left == Remaining(l.deployments, l.remote, l.environment)
      <3>1. doing[c] = "deploying" /\ Turned("idle") /\ remotes' = remotes /\ ids' = ids
        BY <2>1, <2>10 DEF SaveDeployments, Ends
      <3>2. Recorded(l.deployments) /\ l.remote \notin ids
        BY <1>1, <3>1 DEF DeployInv
      <3>3. Recorded(kept) /\ Recorded(left)
        <4> HIDE DEF l
        <4>1. QED
          BY <3>2, SavesRecorded
      <3>4. projects' = [projects EXCEPT ![l.project] =
                           IF l.kind = "add" THEN kept
                           ELSE IF left = l.deployments THEN @ ELSE left]
        BY <2>10 DEF SaveDeployments
      <3> HIDE DEF l, kept, left
      <3>5. projects' = [p \in Projects |-> projects'[p]]
        BY <1>1, <3>4 DEF DeployInv
      <3>6. \A p \in Projects : projects'[p] \in {projects[p], kept, left}
        BY <1>1, <3>4 DEF DeployInv
      <3>7. \A p \in Projects : Recorded(projects'[p])
        BY <1>1, <3>3, <3>6 DEF DeployInv
      <3>8. \A d \in Commands : doing'[d] = "deploying" =>
              Recorded(local'[d].deployments) /\ local'[d].remote \notin ids
        BY <1>1, <3>1 DEF DeployInv
      <3>9. QED
        BY <2>0, <3>1, <3>5, <3>7, <3>8 DEF DeployInv, Recorded
    <2>11. CASE CommandDies(c)
      BY <2>0, <2>1, <2>2, <2>11 DEF CommandDies, Ends
    <2>12. QED
      BY <1>3, <2>3, <2>4, <2>5, <2>6, <2>7, <2>8, <2>9, <2>10, <2>11 DEF ServersStep
  <1>4. QED
    BY <1>1, <1>2, <1>3 DEF ServersNext

\* remote.ts:247-248, "One deployment per (server, environment) pair": whatever
\* commands add, remove and import servers meanwhile, and whichever of them saves the
\* copy of a project it had read before another saved its own.
THEOREM OneDeployment == ServersSpec => []OneDeploymentPerTarget
  <1>1. DeployInv => OneDeploymentPerTarget
    BY DEF DeployInv, OneDeploymentPerTarget, Recorded
  <1>2. QED
    BY <1>1, DeployInit, DeployNext, PTL DEF ServersSpec

(***************************************************************************)
(* Reading a file                                                          *)
(***************************************************************************)

\* The hosts that words of V can make.
Candidates(V) ==
  {c \in [alias : V, hostname : V, user : V, port : V, source : V,
          isPattern : BOOLEAN, usesIdentityFile : BOOLEAN] :
     c.isPattern = (c.alias \in Patterns)}

ParseStates(V) == [candidates : Seq(Candidates(V)), current : Seq(Candidates(V))]

\* A line whose words are in V.
IsLine(line, V) == line.words \in Seq(V) /\ line.words[1] \in V

LEMMA CandidateIs ==
  ASSUME NEW V, None \in V, NEW path \in V, NEW alias \in V
  PROVE  /\ Candidate(alias, path) \in Candidates(V)
         /\ Candidate(alias, path).alias = alias /\ Candidate(alias, path).source = path
         /\ Candidate(alias, path).hostname = None /\ Candidate(alias, path).port = None
  <1>1. (alias \in Patterns) \in BOOLEAN /\ FALSE \in BOOLEAN
    OBVIOUS
  <1>2. QED
    BY <1>1 DEF Candidate, Candidates

LEMMA FlushIs ==
  ASSUME NEW V, NEW p \in ParseStates(V)
  PROVE  /\ Flush(p) \in ParseStates(V)
         /\ Flush(p).candidates = p.candidates \o p.current /\ Flush(p).current = <<>>
  <1> DEFINE C == Candidates(V)
  <1>1. p.candidates \in Seq(C) /\ p.current \in Seq(C)
    BY DEF ParseStates
  <1> HIDE DEF C
  <1>2. p.candidates \o p.current \in Seq(C) /\ <<>> \in Seq(C)
    BY <1>1
  <1>3. QED
    BY <1>2 DEF Flush, ParseStates, C

\* q is p after a Host line: it closes the block before it and opens one for every
\* name it gives.
Opens(p, q, line, path, V) ==
  /\ q \in ParseStates(V)
  /\ q.candidates = p.candidates \o p.current
  /\ DOMAIN q.current = DOMAIN line.words
  /\ \A i \in DOMAIN line.words :
       /\ q.current[i].alias = line.words[i] /\ q.current[i].source = path
       /\ q.current[i].hostname = None /\ q.current[i].port = None

LEMMA HostLine ==
  ASSUME NEW V, None \in V, NEW path \in V, NEW p \in ParseStates(V),
         NEW line, IsLine(line, V), line.key = "host"
  PROVE  Opens(p, ParseLine(p, line, path), line, path, V)
  <1> DEFINE new == [i \in DOMAIN line.words |-> Candidate(line.words[i], path)]
  <1>1. line.words \in Seq(V) /\ \A i \in DOMAIN line.words : line.words[i] \in V
    BY DEF IsLine
  <1>2. \A i \in DOMAIN line.words : Candidate(line.words[i], path) \in Candidates(V)
    BY <1>1, CandidateIs
  <1>3. new \in Seq(Candidates(V))
    <2> DEFINE C == Candidates(V)
    <2>1. new \in [1..Len(line.words) -> C] /\ Len(line.words) \in Nat
      BY <1>1, <1>2
    <2> HIDE DEF C, new
    <2>2. QED
      BY <2>1 DEF C
  <1>4. ParseLine(p, line, path) = [Flush(p) EXCEPT !.current = new]
    BY DEF ParseLine, EndsBlock, CredentialKeys
  <1>5. /\ DOMAIN new = DOMAIN line.words
        /\ \A i \in DOMAIN line.words :
             /\ new[i].alias = line.words[i] /\ new[i].source = path
             /\ new[i].hostname = None /\ new[i].port = None
    BY <1>1, CandidateIs
  <1> HIDE DEF new
  <1>6. QED
    BY <1>3, <1>4, <1>5, FlushIs DEF ParseStates, Opens

LEMMA MatchLine ==
  ASSUME NEW p, NEW line, line.key = "match", NEW path
  PROVE  ParseLine(p, line, path) = Flush(p)
  BY DEF ParseLine, EndsBlock, CredentialKeys

\* q is p after any other line, which says something of the open block or nothing.
GoesOn(p, q, line, V) ==
  /\ q \in ParseStates(V)
  /\ q.candidates = p.candidates
  /\ DOMAIN q.current = DOMAIN p.current
  /\ \A i \in DOMAIN p.current :
       /\ q.current[i].alias = p.current[i].alias
       /\ q.current[i].source = p.current[i].source
       /\ q.current[i].hostname = IF line.key = "hostname" THEN line.words[1]
                                  ELSE p.current[i].hostname
       /\ q.current[i].port = IF line.key = "port" /\ line.words[1] \notin BadPorts
                              THEN line.words[1] ELSE p.current[i].port

LEMMA OtherLine ==
  ASSUME NEW V, None \in V, NEW path \in V, NEW p \in ParseStates(V),
         NEW line, IsLine(line, V), ~EndsBlock(line)
  PROVE  GoesOn(p, ParseLine(p, line, path), line, V)
  <1> DEFINE C == Candidates(V)
             word == line.words[1]
             Changes(c, d) ==
               /\ d \in C /\ d.alias = c.alias /\ d.source = c.source
               /\ d.hostname = IF line.key = "hostname" THEN word ELSE c.hostname
               /\ d.port = IF line.key = "port" /\ word \notin BadPorts THEN word ELSE c.port
             q == ParseLine(p, line, path)
             Done == /\ q \in ParseStates(V) /\ q.candidates = p.candidates
                     /\ DOMAIN q.current = DOMAIN p.current
                     /\ \A i \in DOMAIN p.current : Changes(p.current[i], q.current[i])
  <1>0. SUFFICES Done
    BY DEF GoesOn
  <1>1. p.candidates \in Seq(C) /\ p.current \in Seq(C) /\ word \in V
    BY DEF ParseStates, IsLine
  <1>2. ASSUME NEW new, DOMAIN new = DOMAIN p.current,
               new = [i \in DOMAIN p.current |-> new[i]],
               q = [p EXCEPT !.current = new],
               \A i \in DOMAIN p.current : Changes(p.current[i], new[i])
        PROVE  Done
    <2>0. \A i \in DOMAIN p.current : new[i] \in C
      BY <1>2
    <2>1. new \in Seq(C)
      <3> HIDE DEF C, Changes
      <3>1. DOMAIN p.current = 1..Len(p.current) /\ Len(p.current) \in Nat
        BY <1>1
      <3>2. new \in [1..Len(p.current) -> C]
        BY ONLY <1>2, <2>0, <3>1
      <3>3. QED
        BY <3>1, <3>2
    <2>2. q.current = new /\ q.candidates = p.candidates /\ q \in ParseStates(V)
      <3> HIDE DEF q
      <3>1. QED
        BY <1>2, <2>1 DEF ParseStates
    <2> HIDE DEF q, Changes
    <2>3. QED
      BY <1>2, <2>2
  <1>3. \A i \in DOMAIN p.current : p.current[i] \in C
    BY <1>1
  <1>4. line.key \notin {"host", "match"}
    BY DEF EndsBlock
  <1>5. CASE line.key \in CredentialKeys
    <2> DEFINE new == [i \in DOMAIN p.current |-> [p.current[i] EXCEPT !.usesIdentityFile = TRUE]]
    <2>1. q = [p EXCEPT !.current = new]
      BY <1>4, <1>5 DEF ParseLine, Under, EndsBlock, CredentialKeys
    <2>2. ASSUME NEW i \in DOMAIN p.current PROVE Changes(p.current[i], new[i])
      <3>1. TRUE \in BOOLEAN /\ p.current[i] \in C
        BY <1>3
      <3>2. QED
        BY <3>1, <1>5 DEF Candidates, CredentialKeys
    <2>3. DOMAIN new = DOMAIN p.current /\ new = [i \in DOMAIN p.current |-> new[i]]
      OBVIOUS
    <2> HIDE DEF new, q, Changes, Done
    <2>4. QED
      BY <1>2, <2>1, <2>2, <2>3
  <1>6. CASE line.key = "hostname"
    <2> DEFINE new == [i \in DOMAIN p.current |-> [p.current[i] EXCEPT !.hostname = word]]
    <2>1. q = [p EXCEPT !.current = new]
      BY <1>4, <1>6 DEF ParseLine, Under, EndsBlock, CredentialKeys
    <2>2. ASSUME NEW i \in DOMAIN p.current PROVE Changes(p.current[i], new[i])
      BY <1>1, <1>3, <1>6 DEF Candidates
    <2>3. DOMAIN new = DOMAIN p.current /\ new = [i \in DOMAIN p.current |-> new[i]]
      OBVIOUS
    <2> HIDE DEF new, q, Changes, Done
    <2>4. QED
      BY <1>2, <2>1, <2>2, <2>3
  <1>7. CASE line.key = "user"
    <2> DEFINE new == [i \in DOMAIN p.current |-> [p.current[i] EXCEPT !.user = word]]
    <2>1. q = [p EXCEPT !.current = new]
      BY <1>4, <1>7 DEF ParseLine, Under, EndsBlock, CredentialKeys
    <2>2. ASSUME NEW i \in DOMAIN p.current PROVE Changes(p.current[i], new[i])
      BY <1>1, <1>3, <1>7 DEF Candidates
    <2>3. DOMAIN new = DOMAIN p.current /\ new = [i \in DOMAIN p.current |-> new[i]]
      OBVIOUS
    <2> HIDE DEF new, q, Changes, Done
    <2>4. QED
      BY <1>2, <2>1, <2>2, <2>3
  <1>8. CASE line.key = "port" /\ word \notin BadPorts
    <2> DEFINE new == [i \in DOMAIN p.current |-> [p.current[i] EXCEPT !.port = word]]
    <2>1. q = [p EXCEPT !.current = new]
      BY <1>4, <1>8 DEF ParseLine, Under, EndsBlock, CredentialKeys
    <2>2. ASSUME NEW i \in DOMAIN p.current PROVE Changes(p.current[i], new[i])
      BY <1>1, <1>3, <1>8 DEF Candidates
    <2>3. DOMAIN new = DOMAIN p.current /\ new = [i \in DOMAIN p.current |-> new[i]]
      OBVIOUS
    <2> HIDE DEF new, q, Changes, Done
    <2>4. QED
      BY <1>2, <2>1, <2>2, <2>3
  <1>9. CASE /\ line.key \notin CredentialKeys \cup {"hostname", "user"}
             /\ ~(line.key = "port" /\ word \notin BadPorts)
    <2>1. q = p
      BY <1>4, <1>9 DEF ParseLine, EndsBlock, CredentialKeys
    <2>2. ASSUME NEW i \in DOMAIN p.current PROVE Changes(p.current[i], p.current[i])
      BY <1>3, <1>9
    <2> HIDE DEF Changes, q
    <2>3. QED
      BY <2>1, <2>2 DEF Changes
  <1>10. QED
    BY <1>5, <1>6, <1>7, <1>8, <1>9

\* In s, the first of a name is in X; none is of that name.
FirstIn(s, alias, X) ==
  \E k \in DOMAIN s : /\ s[k].alias = alias /\ s[k] \in X
                      /\ \A m \in DOMAIN s : m < k => s[m].alias # alias

Nobody(s, alias) == \A k \in DOMAIN s : s[k].alias # alias

LEMMA JoinedIs ==
  ASSUME NEW C, NEW s \in Seq(C), NEW t \in Seq(C)
  PROVE  /\ s \o t \in Seq(C)
         /\ DOMAIN s = 1..Len(s) /\ DOMAIN t = 1..Len(t) /\ DOMAIN (s \o t) = 1..Len(s) + Len(t)
         /\ Len(s) \in Nat /\ Len(t) \in Nat
         /\ \A k \in DOMAIN s : (s \o t)[k] = s[k]
         /\ \A k \in DOMAIN t : (s \o t)[Len(s) + k] = t[k]
  OBVIOUS

LEMMA FirstJoined ==
  ASSUME NEW C, NEW s \in Seq(C), NEW t \in Seq(C), NEW alias, NEW X
  PROVE  /\ Nobody(s, alias) /\ Nobody(t, alias) => Nobody(s \o t, alias)
         /\ FirstIn(s, alias, X) => FirstIn(s \o t, alias, X)
         /\ Nobody(s, alias) /\ FirstIn(t, alias, X) => FirstIn(s \o t, alias, X)
  <1> DEFINE u == s \o t
  <1>1. /\ DOMAIN s = 1..Len(s) /\ DOMAIN t = 1..Len(t) /\ DOMAIN u = 1..Len(s) + Len(t)
        /\ Len(s) \in Nat /\ Len(t) \in Nat
        /\ \A k \in DOMAIN s : u[k] = s[k]
        /\ \A k \in DOMAIN t : u[Len(s) + k] = t[k]
    BY JoinedIs
  <1> HIDE DEF u
  <1>2. \A k \in DOMAIN u : \/ k \in DOMAIN s /\ u[k] = s[k]
                            \/ k - Len(s) \in DOMAIN t /\ u[k] = t[k - Len(s)] /\ k > Len(s)
    <2>1. TAKE k \in DOMAIN u
    <2>2. CASE k <= Len(s)
      BY <1>1, <2>2
    <2>3. CASE k > Len(s)
      <3>1. k - Len(s) \in DOMAIN t /\ Len(s) + (k - Len(s)) = k
        BY <1>1, <2>3
      <3>2. QED
        BY <1>1, <3>1, <2>3
    <2>4. QED
      BY <2>2, <2>3, <1>1
  <1>3. ASSUME Nobody(s, alias), Nobody(t, alias) PROVE Nobody(u, alias)
    BY <1>2, <1>3 DEF Nobody
  <1>4. ASSUME FirstIn(s, alias, X) PROVE FirstIn(u, alias, X)
    <2>1. PICK k \in DOMAIN s : /\ s[k].alias = alias /\ s[k] \in X
                                /\ \A m \in DOMAIN s : m < k => s[m].alias # alias
      BY <1>4 DEF FirstIn
    <2>2. k \in DOMAIN u /\ u[k] = s[k]
      BY <1>1
    <2>3. ASSUME NEW m \in DOMAIN u, m < k PROVE u[m].alias # alias
      <3>1. m \in DOMAIN s
        BY <1>1, <2>3
      <3>2. QED
        BY <3>1, <2>1, <2>3, <1>1
    <2>4. QED
      BY <2>1, <2>2, <2>3 DEF FirstIn
  <1>5. ASSUME Nobody(s, alias), FirstIn(t, alias, X) PROVE FirstIn(u, alias, X)
    <2>1. PICK k \in DOMAIN t : /\ t[k].alias = alias /\ t[k] \in X
                                /\ \A m \in DOMAIN t : m < k => t[m].alias # alias
      BY <1>5 DEF FirstIn
    <2>2. Len(s) + k \in DOMAIN u /\ u[Len(s) + k] = t[k]
      BY <1>1
    <2>3. ASSUME NEW m \in DOMAIN u, m < Len(s) + k PROVE u[m].alias # alias
      <3>1. CASE m \in DOMAIN s /\ u[m] = s[m]
        BY <3>1, <1>5 DEF Nobody
      <3>2. CASE m - Len(s) \in DOMAIN t /\ u[m] = t[m - Len(s)] /\ m > Len(s)
        <4>1. m - Len(s) < k
          BY <1>1, <2>3, <3>2
        <4>2. QED
          BY <4>1, <3>2, <2>1
      <3>3. QED
        BY <3>1, <3>2, <1>2
    <2>4. QED
      BY <2>1, <2>2, <2>3 DEF FirstIn
  <1>6. QED
    BY <1>3, <1>4, <1>5 DEF u

\* If some are of a name, and all of that name are in X, then the first is.
LEMMA FirstOfAll ==
  ASSUME NEW C, NEW s \in Seq(C), NEW alias, NEW X, ~Nobody(s, alias),
         \A k \in DOMAIN s : s[k].alias = alias => s[k] \in X
  PROVE  FirstIn(s, alias, X)
  <1> DEFINE T == {k \in DOMAIN s : s[k].alias = alias}
  <1>1. T # {} /\ T \in SUBSET Nat
    BY DEF Nobody
  <1>2. PICK k \in T : \A m \in T : k <= m
    <2> HIDE DEF T
    <2>1. QED
      BY <1>1, Least
  <1>3. \A m \in DOMAIN s : m < k => s[m].alias # alias
    <2>1. TAKE m \in DOMAIN s
    <2>2. m \in Nat /\ k \in Nat
      BY <1>1
    <2>3. QED
      BY <1>2, <2>2
  <1>4. QED
    BY <1>2, <1>3 DEF FirstIn

\* first is the first line that names an alias; the block it opens goes on at line i.
IsFirst(lines, alias, first) ==
  first \in Named(lines, alias) /\ \A k \in Named(lines, alias) : first <= k

Open(lines, first, i) == \A j \in first + 1..i : ~EndsBlock(lines[j])

\* v is what the block of an alias says of a key in its lines up to line i.
SayingTo(lines, alias, key, i) == {j \in Saying(lines, alias, key) : j <= i}

IsGiven(lines, alias, key, i, v) ==
  \/ SayingTo(lines, alias, key, i) = {} /\ v = None
  \/ \E j \in SayingTo(lines, alias, key, i) :
       /\ \A m \in SayingTo(lines, alias, key, i) : m <= j
       /\ v = lines[j].words[1]

Speaks(line, key) == line.key = key /\ (key = "port" => line.words[1] \notin BadPorts)

LEMMA NamedIs ==
  ASSUME NEW lines, lines \in Seq(Range(lines)), NEW alias
  PROVE  /\ DOMAIN lines = 1..Len(lines) /\ Len(lines) \in Nat
         /\ Named(lines, alias) \subseteq 1..Len(lines)
         /\ Named(lines, alias) # {} => \E first : IsFirst(lines, alias, first)
         /\ \A first : IsFirst(lines, alias, first) => Min(Named(lines, alias)) = first
  <1>1. DOMAIN lines = 1..Len(lines) /\ Len(lines) \in Nat
    OBVIOUS
  <1>2. Named(lines, alias) \subseteq 1..Len(lines)
    BY <1>1 DEF Named
  <1>3. ASSUME Named(lines, alias) # {} PROVE \E first : IsFirst(lines, alias, first)
    <2>1. Named(lines, alias) \in SUBSET Nat
      BY <1>1, <1>2
    <2>2. QED
      BY <1>3, <2>1, Least DEF IsFirst
  <1>4. ASSUME NEW first, IsFirst(lines, alias, first)
        PROVE  Min(Named(lines, alias)) = first
    <2> DEFINE N == Named(lines, alias)
    <2>1. first \in N /\ (\A k \in N : first <= k) /\ \A k \in N : k \in Nat
      BY <1>1, <1>2, <1>4 DEF IsFirst
    <2> HIDE DEF N
    <2>2. Min(N) \in N /\ \A k \in N : Min(N) <= k
      BY <2>1 DEF Min
    <2>3. QED
      BY <2>1, <2>2 DEF N
  <1>5. QED
    BY <1>1, <1>2, <1>3, <1>4

LEMMA SayingIs ==
  ASSUME NEW lines, lines \in Seq(Range(lines)), NEW alias, NEW first,
         IsFirst(lines, alias, first), NEW key
  PROVE  Saying(lines, alias, key) =
           {i \in DOMAIN lines : first < i /\ Open(lines, first, i) /\ Speaks(lines[i], key)}
  <1>1. Min(Named(lines, alias)) = first
    BY NamedIs
  <1>2. Block(lines, alias) = {i \in DOMAIN lines : first < i /\ Open(lines, first, i)}
    BY <1>1 DEF Block, Open, EndsBlock
  <1>3. QED
    BY <1>2 DEF Saying, Speaks

\* Line i opens the block.
LEMMA GivenAtFirst ==
  ASSUME NEW lines, lines \in Seq(Range(lines)), NEW alias, NEW first,
         IsFirst(lines, alias, first), NEW key
  PROVE  IsGiven(lines, alias, key, first, None)
  <1>1. first \in Nat /\ \A i \in DOMAIN lines : i \in Nat
    BY NamedIs DEF IsFirst
  <1>2. SayingTo(lines, alias, key, first) = {}
    BY <1>1, SayingIs DEF SayingTo
  <1>3. QED
    BY <1>2 DEF IsGiven

\* Line i is behind the block.
LEMMA GivenBehind ==
  ASSUME NEW lines, lines \in Seq(Range(lines)), NEW alias, NEW first,
         IsFirst(lines, alias, first), NEW key,
         NEW i \in 1..Len(lines), ~Open(lines, first, i), NEW v, IsGiven(lines, alias, key, i - 1, v)
  PROVE  IsGiven(lines, alias, key, i, v)
  <1>1. i \notin Saying(lines, alias, key)
    BY SayingIs
  <1>2. \A j \in Saying(lines, alias, key) : j \in Nat /\ (j <= i => j <= i - 1 \/ j = i)
    BY SayingIs, NamedIs
  <1>3. SayingTo(lines, alias, key, i) = SayingTo(lines, alias, key, i - 1)
    BY <1>1, <1>2 DEF SayingTo
  <1>4. QED
    BY <1>3 DEF IsGiven

\* Line i is in the block.
LEMMA GivenIn ==
  ASSUME NEW lines, lines \in Seq(Range(lines)), NEW alias, NEW first,
         IsFirst(lines, alias, first), NEW key,
         NEW i \in 1..Len(lines), first < i, Open(lines, first, i),
         NEW v, IsGiven(lines, alias, key, i - 1, v)
  PROVE  IsGiven(lines, alias, key, i,
                 IF Speaks(lines[i], key) THEN lines[i].words[1] ELSE v)
  <1> DEFINE before == SayingTo(lines, alias, key, i - 1)
             after == SayingTo(lines, alias, key, i)
  <1>1. \A j \in Saying(lines, alias, key) : j \in Nat /\ (j <= i => j <= i - 1 \/ j = i)
    BY SayingIs, NamedIs
  <1>2. i \in Saying(lines, alias, key) <=> Speaks(lines[i], key)
    BY SayingIs, NamedIs
  <1>3. after = before \cup (IF Speaks(lines[i], key) THEN {i} ELSE {})
    BY <1>1, <1>2 DEF SayingTo
  <1>4. CASE Speaks(lines[i], key)
    <2>1. i \in after /\ \A m \in after : m <= i
      BY <1>3, <1>4 DEF SayingTo
    <2>2. QED
      BY <1>4, <2>1 DEF IsGiven
  <1>5. CASE ~Speaks(lines[i], key)
    <2>1. after = before
      BY <1>3, <1>5
    <2>2. QED
      BY <1>5, <2>1 DEF IsGiven
  <1>6. QED
    BY <1>4, <1>5

\* At the end of the file.
LEMMA GivenAtEnd ==
  ASSUME NEW lines, lines \in Seq(Range(lines)), NEW alias, NEW key, NEW v,
         IsGiven(lines, alias, key, Len(lines), v)
  PROVE  v = Given(lines, alias, key)
  <1> DEFINE at == Saying(lines, alias, key)
  <1>1. at \subseteq Nat /\ \A j \in at : j <= Len(lines)
    BY NamedIs DEF Saying, Block
  <1>2. SayingTo(lines, alias, key, Len(lines)) = at
    BY <1>1 DEF SayingTo
  <1> HIDE DEF at
  <1>3. CASE at = {}
    BY <1>2, <1>3 DEF IsGiven, Given, at
  <1>4. CASE at # {}
    <2>1. PICK j \in at : (\A m \in at : m <= j) /\ v = lines[j].words[1]
      BY <1>2, <1>4 DEF IsGiven
    <2>2. Max(at) \in at /\ \A m \in at : m <= Max(at)
      BY <2>1 DEF Max
    <2>3. Max(at) = j
      <3>1. Max(at) <= j /\ j <= Max(at)
        BY <2>1, <2>2
      <3>2. Max(at) \in Nat /\ j \in Nat
        BY <1>1, <2>2
      <3> HIDE DEF Max
      <3>3. QED
        BY <3>1, <3>2
    <2>4. Given(lines, alias, key) = lines[Max(at)].words[1]
      BY <1>4 DEF Given, at
    <2>5. QED
      BY <2>1, <2>3, <2>4
  <1>5. QED
    BY <1>3, <1>4

\* The hosts of an alias that are what its first block says up to line i.
AsSaid(lines, path, alias, i, V) ==
  {c \in Candidates(V) : /\ c.alias = alias /\ c.source = path
                         /\ IsGiven(lines, alias, "hostname", i, c.hostname)
                         /\ IsGiven(lines, alias, "port", i, c.port)}

\* What is known of an alias when the first i lines are parsed.
ParsedTo(p, lines, path, alias, i, V) ==
  /\ (\A k \in Named(lines, alias) : i < k) => Nobody(p.candidates, alias) /\ Nobody(p.current, alias)
  /\ \A first : IsFirst(lines, alias, first) /\ first <= i =>
       IF Open(lines, first, i)
       THEN /\ Nobody(p.candidates, alias) /\ ~Nobody(p.current, alias)
            /\ \A k \in DOMAIN p.current : p.current[k].alias = alias =>
                 p.current[k] \in AsSaid(lines, path, alias, i, V)
       ELSE FirstIn(p.candidates, alias, AsSaid(lines, path, alias, i, V))

\* A file whose words are in V.
IsFile(lines, path, V) ==
  /\ lines \in Seq(Range(lines)) /\ \A i \in DOMAIN lines : IsLine(lines[i], V)
  /\ None \in V /\ path \in V

LEMMA BlockMoves ==
  ASSUME NEW lines, lines \in Seq(Range(lines)), NEW alias, NEW first,
         IsFirst(lines, alias, first), NEW i \in 1..Len(lines)
  PROVE  /\ first \in 1..Len(lines)
         /\ first < i => (Open(lines, first, i) <=> Open(lines, first, i - 1) /\ ~EndsBlock(lines[i]))
         /\ Open(lines, first, first)
  <1>1. first \in 1..Len(lines) /\ Len(lines) \in Nat
    BY NamedIs DEF IsFirst
  <1>2. \A j \in first + 1..i : j = i \/ j \in first + 1..i - 1
    BY <1>1
  <1>3. first < i => i \in first + 1..i /\ first + 1..i - 1 \subseteq first + 1..i
    BY <1>1
  <1>4. first + 1..first = {}
    BY <1>1
  <1>5. QED
    BY <1>1, <1>2, <1>3, <1>4 DEF Open

\* Line i is the first to name the alias.
LEMMA ParsesFirst ==
  ASSUME NEW V, NEW lines, NEW path, IsFile(lines, path, V), NEW alias,
         NEW i \in 1..Len(lines), IsFirst(lines, alias, i),
         NEW p \in ParseStates(V), ParsedTo(p, lines, path, alias, i - 1, V)
  PROVE  LET q == ParseLine(p, lines[i], path)
         IN q \in ParseStates(V) /\ ParsedTo(q, lines, path, alias, i, V)
  <1> DEFINE q == ParseLine(p, lines[i], path)
  <1>0. DOMAIN lines = 1..Len(lines) /\ Len(lines) \in Nat /\ lines \in Seq(Range(lines))
    BY NamedIs DEF IsFile
  <1>1. /\ IsLine(lines[i], V) /\ None \in V /\ path \in V /\ lines[i].key = "host"
        /\ \E w \in DOMAIN lines[i].words : lines[i].words[w] = alias
    BY <1>0 DEF IsFile, IsFirst, Named, Range
  <1>2. Nobody(p.candidates, alias) /\ Nobody(p.current, alias)
    BY <1>0, NamedIs DEF ParsedTo, IsFirst
  <1>3. p.candidates \in Seq(Candidates(V)) /\ p.current \in Seq(Candidates(V))
    BY DEF ParseStates
  <1>a. Opens(p, q, lines[i], path, V)
    BY <1>1, HostLine
  <1> HIDE DEF q
  <1>4. /\ q \in ParseStates(V) /\ q.candidates = p.candidates \o p.current
        /\ DOMAIN q.current = DOMAIN lines[i].words
        /\ \A w \in DOMAIN lines[i].words :
             /\ q.current[w].alias = lines[i].words[w] /\ q.current[w].source = path
             /\ q.current[w].hostname = None /\ q.current[w].port = None
    BY <1>a DEF Opens
  <1>5. Nobody(q.candidates, alias) /\ ~Nobody(q.current, alias)
    <2>1. Nobody(p.candidates \o p.current, alias)
      BY <1>2, <1>3, FirstJoined
    <2>2. ~Nobody(q.current, alias)
      BY <1>1, <1>4 DEF Nobody
    <2>3. QED
      BY <1>4, <2>1, <2>2
  <1>6. ASSUME NEW k \in DOMAIN q.current, q.current[k].alias = alias
        PROVE  q.current[k] \in AsSaid(lines, path, alias, i, V)
    <2>1. q.current[k] \in Candidates(V)
      BY <1>4, <1>6 DEF ParseStates
    <2>2. \A key : IsGiven(lines, alias, key, i, None)
      BY <1>0, GivenAtFirst
    <2>3. QED
      BY <1>4, <1>6, <2>1, <2>2 DEF AsSaid
  <1>7. Open(lines, i, i) /\ \A first : IsFirst(lines, alias, first) => first = i
    BY <1>0, BlockMoves, NamedIs
  <1>8. ParsedTo(q, lines, path, alias, i, V)
    BY <1>0, <1>5, <1>6, <1>7 DEF ParsedTo, IsFirst
  <1>9. QED
    BY <1>4, <1>8 DEF q

\* No line up to line i names the alias.
LEMMA ParsesOthers ==
  ASSUME NEW V, NEW lines, NEW path, IsFile(lines, path, V), NEW alias,
         NEW i \in 1..Len(lines), \A k \in Named(lines, alias) : i < k,
         NEW p \in ParseStates(V), ParsedTo(p, lines, path, alias, i - 1, V)
  PROVE  LET q == ParseLine(p, lines[i], path)
         IN q \in ParseStates(V) /\ ParsedTo(q, lines, path, alias, i, V)
  <1> DEFINE q == ParseLine(p, lines[i], path)
  <1>0. DOMAIN lines = 1..Len(lines) /\ Len(lines) \in Nat /\ lines \in Seq(Range(lines))
    BY NamedIs DEF IsFile
  <1>1. IsLine(lines[i], V) /\ None \in V /\ path \in V
    BY <1>0 DEF IsFile
  <1>2. Nobody(p.candidates, alias) /\ Nobody(p.current, alias)
    <2>1. \A k \in Named(lines, alias) : i - 1 < k
      BY <1>0, NamedIs
    <2>2. QED
      BY <2>1 DEF ParsedTo
  <1>3. p.candidates \in Seq(Candidates(V)) /\ p.current \in Seq(Candidates(V))
    BY DEF ParseStates
  <1>4. Nobody(p.candidates \o p.current, alias)
    BY <1>2, <1>3, FirstJoined
  <1>5. q \in ParseStates(V) /\ Nobody(q.candidates, alias) /\ Nobody(q.current, alias)
    <2>1. CASE lines[i].key = "host"
      <3>1. i \notin Named(lines, alias)
        BY <1>0
      <3>2. \A w \in DOMAIN lines[i].words : lines[i].words[w] # alias
        BY <3>1, <2>1, <1>0 DEF Named, Range
      <3>3. Opens(p, q, lines[i], path, V)
        BY <1>1, <2>1, HostLine
      <3> HIDE DEF q
      <3>4. Nobody(q.current, alias)
        BY <3>2, <3>3 DEF Nobody, Opens
      <3>5. QED
        BY <1>4, <3>3, <3>4 DEF Opens
    <2>2. CASE lines[i].key = "match"
      <3>1. q = Flush(p)
        BY <2>2, MatchLine
      <3>2. Flush(p) \in ParseStates(V) /\ Flush(p).candidates = p.candidates \o p.current
            /\ Flush(p).current = <<>>
        BY FlushIs
      <3>3. Nobody(<<>>, alias)
        BY DEF Nobody
      <3> HIDE DEF q
      <3>4. QED
        BY <1>4, <3>1, <3>2, <3>3
    <2>3. CASE ~EndsBlock(lines[i])
      <3>1. GoesOn(p, q, lines[i], V)
        BY <1>1, <2>3, OtherLine
      <3> HIDE DEF q
      <3>2. QED
        BY <1>2, <3>1 DEF Nobody, GoesOn
    <2>4. QED
      BY <2>1, <2>2, <2>3 DEF EndsBlock
  <1> HIDE DEF q
  <1>6. \A first : ~(IsFirst(lines, alias, first) /\ first <= i)
    BY <1>0, NamedIs DEF IsFirst
  <1>7. ParsedTo(q, lines, path, alias, i, V)
    BY <1>5, <1>6 DEF ParsedTo
  <1>8. QED
    BY <1>5, <1>7 DEF q

LEMMA AsSaidOn ==
  ASSUME NEW V, NEW lines, NEW path, IsFile(lines, path, V), NEW alias,
         NEW i \in 1..Len(lines), NEW first, IsFirst(lines, alias, first), ~Open(lines, first, i)
  PROVE  AsSaid(lines, path, alias, i - 1, V) \subseteq AsSaid(lines, path, alias, i, V)
  <1>1. lines \in Seq(Range(lines))
    BY DEF IsFile
  <1>2. \A key, v : IsGiven(lines, alias, key, i - 1, v) => IsGiven(lines, alias, key, i, v)
    BY <1>1, GivenBehind
  <1>3. QED
    BY <1>2 DEF AsSaid

LEMMA FirstInMore ==
  ASSUME NEW s, NEW alias, NEW X, NEW Y, X \subseteq Y, FirstIn(s, alias, X)
  PROVE  FirstIn(s, alias, Y)
  BY DEF FirstIn

\* A line before line i names the alias, the first of them being line first.
LEMMA ParsesOn ==
  ASSUME NEW V, NEW lines, NEW path, IsFile(lines, path, V), NEW alias,
         NEW i \in 1..Len(lines), NEW first, IsFirst(lines, alias, first), first < i,
         NEW p \in ParseStates(V), ParsedTo(p, lines, path, alias, i - 1, V)
  PROVE  LET q == ParseLine(p, lines[i], path)
         IN q \in ParseStates(V) /\ ParsedTo(q, lines, path, alias, i, V)
  <1> DEFINE q == ParseLine(p, lines[i], path)
             C == Candidates(V)
             Before == AsSaid(lines, path, alias, i - 1, V)
             After == AsSaid(lines, path, alias, i, V)
  <1>0. DOMAIN lines = 1..Len(lines) /\ Len(lines) \in Nat /\ lines \in Seq(Range(lines))
    BY NamedIs DEF IsFile
  <1>1. IsLine(lines[i], V) /\ None \in V /\ path \in V
    BY <1>0 DEF IsFile
  <1>2. p.candidates \in Seq(C) /\ p.current \in Seq(C)
    BY DEF ParseStates
  <1>3. first \in 1..Len(lines) /\ (Open(lines, first, i) <=>
                                      Open(lines, first, i - 1) /\ ~EndsBlock(lines[i]))
    BY <1>0, BlockMoves
  <1>4. IF Open(lines, first, i - 1)
        THEN /\ Nobody(p.candidates, alias) /\ ~Nobody(p.current, alias)
             /\ \A k \in DOMAIN p.current : p.current[k].alias = alias => p.current[k] \in Before
        ELSE FirstIn(p.candidates, alias, Before)
    <2>1. first <= i - 1
      BY <1>0, <1>3
    <2>2. QED
      BY <2>1 DEF ParsedTo
  <1>5. SUFFICES /\ q \in ParseStates(V)
                 /\ IF Open(lines, first, i)
                    THEN /\ Nobody(q.candidates, alias) /\ ~Nobody(q.current, alias)
                         /\ \A k \in DOMAIN q.current :
                              q.current[k].alias = alias => q.current[k] \in After
                    ELSE FirstIn(q.candidates, alias, After)
    <2> HIDE DEF q
    <2>1. \A g : IsFirst(lines, alias, g) => g = first
      BY <1>0, NamedIs
    <2>2. ~(\A k \in Named(lines, alias) : i < k)
      BY <1>0, <1>3 DEF IsFirst
    <2>3. q \in ParseStates(V) /\ ParsedTo(q, lines, path, alias, i, V)
      BY <1>5, <2>1, <2>2 DEF ParsedTo
    <2>4. QED
      BY <2>3 DEF q
  <1>6. FirstIn(p.candidates \o p.current, alias, Before)
    <2> HIDE DEF C, Before
    <2>1. CASE Open(lines, first, i - 1)
      <3>1. FirstIn(p.current, alias, Before)
        BY <1>2, <1>4, <2>1, FirstOfAll
      <3>2. QED
        BY <1>2, <1>4, <2>1, <3>1, FirstJoined
    <2>2. CASE ~Open(lines, first, i - 1)
      BY <1>2, <1>4, <2>2, FirstJoined
    <2>3. QED
      BY <2>1, <2>2
  <1>7. CASE EndsBlock(lines[i])
    <2>1. ~Open(lines, first, i)
      BY <1>3, <1>7
    <2>2. Before \subseteq After
      BY <2>1, AsSaidOn
    <2>3. FirstIn(p.candidates \o p.current, alias, After)
      <3> HIDE DEF Before, After
      <3>1. QED
        BY <1>6, <2>2, FirstInMore
    <2>4. q \in ParseStates(V) /\ q.candidates = p.candidates \o p.current
      <3>1. CASE lines[i].key = "host"
        <4>1. Opens(p, q, lines[i], path, V)
          BY <1>1, <3>1, HostLine
        <4> HIDE DEF q
        <4>2. QED
          BY <4>1 DEF Opens
      <3>2. CASE lines[i].key = "match"
        <4>1. q = Flush(p)
          BY <3>2, MatchLine
        <4> HIDE DEF q
        <4>2. QED
          BY <4>1, FlushIs
      <3>3. QED
        BY <1>7, <3>1, <3>2 DEF EndsBlock
    <2> HIDE DEF q, After
    <2>5. QED
      BY <2>1, <2>3, <2>4
  <1>8. CASE ~EndsBlock(lines[i])
    <2>1. GoesOn(p, q, lines[i], V)
      BY <1>1, <1>8, OtherLine
    <2> HIDE DEF q
    <2>2. CASE ~Open(lines, first, i)
      <3>1. ~Open(lines, first, i - 1)
        BY <1>3, <1>8, <2>2
      <3>2. Before \subseteq After
        BY <2>2, AsSaidOn
      <3>3. FirstIn(q.candidates, alias, After)
        <4> HIDE DEF Before, After
        <4>1. FirstIn(p.candidates, alias, After)
          BY <1>4, <3>1, <3>2, FirstInMore
        <4>2. QED
          BY <2>1, <4>1 DEF GoesOn
      <3>4. QED
        BY <2>1, <2>2, <3>3 DEF GoesOn
    <2>3. CASE Open(lines, first, i)
      <3>1. Open(lines, first, i - 1)
        BY <1>3, <2>3
      <3>2. Nobody(q.candidates, alias) /\ ~Nobody(q.current, alias)
        BY <1>4, <2>1, <3>1 DEF GoesOn, Nobody
      <3>3. ASSUME NEW k \in DOMAIN q.current, q.current[k].alias = alias
            PROVE  q.current[k] \in After
        <4> DEFINE b == p.current[k]
                   d == q.current[k]
        <4>1. /\ k \in DOMAIN p.current /\ d.alias = b.alias /\ d.source = b.source
              /\ d.hostname = IF lines[i].key = "hostname" THEN lines[i].words[1] ELSE b.hostname
              /\ d.port = IF lines[i].key = "port" /\ lines[i].words[1] \notin BadPorts
                          THEN lines[i].words[1] ELSE b.port
          BY <2>1, <3>3 DEF GoesOn
        <4>2. b \in Before
          BY <1>4, <3>1, <3>3, <4>1
        <4>3. /\ d.hostname = IF Speaks(lines[i], "hostname") THEN lines[i].words[1] ELSE b.hostname
              /\ d.port = IF Speaks(lines[i], "port") THEN lines[i].words[1] ELSE b.port
          BY <4>1 DEF Speaks
        <4>4. d \in C
          BY <2>1, <3>3 DEF GoesOn, ParseStates
        <4> HIDE DEF b, d
        <4>5. /\ IsGiven(lines, alias, "hostname", i - 1, b.hostname)
              /\ IsGiven(lines, alias, "port", i - 1, b.port)
              /\ b.alias = alias /\ b.source = path
          BY <4>2 DEF AsSaid
        <4>6. /\ IsGiven(lines, alias, "hostname", i, d.hostname)
              /\ IsGiven(lines, alias, "port", i, d.port)
          BY <1>0, <2>3, <4>3, <4>5, GivenIn
        <4>7. d \in After
          BY <4>1, <4>4, <4>5, <4>6 DEF AsSaid
        <4>8. QED
          BY <4>7 DEF d
      <3>4. QED
        BY <2>1, <2>3, <3>2, <3>3 DEF GoesOn
    <2>4. QED
      BY <2>2, <2>3
  <1>9. QED
    BY <1>7, <1>8

LEMMA ParsesTyped ==
  ASSUME NEW V, None \in V, NEW path \in V, NEW line, IsLine(line, V), NEW p \in ParseStates(V)
  PROVE  ParseLine(p, line, path) \in ParseStates(V)
  <1> DEFINE q == ParseLine(p, line, path)
  <1>1. CASE line.key = "host"
    <2>1. Opens(p, q, line, path, V)
      BY <1>1, HostLine
    <2> HIDE DEF q
    <2>2. q \in ParseStates(V)
      BY <2>1 DEF Opens
    <2>3. QED
      BY <2>2 DEF q
  <1>2. CASE line.key = "match"
    <2>1. q = Flush(p)
      BY <1>2, MatchLine
    <2> HIDE DEF q
    <2>2. q \in ParseStates(V)
      BY <2>1, FlushIs
    <2>3. QED
      BY <2>2 DEF q
  <1>3. CASE ~EndsBlock(line)
    <2>1. GoesOn(p, q, line, V)
      BY <1>3, OtherLine
    <2> HIDE DEF q
    <2>2. q \in ParseStates(V)
      BY <2>1 DEF GoesOn
    <2>3. QED
      BY <2>2 DEF q
  <1>4. QED
    BY <1>1, <1>2, <1>3 DEF EndsBlock

LEMMA ParsesEachLine ==
  ASSUME NEW V, NEW lines, NEW path, IsFile(lines, path, V), NEW alias,
         NEW i \in 1..Len(lines),
         NEW p \in ParseStates(V), ParsedTo(p, lines, path, alias, i - 1, V)
  PROVE  ParsedTo(ParseLine(p, lines[i], path), lines, path, alias, i, V)
  <1>0. DOMAIN lines = 1..Len(lines) /\ Len(lines) \in Nat /\ lines \in Seq(Range(lines))
    BY NamedIs DEF IsFile
  <1>1. CASE \A k \in Named(lines, alias) : i < k
    BY <1>1, ParsesOthers
  <1>2. CASE ~(\A k \in Named(lines, alias) : i < k)
    <2>1. PICK first : IsFirst(lines, alias, first)
      BY <1>0, <1>2, NamedIs
    <2>2. first \in Nat /\ first <= i
      BY <1>0, <1>2, <2>1, NamedIs DEF IsFirst
    <2>3. CASE first = i
      BY <2>1, <2>3, ParsesFirst
    <2>4. CASE first < i
      BY <2>1, <2>4, ParsesOn
    <2>5. QED
      BY <2>2, <2>3, <2>4
  <1>3. QED
    BY <1>1, <1>2

\* What is parsed of a file: of every alias it names, first the host its first block
\* describes.
IsParsed(s, lines, path, V) ==
  /\ s \in Seq(Candidates(V))
  /\ \A alias : IF Named(lines, alias) = {} THEN Nobody(s, alias)
                ELSE FirstIn(s, alias, AsSaid(lines, path, alias, Len(lines), V))

LEMMA Parsed ==
  ASSUME NEW V, NEW lines, NEW path, IsFile(lines, path, V)
  PROVE  IsParsed(ParseSshConfig(lines, path), lines, path, V)
  <1> DEFINE n == Len(lines)
             U == ParseStates(V)
             base == [candidates |-> <<>>, current |-> <<>>]
             Runs(f) == f = [i \in 0..n |-> IF i = 0 THEN base
                                            ELSE ParseLine(f[i - 1], lines[i], path)]
             step == [i \in 1..n |-> [p \in U |-> ParseLine(p, lines[i], path)]]
  <1>1. /\ n \in Nat /\ DOMAIN lines = 1..n /\ lines \in Seq(Range(lines))
        /\ None \in V /\ path \in V /\ \A i \in 1..n : IsLine(lines[i], V)
    BY NamedIs DEF IsFile
  <1>2. base \in U
    <2>1. <<>> \in Seq(Candidates(V))
      OBVIOUS
    <2>2. QED
      BY <2>1 DEF ParseStates
  <1>3. \A i \in 1..n, p \in U : ParseLine(p, lines[i], path) \in U
    BY <1>1, ParsesTyped
  <1>4. CanRepeat(n, U, base, step)
    <2>1. step \in [1..n -> [U -> U]]
      <3> HIDE DEF n, U
      <3>1. QED
        BY <1>3
    <2>2. QED
      BY <1>1, <1>2, <2>1 DEF CanRepeat
  <1>5. \A i \in 1..n, p \in U : step[i][p] = ParseLine(p, lines[i], path)
    OBVIOUS
  <1> HIDE DEF n, U, base, step
  <1>6. \E f : Runs(f)
    <2>1. PICK f : Repeats(f, n, U, base, step)
      BY <1>4, Iterated
    <2>2. f \in [0..n -> U] /\ f[0] = base /\ \A i \in 1..n : f[i] = step[i][f[i - 1]]
      BY <2>1 DEF Repeats
    <2>3. \A i \in 1..n : f[i - 1] \in U
      BY <1>1, <2>2
    <2>4. \A i \in 1..n : f[i] = ParseLine(f[i - 1], lines[i], path)
      BY <1>5, <2>2, <2>3
    <2>5. ASSUME NEW i \in 0..n
          PROVE f[i] = IF i = 0 THEN base ELSE ParseLine(f[i - 1], lines[i], path)
      <3>1. i # 0 => i \in 1..n
        BY <1>1
      <3>2. QED
        BY <2>2, <2>4, <3>1
    <2>6. Runs(f)
      BY <2>2, <2>5
    <2>7. QED
      BY <2>6
  <1>7. ASSUME NEW f, Runs(f)
        PROVE  f[0] = base /\ \A i \in 1..n : f[i] = ParseLine(f[i - 1], lines[i], path)
    BY <1>1, <1>7
  <1>8. ASSUME NEW f, Runs(f) PROVE IsParsed(Flush(f[n]).candidates, lines, path, V)
    <2> DEFINE Q == [i \in 0..n |-> {p \in U : \A alias : ParsedTo(p, lines, path, alias, i, V)}]
    <2>1. \A alias : ParsedTo(base, lines, path, alias, 0, V)
      <3>1. TAKE alias
      <3>2. \A first : ~(IsFirst(lines, alias, first) /\ first <= 0)
        BY <1>1, NamedIs DEF IsFirst
      <3>3. Nobody(<<>>, alias)
        BY DEF Nobody
      <3>4. QED
        BY <3>2, <3>3 DEF ParsedTo, base
    <2>2. f[0] \in Q[0]
      BY <1>1, <1>2, <1>7, <1>8, <2>1
    <2>3. ASSUME NEW i \in 1..n, f[i - 1] \in Q[i - 1] PROVE f[i] \in Q[i]
      <3>1. i - 1 \in 0..n /\ i \in 0..n
        BY <1>1
      <3>2. f[i - 1] \in U /\ \A alias : ParsedTo(f[i - 1], lines, path, alias, i - 1, V)
        BY <2>3, <3>1
      <3>3. f[i] = ParseLine(f[i - 1], lines[i], path)
        BY <1>7, <1>8
      <3>4. \A alias : ParsedTo(f[i], lines, path, alias, i, V)
        BY <3>2, <3>3, ParsesEachLine DEF n, U
      <3>5. f[i] \in U
        BY <1>3, <3>2, <3>3
      <3>6. QED
        BY <3>1, <3>4, <3>5
    <2>4. \A i \in 1..n : f[i - 1] \in Q[i - 1] => f[i] \in Q[i]
      BY <2>3
    <2>5. f[n] \in Q[n] /\ n \in 0..n
      <3> HIDE DEF Q
      <3>1. \A i \in 0..n : f[i] \in Q[i]
        BY <1>1, <2>2, <2>4, Counted
      <3>2. n \in 0..n
        BY <1>1
      <3>3. QED
        BY <3>1, <3>2, Zenon
    <2>6. f[n] \in U /\ \A alias : ParsedTo(f[n], lines, path, alias, n, V)
      BY <2>5
    <2> DEFINE p == f[n]
               s == Flush(p).candidates
    <2>7. /\ p \in ParseStates(V) /\ s = p.candidates \o p.current
          /\ p.candidates \in Seq(Candidates(V)) /\ p.current \in Seq(Candidates(V))
          /\ s \in Seq(Candidates(V))
      <3>1. p \in ParseStates(V)
        BY <2>6 DEF U
      <3> HIDE DEF p
      <3>2. Flush(p) \in ParseStates(V) /\ Flush(p).candidates = p.candidates \o p.current
        BY <3>1, FlushIs
      <3>3. QED
        BY <3>1, <3>2 DEF ParseStates
    <2>8. ASSUME NEW alias
          PROVE  IF Named(lines, alias) = {} THEN Nobody(s, alias)
                 ELSE FirstIn(s, alias, AsSaid(lines, path, alias, n, V))
      <3> DEFINE C == Candidates(V)
                 X == AsSaid(lines, path, alias, n, V)
      <3>1. ParsedTo(p, lines, path, alias, n, V)
        BY <2>6
      <3> HIDE DEF p, s
      <3>2. CASE Named(lines, alias) = {}
        <4>1. Nobody(p.candidates, alias) /\ Nobody(p.current, alias)
          BY <3>1, <3>2 DEF ParsedTo
        <4> HIDE DEF C
        <4>2. QED
          BY <2>7, <3>2, <4>1, FirstJoined
      <3>3. CASE Named(lines, alias) # {}
        <4>1. PICK first : IsFirst(lines, alias, first)
          BY <1>1, <3>3, NamedIs
        <4>2. first <= n
          BY <1>1, <4>1, NamedIs DEF IsFirst, n
        <4> HIDE DEF C
        <4>3. IF Open(lines, first, n)
              THEN /\ Nobody(p.candidates, alias) /\ ~Nobody(p.current, alias)
                   /\ \A k \in DOMAIN p.current : p.current[k].alias = alias => p.current[k] \in X
              ELSE FirstIn(p.candidates, alias, X)
          BY <3>1, <4>1, <4>2 DEF ParsedTo
        <4> HIDE DEF X
        <4>4. FirstIn(s, alias, X)
          <5>1. CASE Open(lines, first, n)
            <6>1. FirstIn(p.current, alias, X)
              BY <2>7, <4>3, <5>1, FirstOfAll
            <6>2. QED
              BY <2>7, <4>3, <5>1, <6>1, FirstJoined
          <5>2. CASE ~Open(lines, first, n)
            BY <2>7, <4>3, <5>2, FirstJoined
          <5>3. QED
            BY <5>1, <5>2
        <4>5. QED
          BY <3>3, <4>4 DEF X
      <3>4. QED
        BY <3>2, <3>3
    <2>9. QED
      <3> HIDE DEF s
      <3>1. IsParsed(s, lines, path, V)
        BY <2>7, <2>8 DEF IsParsed, n
      <3>2. QED
        BY <3>1 DEF s, p
  <1>9. ParseSshConfig(lines, path) = Flush((CHOOSE f : Runs(f))[n]).candidates
    BY DEF ParseSshConfig, n, base
  <1>10. QED
    <2> DEFINE g == CHOOSE f : Runs(f)
    <2>1. Runs(g)
      <3> HIDE DEF Runs
      <3>1. QED
        BY <1>6
    <2> HIDE DEF g, Runs
    <2>2. IsParsed(Flush(g[n]).candidates, lines, path, V)
      BY <1>8, <2>1
    <2>3. QED
      BY <1>9, <2>2 DEF g

(***************************************************************************)
(* Reading the files that files include                                    *)
(***************************************************************************)

\* The hosts that are what the first block of their alias in their file says.
Written(all, V) ==
  {c \in Candidates(V) : /\ c.source \in DOMAIN all
                         /\ c.hostname = Given(all[c.source], c.alias, "hostname")
                         /\ c.port = Given(all[c.source], c.alias, "port")}

\* Whatever alias is found, first it is found as it is written.
AllWritten(all, s, V) ==
  /\ s \in Seq(Candidates(V))
  /\ \A alias : Nobody(s, alias) \/ FirstIn(s, alias, Written(all, V))

\* An alias that a file has is first found there.
Leads(all, path, s, V) ==
  \A alias : Named(all[path], alias) # {} =>
    FirstIn(s, alias, {c \in Written(all, V) : c.source = path})

AreFiles(all, V) == None \in V /\ \A path \in DOMAIN all : IsFile(all[path], path, V)

Reads(all, V) == {r \in [candidates : Seq(Candidates(V)), seen : SUBSET DOMAIN all] :
                    AllWritten(all, r.candidates, V)}

LEMMA ParsedWritten ==
  ASSUME NEW all, NEW V, AreFiles(all, V), NEW path \in DOMAIN all
  PROVE  LET s == ParseSshConfig(all[path], path)
         IN AllWritten(all, s, V) /\ Leads(all, path, s, V)
  <1> DEFINE s == ParseSshConfig(all[path], path)
             lines == all[path]
             X == {c \in Written(all, V) : c.source = path}
  <1>1. IsFile(lines, path, V) /\ lines \in Seq(Range(lines))
    BY DEF AreFiles, IsFile
  <1>2. IsParsed(s, lines, path, V)
    <2> HIDE DEF lines
    <2>1. IsParsed(ParseSshConfig(lines, path), lines, path, V)
      BY <1>1, Parsed
    <2>2. QED
      BY <2>1 DEF lines
  <1>3. \A alias : AsSaid(lines, path, alias, Len(lines), V) \subseteq X
    <2>1. TAKE alias
    <2>2. SUFFICES ASSUME NEW c \in AsSaid(lines, path, alias, Len(lines), V) PROVE c \in X
      OBVIOUS
    <2>3. /\ c \in Candidates(V) /\ c.alias = alias /\ c.source = path
          /\ IsGiven(lines, alias, "hostname", Len(lines), c.hostname)
          /\ IsGiven(lines, alias, "port", Len(lines), c.port)
      BY <2>2 DEF AsSaid
    <2> HIDE DEF lines
    <2>4. /\ c.hostname = Given(lines, alias, "hostname")
          /\ c.port = Given(lines, alias, "port")
      BY <1>1, <2>3, GivenAtEnd
    <2>5. QED
      BY <2>3, <2>4 DEF Written, lines
  <1> HIDE DEF s, lines, X
  <1>4. s \in Seq(Candidates(V)) /\ \A alias : IF Named(lines, alias) = {} THEN Nobody(s, alias)
                                               ELSE FirstIn(s, alias, X)
    BY <1>2, <1>3, FirstInMore DEF IsParsed
  <1>5. X \subseteq Written(all, V)
    BY DEF X
  <1>6. AllWritten(all, s, V)
    BY <1>4, <1>5, FirstInMore DEF AllWritten
  <1>7. Leads(all, path, s, V)
    BY <1>4 DEF Leads, lines, X
  <1>8. QED
    BY <1>6, <1>7 DEF s

LEMMA WrittenJoined ==
  ASSUME NEW all, NEW V, NEW s, AllWritten(all, s, V), NEW t, AllWritten(all, t, V), NEW path
  PROVE  /\ AllWritten(all, s \o t, V)
         /\ Leads(all, path, s, V) => Leads(all, path, s \o t, V)
  <1> DEFINE C == Candidates(V)
  <1>1. s \in Seq(C) /\ t \in Seq(C)
    BY DEF AllWritten
  <1> HIDE DEF C
  <1>2. s \o t \in Seq(C)
    BY <1>1
  <1>3. \A alias : Nobody(s \o t, alias) \/ FirstIn(s \o t, alias, Written(all, V))
    BY <1>1, FirstJoined DEF AllWritten
  <1>4. Leads(all, path, s, V) => Leads(all, path, s \o t, V)
    BY <1>1, FirstJoined DEF Leads
  <1>5. QED
    BY <1>2, <1>3, <1>4 DEF AllWritten, C

LEMMA IncludesAreWords ==
  ASSUME NEW V, NEW lines, NEW path, IsFile(lines, path, V)
  PROVE  ExtractIncludes(lines) \in Seq(V)
  <1> DEFINE n == Len(lines)
             seqs == [i \in DOMAIN lines |->
                        IF lines[i].key = "include" THEN lines[i].words ELSE <<>>]
  <1>1. DOMAIN lines = 1..n /\ n \in Nat /\ \A i \in DOMAIN lines : lines[i].words \in Seq(V)
    BY NamedIs DEF IsFile, IsLine
  <1>2. <<>> \in Seq(V)
    OBVIOUS
  <1> HIDE DEF n
  <1>3. seqs \in [1..n -> Seq(V)]
    BY <1>1, <1>2
  <1>4. ExtractIncludes(lines) = Without(FlattenSeq(seqs), Patterns)
    BY DEF ExtractIncludes
  <1> HIDE DEF seqs
  <1>5. PICK f : Joins(f, n, V, seqs) /\ FlattenSeq(seqs) = f[n]
    BY <1>1, <1>3, Flattened
  <1>6. f[n] \in Seq(V)
    BY <1>1, <1>5 DEF Joins
  <1>7. QED
    BY <1>4, <1>5, <1>6, LeftWithout

\* read gives of every file, after whatever was seen, what is written.
CanRead(all, read, V) ==
  \A path \in DOMAIN all : \A visited \in SUBSET DOMAIN all : read[path][visited] \in Reads(all, V)

LEMMA IncludedRead ==
  ASSUME NEW all, NEW V, NEW before \in Reads(all, V), NEW include, NEW read, CanRead(all, read, V)
  PROVE  /\ WithIncluded(all, before, include, read) \in Reads(all, V)
         /\ \A path : Leads(all, path, before.candidates, V) =>
              Leads(all, path, WithIncluded(all, before, include, read).candidates, V)
  <1>1. CASE include \notin DOMAIN all
    BY <1>1 DEF WithIncluded
  <1>2. CASE include \in DOMAIN all
    <2> DEFINE C == Candidates(V)
               inner == read[include][before.seen]
               s == before.candidates
               t == inner.candidates
    <2>1. before.seen \in SUBSET DOMAIN all
      BY DEF Reads
    <2>2. inner \in Reads(all, V)
      BY <1>2, <2>1 DEF CanRead
    <2>3. WithIncluded(all, before, include, read) = [candidates |-> s \o t, seen |-> inner.seen]
      BY <1>2 DEF WithIncluded
    <2>4. AllWritten(all, s, V)
      BY DEF Reads
    <2> HIDE DEF inner
    <2>5. AllWritten(all, t, V) /\ inner.seen \in SUBSET DOMAIN all
      BY <2>2 DEF Reads
    <2> HIDE DEF s, t
    <2>6. /\ AllWritten(all, s \o t, V)
          /\ \A path : Leads(all, path, s, V) => Leads(all, path, s \o t, V)
      BY <2>4, <2>5, WrittenJoined
    <2>7. s \o t \in Seq(C)
      BY <2>6 DEF AllWritten
    <2> DEFINE r == [candidates |-> s \o t, seen |-> inner.seen]
    <2> HIDE DEF C
    <2>8. r \in [candidates : Seq(C), seen : SUBSET DOMAIN all] /\ r.candidates = s \o t
      BY <2>5, <2>7
    <2> HIDE DEF r
    <2>9. r \in Reads(all, V)
      BY <2>6, <2>8 DEF Reads, C
    <2>10. QED
      BY <2>3, <2>6, <2>8, <2>9 DEF s, r
  <1>3. QED
    BY <1>1, <1>2

LEMMA IncludesRead ==
  ASSUME NEW all, NEW V, NEW alone \in Reads(all, V), NEW W, NEW includes \in Seq(W),
         NEW read, CanRead(all, read, V)
  PROVE  /\ WithIncludes(all, alone, includes, read) \in Reads(all, V)
         /\ \A path : Leads(all, path, alone.candidates, V) =>
              Leads(all, path, WithIncludes(all, alone, includes, read).candidates, V)
  <1> DEFINE n == Len(includes)
             U == Reads(all, V)
             Runs(f) == f = [i \in 0..n |-> IF i = 0 THEN alone
                                            ELSE WithIncluded(all, f[i - 1], includes[i], read)]
             step == [i \in 1..n |-> [r \in U |-> WithIncluded(all, r, includes[i], read)]]
             Good(r) == r \in U /\ \A path : Leads(all, path, alone.candidates, V) =>
                                              Leads(all, path, r.candidates, V)
  <1>1. n \in Nat
    OBVIOUS
  <1>2. \A i \in 1..n, r \in U : WithIncluded(all, r, includes[i], read) \in U
    BY IncludedRead
  <1>3. CanRepeat(n, U, alone, step)
    <2>1. step \in [1..n -> [U -> U]]
      <3> HIDE DEF n, U
      <3>1. QED
        BY <1>2
    <2>2. QED
      BY <1>1, <2>1 DEF CanRepeat
  <1>4. \A i \in 1..n, r \in U : step[i][r] = WithIncluded(all, r, includes[i], read)
    OBVIOUS
  <1> HIDE DEF n, U, step
  <1>5. \E f : Runs(f)
    <2>1. PICK f : Repeats(f, n, U, alone, step)
      BY <1>3, Iterated
    <2>2. f \in [0..n -> U] /\ f[0] = alone /\ \A i \in 1..n : f[i] = step[i][f[i - 1]]
      BY <2>1 DEF Repeats
    <2>3. \A i \in 1..n : f[i - 1] \in U
      BY <1>1, <2>2
    <2>4. \A i \in 1..n : f[i] = WithIncluded(all, f[i - 1], includes[i], read)
      BY <1>4, <2>2, <2>3
    <2>5. ASSUME NEW i \in 0..n
          PROVE f[i] = IF i = 0 THEN alone ELSE WithIncluded(all, f[i - 1], includes[i], read)
      <3>1. i # 0 => i \in 1..n
        BY <1>1
      <3>2. QED
        BY <2>2, <2>4, <3>1
    <2>6. Runs(f)
      BY <2>2, <2>5
    <2>7. QED
      BY <2>6
  <1>6. ASSUME NEW f, Runs(f) PROVE Good(f[n])
    <2> DEFINE Q == [i \in 0..n |-> {r \in U : Good(r)}]
    <2>1. f[0] = alone /\ \A i \in 1..n : f[i] = WithIncluded(all, f[i - 1], includes[i], read)
      BY <1>1, <1>6
    <2>2. \A i \in 0..n : \A r : r \in Q[i] <=> Good(r)
      OBVIOUS
    <2>3. Good(alone)
      BY DEF U
    <2>4. \A r, i : Good(r) => Good(WithIncluded(all, r, includes[i], read))
      BY IncludedRead DEF U
    <2> HIDE DEF Good, Q
    <2>5. f[0] \in Q[0] /\ \A i \in 1..n : f[i - 1] \in Q[i - 1] => f[i] \in Q[i]
      <3>1. 0 \in 0..n /\ \A i \in 1..n : i \in 0..n /\ i - 1 \in 0..n
        BY <1>1
      <3>2. QED
        BY <2>1, <2>2, <2>3, <2>4, <3>1
    <2>6. \A i \in 0..n : f[i] \in Q[i]
      BY <1>1, <2>5, Counted
    <2>7. n \in 0..n
      BY <1>1
    <2>8. QED
      BY <2>2, <2>6, <2>7
  <1>7. WithIncludes(all, alone, includes, read) = (CHOOSE f : Runs(f))[n]
    BY DEF WithIncludes, n
  <1>8. QED
    <2> DEFINE g == CHOOSE f : Runs(f)
    <2>1. Runs(g)
      <3> HIDE DEF Runs
      <3>1. QED
        BY <1>5
    <2> HIDE DEF g, Runs
    <2>2. Good(g[n])
      BY <1>6, <2>1
    <2>3. QED
      BY <1>7, <2>2 DEF g, U

\* All the files, after whatever was seen; and each by itself.
LEMMA FilesRead ==
  ASSUME NEW all, NEW V, AreFiles(all, V), NEW follow, NEW read,
         follow => CanRead(all, read, V)
  PROVE  /\ ReadFiles(all, follow, read) \in
              [DOMAIN all -> [SUBSET DOMAIN all -> Reads(all, V)]]
         /\ \A path \in DOMAIN all :
              Leads(all, path, ReadFiles(all, follow, read)[path][{}].candidates, V)
  <1> DEFINE R == Reads(all, V)
             Alone(path, visited) == [candidates |-> ParseSshConfig(all[path], path),
                                   seen |-> visited \cup {path}]
             Read(path, visited) == IF follow THEN WithIncludes(all, Alone(path, visited),
                                                               ExtractIncludes(all[path]), read)
                                   ELSE Alone(path, visited)
  <1>1. ASSUME NEW path \in DOMAIN all, NEW visited \in SUBSET DOMAIN all
        PROVE  /\ Read(path, visited) \in R
               /\ Leads(all, path, Read(path, visited).candidates, V)
    <2> DEFINE s == ParseSshConfig(all[path], path)
               C == Candidates(V)
    <2>1. AllWritten(all, s, V) /\ Leads(all, path, s, V)
      BY ParsedWritten
    <2> HIDE DEF s
    <2>2. s \in Seq(C)
      BY <2>1 DEF AllWritten
    <2>3. /\ Alone(path, visited) \in [candidates : Seq(C), seen : SUBSET DOMAIN all]
          /\ Alone(path, visited).candidates = s
      <3> HIDE DEF C
      <3>1. QED
        BY <2>2 DEF s
    <2> HIDE DEF Alone
    <2>4. Alone(path, visited) \in R /\ Leads(all, path, Alone(path, visited).candidates, V)
      BY <2>1, <2>3 DEF Reads
    <2>5. ExtractIncludes(all[path]) \in Seq(V)
      BY IncludesAreWords DEF AreFiles
    <2> HIDE DEF R, C
    <2>6. CASE follow
      BY <2>4, <2>5, <2>6, IncludesRead DEF R
    <2>7. CASE ~follow
      BY <2>4, <2>7
    <2>8. QED
      BY <2>6, <2>7
  <1>2. \A path \in DOMAIN all, visited \in SUBSET DOMAIN all :
          ReadFiles(all, follow, read)[path][visited] =
            IF path \in visited THEN [candidates |-> <<>>, seen |-> visited] ELSE Read(path, visited)
    BY DEF ReadFiles
  <1>3. \A visited \in SUBSET DOMAIN all : [candidates |-> <<>>, seen |-> visited] \in R
    <2>1. <<>> \in Seq(Candidates(V)) /\ AllWritten(all, <<>>, V)
      BY DEF AllWritten, Nobody
    <2>2. QED
      BY <2>1 DEF Reads
  <1>4. ReadFiles(all, follow, read) =
          [path \in DOMAIN all |-> [visited \in SUBSET DOMAIN all |->
            IF path \in visited THEN [candidates |-> <<>>, seen |-> visited] ELSE Read(path, visited)]]
    BY DEF ReadFiles
  <1> HIDE DEF Read, R
  <1>5. ReadFiles(all, follow, read) \in [DOMAIN all -> [SUBSET DOMAIN all -> R]]
    BY <1>1, <1>3, <1>4
  <1>6. \A path \in DOMAIN all :
          Leads(all, path, ReadFiles(all, follow, read)[path][{}].candidates, V)
    <2>1. TAKE path \in DOMAIN all
    <2>2. {} \in SUBSET DOMAIN all /\ path \notin {}
      OBVIOUS
    <2>3. ReadFiles(all, follow, read)[path][{}] = Read(path, {})
      BY <1>2, <2>2
    <2>4. QED
      BY <1>1, <2>2, <2>3
  <1>7. QED
    BY <1>5, <1>6 DEF R

LEMMA ConfigRead ==
  ASSUME NEW all, NEW V, AreFiles(all, V), MaxIncludeDepth \in Nat, NEW follow,
         NEW path \in DOMAIN all
  PROVE  /\ AllWritten(all, ReadConfigFile(all, path, follow), V)
         /\ Leads(all, path, ReadConfigFile(all, path, follow), V)
  <1> DEFINE n == MaxIncludeDepth
             U == [DOMAIN all -> [SUBSET DOMAIN all -> Reads(all, V)]]
             base == ReadFiles(all, FALSE, <<>>)
             Runs(f) == f = [i \in 0..n |-> IF i = 0 THEN base
                                            ELSE ReadFiles(all, follow, f[i - 1])]
             step == [i \in 1..n |-> [r \in U |-> ReadFiles(all, follow, r)]]
             Good(r) == r \in U /\ Leads(all, path, r[path][{}].candidates, V)
  <1>1. n \in Nat
    OBVIOUS
  <1>2. Good(base)
    <2>1. FALSE => CanRead(all, <<>>, V)
      OBVIOUS
    <2>2. QED
      BY <2>1, FilesRead
  <1>3. \A r \in U : Good(ReadFiles(all, follow, r))
    <2>1. TAKE r \in U
    <2>2. CanRead(all, r, V)
      BY DEF CanRead
    <2> HIDE DEF U
    <2>3. QED
      BY <2>2, FilesRead DEF U
  <1>4. CanRepeat(n, U, base, step)
    <2> HIDE DEF n, U, base
    <2>1. base \in U /\ \A r \in U : ReadFiles(all, follow, r) \in U
      BY <1>2, <1>3
    <2>2. step \in [1..n -> [U -> U]]
      BY <2>1
    <2>3. QED
      BY <1>1, <2>1, <2>2 DEF CanRepeat
  <1>5. \A i \in 1..n, r \in U : step[i][r] = ReadFiles(all, follow, r)
    OBVIOUS
  <1> HIDE DEF n, U, base, step
  <1>6. \E f : Runs(f)
    <2>1. PICK f : Repeats(f, n, U, base, step)
      BY <1>4, Iterated
    <2>2. f \in [0..n -> U] /\ f[0] = base /\ \A i \in 1..n : f[i] = step[i][f[i - 1]]
      BY <2>1 DEF Repeats
    <2>3. \A i \in 1..n : f[i - 1] \in U
      BY <1>1, <2>2
    <2>4. \A i \in 1..n : f[i] = ReadFiles(all, follow, f[i - 1])
      BY <1>5, <2>2, <2>3
    <2>5. ASSUME NEW i \in 0..n
          PROVE f[i] = IF i = 0 THEN base ELSE ReadFiles(all, follow, f[i - 1])
      <3>1. i # 0 => i \in 1..n
        BY <1>1
      <3>2. QED
        BY <2>2, <2>4, <3>1
    <2>6. Runs(f)
      BY <2>2, <2>5
    <2>7. QED
      BY <2>6
  <1>7. ASSUME NEW f, Runs(f) PROVE Good(f[n])
    <2> DEFINE Q == [i \in 0..n |-> {r \in U : Good(r)}]
    <2>1. f[0] = base /\ \A i \in 1..n : f[i] = ReadFiles(all, follow, f[i - 1])
      BY <1>1, <1>7
    <2>2. \A i \in 0..n : \A r : r \in Q[i] <=> Good(r)
      OBVIOUS
    <2>3. \A r : Good(r) => Good(ReadFiles(all, follow, r))
      BY <1>3
    <2> HIDE DEF Good, Q
    <2>4. f[0] \in Q[0] /\ \A i \in 1..n : f[i - 1] \in Q[i - 1] => f[i] \in Q[i]
      <3>1. 0 \in 0..n /\ \A i \in 1..n : i \in 0..n /\ i - 1 \in 0..n
        BY <1>1
      <3>2. QED
        BY <1>2, <2>1, <2>2, <2>3, <3>1
    <2>5. \A i \in 0..n : f[i] \in Q[i]
      BY <1>1, <2>4, Counted
    <2>6. n \in 0..n
      BY <1>1
    <2>7. QED
      BY <2>2, <2>5, <2>6
  <1>8. ReadConfigFile(all, path, follow) = (CHOOSE f : Runs(f))[n][path][{}].candidates
    BY DEF ReadConfigFile, n, base
  <1>9. QED
    <2> DEFINE g == CHOOSE f : Runs(f)
    <2>1. Runs(g)
      <3> HIDE DEF Runs
      <3>1. QED
        BY <1>6
    <2> HIDE DEF g, Runs
    <2>2. Good(g[n])
      BY <1>7, <2>1
    <2>3. g[n][path][{}] \in Reads(all, V)
      BY <2>2 DEF U
    <2>4. AllWritten(all, g[n][path][{}].candidates, V)
      BY <2>3 DEF Reads
    <2>5. QED
      BY <1>8, <2>2, <2>4 DEF g

(***************************************************************************)
(* Imports                                                                 *)
(***************************************************************************)

\* What ssh would find of an alias in the configuration.
AsWritten(all, alias, host, port, source) ==
  /\ alias \notin Patterns
  /\ Named(all[Main], alias) # {} => source = Main
  /\ host = Given(all[source], alias, "hostname")
  /\ port = Given(all[source], alias, "port")

WordsIn(all) ==
  {None} \cup DOMAIN all
    \cup UNION {UNION {Range(all[path][i].words) \cup {all[path][i].words[1]} :
                         i \in DOMAIN all[path]} : path \in DOMAIN all}

LEMMA ConfigsHaveWords ==
  ASSUME NEW all \in SshConfigs
  PROVE  AreFiles(all, WordsIn(all)) /\ MaxIncludeDepth \in Nat
  <1> DEFINE V == WordsIn(all)
  <1>1. ASSUME NEW path \in DOMAIN all PROVE IsFile(all[path], path, V)
    <2>1. all[path] \in Seq(Range(all[path]))
      BY ServersAssumption DEF ConfigsAreFiles
    <2>2. ASSUME NEW i \in DOMAIN all[path] PROVE IsLine(all[path][i], V)
      <3> DEFINE words == all[path][i].words
      <3>1. words \in Seq(Range(words))
        BY ServersAssumption DEF ConfigsAreFiles, Range
      <3>2. Range(words) \subseteq V /\ words[1] \in V
        BY DEF WordsIn
      <3> HIDE DEF words, V
      <3>3. words \in Seq(V)
        BY <3>1, <3>2
      <3>4. QED
        BY <3>2, <3>3 DEF IsLine, words
    <2>3. QED
      BY <2>1, <2>2 DEF IsFile, WordsIn
  <1>2. QED
    BY <1>1, ServersAssumption DEF AreFiles, ConfigsAreFiles, WordsIn

\* What an import offers is written that way, each alias once.
LEMMA OfferedAsWritten ==
  ASSUME NEW all \in SshConfigs, NEW follow
  PROVE  LET hosts == UsableHosts(ReadConfigFile(all, Main, follow))
         IN /\ \A h \in hosts : AsWritten(all, h.alias, h.hostname, h.port, h.source)
            /\ \A h, g \in hosts : h.alias = g.alias => h = g
  <1> DEFINE s == ReadConfigFile(all, Main, follow)
             V == WordsIn(all)
             hosts == UsableHosts(s)
  <1>1. CASE Main \notin DOMAIN all
    <2>1. s = <<>>
      BY <1>1 DEF ReadConfigFile
    <2>2. hosts = {}
      BY <2>1 DEF UsableHosts
    <2>3. QED
      BY <2>2
  <1>2. CASE Main \in DOMAIN all
    <2>1. AllWritten(all, s, V) /\ Leads(all, Main, s, V)
      BY <1>2, ConfigRead, ConfigsHaveWords
    <2> HIDE DEF s, V
    <2>2. s \in Seq(Candidates(V)) /\ DOMAIN s = 1..Len(s) /\ Len(s) \in Nat
      BY <2>1 DEF AllWritten
    <2>3. \A k \in DOMAIN s : /\ s[k] \in Candidates(V)
                              /\ s[k].isPattern = (s[k].alias \in Patterns)
      BY <2>2 DEF Candidates
    <2> DEFINE Leading == {k \in DOMAIN s : /\ s[k].alias \notin Patterns
                                            /\ \A m \in DOMAIN s : m < k => s[m].alias # s[k].alias}
    <2>4. hosts = {s[k] : k \in Leading}
      <3>1. \A k \in DOMAIN s : \A m : m \in 1..k - 1 <=> m \in DOMAIN s /\ m < k
        BY <2>2
      <3>2. {k \in DOMAIN s : /\ ~s[k].isPattern
                              /\ \A m \in 1..k - 1 : s[m].isPattern \/ s[m].alias # s[k].alias}
              = Leading
        BY <2>3, <3>1
      <3>3. QED
        BY <3>2 DEF UsableHosts
    <2>5. \A k \in Leading : \A X : FirstIn(s, s[k].alias, X) => s[k] \in X
      <3>1. TAKE k \in Leading
      <3>2. TAKE X
      <3>3. HAVE FirstIn(s, s[k].alias, X)
      <3>4. PICK j \in DOMAIN s : /\ s[j].alias = s[k].alias /\ s[j] \in X
                                  /\ \A m \in DOMAIN s : m < j => s[m].alias # s[k].alias
        BY <3>3 DEF FirstIn
      <3>5. ~(j < k) /\ ~(k < j) /\ j \in Nat /\ k \in Nat
        BY <2>2, <3>4
      <3>6. j = k
        BY <3>5
      <3>7. QED
        BY <3>4, <3>6
    <2>6. ASSUME NEW k \in Leading
          PROVE  AsWritten(all, s[k].alias, s[k].hostname, s[k].port, s[k].source)
      <3>1. ~Nobody(s, s[k].alias)
        BY DEF Nobody
      <3>2. s[k] \in Written(all, V)
        BY <2>1, <2>5, <3>1 DEF AllWritten
      <3>3. Named(all[Main], s[k].alias) # {} => s[k].source = Main
        BY <2>1, <2>5 DEF Leads
      <3>4. QED
        BY <3>2, <3>3 DEF AsWritten, Written
    <2>7. ASSUME NEW j \in Leading, NEW k \in Leading, s[j].alias = s[k].alias PROVE j = k
      <3>1. ~(j < k) /\ ~(k < j) /\ j \in Nat /\ k \in Nat
        BY <2>2, <2>7
      <3>2. QED
        BY <3>1
    <2> HIDE DEF Leading, hosts
    <2>8. (\A h \in hosts : AsWritten(all, h.alias, h.hostname, h.port, h.source))
      BY <2>4, <2>6
    <2>9. \A h, g \in hosts : h.alias = g.alias => h = g
      BY <2>4, <2>7
    <2>10. QED
      BY <2>8, <2>9 DEF hosts, s
  <1>3. QED
    BY <1>1, <1>2

\* What an import holds while it waits and saves: hosts as they are written, and none
\* that is registered meanwhile but for those it shares with another import or `add`.
Offered(l) ==
  /\ l = [kind |-> "import", hosts |-> l.hosts]
  /\ \A h \in l.hosts : AsWritten(sshFiles, h.alias, h.hostname, h.port, h.source)
  /\ \A h, g \in l.hosts : h.alias = g.alias => h = g
  /\ \A h \in l.hosts, r \in remotes : r.alias = h.alias => h.alias \in overlapped

Importing(c) == doing[c] \in {"choosing", "saving"}

ImportInv ==
  /\ sshFiles \in SshConfigs
  /\ doing = [c \in Commands |-> doing[c]] /\ local = [c \in Commands |-> local[c]]
  /\ \A r \in remotes : r.source # None => AsWritten(sshFiles, r.alias, r.host, r.port, r.source)
  /\ \A r, q \in remotes : r.source # None /\ q.source # None /\ r.alias = q.alias =>
       r = q \/ r.alias \in overlapped
  /\ \A c \in Commands : Importing(c) => Offered(local[c])

LEMMA ImportInit == ServersInit => ImportInv
  BY DEF ServersInit, ImportInv, Importing, Nothing

\* No server is registered, and no import takes up more than it had.
LEMMA ImportInvKept ==
  ASSUME ImportInv, sshFiles' = sshFiles, remotes' \subseteq remotes, overlapped' = overlapped,
         doing' = [c \in Commands |-> doing'[c]], local' = [c \in Commands |-> local'[c]],
         \A c \in Commands : Importing(c)' =>
           \/ Importing(c) /\ local'[c] = local[c]
           \/ Offered(local'[c])
  PROVE  ImportInv'
  <1>1. ASSUME NEW l, Offered(l)
        PROVE  /\ l = [kind |-> "import", hosts |-> l.hosts]
               /\ \A h \in l.hosts : AsWritten(sshFiles', h.alias, h.hostname, h.port, h.source)
               /\ \A h, g \in l.hosts : h.alias = g.alias => h = g
               /\ \A h \in l.hosts, r \in remotes' : r.alias = h.alias => h.alias \in overlapped'
    BY <1>1 DEF Offered
  <1>2. ASSUME NEW c \in Commands, Importing(c)' PROVE Offered(local'[c])
    BY <1>2 DEF ImportInv
  <1>3. \A c \in Commands : Importing(c)' => Offered(local[c])'
    BY <1>1, <1>2 DEF Offered
  <1>4. QED
    BY <1>3 DEF ImportInv

\* A server is registered: another import that holds its alias is overlapped.
LEMMA RegisteredMeanwhile ==
  ASSUME ImportInv, NEW c \in Commands, NEW remote, SaveRemote(c, remote), sshFiles' = sshFiles,
         remote.source # None =>
           /\ AsWritten(sshFiles, remote.alias, remote.host, remote.port, remote.source)
           /\ \A q \in remotes : q.alias = remote.alias => q.alias \in overlapped,
         doing' = [d \in Commands |-> doing'[d]], local' = [d \in Commands |-> local'[d]],
         \A d \in Commands \ {c} : doing'[d] = doing[d] /\ local'[d] = local[d],
         Importing(c)' => /\ Offered(local'[c])
                          /\ \A h \in local'[c].hosts : h.alias # remote.alias
  PROVE  ImportInv'
  <1>1. /\ remotes' = remotes \cup {remote} /\ overlapped \subseteq overlapped'
        /\ \A d \in Commands \ {c} : remote.alias \in Pending(d) => remote.alias \in overlapped'
    BY DEF SaveRemote
  <1>2. \A r \in remotes' : r.source # None => AsWritten(sshFiles', r.alias, r.host, r.port, r.source)
    BY <1>1 DEF ImportInv
  <1>3. \A r, q \in remotes' : r.source # None /\ q.source # None /\ r.alias = q.alias =>
          r = q \/ r.alias \in overlapped'
    BY <1>1 DEF ImportInv
  <1>4. ASSUME NEW d \in Commands, Importing(d)' PROVE Offered(local[d])'
    <2>1. Offered(local'[d])
      <3>1. CASE d = c
        BY <3>1, <1>4
      <3>2. CASE d # c
        BY <3>2, <1>4 DEF ImportInv, Importing
      <3>3. QED
        BY <3>1, <3>2
    <2>2. ASSUME NEW h \in local'[d].hosts, NEW r \in remotes', r.alias = h.alias
          PROVE  h.alias \in overlapped'
      <3>1. CASE r \in remotes
        BY <3>1, <2>1, <2>2, <1>1 DEF Offered
      <3>2. CASE r = remote
        <4>1. d # c
          BY <3>2, <1>4, <2>2
        <4>2. remote.alias \in Pending(d)
          BY <4>1, <3>2, <1>4, <2>2 DEF Pending, Importing
        <4>3. QED
          BY <4>1, <4>2, <3>2, <2>2, <1>1
      <3>3. QED
        BY <3>1, <3>2, <1>1
    <2>3. QED
      BY <2>1, <2>2 DEF Offered
  <1>5. QED
    BY <1>2, <1>3, <1>4 DEF ImportInv

LEMMA ImportNext == ImportInv /\ [ServersNext]_serversVars => ImportInv'
  <1>1. SUFFICES ASSUME ImportInv, [ServersNext]_serversVars PROVE ImportInv'
    OBVIOUS
  <1>2. CASE UNCHANGED serversVars
    BY <1>1, <1>2 DEF ImportInv, Offered, Importing, serversVars
  <1>3. ASSUME NEW c \in Commands, ServersStep(c) PROVE ImportInv'
    <2>0. doing = [d \in Commands |-> doing[d]] /\ local = [d \in Commands |-> local[d]]
      BY <1>1 DEF ImportInv
    <2> DEFINE Turned(next, read) ==
          /\ doing' = [d \in Commands |-> IF d = c THEN next ELSE doing[d]]
          /\ local' = [d \in Commands |-> IF d = c THEN read ELSE local[d]]
    <2>1. ASSUME NEW next, NEW read, Turn(c, next, read) PROVE Turned(next, read)
      BY <2>0, <2>1 DEF Turn
    <2>2. ASSUME NEW next, NEW read, Turned(next, read),
                 next \in {"choosing", "saving"} => Offered(read),
                 sshFiles' = sshFiles, remotes' \subseteq remotes, overlapped' = overlapped
          PROVE ImportInv'
      <3>1. \A d \in Commands : Importing(d)' =>
              \/ Importing(d) /\ local'[d] = local[d]
              \/ Offered(local'[d])
        BY <2>2 DEF Importing
      <3>2. QED
        BY <1>1, <2>2, <3>1, ImportInvKept
    <2>3. CASE AddRemote(c)
      <3>1. PICK given \in ByHand, id \in ids :
              SaveRemote(c, [id |-> id, name |-> given.name, alias |-> given.alias,
                             host |-> given.host, port |-> None,
                             environment |-> "production", source |-> None])
        BY <2>3 DEF AddRemote
      <3> DEFINE remote == [id |-> id, name |-> given.name, alias |-> given.alias,
                            host |-> given.host, port |-> None,
                            environment |-> "production", source |-> None]
      <3>2. remote.source = None
        OBVIOUS
      <3>3. sshFiles' = sshFiles /\ doing' = doing /\ local' = local /\ ~Importing(c)
        BY <2>3 DEF AddRemote, Idle, Importing
      <3> HIDE DEF remote
      <3>4. ~Importing(c)'
        BY <3>3 DEF Importing
      <3>5. SaveRemote(c, remote)
        BY <3>1 DEF remote
      <3>6. QED
        BY <1>1, <2>0, <3>2, <3>3, <3>4, <3>5, RegisteredMeanwhile
    <2>4. CASE StartRemove(c)
      <3>1. PICK r : Turn(c, "removing", [kind |-> "remove", remote |-> r.id])
        BY <2>4 DEF StartRemove
      <3>2. QED
        BY <2>1, <2>2, <2>4, <3>1 DEF StartRemove
    <2>5. CASE DeleteRemote(c)
      <3>1. remotes' \subseteq remotes
        BY <2>5 DEF DeleteRemote
      <3>2. QED
        BY <2>1, <2>2, <2>5, <3>1 DEF DeleteRemote, Ends
    <2>6. CASE StartImport(c)
      <3>1. PICK follow \in BOOLEAN :
              Turn(c, "choosing", [kind |-> "import",
                hosts |-> FreshHosts(UsableHosts(ReadConfigFile(sshFiles, Main, follow)))])
        BY <2>6 DEF StartImport
      <3> DEFINE hosts == UsableHosts(ReadConfigFile(sshFiles, Main, follow))
                 l == [kind |-> "import", hosts |-> FreshHosts(hosts)]
      <3>2. /\ \A h \in hosts : AsWritten(sshFiles, h.alias, h.hostname, h.port, h.source)
            /\ \A h, g \in hosts : h.alias = g.alias => h = g
        BY <1>1, OfferedAsWritten DEF ImportInv
      <3>3. Turned("choosing", l)
        BY <2>1, <3>1
      <3> HIDE DEF hosts
      <3>4. l.hosts = FreshHosts(hosts)
        OBVIOUS
      <3>5. /\ FreshHosts(hosts) \subseteq hosts
            /\ \A h \in FreshHosts(hosts), r \in remotes : r.alias # h.alias
        BY DEF FreshHosts
      <3>6. Offered(l)
        BY <3>2, <3>4, <3>5 DEF Offered
      <3> HIDE DEF l
      <3>7. QED
        BY <2>2, <2>6, <3>3, <3>6 DEF StartImport
    <2>7. CASE Choose(c)
      <3>1. Offered(local[c])
        BY <1>1, <2>7 DEF Choose, ImportInv, Importing
      <3>2. PICK chosen \in SUBSET local[c].hosts :
              IF chosen = {} THEN Ends(c)
              ELSE Turn(c, "saving", [local[c] EXCEPT !.hosts = chosen])
        BY <2>7 DEF Choose
      <3>3. sshFiles' = sshFiles /\ remotes' = remotes /\ overlapped' = overlapped
        BY <2>7 DEF Choose
      <3>4. CASE chosen = {}
        BY <2>1, <2>2, <3>2, <3>3, <3>4 DEF Ends
      <3>5. CASE chosen # {}
        <4> DEFINE l == [local[c] EXCEPT !.hosts = chosen]
        <4>1. l = [kind |-> "import", hosts |-> chosen]
          BY <3>1 DEF Offered
        <4>2. Turned("saving", l)
          BY <2>1, <3>2, <3>5
        <4> HIDE DEF l
        <4>3. l.hosts = chosen
          BY <4>1
        <4>4. Offered(l)
          BY <3>1, <4>1, <4>3 DEF Offered
        <4>5. QED
          BY <2>2, <3>3, <4>2, <4>4
      <3>6. QED
        BY <3>4, <3>5
    <2>8. CASE SaveImported(c)
      <3>1. PICK h \in local[c].hosts, id \in ids :
              /\ SaveRemote(c, [id |-> id, name |-> h.alias, alias |-> h.alias,
                                host |-> h.hostname, port |-> h.port,
                                environment |-> GuessEnvironment(h.alias), source |-> h.source])
              /\ IF local[c].hosts = {h} THEN Ends(c)
                 ELSE Turn(c, "saving", [local[c] EXCEPT !.hosts = @ \ {h}])
        BY <2>8 DEF SaveImported
      <3> DEFINE remote == [id |-> id, name |-> h.alias, alias |-> h.alias,
                            host |-> h.hostname, port |-> h.port,
                            environment |-> GuessEnvironment(h.alias), source |-> h.source]
                 l == [local[c] EXCEPT !.hosts = @ \ {h}]
      <3>2. /\ remote.alias = h.alias /\ remote.host = h.hostname
            /\ remote.port = h.port /\ remote.source = h.source
        OBVIOUS
      <3>3. Offered(local[c]) /\ sshFiles' = sshFiles
        BY <1>1, <2>8 DEF SaveImported, ImportInv, Importing
      <3>4. l = [kind |-> "import", hosts |-> local[c].hosts \ {h}]
        BY <3>3 DEF Offered
      <3>5. SaveRemote(c, remote) /\ (Turned("idle", Nothing) \/ Turned("saving", l))
        BY <2>1, <3>1 DEF Ends
      <3> HIDE DEF remote, l
      <3>6. l.hosts = local[c].hosts \ {h}
        BY <3>4
      <3>7. Offered(l) /\ \A g \in l.hosts : g.alias # remote.alias
        BY <3>2, <3>3, <3>4, <3>6 DEF Offered
      <3>8. /\ AsWritten(sshFiles, remote.alias, remote.host, remote.port, remote.source)
            /\ \A q \in remotes : q.alias = remote.alias => q.alias \in overlapped
        BY <3>2, <3>3 DEF Offered
      <3>9. Importing(c)' => Offered(local'[c]) /\ \A g \in local'[c].hosts : g.alias # remote.alias
        BY <3>5, <3>7 DEF Importing
      <3>10. /\ doing' = [d \in Commands |-> doing'[d]] /\ local' = [d \in Commands |-> local'[d]]
             /\ \A d \in Commands \ {c} : doing'[d] = doing[d] /\ local'[d] = local[d]
        BY <3>5
      <3>11. QED
        BY <1>1, <3>3, <3>5, <3>8, <3>9, <3>10, RegisteredMeanwhile
    <2>9. CASE StartDeploy(c)
      <3>1. PICK read : Turn(c, "deploying", read)
        BY <2>9 DEF StartDeploy
      <3>2. sshFiles' = sshFiles /\ remotes' = remotes /\ overlapped' = overlapped
        BY <2>9 DEF StartDeploy
      <3>3. QED
        BY <2>1, <2>2, <3>1, <3>2
    <2>10. CASE SaveDeployments(c)
      BY <2>1, <2>2, <2>10 DEF SaveDeployments, Ends
    <2>11. CASE CommandDies(c)
      BY <2>1, <2>2, <2>11 DEF CommandDies, Ends
    <2>12. QED
      BY <1>3, <2>3, <2>4, <2>5, <2>6, <2>7, <2>8, <2>9, <2>10, <2>11 DEF ServersStep
  <1>4. QED
    BY <1>1, <1>2, <1>3 DEF ServersNext

\* ssh-config.ts: what is registered of an imported host is what the first block of its
\* alias says, in the file ssh starts from if that has the alias, for any files that
\* include each other and whatever else is registered while the user chooses.
THEOREM Imported == ServersSpec => []ImportedAsWritten
  <1>1. ImportInv => ImportedAsWritten
    BY DEF ImportInv, ImportedAsWritten, AsWritten
  <1>2. QED
    BY <1>1, ImportInit, ImportNext, PTL DEF ServersSpec

(***************************************************************************)
(* The plugin                                                              *)
(***************************************************************************)

Jobs == [kind : {"none", "integrate", "remove", "uninstall"}, repair : BOOLEAN, purge : BOOLEAN,
         only : BOOLEAN, all : BOOLEAN, yes : BOOLEAN, interactive : BOOLEAN]

ClaudeRecords == [onPath : BOOLEAN, market : {"none", "here", "elsewhere"},
                  copy : {Gone, Unknown} \cup Nat, enabled : {"absent", "yes", "no"}]

Tasks == {"idle", "check", "look", "compare", "deregister", "register", "install", "removing",
           "purge", "data", "done"}

Reports == {"none", "plugin-dir-not-found", "build-missing", "claude-not-found", "failed",
            "installed", "updated", "already-installed", "nothing-to-remove", "removed",
            "not-removed"}

PluginTypes ==
  /\ package \in [files : {"missing", "unbuilt", "built"}, version : Nat]
  /\ claude \in ClaudeRecords
  /\ data \in BOOLEAN
  /\ does \in [Terminals -> Tasks]
  /\ job \in [Terminals -> Jobs]
  /\ seen \in [Terminals -> [enabled : BOOLEAN, outdated : BOOLEAN, home : BOOLEAN]]
  /\ status \in [Terminals -> Reports]
  /\ undisturbed \in [Terminals -> BOOLEAN]

\* Claude Code has no copy of a plugin whose marketplace it does not know.
NoCopyAlone == claude.market = "none" => claude.copy = Gone

\* The command sets the plugin up from this package, whatever was there.
Anew(t) == job[t].repair \/ seen[t].outdated

\* What is so of a command that nothing has disturbed, by what it does next.
Known(t) ==
  /\ does[t] = "compare" => seen[t].enabled = IsPluginEnabled
  /\ does[t] = "deregister" => Anew(t)
  /\ does[t] = "register" /\ Anew(t) => claude.market = "none" \/ ~claude.onPath
  /\ does[t] = "install" /\ Anew(t) => claude.market = "here" /\ claude.copy = Gone
  /\ does[t] = "purge" => claude.onPath /\ claude.copy = Gone /\ status[t] \in {"removed", "not-removed"}
  /\ does[t] = "data" => /\ job[t].kind = "uninstall"
                       /\ status[t] \in {"removed", "not-removed", "nothing-to-remove"}
  /\ does[t] = "done" /\ status[t] \in {"installed", "updated", "already-installed"} =>
       IsPluginEnabled /\ (Anew(t) => claude.copy = package.version /\ claude.market = "here")
  /\ does[t] \in {"data", "done"} /\ status[t] \in {"removed", "not-removed"} =>
       claude.copy = Gone /\ (job[t].purge => claude.market = "none")
  /\ seen[t].home /\ ~data => job[t].kind = "uninstall" /\ job[t].interactive

PInv == PluginTypes /\ NoCopyAlone /\ \A t \in Terminals : undisturbed[t] => Known(t)

LEMMA CommandsAre == NoJob \in Jobs /\ UserCommands \subseteq Jobs
  <1>1. NoJob \in Jobs /\ \A b \in BOOLEAN : Integrate(b) \in Jobs /\ RemovePlugin(b) \in Jobs
    BY DEF Jobs, NoJob, Integrate, RemovePlugin
  <1>2. Uninstalls \subseteq Jobs
    BY DEF Jobs, Uninstalls
  <1>3. QED
    BY <1>1, <1>2 DEF UserCommands

\* What a call comes to: its work is done or nothing is, and without trouble it
\* answers as Claude Code does, or fails for want of it.
LEMMA CallIs ==
  ASSUME NEW call, NEW r \in RunClaude(call)
  PROVE  /\ r.claude \in {claude, call.claude} /\ r.trouble \in BOOLEAN
         /\ ~r.trouble /\ claude.onPath => r.claude = call.claude /\ r.answer = call.answer
         /\ ~r.trouble /\ ~claude.onPath => r.claude = claude /\ r.answer = "failed"
         /\ r.answer # "failed" => r.claude = call.claude /\ claude.onPath /\ r.answer = call.answer
  <1>1. \/ claude.onPath /\ r = [claude |-> call.claude, answer |-> call.answer, trouble |-> FALSE]
        \/ ~claude.onPath /\ r = [claude |-> claude, answer |-> "failed", trouble |-> FALSE]
        \/ r = [claude |-> claude, answer |-> "failed", trouble |-> TRUE]
        \/ r = [claude |-> call.claude, answer |-> "failed", trouble |-> TRUE]
    BY DEF RunClaude
  <1>2. CASE claude.onPath /\ r = [claude |-> call.claude, answer |-> call.answer, trouble |-> FALSE]
    BY <1>2
  <1>3. CASE ~claude.onPath /\ r = [claude |-> claude, answer |-> "failed", trouble |-> FALSE]
    BY <1>3
  <1>4. CASE r = [claude |-> claude, answer |-> "failed", trouble |-> TRUE]
    BY <1>4
  <1>5. CASE r = [claude |-> call.claude, answer |-> "failed", trouble |-> TRUE]
    BY <1>5
  <1>6. QED
    BY <1>1, <1>2, <1>3, <1>4, <1>5

\* What becomes of Claude Code's records.
LEMMA CallsAre ==
  ASSUME PluginTypes, NoCopyAlone
  PROVE  /\ \A call \in {MarketplaceRemove, MarketplaceAdd, PluginInstall, PluginUninstall} :
              /\ call.claude \in ClaudeRecords /\ call.answer \in {"ok", "already", "failed"}
              /\ call.claude.market = "none" => call.claude.copy = Gone
              /\ call.claude.onPath = claude.onPath
         /\ MarketplaceRemove.claude.market = "none"
         /\ MarketplaceAdd.answer # "failed"
         /\ claude.market = "none" => /\ MarketplaceAdd.claude.market = "here"
                                      /\ MarketplaceAdd.claude.copy = Gone
         /\ PluginInstall.answer # "failed" => PluginInstall.claude.enabled = "yes"
         /\ claude.market = "here" /\ claude.copy = Gone =>
              PluginInstall.claude.copy = package.version /\ PluginInstall.claude.market = "here"
         /\ PluginUninstall.claude.copy = Gone
         /\ PluginUninstall.answer \in {"ok", "failed"}
         /\ claude.copy = Gone => MarketplaceRemove.claude.copy = Gone
  <1> USE DEF PluginTypes, NoCopyAlone, ClaudeRecords
  <1> DEFINE Fine(call) == /\ call.claude \in ClaudeRecords /\ call.answer \in {"ok", "already", "failed"}
                           /\ call.claude.market = "none" => call.claude.copy = Gone
                           /\ call.claude.onPath = claude.onPath
  <1>1. /\ Fine(MarketplaceRemove) /\ MarketplaceRemove.claude.market = "none"
        /\ claude.copy = Gone => MarketplaceRemove.claude.copy = Gone
    BY DEF MarketplaceRemove
  <1>2. /\ Fine(MarketplaceAdd) /\ MarketplaceAdd.answer # "failed"
        /\ claude.market = "none" => /\ MarketplaceAdd.claude.market = "here"
                                     /\ MarketplaceAdd.claude.copy = Gone
    BY DEF MarketplaceAdd
  <1>3. /\ Fine(PluginInstall)
        /\ PluginInstall.answer # "failed" => PluginInstall.claude.enabled = "yes"
        /\ claude.market = "here" /\ claude.copy = Gone =>
             PluginInstall.claude.copy = package.version /\ PluginInstall.claude.market = "here"
    BY DEF PluginInstall, Served, OtherVersion
  <1>4. /\ Fine(PluginUninstall) /\ PluginUninstall.claude.copy = Gone
        /\ PluginUninstall.answer \in {"ok", "failed"}
    BY DEF PluginUninstall
  <1>5. QED
    BY <1>1, <1>2, <1>3, <1>4

LEMMA PluginStarts == PluginInit => PInv
  <1> SUFFICES ASSUME PluginInit PROVE PInv
    OBVIOUS
  <1>1. package \in [files : {"missing", "unbuilt", "built"}, version : Nat]
    BY DEF PluginInit
  <1>2. claude \in ClaudeRecords
    BY DEF PluginInit, ClaudeRecords
  <1>3. PluginTypes
    <2>1. /\ does \in [Terminals -> Tasks] /\ data \in BOOLEAN /\ status \in [Terminals -> Reports]
      BY DEF PluginInit, Tasks, Reports
    <2>5. undisturbed \in [Terminals -> BOOLEAN]
      BY DEF PluginInit
    <2>2. job \in [Terminals -> Jobs]
      BY CommandsAre DEF PluginInit
    <2>3. seen \in [Terminals -> [enabled : BOOLEAN, outdated : BOOLEAN, home : BOOLEAN]]
      BY DEF PluginInit, NothingSeen
    <2>4. QED
      BY <1>1, <1>2, <2>1, <2>2, <2>3, <2>5 DEF PluginTypes
  <1>4. \A t \in Terminals : Known(t)
    BY DEF PluginInit, Known, NothingSeen
  <1>5. QED
    BY <1>3, <1>4 DEF PluginInit, PInv, NoCopyAlone

\* What a call changes: Claude Code's records, by what it comes to.
LEMMA CallChanges ==
  ASSUME PInv, NEW t \in Terminals, NEW r,
         NEW call \in {MarketplaceRemove, MarketplaceAdd, PluginInstall, PluginUninstall},
         r \in RunClaude(call), claude' = r.claude,
         undisturbed' = [u \in Terminals |-> IF u = t THEN undisturbed[u] /\ ~r.trouble
                                             ELSE undisturbed[u] /\ r.claude = claude]
  PROVE  /\ claude' \in ClaudeRecords /\ NoCopyAlone' /\ undisturbed' \in [Terminals -> BOOLEAN]
         /\ claude'.onPath = claude.onPath
         /\ undisturbed'[t] => undisturbed[t] /\ ~r.trouble
         /\ \A u \in Terminals \ {t} : undisturbed'[u] => undisturbed[u] /\ claude' = claude
  <1>1. r.claude \in {claude, call.claude} /\ r.trouble \in BOOLEAN
    BY CallIs
  <1>2. /\ claude \in ClaudeRecords /\ call.claude \in ClaudeRecords
        /\ call.claude.market = "none" => call.claude.copy = Gone
        /\ call.claude.onPath = claude.onPath
    BY CallsAre DEF PInv, PluginTypes, ClaudeRecords
  <1>3. claude' \in ClaudeRecords /\ NoCopyAlone' /\ claude'.onPath = claude.onPath
    BY <1>1, <1>2 DEF PInv, NoCopyAlone
  <1>4. QED
    BY <1>1, <1>3 DEF PInv, PluginTypes

\* A step is no concern of a command that stays as it was: it disturbs it, or
\* changes nothing that command goes by.
LEMMA OthersKnow ==
  ASSUME NEW t \in Terminals, undisturbed[t] => Known(t),
         does'[t] = does[t], job'[t] = job[t], seen'[t] = seen[t], status'[t] = status[t],
         undisturbed'[t] => undisturbed[t] /\ claude' = claude /\ data' = data
                            /\ package'.version = package.version
  PROVE  undisturbed'[t] => Known(t)'
  BY DEF Known, Anew, IsPluginEnabled

LEMMA CheckPackageKnows ==
  ASSUME PInv, NEW u \in Terminals, CheckPackage(u)
  PROVE  PInv'
  <1>1. PluginTypes' /\ NoCopyAlone'
    BY DEF PInv, PluginTypes, NoCopyAlone, Tasks, Reports, CheckPackage, GoOn, End, Refusal
  <1>2. ASSUME NEW t \in Terminals, t # u PROVE undisturbed'[t] => Known(t)'
    BY <1>2, OthersKnow DEF PInv, PluginTypes, CheckPackage, GoOn, End, Refusal
  <1>3. undisturbed'[u] => Known(u)'
    BY DEF PInv, PluginTypes, Known, Anew, IsPluginEnabled, CheckPackage, GoOn, End, Refusal
  <1>4. QED
    BY <1>1, <1>2, <1>3 DEF PInv

LEMMA LookEnabledKnows ==
  ASSUME PInv, NEW u \in Terminals, LookEnabled(u)
  PROVE  PInv'
  <1>1. PluginTypes' /\ NoCopyAlone'
    <2>1. seen' \in [Terminals -> [enabled : BOOLEAN, outdated : BOOLEAN, home : BOOLEAN]]
      <3>1. seen[u] \in [enabled : BOOLEAN, outdated : BOOLEAN, home : BOOLEAN]
        BY DEF PInv, PluginTypes
      <3>2. [seen[u] EXCEPT !.enabled = IsPluginEnabled]
              \in [enabled : BOOLEAN, outdated : BOOLEAN, home : BOOLEAN]
        BY <3>1 DEF IsPluginEnabled
      <3>3. seen' = [seen EXCEPT ![u] = [seen[u] EXCEPT !.enabled = IsPluginEnabled]]
        BY DEF LookEnabled, PInv, PluginTypes
      <3>4. QED
        BY <3>2, <3>3 DEF PInv, PluginTypes
    <2>2. QED
      BY <2>1 DEF PInv, PluginTypes, NoCopyAlone, Tasks, LookEnabled, GoOn
  <1>2. ASSUME NEW t \in Terminals, t # u PROVE undisturbed'[t] => Known(t)'
    BY <1>2, OthersKnow DEF PInv, PluginTypes, LookEnabled, GoOn
  <1>3. undisturbed'[u] => Known(u)'
    BY DEF PInv, PluginTypes, Known, Anew, IsPluginEnabled, LookEnabled, GoOn
  <1>4. QED
    BY <1>1, <1>2, <1>3 DEF PInv

LEMMA CompareVersionsKnows ==
  ASSUME PInv, NEW u \in Terminals, CompareVersions(u)
  PROVE  PInv'
  <1>1. PluginTypes' /\ NoCopyAlone'
    <2>1. seen' \in [Terminals -> [enabled : BOOLEAN, outdated : BOOLEAN, home : BOOLEAN]]
      <3>1. seen[u] \in [enabled : BOOLEAN, outdated : BOOLEAN, home : BOOLEAN]
        BY DEF PInv, PluginTypes
      <3>2. [seen[u] EXCEPT !.outdated = Outdated]
              \in [enabled : BOOLEAN, outdated : BOOLEAN, home : BOOLEAN]
        BY <3>1 DEF Outdated
      <3>3. QED
        BY <3>2 DEF CompareVersions, PInv, PluginTypes
    <2>2. QED
      BY <2>1 DEF PInv, PluginTypes, NoCopyAlone, Tasks, Reports, CompareVersions, GoOn, End
  <1>2. ASSUME NEW t \in Terminals, t # u PROVE undisturbed'[t] => Known(t)'
    BY <1>2, OthersKnow DEF PInv, PluginTypes, CompareVersions, GoOn, End, AlreadyInstalled, Reregisters
  <1>3. undisturbed'[u] => Known(u)'
    BY DEF PInv, PluginTypes, Known, Anew, IsPluginEnabled, CompareVersions, GoOn, End, AlreadyInstalled, Reregisters
  <1>4. QED
    BY <1>1, <1>2, <1>3 DEF PInv



LEMMA DeregisterKnows ==
  ASSUME PInv, NEW u \in Terminals, Deregister(u)
  PROVE  PInv'
  <1>1. PICK r \in RunClaude(MarketplaceRemove) :
          /\ claude' = r.claude
          /\ undisturbed' = [t \in Terminals |-> IF t = u THEN undisturbed[t] /\ ~r.trouble
                                                 ELSE undisturbed[t] /\ r.claude = claude]
          /\ does' = [does EXCEPT ![u] = "register"] /\ UNCHANGED status
          /\ UNCHANGED <<package, data, job, seen>>
    BY DEF Deregister, Call, GoOn
  <1>2. /\ claude' \in ClaudeRecords /\ NoCopyAlone' /\ undisturbed' \in [Terminals -> BOOLEAN]
        /\ claude'.onPath = claude.onPath
        /\ undisturbed'[u] => undisturbed[u] /\ ~r.trouble
        /\ \A t \in Terminals \ {u} : undisturbed'[t] => undisturbed[t] /\ claude' = claude
    BY <1>1, CallChanges
  <1>3. PluginTypes' /\ NoCopyAlone'
    BY <1>1, <1>2 DEF PInv, PluginTypes, NoCopyAlone, Tasks, Reports
  <1>4. ASSUME NEW t \in Terminals, t # u PROVE undisturbed'[t] => Known(t)'
    BY <1>1, <1>2, <1>4, OthersKnow DEF PInv, PluginTypes
  <1>5. undisturbed'[u] => Known(u)'
    BY <1>1, <1>2, <1>3, CallIs, CallsAre DEF PInv, PluginTypes, NoCopyAlone, ClaudeRecords, Known, Anew, IsPluginEnabled, Deregister
  <1>6. QED
    BY <1>3, <1>4, <1>5 DEF PInv

LEMMA RegisterKnows ==
  ASSUME PInv, NEW u \in Terminals, Register(u)
  PROVE  PInv'
  <1>1. PICK r \in RunClaude(MarketplaceAdd) :
          /\ claude' = r.claude
          /\ undisturbed' = [t \in Terminals |-> IF t = u THEN undisturbed[t] /\ ~r.trouble
                                                 ELSE undisturbed[t] /\ r.claude = claude]
          /\ IF r.answer = "failed"
             THEN does' = [does EXCEPT ![u] = "done"] /\ status' = [status EXCEPT ![u] = "failed"]
             ELSE does' = [does EXCEPT ![u] = "install"] /\ UNCHANGED status
          /\ UNCHANGED <<package, data, job, seen>>
    BY DEF Register, Call, GoOn, End
  <1>2. /\ claude' \in ClaudeRecords /\ NoCopyAlone' /\ undisturbed' \in [Terminals -> BOOLEAN]
        /\ claude'.onPath = claude.onPath
        /\ undisturbed'[u] => undisturbed[u] /\ ~r.trouble
        /\ \A t \in Terminals \ {u} : undisturbed'[t] => undisturbed[t] /\ claude' = claude
    BY <1>1, CallChanges
  <1>3. PluginTypes' /\ NoCopyAlone'
    BY <1>1, <1>2 DEF PInv, PluginTypes, NoCopyAlone, Tasks, Reports
  <1>4. ASSUME NEW t \in Terminals, t # u PROVE undisturbed'[t] => Known(t)'
    BY <1>1, <1>2, <1>4, OthersKnow DEF PInv, PluginTypes
  <1>5. undisturbed'[u] => Known(u)'
    BY <1>1, <1>2, <1>3, CallIs, CallsAre DEF PInv, PluginTypes, NoCopyAlone, ClaudeRecords, Known, Anew, IsPluginEnabled, Register
  <1>6. QED
    BY <1>3, <1>4, <1>5 DEF PInv

LEMMA InstallKnows ==
  ASSUME PInv, NEW u \in Terminals, Install(u)
  PROVE  PInv'
  <1>1. PICK r \in RunClaude(PluginInstall) :
          /\ claude' = r.claude
          /\ undisturbed' = [t \in Terminals |-> IF t = u THEN undisturbed[t] /\ ~r.trouble
                                                 ELSE undisturbed[t] /\ r.claude = claude]
          /\ does' = [does EXCEPT ![u] = "done"]
          /\ status' = [status EXCEPT ![u] = IF r.answer = "failed" THEN "failed"
                                            ELSE IF seen[u].enabled THEN "updated" ELSE "installed"]
          /\ UNCHANGED <<package, data, job, seen>>
    BY DEF Install, Call, End
  <1>2. /\ claude' \in ClaudeRecords /\ NoCopyAlone' /\ undisturbed' \in [Terminals -> BOOLEAN]
        /\ claude'.onPath = claude.onPath
        /\ undisturbed'[u] => undisturbed[u] /\ ~r.trouble
        /\ \A t \in Terminals \ {u} : undisturbed'[t] => undisturbed[t] /\ claude' = claude
    BY <1>1, CallChanges
  <1>3. PluginTypes' /\ NoCopyAlone'
    BY <1>1, <1>2 DEF PInv, PluginTypes, NoCopyAlone, Tasks, Reports
  <1>4. ASSUME NEW t \in Terminals, t # u PROVE undisturbed'[t] => Known(t)'
    BY <1>1, <1>2, <1>4, OthersKnow DEF PInv, PluginTypes
  <1>5. undisturbed'[u] => Known(u)'
    BY <1>1, <1>2, <1>3, CallIs, CallsAre DEF PInv, PluginTypes, NoCopyAlone, ClaudeRecords, Known, Anew, IsPluginEnabled, Install
  <1>6. QED
    BY <1>3, <1>4, <1>5 DEF PInv

LEMMA PurgeKnows ==
  ASSUME PInv, NEW u \in Terminals, Purge(u)
  PROVE  PInv'
  <1>1. PICK r \in RunClaude(MarketplaceRemove) :
          /\ claude' = r.claude
          /\ undisturbed' = [t \in Terminals |-> IF t = u THEN undisturbed[t] /\ ~r.trouble
                                                 ELSE undisturbed[t] /\ r.claude = claude]
          /\ does' = [does EXCEPT ![u] = IF job[u].kind = "uninstall" /\ seen[u].home /\ ~job[u].only
                                    THEN "data" ELSE "done"]
          /\ status' = [status EXCEPT ![u] = status[u]]
          /\ UNCHANGED <<package, data, job, seen>>
    BY DEF Purge, Call, AfterPlugin, End
  <1>2. /\ claude' \in ClaudeRecords /\ NoCopyAlone' /\ undisturbed' \in [Terminals -> BOOLEAN]
        /\ claude'.onPath = claude.onPath
        /\ undisturbed'[u] => undisturbed[u] /\ ~r.trouble
        /\ \A t \in Terminals \ {u} : undisturbed'[t] => undisturbed[t] /\ claude' = claude
    BY <1>1, CallChanges
  <1>3. PluginTypes' /\ NoCopyAlone'
    BY <1>1, <1>2 DEF PInv, PluginTypes, NoCopyAlone, Tasks, Reports
  <1>4. ASSUME NEW t \in Terminals, t # u PROVE undisturbed'[t] => Known(t)'
    BY <1>1, <1>2, <1>4, OthersKnow DEF PInv, PluginTypes
  <1>5. undisturbed'[u] => Known(u)'
    BY <1>1, <1>2, <1>3, CallIs, CallsAre DEF PInv, PluginTypes, NoCopyAlone, ClaudeRecords, Known, Anew, IsPluginEnabled, Purge
  <1>6. QED
    BY <1>3, <1>4, <1>5 DEF PInv

\* What remove and uninstall come to once the plugin is dealt with.
LEMMA UninstallPluginKnows ==
  ASSUME PInv, NEW u \in Terminals, UninstallPlugin(u)
  PROVE  PInv'
  <1> DEFINE after == IF job[u].kind = "uninstall" /\ seen[u].home /\ ~job[u].only THEN "data" ELSE "done"
  <1>1. CASE ~claude.onPath
    <2>1. /\ does[u] = "removing" /\ does' = [does EXCEPT ![u] = after]
          /\ status' = [status EXCEPT ![u] = "nothing-to-remove"]
          /\ UNCHANGED <<package, claude, data, job, seen, undisturbed>>
      BY <1>1 DEF UninstallPlugin, AfterPlugin, End
    <2>2. PluginTypes' /\ NoCopyAlone'
      BY <2>1 DEF PInv, PluginTypes, NoCopyAlone, Tasks, Reports
    <2>3. ASSUME NEW t \in Terminals, t # u PROVE undisturbed'[t] => Known(t)'
      BY <2>1, <2>3, OthersKnow DEF PInv, PluginTypes
    <2>4. undisturbed'[u] => Known(u)'
      BY <2>1 DEF PInv, PluginTypes, Known
    <2>5. QED
      BY <2>2, <2>3, <2>4 DEF PInv
  <1>2. CASE claude.onPath
    <2>1. PICK r \in RunClaude(PluginUninstall) :
            /\ claude' = r.claude
            /\ undisturbed' = [t \in Terminals |-> IF t = u THEN undisturbed[t] /\ ~r.trouble
                                                   ELSE undisturbed[t] /\ r.claude = claude]
            /\ does[u] = "removing"
            /\ does' = [does EXCEPT ![u] = IF job[u].purge THEN "purge" ELSE after]
            /\ status' = [status EXCEPT ![u] = IF r.answer = "ok" THEN "removed" ELSE "not-removed"]
            /\ UNCHANGED <<package, data, job, seen>>
      BY <1>2 DEF UninstallPlugin, Call, AfterPlugin, End
    <2>2. /\ claude' \in ClaudeRecords /\ NoCopyAlone' /\ undisturbed' \in [Terminals -> BOOLEAN]
          /\ claude'.onPath = claude.onPath
          /\ undisturbed'[u] => undisturbed[u] /\ ~r.trouble
          /\ \A t \in Terminals \ {u} : undisturbed'[t] => undisturbed[t] /\ claude' = claude
      BY <2>1, CallChanges
    <2>3. PluginTypes' /\ NoCopyAlone'
      BY <2>1, <2>2 DEF PInv, PluginTypes, NoCopyAlone, Tasks, Reports
    <2>4. ASSUME NEW t \in Terminals, t # u PROVE undisturbed'[t] => Known(t)'
      BY <2>1, <2>2, <2>4, OthersKnow DEF PInv, PluginTypes
    <2>5. undisturbed'[u] => Known(u)'
      <3> SUFFICES ASSUME undisturbed'[u] PROVE Known(u)'
        OBVIOUS
      <3>1. claude' = PluginUninstall.claude
        BY <1>2, <2>1, <2>2, CallIs
      <3>2. claude'.copy = Gone /\ claude'.onPath
        BY <1>2, <2>2, <3>1, CallsAre DEF PInv
      <3>3. /\ does'[u] = IF job[u].purge THEN "purge" ELSE after
            /\ status'[u] \in {"removed", "not-removed"}
            /\ job'[u] = job[u] /\ seen'[u] = seen[u] /\ data' = data
        BY <2>1 DEF PInv, PluginTypes
      <3>4. seen[u].home /\ ~data => job[u].kind = "uninstall" /\ job[u].interactive
        BY <2>2 DEF PInv, Known
      <3>5. QED
        BY <3>2, <3>3, <3>4 DEF Known
    <2>6. QED
      BY <2>3, <2>4, <2>5 DEF PInv
  <1>3. QED
    BY <1>1, <1>2

LEMMA AskAboutDataKnows ==
  ASSUME PInv, NEW u \in Terminals, AskAboutData(u)
  PROVE  PInv'
  <1>1. PICK choice \in {"keep", "delete"}, answer \in BOOLEAN :
          /\ does[u] = "data" /\ data' = (data /\ ~MayDelete(job[u], choice, answer))
          /\ IF data' = data THEN UNCHANGED undisturbed ELSE DisturbOthers(u)
          /\ does' = [does EXCEPT ![u] = "done"] /\ status' = [status EXCEPT ![u] = status[u]]
          /\ UNCHANGED <<package, claude, job, seen>>
    BY DEF AskAboutData, End
  <1>2. MayDelete(job[u], choice, answer) => job[u].interactive
    BY DEF MayDelete, Confirm
  <1>3. /\ undisturbed' \in [Terminals -> BOOLEAN] /\ data' \in BOOLEAN
        /\ undisturbed'[u] => undisturbed[u]
        /\ \A t \in Terminals \ {u} : undisturbed'[t] => undisturbed[t] /\ data' = data
    BY <1>1 DEF DisturbOthers, PInv, PluginTypes
  <1>4. PluginTypes' /\ NoCopyAlone'
    BY <1>1, <1>3 DEF PInv, PluginTypes, NoCopyAlone, Tasks, Reports
  <1>5. ASSUME NEW t \in Terminals, t # u PROVE undisturbed'[t] => Known(t)'
    BY <1>1, <1>3, <1>5, OthersKnow DEF PInv, PluginTypes
  <1>6. undisturbed'[u] => Known(u)'
    BY <1>1, <1>2, <1>3 DEF PInv, PluginTypes, Known, Anew, IsPluginEnabled
  <1>7. QED
    BY <1>4, <1>5, <1>6 DEF PInv

LEMMA StartKnows ==
  ASSUME PInv, NEW u \in Terminals, NEW command \in UserCommands, NEW at \in {"check", "removing"},
         Start(u, command, at), UNCHANGED <<package, claude, data>>
  PROVE  PInv'
  <1>1. PluginTypes' /\ NoCopyAlone'
    <2>1. seen' \in [Terminals -> [enabled : BOOLEAN, outdated : BOOLEAN, home : BOOLEAN]]
      BY DEF Start, PInv, PluginTypes, NothingSeen
    <2>2. QED
      BY <2>1, CommandsAre DEF Start, PInv, PluginTypes, NoCopyAlone, Tasks, Reports
  <1>2. ASSUME NEW t \in Terminals, t # u PROVE undisturbed'[t] => Known(t)'
    BY <1>2, OthersKnow DEF Start, PInv, PluginTypes
  <1>3. Known(u)'
    BY DEF Start, Known, PInv, PluginTypes, NothingSeen
  <1>4. QED
    BY <1>1, <1>2, <1>3 DEF PInv

LEMMA InterruptKnows ==
  ASSUME PInv, NEW u \in Terminals, Interrupt(u)
  PROVE  PInv'
  <1>1. PluginTypes' /\ NoCopyAlone'
    BY DEF Interrupt, PInv, PluginTypes, NoCopyAlone, Tasks
  <1>2. ASSUME NEW t \in Terminals, t # u PROVE undisturbed'[t] => Known(t)'
    BY <1>2, OthersKnow DEF Interrupt, PInv, PluginTypes
  <1>3. undisturbed'[u] => Known(u)'
    BY DEF Interrupt, Known, PInv, PluginTypes
  <1>4. QED
    BY <1>1, <1>2, <1>3 DEF PInv

LEMMA ReinstallKnows ==
  ASSUME PInv, NEW u \in Terminals, Reinstall(u)
  PROVE  PInv'
  <1>1. /\ undisturbed' \in [Terminals -> BOOLEAN]
        /\ \A t \in Terminals : undisturbed'[t] => undisturbed[t]
    BY DEF Reinstall, DisturbOthers, PInv, PluginTypes
  <1>2. /\ package' \in [files : {"missing", "unbuilt", "built"}, version : Nat]
        /\ package'.version = package.version
    BY DEF Reinstall, PInv, PluginTypes
  <1>3. PluginTypes' /\ NoCopyAlone'
    BY <1>1, <1>2 DEF Reinstall, PInv, PluginTypes, NoCopyAlone
  <1>4. \A t \in Terminals : undisturbed'[t] => Known(t)'
    BY <1>1, <1>2, OthersKnow DEF Reinstall, PInv
  <1>5. QED
    BY <1>3, <1>4 DEF PInv

LEMMA MeddleKnows ==
  ASSUME PInv, Meddle
  PROVE  PInv'
  <1>1. package' \in [files : {"missing", "unbuilt", "built"}, version : Nat] /\ data' \in BOOLEAN
    <2>1. \/ UNCHANGED <<package, data>>
          \/ data' = TRUE /\ UNCHANGED package
          \/ package' \in [files : {"unbuilt", "built"}, version : {package.version + 1}] /\ UNCHANGED data
      BY DEF Meddle
    <2>2. package.version + 1 \in Nat
      BY DEF PInv, PluginTypes
    <2>3. package' \in [files : {"unbuilt", "built"}, version : {package.version + 1}] =>
            package' \in [files : {"missing", "unbuilt", "built"}, version : Nat]
      BY <2>2
    <2>4. QED
      BY <2>1, <2>3 DEF PInv, PluginTypes
  <1>2. claude' \in ClaudeRecords /\ NoCopyAlone'
    BY DEF Meddle, PInv, PluginTypes, NoCopyAlone, ClaudeRecords
  <1>3. undisturbed' \in [Terminals -> BOOLEAN] /\ \A t \in Terminals : ~undisturbed'[t]
    BY DEF Meddle
  <1>4. QED
    BY <1>1, <1>2, <1>3 DEF Meddle, PInv, PluginTypes

LEMMA PInvKept == PInv /\ [PluginNext]_pluginVars => PInv'
  <1> SUFFICES ASSUME PInv, [PluginNext]_pluginVars PROVE PInv'
    OBVIOUS
  <1>1. CASE Meddle
    BY <1>1, MeddleKnows
  <1>2. ASSUME NEW t \in Terminals, TerminalStep(t) PROVE PInv'
    BY <1>2, CheckPackageKnows, LookEnabledKnows, CompareVersionsKnows, DeregisterKnows,
       RegisterKnows, InstallKnows, UninstallPluginKnows, PurgeKnows, AskAboutDataKnows DEF TerminalStep
  <1>3. ASSUME NEW t \in Terminals, Run(t) PROVE PInv'
    <2>1. PICK command \in UserCommands :
            Start(t, command, IF command.kind = "integrate" THEN "check" ELSE "removing")
      BY <1>3 DEF Run
    <2>2. QED
      BY <1>3, <2>1, StartKnows DEF Run
  <1>4. ASSUME NEW t \in Terminals, Interrupt(t) \/ Reinstall(t) PROVE PInv'
    BY <1>4, InterruptKnows, ReinstallKnows
  <1>5. ASSUME NEW t \in Terminals, FollowAdvice(t) PROVE PInv'
    BY <1>5, StartKnows DEF FollowAdvice, UserCommands
  <1>6. CASE UNCHANGED pluginVars
    <2>1. ASSUME NEW t \in Terminals PROVE undisturbed'[t] => Known(t)'
      BY <1>6, OthersKnow DEF pluginVars, PInv
    <2>2. QED
      BY <1>6, <2>1 DEF pluginVars, PInv, PluginTypes, NoCopyAlone
  <1>7. QED
    BY <1>1, <1>2, <1>3, <1>4, <1>5, <1>6 DEF PluginNext

\* install.ts: what a command reports about the plugin is so, for any number of terminals
\* and any versions, unless one of its calls failed or something was changed behind its
\* back: installed and updated mean enabled, and after an upgrade or a repair of the
\* version and from the directory of this package; removed means no copy is left; and
\* the data is only gone after an uninstall at a terminal.
THEOREM ReportsAreTrue == PluginSpec => []ReportIsTrue
  <1>1. PInv => ReportIsTrue
    BY DEF PInv, Known, Anew, ReportIsTrue
  <1>2. QED
    BY PluginStarts, PInvKept, <1>1, PTL DEF PluginSpec
=============================================================================
