--------------------------- MODULE GitSyncProofs ---------------------------
(***************************************************************************)
(* What GitSync promises, for any number of machines, records, edits,      *)
(* failures and syncs cut off: machines only ever add to the history they  *)
(* share, no record that reached it is silently lost, and no version that  *)
(* anybody wrote disappears unless a decision or a newer version took it.  *)
(*                                                                         *)
(* All of it rests on what a replay of commits can come to, however many   *)
(* there are.  That is an induction over the commits, which the proofs do  *)
(* by asking for the least number at which it would go wrong (Least).      *)
(***************************************************************************)
EXTENDS GitSync, WellFoundedInduction, TLAPS

(***************************************************************************)
(* Histories                                                               *)
(***************************************************************************)

\* Every set of naturals has a least one: what takes the place of induction below.
LEMMA Least ==
  ASSUME NEW T \in SUBSET Nat, T # {}
  PROVE  \E n \in T : \A k \in T : n <= k
  <1>1. IsWellFoundedOn(OpToRel(<, Nat), Nat)
    BY NatLessThanWellFounded, Zenon
  <1>2. PICK n \in T : \A k \in T : <<k, n>> \notin OpToRel(<, Nat)
    BY ONLY <1>1, T \in SUBSET Nat, T # {}, WFMin, Zenon
  <1>3. \A k \in T : ~(k < n)
    BY <1>2, Zenon DEF OpToRel
  <1>4. QED
    BY <1>3

\* History t begins with history s.
Begins(s, t) == Len(s) <= Len(t) /\ \A i \in 1..Len(s) : s[i] = t[i]

\* Two histories agree on their first n commits, and on no more.
Agree(s, t, n) ==
  /\ n \in Nat /\ n <= Len(s) /\ n <= Len(t)
  /\ \A i \in 1..n : s[i] = t[i]
  /\ n < Len(s) /\ n < Len(t) => s[n + 1] # t[n + 1]

LEMMA AgreeOnce ==
  ASSUME NEW s \in Seq(Trees), NEW t \in Seq(Trees), NEW n, NEW k, Agree(s, t, n), Agree(s, t, k)
  PROVE  n = k
  <1>1. ASSUME NEW i \in Nat, NEW j \in Nat, Agree(s, t, i), Agree(s, t, j), i < j PROVE FALSE
    BY <1>1 DEF Agree
  <1>2. QED
    BY <1>1 DEF Agree

LEMMA AgreeSomewhere ==
  ASSUME NEW s \in Seq(Trees), NEW t \in Seq(Trees)
  PROVE  \E n \in 0..Len(s) : Agree(s, t, n)
  <1> DEFINE T == {n \in Nat : n >= Len(s) \/ n >= Len(t) \/ s[n + 1] # t[n + 1]}
  <1>1. Len(s) \in T
    OBVIOUS
  <1>2. PICK n \in T : \A k \in T : n <= k
    BY <1>1, Least
  <1>3. \A k \in 0..n - 1 : k < Len(s) /\ k < Len(t) /\ s[k + 1] = t[k + 1]
    <2>1. TAKE k \in 0..n - 1
    <2>2. n \in Nat
      OBVIOUS
    <2>3. k \in Nat /\ ~(n <= k)
      BY <2>2
    <2>4. k \notin T
      <3> HIDE DEF T
      <3>1. QED
        BY <1>2, <2>3
    <2>5. QED
      BY <2>3, <2>4
  <1>4. n <= Len(s) /\ n <= Len(t)
    <2>1. CASE n = 0
      BY <2>1
    <2>2. CASE n # 0
      <3>1. n - 1 \in 0..n - 1
        BY <2>2
      <3>2. QED
        BY <3>1, <1>3
    <2>3. QED
      BY <2>1, <2>2
  <1>5. \A i \in 1..n : s[i] = t[i]
    <2>1. TAKE i \in 1..n
    <2>2. i - 1 \in 0..n - 1 /\ (i - 1) + 1 = i
      OBVIOUS
    <2>3. QED
      BY <2>2, <1>3
  <1>6. QED
    BY <1>2, <1>4, <1>5 DEF Agree

\* What Common computes is where two histories stop agreeing.
LEMMA CommonAgrees ==
  ASSUME NEW s \in Seq(Trees), NEW t \in Seq(Trees)
  PROVE  Agree(s, t, Common(s, t))
  <1> DEFINE Is(n) == /\ n <= Len(t) /\ SubSeq(s, 1, n) = SubSeq(t, 1, n)
                      /\ n < Len(s) /\ n < Len(t) => s[n + 1] # t[n + 1]
  <1>1. ASSUME NEW n \in 0..Len(s), n <= Len(t)
        PROVE SubSeq(s, 1, n) = SubSeq(t, 1, n) <=> \A i \in 1..n : s[i] = t[i]
    <2>1. /\ SubSeq(s, 1, n) = [i \in 1..n |-> s[i]]
          /\ SubSeq(t, 1, n) = [i \in 1..n |-> t[i]]
      BY <1>1
    <2>2. QED
      BY <2>1
  <1>2. \A n \in 0..Len(s) : Is(n) <=> Agree(s, t, n)
    BY <1>1 DEF Agree
  <1>3. \E n \in 0..Len(s) : Is(n)
    BY <1>2, AgreeSomewhere
  <1>4. Common(s, t) \in 0..Len(s) /\ Is(Common(s, t))
    BY <1>3 DEF Common
  <1>5. QED
    BY <1>2, <1>4

LEMMA CommonIs ==
  ASSUME NEW s \in Seq(Trees), NEW t \in Seq(Trees), NEW n, Agree(s, t, n)
  PROVE  Common(s, t) = n
  BY AgreeOnce, CommonAgrees

\* The more two histories hold, the more they have in common; and once the second
\* has more than that, it stays.
LEMMA CommonGrows ==
  ASSUME NEW s \in Seq(Trees), NEW t \in Seq(Trees), NEW u \in Seq(Trees), NEW v \in Seq(Trees),
         Begins(s, u), Begins(t, v)
  PROVE  /\ Common(s, t) <= Common(u, v)
         /\ s = u /\ Common(s, t) < Len(t) => Common(u, v) = Common(s, t)
  <1>1. Agree(s, t, Common(s, t)) /\ Agree(u, v, Common(u, v))
    BY CommonAgrees
  <1>2. CASE Common(u, v) < Common(s, t)
    <2> DEFINE c == Common(u, v)
               n == Common(s, t)
    <2> HIDE DEF c, n
    <2>1. n \in Nat /\ n <= Len(s) /\ n <= Len(t) /\ \A i \in 1..n : s[i] = t[i]
      BY <1>1 DEF n, Agree
    <2>2. c \in Nat /\ c < n /\ (c < Len(u) /\ c < Len(v) => u[c + 1] # v[c + 1])
      BY <1>1, <1>2 DEF c, n, Agree
    <2>3. /\ c + 1 \in 1..n /\ c + 1 \in 1..Len(s) /\ c + 1 \in 1..Len(t) /\ Len(s) <= Len(u)
          /\ Len(t) <= Len(v)
      BY <2>1, <2>2 DEF Begins
    <2>4. /\ s[c + 1] = t[c + 1] /\ s[c + 1] = u[c + 1] /\ t[c + 1] = v[c + 1] /\ c < Len(u)
          /\ c < Len(v)
      BY <2>1, <2>2, <2>3 DEF Begins
    <2>5. QED
      BY <2>2, <2>4
  <1>3. CASE s = u /\ Common(s, t) < Len(t)
    <2> DEFINE n == Common(s, t)
    <2> HIDE DEF n
    <2>1. /\ n \in Nat /\ n <= Len(s) /\ n < Len(t) /\ \A i \in 1..n : s[i] = t[i]
          /\ n < Len(s) => s[n + 1] # t[n + 1]
      BY <1>1, <1>3 DEF n, Agree
    <2>2. n + 1 \in 1..Len(t) /\ Len(t) <= Len(v) /\ \A i \in 1..Len(t) : t[i] = v[i]
      BY <2>1 DEF Begins
    <2>3. n <= Len(v) /\ (\A i \in 1..n : s[i] = v[i]) /\ (n < Len(s) => s[n + 1] # v[n + 1])
      BY <2>1, <2>2
    <2>4. Agree(u, v, n)
      BY <1>3, <2>1, <2>3 DEF Agree
    <2>5. QED
      BY <2>4, CommonIs DEF n, Agree
  <1>4. QED
    BY <1>1, <1>2, <1>3 DEF Agree

\* A branch against the first k commits of the remote.
LEMMA CommonOfFirst ==
  ASSUME NEW s \in Seq(Trees), NEW t \in Seq(Trees), NEW k \in 0..Len(t)
  PROVE  LET first == SubSeq(t, 1, k) IN
           /\ first \in Seq(Trees) /\ Len(first) = k /\ Begins(first, t)
           /\ Common(s, first) <= k
           /\ Common(s, first) < k => Common(s, t) = Common(s, first)
           /\ Common(s, first) = k => Begins(first, s)
           /\ Begins(first, s) => k <= Common(s, t)
  <1> DEFINE first == SubSeq(t, 1, k)
  <1>1. first \in Seq(Trees) /\ Len(first) = k /\ \A i \in 1..k : first[i] = t[i]
    OBVIOUS
  <1>2. Begins(first, t)
    BY <1>1 DEF Begins
  <1>3. Agree(s, first, Common(s, first)) /\ Agree(s, t, Common(s, t))
    BY <1>1, CommonAgrees
  <1>4. Common(s, first) <= k
    BY <1>1, <1>3 DEF Agree
  <1>5. Common(s, first) < k => Common(s, t) = Common(s, first)
    <2>1. ASSUME Common(s, first) < k PROVE Agree(s, t, Common(s, first))
      BY <1>1, <1>3, <2>1 DEF Agree
    <2>2. QED
      BY <2>1, CommonIs
  <1>6. Common(s, first) = k => Begins(first, s)
    BY <1>1, <1>3 DEF Agree, Begins
  <1>7. Begins(first, s) => k <= Common(s, t)
    BY <1>1, <1>3 DEF Agree, Begins
  <1>8. QED
    BY <1>1, <1>2, <1>4, <1>5, <1>6, <1>7

LEMMA CommonOfAll ==
  ASSUME NEW s \in Seq(Trees), NEW t \in Seq(Trees)
  PROVE  /\ Common(s, t) \in 0..Len(t) /\ Common(s, t) <= Len(s)
         /\ Common(s, t) = Len(t) <=> Begins(t, s)
         /\ Common(s, s) = Len(s)
  <1>1. Agree(s, t, Common(s, t)) /\ Agree(s, s, Common(s, s))
    BY CommonAgrees
  <1>2. Common(s, t) \in 0..Len(t) /\ Common(s, t) <= Len(s)
    BY <1>1 DEF Agree
  <1>3. Common(s, t) = Len(t) <=> Begins(t, s)
    BY <1>1 DEF Agree, Begins
  <1>4. Common(s, s) = Len(s)
    BY <1>1 DEF Agree
  <1>5. QED
    BY <1>2, <1>3, <1>4

LEMMA CommonNat == \A s, t \in Seq(Trees) : Common(s, t) \in Nat
  BY CommonOfAll

(***************************************************************************)
(* Replaying                                                               *)
(***************************************************************************)

\* A replay begins with the base.
Base(from, onto) == [to |-> onto, at |-> from, clash |-> {}, tree |-> Tip(onto)]

\* What the base of a replay is in, and each further commit keeps it in, its result is
\* in.  Q has, for each commit, what holds after it.
LEMMA ReplayKeeps ==
  ASSUME NEW mine \in Seq(Trees), NEW from \in 0..Len(mine), NEW onto, NEW Q,
         Base(from, onto) \in Q[from],
         \A i \in from + 1..Len(mine) :
           \A last \in Q[i - 1] : ReplayCommit(mine, i, last) \in Q[i]
  PROVE  Replay(mine, from, onto) \in Q[Len(mine)]
  <1> DEFINE Last == Len(mine)
             Runs(f, n) == f = [i \in from..n |-> IF i = from THEN Base(from, onto)
                                                  ELSE ReplayCommit(mine, i, f[i - 1])]
  <1>1. from \in Nat /\ Last \in Nat /\ from <= Last
    OBVIOUS
  <1>2. \E f : Runs(f, Last)
    <2> DEFINE T == {n \in from..Last : ~\E f : Runs(f, n)}
    <2>1. SUFFICES ASSUME T # {} PROVE FALSE
      BY <1>1
    <2>2. PICK n \in T : \A k \in T : n <= k
      <3>1. T \in SUBSET Nat
        BY <1>1
      <3> HIDE DEF T
      <3>2. QED
        BY <2>1, <3>1, Least
    <2>3. n \in from..Last /\ ~\E f : Runs(f, n)
      OBVIOUS
    <2>4. CASE n = from
      <3> DEFINE f == [i \in from..from |-> Base(from, onto)]
      <3>1. Runs(f, n)
        BY <2>4, <1>1
      <3>2. QED
        BY <3>1, <2>3
    <2>5. CASE n # from
      <3>1. n - 1 \in from..Last /\ ~(n <= n - 1)
        BY <2>3, <2>5, <1>1
      <3>2. n - 1 \notin T
        BY <2>2, <3>1
      <3>3. PICK f : Runs(f, n - 1)
        BY <3>1, <3>2
      <3> DEFINE g == [i \in from..n |-> IF i = n THEN ReplayCommit(mine, n, f[n - 1]) ELSE f[i]]
      <3>4. \A i \in from..n - 1 : g[i] = f[i]
        BY <2>3, <1>1
      <3>5. Runs(g, n)
        <4>1. ASSUME NEW i \in from..n
              PROVE g[i] = IF i = from THEN Base(from, onto) ELSE ReplayCommit(mine, i, g[i - 1])
          <5>1. CASE i = n
            BY <5>1, <2>3, <2>5, <3>4, <1>1
          <5>2. CASE i # n
            <6>1. i \in from..n - 1 /\ (i # from => i - 1 \in from..n - 1)
              BY <5>2, <2>3, <1>1
            <6>2. f[i] = IF i = from THEN Base(from, onto) ELSE ReplayCommit(mine, i, f[i - 1])
              BY <6>1, <3>3
            <6>3. QED
              BY <6>1, <6>2, <3>4
          <5>3. QED
            BY <5>1, <5>2
        <4>2. QED
          BY <4>1
      <3>6. QED
        BY <3>5, <2>3
    <2>6. QED
      BY <2>4, <2>5
  <1>3. ASSUME NEW f, Runs(f, Last) PROVE f[Last] \in Q[Last]
    <2> DEFINE T == {n \in from..Last : f[n] \notin Q[n]}
    <2>1. SUFFICES ASSUME T # {} PROVE FALSE
      BY <1>1
    <2>2. PICK n \in T : \A k \in T : n <= k
      <3>1. T \in SUBSET Nat
        BY <1>1
      <3> HIDE DEF T
      <3>2. QED
        BY <2>1, <3>1, Least
    <2>3. n \in from..Last /\ f[n] \notin Q[n]
      OBVIOUS
    <2>4. f[n] = IF n = from THEN Base(from, onto) ELSE ReplayCommit(mine, n, f[n - 1])
      BY <1>3, <2>3
    <2>5. CASE n = from
      BY <2>3, <2>4, <2>5
    <2>6. CASE n # from
      <3>1. n - 1 \in from..Last /\ ~(n <= n - 1) /\ n \in from + 1..Last
        BY <2>3, <2>6, <1>1
      <3>2. n - 1 \notin T
        BY <2>2, <3>1
      <3>3. f[n - 1] \in Q[n - 1]
        BY <3>1, <3>2
      <3>4. QED
        BY <2>3, <2>4, <2>6, <3>1, <3>3
    <2>7. QED
      BY <2>5, <2>6
  <1>4. Replay(mine, from, onto) = (CHOOSE f : Runs(f, Last))[Last]
    BY DEF Replay, Base
  <1>5. QED
    BY <1>2, <1>3, <1>4

LEMMA TreesTyped ==
  /\ EmptyTree \in Trees
  /\ \A t \in Trees, p \in Paths : t[p] \in Versions \cup {Absent, Marked}
  BY DEF Trees, EmptyTree

LEMMA TipIs ==
  ASSUME NEW h \in Seq(Trees)
  PROVE  /\ Tip(h) \in Trees
         /\ \A t \in Trees : Append(h, t) \in Seq(Trees) /\ Tip(Append(h, t)) = t
         /\ \A i \in 1..Len(h) : /\ SubSeq(h, 1, i) \in Seq(Trees)
                                 /\ Tip(SubSeq(h, 1, i)) = h[i] /\ h[i] \in Trees
         /\ SubSeq(h, 1, 0) \in Seq(Trees) /\ Tip(SubSeq(h, 1, 0)) = EmptyTree
         /\ SubSeq(h, 1, Len(h)) = h
  <1>1. Tip(h) \in Trees
    BY TreesTyped DEF Tip
  <1>2. ASSUME NEW t \in Trees PROVE Append(h, t) \in Seq(Trees) /\ Tip(Append(h, t)) = t
    BY DEF Tip
  <1>3. ASSUME NEW i \in 1..Len(h)
        PROVE /\ SubSeq(h, 1, i) \in Seq(Trees)
              /\ Tip(SubSeq(h, 1, i)) = h[i] /\ h[i] \in Trees
    <2>1. /\ SubSeq(h, 1, i) \in Seq(Trees) /\ Len(SubSeq(h, 1, i)) = i
          /\ SubSeq(h, 1, i)[i] = h[i] /\ h[i] \in Trees
      OBVIOUS
    <2>2. SubSeq(h, 1, i) # <<>>
      BY <2>1
    <2>3. QED
      BY <2>1, <2>2 DEF Tip
  <1>4. SubSeq(h, 1, 0) = <<>>
    OBVIOUS
  <1>5. SubSeq(h, 1, 0) \in Seq(Trees) /\ Tip(SubSeq(h, 1, 0)) = EmptyTree
    BY <1>4 DEF Tip
  <1>6. SubSeq(h, 1, Len(h)) = h
    OBVIOUS
  <1>7. QED
    BY <1>1, <1>2, <1>3, <1>5, <1>6

\* The tree that commit number i of a history changes.
Parent(h, i) == Tip(SubSeq(h, 1, i - 1))

LEMMA ParentTyped ==
  ASSUME NEW h \in Seq(Trees), NEW i \in 1..Len(h) + 1
  PROVE  /\ Parent(h, i) \in Trees
         /\ i > 1 => Parent(h, i) = h[i - 1]
         /\ i = 1 => Parent(h, i) = EmptyTree
  <1>1. CASE i = 1
    BY <1>1, TipIs, TreesTyped DEF Parent
  <1>2. CASE i > 1
    <2>1. i - 1 \in 1..Len(h)
      BY <1>2
    <2>2. QED
      BY <1>2, <2>1, TipIs DEF Parent
  <1>3. QED
    BY <1>1, <1>2

\* No commit of a history is empty.
Changing(h) == \A i \in 1..Len(h) : h[i] # Parent(h, i)

LEMMA ChangingGrows ==
  ASSUME NEW h \in Seq(Trees), Changing(h), NEW t \in Trees, t # Tip(h)
  PROVE  Changing(Append(h, t))
  <1> DEFINE g == Append(h, t)
  <1>1. /\ g \in Seq(Trees) /\ Len(g) = Len(h) + 1 /\ g[Len(h) + 1] = t
        /\ \A i \in 1..Len(h) : g[i] = h[i]
    OBVIOUS
  <1> HIDE DEF g
  <1>2. ASSUME NEW i \in 1..Len(g) PROVE g[i] # Parent(g, i)
    <2>1. SubSeq(g, 1, i - 1) = SubSeq(h, 1, i - 1)
      BY <1>1
    <2>2. Parent(g, i) = Parent(h, i)
      BY <2>1 DEF Parent
    <2>3. CASE i = Len(h) + 1
      <3>1. Parent(h, i) = Tip(h)
        <4>1. i - 1 = Len(h) /\ SubSeq(h, 1, Len(h)) = h
          BY <2>3
        <4>2. QED
          BY <4>1 DEF Parent
      <3>2. QED
        BY <1>1, <2>2, <2>3, <3>1
    <2>4. CASE i # Len(h) + 1
      BY <1>1, <2>2, <2>4 DEF Changing
    <2>5. QED
      BY <2>3, <2>4
  <1>3. QED
    BY <1>2 DEF Changing, g

LEMMA ChangingFirst ==
  ASSUME NEW h \in Seq(Trees), Changing(h), NEW k \in 0..Len(h)
  PROVE  Changing(SubSeq(h, 1, k))
  <1> DEFINE g == SubSeq(h, 1, k)
  <1>1. g \in Seq(Trees) /\ Len(g) = k /\ \A i \in 1..k : g[i] = h[i]
    OBVIOUS
  <1> HIDE DEF g
  <1>2. ASSUME NEW i \in 1..k PROVE g[i] # Parent(g, i)
    <2>1. SubSeq(g, 1, i - 1) = SubSeq(h, 1, i - 1)
      BY <1>1
    <2>2. Parent(g, i) = Parent(h, i)
      BY <2>1 DEF Parent
    <2>3. QED
      BY <1>1, <2>2 DEF Changing
  <1>3. QED
    BY <1>1, <1>2 DEF Changing, g

LEMMA MergedTyped ==
  ASSUME NEW parent \in Trees, NEW mine \in Trees, NEW tip \in Trees
  PROVE  /\ Clash(parent, mine, tip) \subseteq Paths
         /\ Merged(parent, mine, tip) \in Trees
         /\ \A p \in Paths \ Clash(parent, mine, tip) :
              Merged(parent, mine, tip)[p] = IF mine[p] # parent[p] THEN mine[p] ELSE tip[p]
  <1>1. Clash(parent, mine, tip) \subseteq Paths
    BY DEF Clash
  <1>2. ASSUME NEW p \in Paths PROVE Merged(parent, mine, tip)[p] \in Versions \cup {Absent, Marked}
    <2>1. mine[p] \in Versions \cup {Absent, Marked} /\ tip[p] \in Versions \cup {Absent, Marked}
      BY TreesTyped
    <2>2. CASE p \notin Clash(parent, mine, tip)
      BY <2>1, <2>2 DEF Merged
    <2>3. CASE p \in Clash(parent, mine, tip) /\ Absent \in {mine[p], tip[p]}
      <3>1. \E v \in {mine[p], tip[p]} : v # Absent
        BY <2>3 DEF Clash
      <3>2. (CHOOSE v \in {mine[p], tip[p]} : v # Absent) \in {mine[p], tip[p]}
        BY <3>1
      <3>3. QED
        BY <2>1, <2>3, <3>2 DEF Merged
    <2>4. CASE p \in Clash(parent, mine, tip) /\ Absent \notin {mine[p], tip[p]}
      BY <2>4 DEF Merged
    <2>5. QED
      BY <2>2, <2>3, <2>4
  <1>3. Merged(parent, mine, tip) = [p \in Paths |-> Merged(parent, mine, tip)[p]]
    BY DEF Merged
  <1>4. Merged(parent, mine, tip) \in Trees
    BY <1>2, <1>3 DEF Trees
  <1>5. \A p \in Paths \ Clash(parent, mine, tip) :
          Merged(parent, mine, tip)[p] = IF mine[p] # parent[p] THEN mine[p] ELSE tip[p]
    BY DEF Merged
  <1>6. QED
    BY <1>1, <1>4, <1>5

\* What a replay can come to.
Results(mine) == [to : Seq(Trees), at : 0..Len(mine), clash : SUBSET Paths, tree : Trees]

\* One more commit leaves a result as it is, when that has clashed; or it stops at it; or
\* it goes on top, unless it changes nothing.
LEMMA CommitReplayed ==
  ASSUME NEW mine \in Seq(Trees), NEW i \in 1..Len(mine), NEW last \in Results(mine)
  PROVE  LET tip == Tip(last.to)
             clash == Clash(Parent(mine, i), mine[i], tip)
             tree == Merged(Parent(mine, i), mine[i], tip)
             next == ReplayCommit(mine, i, last) IN
         /\ next \in Results(mine) /\ tree \in Trees
         /\ \/ last.clash # {} /\ next = last
            \/ /\ last.clash = {} /\ clash # {}
               /\ next = [to |-> last.to, at |-> i, clash |-> clash, tree |-> tree]
            \/ /\ last.clash = {} /\ clash = {} /\ tree = tip
               /\ next = [to |-> last.to, at |-> i, clash |-> {}, tree |-> tree]
            \/ /\ last.clash = {} /\ clash = {} /\ tree # tip
               /\ next = [to |-> Append(last.to, tree), at |-> i, clash |-> {}, tree |-> tree]
  <1> DEFINE tip == Tip(last.to)
             clash == Clash(Parent(mine, i), mine[i], tip)
             tree == Merged(Parent(mine, i), mine[i], tip)
             next == ReplayCommit(mine, i, last)
  <1>1. last.to \in Seq(Trees)
    BY DEF Results
  <1>2. tip \in Trees /\ mine[i] \in Trees /\ Parent(mine, i) \in Trees
    BY <1>1, TipIs, ParentTyped
  <1>3. clash \subseteq Paths /\ tree \in Trees
    BY <1>2, MergedTyped
  <1>4. next = IF last.clash # {} THEN last
               ELSE [to |-> IF clash # {} \/ tree = tip THEN last.to ELSE Append(last.to, tree),
                     at |-> i, clash |-> clash, tree |-> tree]
    BY DEF ReplayCommit, Parent
  <1> HIDE DEF tip, clash, tree, next
  <1>5. next \in Results(mine)
    <2>1. Append(last.to, tree) \in Seq(Trees)
      BY <1>1, <1>3, TipIs
    <2>2. QED
      BY <1>1, <1>3, <1>4, <2>1 DEF Results
  <1>6. \/ last.clash # {} /\ next = last
        \/ /\ last.clash = {} /\ clash # {}
           /\ next = [to |-> last.to, at |-> i, clash |-> clash, tree |-> tree]
        \/ /\ last.clash = {} /\ clash = {} /\ tree = tip
           /\ next = [to |-> last.to, at |-> i, clash |-> {}, tree |-> tree]
        \/ /\ last.clash = {} /\ clash = {} /\ tree # tip
           /\ next = [to |-> Append(last.to, tree), at |-> i, clash |-> {}, tree |-> tree]
    BY <1>4
  <1>7. QED
    BY <1>3, <1>5, <1>6 DEF tip, clash, tree, next

\* `new` drops no record of `old`, but for those in R and those at the paths in `but`.
Settles(R, old, new, but) ==
  \A p \in Paths \ but : old[p] \notin {Absent, Marked} /\ new[p] # old[p] => <<p, old[p]>> \in R

\* No commit of a history drops, but for those in R, a record that an earlier one had.
Steady(R, h) == \A j \in 1..Len(h) : \A i \in 1..j : Settles(R, h[i], h[j], {})

LEMMA SteadyGrows ==
  ASSUME NEW R, NEW h \in Seq(Trees), Steady(R, h), NEW t \in Trees, Settles(R, Tip(h), t, {})
  PROVE  Steady(R, Append(h, t))
  <1> DEFINE g == Append(h, t)
             n == Len(h) + 1
  <1>1. Len(g) = n /\ g[n] = t /\ \A i \in 1..Len(h) : g[i] = h[i]
    OBVIOUS
  <1> HIDE DEF g
  <1>2. ASSUME NEW j \in 1..Len(h), NEW i \in 1..j PROVE Settles(R, g[i], g[j], {})
    BY <1>1 DEF Steady
  <1>3. ASSUME NEW i \in 1..Len(h) PROVE Settles(R, g[i], g[n], {})
    <2>1. Len(h) \in 1..Len(h) /\ i \in 1..Len(h) /\ h # <<>>
      OBVIOUS
    <2>2. Settles(R, h[i], h[Len(h)], {})
      BY <2>1 DEF Steady
    <2>3. Tip(h) = h[Len(h)]
      BY <2>1 DEF Tip
    <2>4. QED
      BY <1>1, <2>2, <2>3 DEF Settles
  <1>4. Settles(R, g[n], g[n], {})
    BY DEF Settles
  <1>5. ASSUME NEW j \in 1..Len(g), NEW i \in 1..j PROVE Settles(R, g[i], g[j], {})
    <2>1. Len(h) \in Nat /\ j \in 1..n
      BY <1>1
    <2>2. CASE j \in 1..Len(h)
      BY <2>2, <1>2
    <2>3. CASE j \notin 1..Len(h)
      <3>1. j = n /\ i \in 1..n
        BY <2>1, <2>3
      <3>2. i = n \/ i \in 1..Len(h)
        BY <2>1, <3>1
      <3>3. QED
        BY <3>1, <3>2, <1>3, <1>4
    <2>4. QED
      BY <2>2, <2>3
  <1>6. QED
    BY <1>5 DEF Steady, g

LEMMA SteadyFirst ==
  ASSUME NEW R, NEW h \in Seq(Trees), Steady(R, h), NEW k \in 0..Len(h)
  PROVE  Steady(R, SubSeq(h, 1, k))
  <1>1. Len(SubSeq(h, 1, k)) = k /\ \A i \in 1..k : SubSeq(h, 1, k)[i] = h[i]
    OBVIOUS
  <1>2. QED
    BY <1>1 DEF Steady

LEMMA SteadyStays ==
  ASSUME NEW R, NEW S, R \subseteq S
  PROVE  /\ \A h \in Seq(Trees) : Steady(R, h) => Steady(S, h)
         /\ \A old, new, but : Settles(R, old, new, but) => Settles(S, old, new, but)
  <1>1. \A old, new, but : Settles(R, old, new, but) => Settles(S, old, new, but)
    BY DEF Settles
  <1>2. QED
    BY <1>1 DEF Steady

\* A steady history keeps what a commit's parent had.
LEMMA SteadyStep ==
  ASSUME NEW R, NEW h \in Seq(Trees), Steady(R, h), NEW i \in 1..Len(h)
  PROVE  Settles(R, Parent(h, i), h[i], {})
  <1>1. CASE i = 1
    <2>1. Parent(h, i) = EmptyTree
      BY <1>1, ParentTyped
    <2>2. QED
      BY <2>1 DEF Settles, EmptyTree
  <1>2. CASE i > 1
    <2>1. Parent(h, i) = h[i - 1] /\ i - 1 \in 1..i
      BY <1>2, ParentTyped
    <2>2. QED
      BY <2>1 DEF Steady
  <1>3. QED
    BY <1>1, <1>2

(***************************************************************************)
(* What a replay gives                                                     *)
(***************************************************************************)

LEMMA BeginsOn ==
  ASSUME NEW s \in Seq(Trees), NEW t \in Seq(Trees), Begins(s, t)
  PROVE  /\ \A tree \in Trees : Begins(s, Append(t, tree)) /\ Begins(t, Append(t, tree))
         /\ Begins(s, s)
         /\ \A u \in Seq(Trees) : Begins(t, u) => Begins(s, u)
  <1>1. ASSUME NEW tree \in Trees PROVE Begins(s, Append(t, tree)) /\ Begins(t, Append(t, tree))
    <2>1. Len(Append(t, tree)) = Len(t) + 1 /\ \A i \in 1..Len(t) : Append(t, tree)[i] = t[i]
      OBVIOUS
    <2>2. QED
      BY <2>1 DEF Begins
  <1>2. QED
    BY <1>1 DEF Begins

\* It goes on from what it is replayed on, commit by commit, and stops at a commit that
\* it has not replayed.
LEMMA ReplayExtends ==
  ASSUME NEW mine \in Seq(Trees), NEW from \in 0..Len(mine), NEW onto \in Seq(Trees)
  PROVE  LET result == Replay(mine, from, onto) IN
         /\ result \in Results(mine)
         /\ Begins(onto, result.to)
         /\ Changing(onto) => Changing(result.to)
         /\ result.clash # {} => result.at \in from + 1..Len(mine)
         /\ result.clash = {} => result.tree = Tip(result.to)
  <1> DEFINE Good == {r \in Results(mine) :
                        /\ Begins(onto, r.to)
                        /\ Changing(onto) => Changing(r.to)
                        /\ r.clash # {} => r.at \in from + 1..Len(mine)
                        /\ r.clash = {} => r.tree = Tip(r.to)}
             Q == [i \in from..Len(mine) |-> Good]
  <1>1. Base(from, onto) \in Good
    <2>1. Begins(onto, onto)
      BY DEF Begins
    <2>2. Tip(onto) \in Trees
      BY TipIs
    <2>3. QED
      BY <2>1, <2>2 DEF Base, Results
  <1>2. ASSUME NEW i \in from + 1..Len(mine), NEW last \in Good
        PROVE ReplayCommit(mine, i, last) \in Good
    <2> DEFINE tip == Tip(last.to)
               clash == Clash(Parent(mine, i), mine[i], tip)
               tree == Merged(Parent(mine, i), mine[i], tip)
               next == ReplayCommit(mine, i, last)
    <2>1. i \in 1..Len(mine) /\ last \in Results(mine)
      OBVIOUS
    <2>2. /\ next \in Results(mine) /\ tree \in Trees
          /\ \/ last.clash # {} /\ next = last
             \/ /\ last.clash = {} /\ clash # {}
                /\ next = [to |-> last.to, at |-> i, clash |-> clash, tree |-> tree]
             \/ /\ last.clash = {} /\ clash = {} /\ tree = tip
                /\ next = [to |-> last.to, at |-> i, clash |-> {}, tree |-> tree]
             \/ /\ last.clash = {} /\ clash = {} /\ tree # tip
                /\ next = [to |-> Append(last.to, tree), at |-> i, clash |-> {}, tree |-> tree]
      BY <2>1, CommitReplayed
    <2>3. last.to \in Seq(Trees) /\ Begins(onto, last.to) /\ (Changing(onto) => Changing(last.to))
      BY DEF Results
    <2> HIDE DEF clash, tree, next
    <2> SUFFICES next \in Good
      BY DEF next
    <2>4. CASE last.clash # {} /\ next = last
      BY <2>4
    <2>5. CASE /\ last.clash = {} /\ clash # {}
               /\ next = [to |-> last.to, at |-> i, clash |-> clash, tree |-> tree]
      BY <2>2, <2>3, <2>5
    <2>6. CASE /\ last.clash = {} /\ clash = {} /\ tree = tip
               /\ next = [to |-> last.to, at |-> i, clash |-> {}, tree |-> tree]
      <3>1. next.to = last.to /\ next.clash = {} /\ next.tree = Tip(last.to)
        BY <2>6
      <3>2. QED
        BY <2>2, <2>3, <3>1
    <2>7. CASE /\ last.clash = {} /\ clash = {} /\ tree # tip
               /\ next = [to |-> Append(last.to, tree), at |-> i, clash |-> {}, tree |-> tree]
      <3>1. next.to = Append(last.to, tree) /\ next.clash = {} /\ next.tree = tree
        BY <2>7
      <3>2. Begins(onto, next.to) /\ Tip(next.to) = tree
        BY <2>2, <2>3, <3>1, BeginsOn, TipIs
      <3>3. Changing(onto) => Changing(next.to)
        BY <2>2, <2>3, <2>7, <3>1, ChangingGrows
      <3>4. QED
        BY <2>2, <3>1, <3>2, <3>3
    <2>8. QED
      BY <2>2, <2>4, <2>5, <2>6, <2>7
  <1> HIDE DEF Good
  <1>3. /\ Q[Len(mine)] = Good /\ Q[from] = Good
        /\ \A i \in from + 1..Len(mine) : Q[i - 1] = Good /\ Q[i] = Good
    OBVIOUS
  <1> HIDE DEF Q
  <1>4. Replay(mine, from, onto) \in Q[Len(mine)]
    BY <1>1, <1>2, <1>3, ReplayKeeps
  <1>5. QED
    BY <1>3, <1>4 DEF Good

\* Replayed where it already is, a history stays as it is: no commit of it is empty.
LEMMA ReplayInPlace ==
  ASSUME NEW mine \in Seq(Trees), Changing(mine), NEW from \in 0..Len(mine)
  PROVE  LET result == Replay(mine, from, SubSeq(mine, 1, from)) IN
         result.to = mine /\ result.clash = {} /\ result.tree = Tip(mine)
  <1> DEFINE So(i) == [to |-> SubSeq(mine, 1, i), at |-> i, clash |-> {}, tree |-> Tip(SubSeq(mine, 1, i))]
             Q == [i \in from..Len(mine) |-> {So(i)}]
  <1>1. Base(from, SubSeq(mine, 1, from)) \in Q[from]
    BY DEF Base
  <1>2. ASSUME NEW i \in from + 1..Len(mine), NEW last \in Q[i - 1]
        PROVE ReplayCommit(mine, i, last) \in Q[i]
    <2> DEFINE parent == Parent(mine, i)
               new == mine[i]
    <2>1. /\ i - 1 \in from..Len(mine) /\ i \in 1..Len(mine)
          /\ last.to = SubSeq(mine, 1, i - 1) /\ last.clash = {}
      OBVIOUS
    <2>2. parent = Tip(last.to) /\ parent \in Trees /\ new \in Trees /\ new # parent
      BY <2>1, ParentTyped, TipIs DEF Parent, Changing
    <2>3. /\ Append(SubSeq(mine, 1, i - 1), mine[i]) = SubSeq(mine, 1, i)
          /\ Tip(SubSeq(mine, 1, i)) = new
      BY <2>1, TipIs
    <2>4. ReplayCommit(mine, i, last) =
            IF last.clash # {} THEN last
            ELSE [to |-> IF Clash(parent, new, Tip(last.to)) # {} \/ Merged(parent, new, Tip(last.to)) = Tip(last.to)
                         THEN last.to ELSE Append(last.to, Merged(parent, new, Tip(last.to))),
                  at |-> i, clash |-> Clash(parent, new, Tip(last.to)),
                  tree |-> Merged(parent, new, Tip(last.to))]
      BY DEF ReplayCommit, Parent
    <2> HIDE DEF parent, new
    <2>5. Clash(parent, new, parent) = {}
      BY DEF Clash
    <2>6. Merged(parent, new, parent) = new
      <3>1. \A p \in Paths : Merged(parent, new, parent)[p] = new[p]
        BY <2>2, <2>5, MergedTyped
      <3>2. Merged(parent, new, parent) \in Trees
        BY <2>2, MergedTyped
      <3>3. QED
        BY <2>2, <3>1, <3>2 DEF Trees
    <2>7. ReplayCommit(mine, i, last) =
            [to |-> Append(last.to, new), at |-> i, clash |-> {}, tree |-> new]
      BY <2>1, <2>2, <2>4, <2>5, <2>6
    <2>8. ReplayCommit(mine, i, last) = So(i)
      BY <2>1, <2>3, <2>7 DEF new
    <2>9. QED
      BY <2>8
  <1>3. Q[Len(mine)] = {So(Len(mine))}
    OBVIOUS
  <1> HIDE DEF Q
  <1>4. Replay(mine, from, SubSeq(mine, 1, from)) \in Q[Len(mine)]
    BY <1>1, <1>2, ReplayKeeps
  <1> DEFINE result == Replay(mine, from, SubSeq(mine, 1, from))
  <1>5. result = So(Len(mine)) /\ SubSeq(mine, 1, Len(mine)) = mine
    BY <1>3, <1>4
  <1> HIDE DEF result
  <1>6. result.to = mine /\ result.clash = {} /\ result.tree = Tip(mine)
    BY <1>5
  <1>7. QED
    BY <1>6 DEF result

LEMMA MergeSettles ==
  ASSUME NEW R, NEW parent \in Trees, NEW mine \in Trees, NEW tip \in Trees,
         Settles(R, parent, mine, {})
  PROVE  Settles(R, tip, Merged(parent, mine, tip), Clash(parent, mine, tip))
  <1>1. ASSUME NEW p \in Paths \ Clash(parent, mine, tip),
               tip[p] \notin {Absent, Marked}, Merged(parent, mine, tip)[p] # tip[p]
        PROVE <<p, tip[p]>> \in R
    <2>1. Merged(parent, mine, tip)[p] = IF mine[p] # parent[p] THEN mine[p] ELSE tip[p]
      BY MergedTyped
    <2>2. mine[p] # parent[p] /\ tip[p] = parent[p]
      BY <1>1, <2>1 DEF Clash
    <2>3. QED
      BY <1>1, <2>2 DEF Settles
  <1>2. QED
    BY <1>1 DEF Settles

\* Of a history that drops nothing on one that drops nothing, it makes another; and so
\* does what it stops at, but for the clash.
LEMMA ReplaySteady ==
  ASSUME NEW R, NEW mine \in Seq(Trees), NEW from \in 0..Len(mine), NEW onto \in Seq(Trees),
         Steady(R, mine), Steady(R, onto)
  PROVE  LET result == Replay(mine, from, onto) IN
         Steady(R, result.to) /\ Settles(R, Tip(result.to), result.tree, result.clash)
  <1> DEFINE Good == {r \in Results(mine) :
                        Steady(R, r.to) /\ Settles(R, Tip(r.to), r.tree, r.clash)}
             Q == [i \in from..Len(mine) |-> Good]
  <1>0. \A t, but : Settles(R, t, t, but)
    BY DEF Settles
  <1>1. Base(from, onto) \in Good
    <2>1. Tip(onto) \in Trees
      BY TipIs
    <2>2. QED
      BY <2>1, <1>0 DEF Base, Results
  <1>2. ASSUME NEW i \in from + 1..Len(mine), NEW last \in Good
        PROVE ReplayCommit(mine, i, last) \in Good
    <2> DEFINE tip == Tip(last.to)
               clash == Clash(Parent(mine, i), mine[i], tip)
               tree == Merged(Parent(mine, i), mine[i], tip)
               next == ReplayCommit(mine, i, last)
    <2>1. /\ i \in 1..Len(mine) /\ last \in Results(mine) /\ last.to \in Seq(Trees)
          /\ Steady(R, last.to)
      BY DEF Results
    <2>2. /\ next \in Results(mine) /\ tree \in Trees
          /\ \/ last.clash # {} /\ next = last
             \/ /\ last.clash = {} /\ clash # {}
                /\ next = [to |-> last.to, at |-> i, clash |-> clash, tree |-> tree]
             \/ /\ last.clash = {} /\ clash = {} /\ tree = tip
                /\ next = [to |-> last.to, at |-> i, clash |-> {}, tree |-> tree]
             \/ /\ last.clash = {} /\ clash = {} /\ tree # tip
                /\ next = [to |-> Append(last.to, tree), at |-> i, clash |-> {}, tree |-> tree]
      BY <2>1, CommitReplayed
    <2>3. Settles(R, tip, tree, clash)
      <3>1. Settles(R, Parent(mine, i), mine[i], {})
        BY <2>1, SteadyStep
      <3>2. Parent(mine, i) \in Trees /\ mine[i] \in Trees /\ tip \in Trees
        BY <2>1, ParentTyped, TipIs
      <3>3. QED
        BY <3>1, <3>2, MergeSettles
    <2> HIDE DEF clash, tree, next
    <2> SUFFICES next \in Good
      BY DEF next
    <2>4. CASE last.clash # {} /\ next = last
      BY <2>4
    <2>5. CASE /\ last.clash = {} /\ clash # {}
               /\ next = [to |-> last.to, at |-> i, clash |-> clash, tree |-> tree]
      <3>1. next.to = last.to /\ next.clash = clash /\ next.tree = tree
        BY <2>5
      <3>2. QED
        BY <2>1, <2>2, <2>3, <3>1
    <2>6. CASE /\ last.clash = {} /\ clash = {} /\ tree = tip
               /\ next = [to |-> last.to, at |-> i, clash |-> {}, tree |-> tree]
      <3>1. next.to = last.to /\ next.clash = {} /\ next.tree = Tip(last.to)
        BY <2>6
      <3>2. QED
        BY <2>1, <2>2, <3>1, <1>0
    <2>7. CASE /\ last.clash = {} /\ clash = {} /\ tree # tip
               /\ next = [to |-> Append(last.to, tree), at |-> i, clash |-> {}, tree |-> tree]
      <3>1. next.to = Append(last.to, tree) /\ next.clash = {} /\ next.tree = tree
        BY <2>7
      <3>2. Steady(R, next.to) /\ Tip(next.to) = tree
        BY <2>1, <2>2, <2>3, <2>7, <3>1, SteadyGrows, TipIs
      <3>3. QED
        BY <2>2, <3>1, <3>2, <1>0
    <2>8. QED
      BY <2>2, <2>4, <2>5, <2>6, <2>7
  <1> HIDE DEF Good
  <1>3. /\ Q[Len(mine)] = Good /\ Q[from] = Good
        /\ \A i \in from + 1..Len(mine) : Q[i - 1] = Good /\ Q[i] = Good
    OBVIOUS
  <1> HIDE DEF Q
  <1>4. Replay(mine, from, onto) \in Q[Len(mine)]
    BY <1>1, <1>2, <1>3, ReplayKeeps
  <1>5. QED
    BY <1>3, <1>4 DEF Good

\* Each record of t, but for those at the paths in `but`, is one of the two sides a and b,
\* or what a history has after i commits.
Sided(h, i, t, a, b, but) ==
  \A p \in Paths \ but : t[p] \in {a[p], b[p]} \/ t[p] = Tip(SubSeq(h, 1, i))[p]

\* A replay stopped at a commit: on what its parent or one of the sides has, at paths
\* where that is not its parent's, and with what it or one of the sides has elsewhere.
Stopped(h, at, tip, tree, clash, a, b) ==
  /\ Sided(h, at - 1, tip, a, b, {})
  /\ Sided(h, at, tree, a, b, clash)
  /\ \A p \in clash : tip[p] # Parent(h, at)[p]

LEMMA MergeSided ==
  ASSUME NEW h \in Seq(Trees), NEW i \in 1..Len(h), NEW tip \in Trees, NEW a, NEW b,
         Sided(h, i - 1, tip, a, b, {})
  PROVE  LET clash == Clash(Parent(h, i), h[i], tip)
             tree == Merged(Parent(h, i), h[i], tip) IN
         Stopped(h, i, tip, tree, clash, a, b)
  <1> DEFINE parent == Parent(h, i)
             clash == Clash(parent, h[i], tip)
             tree == Merged(parent, h[i], tip)
  <1>1. /\ parent \in Trees /\ h[i] \in Trees /\ Tip(SubSeq(h, 1, i)) = h[i]
        /\ parent = Tip(SubSeq(h, 1, i - 1))
    BY ParentTyped, TipIs DEF Parent
  <1> HIDE DEF parent
  <1>2. ASSUME NEW p \in Paths \ clash PROVE tree[p] \in {a[p], b[p]} \/ tree[p] = h[i][p]
    <2>1. tree[p] = IF h[i][p] # parent[p] THEN h[i][p] ELSE tip[p]
      BY <1>1, MergedTyped
    <2>2. tip[p] \in {a[p], b[p]} \/ tip[p] = parent[p]
      BY <1>1 DEF Sided
    <2>3. QED
      BY <2>1, <2>2
  <1>3. \A p \in clash : tip[p] # parent[p]
    BY DEF Clash
  <1>4. Sided(h, i, tree, a, b, clash)
    BY <1>1, <1>2 DEF Sided
  <1>5. QED
    BY <1>3, <1>4 DEF Stopped, parent

LEMMA ReplayStops ==
  ASSUME NEW mine \in Seq(Trees), NEW from \in 0..Len(mine), NEW onto \in Seq(Trees), NEW a, NEW b,
         Sided(mine, from, Tip(onto), a, b, {})
  PROVE  LET result == Replay(mine, from, onto) IN
         result.clash # {} =>
           /\ Stopped(mine, result.at, Tip(result.to), result.tree, result.clash, a, b)
           /\ Stopped(mine, result.at, Tip(result.to), result.tree, result.clash,
                      Tip(result.to), Tip(result.to))
  <1> DEFINE Good(i) == {r \in Results(mine) :
                          /\ r.clash = {} => Sided(mine, i, Tip(r.to), a, b, {})
                          /\ r.clash # {} =>
                               /\ Stopped(mine, r.at, Tip(r.to), r.tree, r.clash, a, b)
                               /\ Stopped(mine, r.at, Tip(r.to), r.tree, r.clash, Tip(r.to), Tip(r.to))}
             Q == [i \in from..Len(mine) |-> Good(i)]
  <1>1. Base(from, onto) \in Good(from)
    <2>1. Tip(onto) \in Trees
      BY TipIs
    <2>2. QED
      BY <2>1 DEF Base, Results
  <1>2. ASSUME NEW i \in from + 1..Len(mine), NEW last \in Good(i - 1)
        PROVE ReplayCommit(mine, i, last) \in Good(i)
    <2> DEFINE tip == Tip(last.to)
               clash == Clash(Parent(mine, i), mine[i], tip)
               tree == Merged(Parent(mine, i), mine[i], tip)
               next == ReplayCommit(mine, i, last)
    <2>1. i \in 1..Len(mine) /\ last \in Results(mine) /\ last.to \in Seq(Trees)
      BY DEF Results
    <2>2. /\ next \in Results(mine) /\ tree \in Trees
          /\ \/ last.clash # {} /\ next = last
             \/ /\ last.clash = {} /\ clash # {}
                /\ next = [to |-> last.to, at |-> i, clash |-> clash, tree |-> tree]
             \/ /\ last.clash = {} /\ clash = {} /\ tree = tip
                /\ next = [to |-> last.to, at |-> i, clash |-> {}, tree |-> tree]
             \/ /\ last.clash = {} /\ clash = {} /\ tree # tip
                /\ next = [to |-> Append(last.to, tree), at |-> i, clash |-> {}, tree |-> tree]
      BY <2>1, CommitReplayed
    <2>3. last.clash = {} => /\ Stopped(mine, i, tip, tree, clash, a, b)
                             /\ Stopped(mine, i, tip, tree, clash, tip, tip)
      <3>1. tip \in Trees
        BY <2>1, TipIs
      <3>2. last.clash = {} => Sided(mine, i - 1, tip, a, b, {})
        OBVIOUS
      <3>3. Sided(mine, i - 1, tip, tip, tip, {})
        BY DEF Sided
      <3>4. QED
        BY <2>1, <3>1, <3>2, <3>3, MergeSided
    <2> HIDE DEF clash, tree, next
    <2> SUFFICES next \in Good(i)
      BY DEF next
    <2>4. CASE last.clash # {} /\ next = last
      BY <2>4
    <2>5. CASE /\ last.clash = {} /\ clash # {}
               /\ next = [to |-> last.to, at |-> i, clash |-> clash, tree |-> tree]
      <3>1. next.to = last.to /\ next.clash = clash /\ next.tree = tree /\ next.at = i
        BY <2>5
      <3>2. QED
        BY <2>2, <2>3, <2>5, <3>1
    <2>6. CASE last.clash = {} /\ clash = {}
      <3>1. Sided(mine, i, tree, a, b, {})
        BY <2>3, <2>6 DEF Stopped
      <3>2. next.clash = {} /\ Tip(next.to) = tree
        <4>1. CASE tree = tip
          <5>1. next = [to |-> last.to, at |-> i, clash |-> {}, tree |-> tree]
            BY <2>2, <2>6, <4>1
          <5>2. QED
            BY <4>1, <5>1
        <4>2. CASE tree # tip
          <5>1. next = [to |-> Append(last.to, tree), at |-> i, clash |-> {}, tree |-> tree]
            BY <2>2, <2>6, <4>2
          <5>2. next.to = Append(last.to, tree) /\ next.clash = {}
            BY <5>1
          <5>3. QED
            BY <2>1, <2>2, <5>2, TipIs
        <4>3. QED
          BY <4>1, <4>2
      <3>3. QED
        BY <2>2, <3>1, <3>2
    <2>7. QED
      BY <2>2, <2>4, <2>5, <2>6
  <1>3. Q[Len(mine)] = Good(Len(mine)) /\ Q[from] = Good(from)
        /\ \A i \in from + 1..Len(mine) : Q[i - 1] = Good(i - 1) /\ Q[i] = Good(i)
    OBVIOUS
  <1> HIDE DEF Q, Good
  <1>4. Replay(mine, from, onto) \in Q[Len(mine)]
    BY <1>1, <1>2, <1>3, ReplayKeeps
  <1>5. Replay(mine, from, onto) \in Good(Len(mine))
    BY <1>3, <1>4
  <1>6. QED
    BY <1>5 DEF Good

(***************************************************************************)
(* The invariant                                                           *)
(***************************************************************************)

\* Where machine m is, and what its histories are to each other: a rebase under way has
\* put HEAD ahead, of what is published, of the branch it replays.
InPlace(m) ==
  /\ Changing(branch[m])
  /\ pc[m] = "adopt" => branch[m] = <<>>
  /\ pc[m] = "checkout" => Begins(branch[m], remote)
  /\ pc[m] \in {"abort", "continue"} => Rebasing(m)
  /\ pc[m] = "continue" => rebase[m].unmerged = {}
  /\ pc[m] \in {"resolve", "continue"} => answers[m] # NoAnswers /\ conflictAt[m] # 0
  /\ Rebasing(m) => /\ Changing(rebase[m].mine)
                    /\ rebase[m].at \in 1..Len(rebase[m].mine)
                    /\ Common(rebase[m].mine, remote) < Common(branch[m], remote)

\* A rebase that may yet go on.
Open(m) == Rebasing(m) /\ (rebase[m].unmerged # {} \/ pc[m] = "continue")

\* The rebase of m has stopped, between the sides a and b.
Between(m, a, b) == Stopped(rebase[m].mine, rebase[m].at, Tip(branch[m]), rebase[m].index,
                            rebase[m].unmerged, a, b)

\* The versions that may be dropped: what somebody replaced; and what the remote has, once a
\* first join was cut off half-way, since the next commit drops what was not yet written.
Gone == replaced \cup (IF adoptionCut THEN In(TreesOf({remote})) ELSE {})

\* Machine m drops nothing that nobody replaced: not in its branch, not in its files, and
\* not in a rebase that may yet go on.
DropsNothing(m) ==
  /\ Steady(Gone, OwnBranch(m))
  /\ ~Rebasing(m) /\ pc[m] # "checkout" => Settles(Gone, Tip(branch[m]), work[m], {})
  /\ Open(m) => /\ Steady(Gone, branch[m])
                /\ Settles(Gone, Tip(branch[m]), rebase[m].index, rebase[m].unmerged)
                /\ rebase[m].unmerged # {} => Between(m, Tip(branch[m]), Tip(branch[m]))
                /\ pc[m] \in {"resolve", "continue"} =>
                     Between(m, remote[conflictAt[m]], answers[m].mine)

\* The inductive invariant.
IInv ==
  /\ TypeOK
  /\ Changing(remote)
  /\ \A m \in Machines : InPlace(m)
  /\ Steady(Gone, remote)
  /\ \A m \in Machines : DropsNothing(m)

(***************************************************************************)
(* Types                                                                   *)
(***************************************************************************)

LEMMA Constants ==
  /\ Located \subseteq Paths
  /\ MaxEdits \in [Machines -> Nat] /\ MaxFailures \in Nat /\ MaxCuts \in Nat
  /\ Absent \notin Versions /\ Marked \notin Versions /\ Absent # Marked
  /\ NoRebase \notin Rebases /\ NoAnswers \notin Answers
  BY GitSyncAssumption, AbsentAssumption, NothingAssumption

LEMMA CheckedOutTyped ==
  ASSUME TypeOK, NEW m \in Machines, NEW tracked \in Trees, NEW tree \in Trees
  PROVE  CheckedOut(m, tracked, tree) \in Trees
  BY DEF TypeOK, CheckedOut, Trees

\* The histories of a machine, and what its rebase is in the middle of.
LEMMA HistoriesTyped ==
  ASSUME TypeOK, NEW m \in Machines
  PROVE  /\ branch[m] \in Seq(Trees) /\ Tip(branch[m]) \in Trees /\ work[m] \in Trees
         /\ OwnBranch(m) \in Seq(Trees)
         /\ Rebasing(m) => /\ rebase[m] \in Rebases
                           /\ rebase[m].mine \in Seq(Trees) /\ Tip(rebase[m].mine) \in Trees
                           /\ rebase[m].at \in Nat /\ rebase[m].unmerged \subseteq Paths
                           /\ rebase[m].index \in Trees
         /\ remote \in Seq(Trees) /\ Tip(remote) \in Trees
         /\ Origin(m) \in Seq(Trees) /\ Len(Origin(m)) = fetched[m] /\ fetched[m] \in 0..Len(remote)
         /\ Behind(m) > 0 <=> Common(branch[m], Origin(m)) < fetched[m]
  <1>1. /\ branch[m] \in Seq(Trees) /\ work[m] \in Trees /\ remote \in Seq(Trees)
        /\ fetched[m] \in 0..Len(remote)
    BY DEF TypeOK
  <1>2. ASSUME Rebasing(m)
        PROVE /\ rebase[m] \in Rebases /\ rebase[m].mine \in Seq(Trees)
              /\ rebase[m].at \in Nat /\ rebase[m].unmerged \subseteq Paths
              /\ rebase[m].index \in Trees
    <2>1. rebase[m] \in Rebases
      BY <1>2 DEF TypeOK, Rebasing
    <2>2. QED
      BY <2>1 DEF Rebases
  <1>3. Origin(m) \in Seq(Trees) /\ Len(Origin(m)) = fetched[m]
    BY <1>1 DEF Origin
  <1>4. Common(branch[m], Origin(m)) \in 0..fetched[m]
    BY <1>1, <1>3, CommonOfAll
  <1>5. QED
    BY <1>1, <1>2, <1>3, <1>4, TipIs DEF OwnBranch, Behind

\* A rebase leaves histories, files and what it stopped at.
LEMMA RebaseTyped ==
  ASSUME TypeOK, NEW m \in Machines, NEW mine \in Seq(Trees), NEW tracked \in Trees,
         NEW result \in Results(mine), RunRebase(m, mine, tracked, result)
  PROVE  /\ branch' \in [Machines -> Seq(Trees)]
         /\ work' \in [Machines -> Trees]
         /\ rebase' \in [Machines -> Rebases \cup {NoRebase}]
         /\ branch'[m] = result.to
         /\ work'[m] = CheckedOut(m, tracked, result.tree)
         /\ result.clash = {} => rebase'[m] = NoRebase
         /\ result.clash # {} => /\ rebase'[m] \in Rebases
                                 /\ rebase'[m].mine = mine /\ rebase'[m].at = result.at
                                 /\ rebase'[m].unmerged = result.clash
                                 /\ rebase'[m].index = result.tree
         /\ \A n \in Machines \ {m} : /\ branch'[n] = branch[n] /\ work'[n] = work[n]
                                      /\ rebase'[n] = rebase[n]
  <1> DEFINE stop == [mine |-> mine, at |-> result.at, unmerged |-> result.clash, index |-> result.tree]
  <1>1. /\ result.to \in Seq(Trees) /\ result.at \in Nat /\ result.clash \subseteq Paths
        /\ result.tree \in Trees
    BY DEF Results
  <1>2. stop \in Rebases
    BY <1>1 DEF Rebases
  <1>3. CheckedOut(m, tracked, result.tree) \in Trees
    BY <1>1, CheckedOutTyped
  <1>4. /\ branch \in [Machines -> Seq(Trees)] /\ work \in [Machines -> Trees]
        /\ rebase \in [Machines -> Rebases \cup {NoRebase}]
    BY DEF TypeOK
  <1>5. /\ branch' = [branch EXCEPT ![m] = result.to]
        /\ work' = [work EXCEPT ![m] = CheckedOut(m, tracked, result.tree)]
        /\ rebase' = [rebase EXCEPT ![m] = IF result.clash = {} THEN NoRebase ELSE stop]
    BY DEF RunRebase
  <1>6. /\ stop.mine = mine /\ stop.at = result.at /\ stop.unmerged = result.clash
        /\ stop.index = result.tree
    OBVIOUS
  <1> HIDE DEF stop
  <1>7. QED
    BY <1>1, <1>2, <1>3, <1>4, <1>5, <1>6

LEMMA AbortTyped ==
  ASSUME TypeOK, NEW m \in Machines, AbortRebase(m)
  PROVE  /\ branch' \in [Machines -> Seq(Trees)]
         /\ work' \in [Machines -> Trees]
         /\ rebase' \in [Machines -> Rebases \cup {NoRebase}]
         /\ swept' \subseteq Paths \X Versions
         /\ \/ UNCHANGED <<branch, work, rebase, swept>>
            \/ /\ Rebasing(m) /\ rebase'[m] = NoRebase
               /\ branch'[m] = rebase[m].mine
               /\ work'[m] = CheckedOut(m, rebase[m].index, Tip(rebase[m].mine))
         /\ \A n \in Machines \ {m} : /\ branch'[n] = branch[n] /\ work'[n] = work[n]
                                      /\ rebase'[n] = rebase[n]
  <1>1. /\ branch \in [Machines -> Seq(Trees)] /\ work \in [Machines -> Trees]
        /\ rebase \in [Machines -> Rebases \cup {NoRebase}] /\ swept \subseteq Paths \X Versions
    BY DEF TypeOK
  <1>2. CASE UNCHANGED <<branch, work, rebase, swept>>
    BY <1>1, <1>2
  <1>3. CASE /\ Rebasing(m)
             /\ branch' = [branch EXCEPT ![m] = rebase[m].mine]
             /\ work' = [work EXCEPT ![m] = CheckedOut(m, rebase[m].index, Tip(rebase[m].mine))]
             /\ rebase' = [rebase EXCEPT ![m] = NoRebase]
             /\ swept' = swept \cup (At(work[m], Unstaged(m)) \ At(work'[m], Paths))
    <2>1. /\ rebase[m].mine \in Seq(Trees)
          /\ CheckedOut(m, rebase[m].index, Tip(rebase[m].mine)) \in Trees
      BY <1>3, HistoriesTyped, CheckedOutTyped
    <2>2. At(work[m], Unstaged(m)) \subseteq Paths \X Versions
      <3>1. work[m] \in Trees
        BY <1>1
      <3>2. QED
        BY <3>1, TreesTyped DEF At, Unstaged
    <2>3. QED
      BY <1>1, <1>3, <2>1, <2>2
  <1>4. QED
    BY <1>2, <1>3 DEF AbortRebase

LEMMA AtTyped ==
  ASSUME NEW tree \in Trees, NEW S, S \subseteq Paths
  PROVE  At(tree, S) \subseteq Paths \X Versions
  BY TreesTyped DEF At

LEMMA NextVersionTyped ==
  ASSUME TypeOK, NEW m \in Machines
  PROVE  NextVersion(m) \in Versions /\ edits[m] + 1 \in Nat
  BY DEF TypeOK, NextVersion, Versions

LEMMA EditTyped ==
  ASSUME TypeOK, NEW m \in Machines, NEW p \in Paths, NEW version \in Versions \cup {Absent},
         Edit(m, p, version)
  PROVE  TypeOK'
  <1>1. /\ work' = [work EXCEPT ![m][p] = version] /\ work \in [Machines -> Trees]
        /\ edits \in [Machines -> Nat]
    BY DEF Edit, TypeOK
  <1>2. work' \in [Machines -> Trees]
    BY <1>1 DEF Trees
  <1>3. edits' \in [Machines -> Nat]
    BY <1>1 DEF Edit
  <1>4. /\ At(work[m]', {p}) \subseteq Paths \X Versions
        /\ At(work[m], {p}) \subseteq Paths \X Versions
    BY <1>1, <1>2, AtTyped
  <1>5. QED
    BY <1>2, <1>3, <1>4 DEF Edit, TypeOK, syncVars, conflictVars

LEMMA ReturnTyped ==
  ASSUME TypeOK, NEW m \in Machines, NEW at \in 0..Len(remote), NEW paths \in SUBSET Paths,
         Return(m, at, paths)
  PROVE  /\ pc' \in [Machines -> Steps] /\ pc'[m] = "idle"
         /\ reachable' \in [Machines -> BOOLEAN]
         /\ answers' \in [Machines -> Answers \cup {NoAnswers}]
         /\ conflictAt' \in [Machines -> 0..Len(remote)]
         /\ conflicts' \in [Machines -> SUBSET Paths]
         /\ \A n \in Machines \ {m} : /\ pc'[n] = pc[n] /\ answers'[n] = answers[n]
                                      /\ conflictAt'[n] = conflictAt[n]
  BY DEF Return, Goto, ForgetLocals, Steps, TypeOK

LEMMA FetchTyped ==
  ASSUME TypeOK, NEW m \in Machines, Fetch(m)
  PROVE  TypeOK'
  <1>1. failures' \in 0..MaxFailures /\ MaxFailures \in Nat
    BY Constants DEF Fetch, FetchFails, TypeOK
  <1>2. CASE /\ fetched' = IF Rebasing(m) THEN fetched ELSE [fetched EXCEPT ![m] = Len(remote)]
             /\ reachable' = [reachable EXCEPT ![m] = TRUE]
             /\ Goto(m, IF HasCommits(m) THEN "commit" ELSE "adopt")
             /\ UNCHANGED conflictVars
    <2>1. Len(remote) \in 0..Len(remote)
      BY DEF TypeOK
    <2>2. fetched' \in [Machines -> 0..Len(remote)]
      BY <1>2, <2>1 DEF TypeOK
    <2>3. answers' \in [Machines -> Answers \cup {NoAnswers}]
      BY DEF Fetch, TypeOK
    <2>4. QED
      BY <1>1, <1>2, <2>2, <2>3 DEF Fetch, Goto, Steps, conflictVars, historyVars, TypeOK
  <1>3. CASE /\ reachable' = [reachable EXCEPT ![m] = FALSE] /\ Goto(m, "commit")
             /\ UNCHANGED <<fetched, conflictVars>>
    <2>1. answers' \in [Machines -> Answers \cup {NoAnswers}]
      BY DEF Fetch, TypeOK
    <2>2. QED
      BY <1>1, <1>3, <2>1 DEF Fetch, Goto, Steps, conflictVars, historyVars, TypeOK
  <1>4. CASE Return(m, 0, {}) /\ UNCHANGED fetched
    <2>1. 0 \in 0..Len(remote) /\ {} \in SUBSET Paths
      BY DEF TypeOK
    <2>2. /\ pc' \in [Machines -> Steps]
          /\ reachable' \in [Machines -> BOOLEAN]
          /\ answers' \in [Machines -> Answers \cup {NoAnswers}]
          /\ conflictAt' \in [Machines -> 0..Len(remote)]
          /\ conflicts' \in [Machines -> SUBSET Paths]
      BY <1>4, <2>1, ReturnTyped
    <2>3. QED
      BY <1>1, <1>4, <2>2 DEF Fetch, historyVars, TypeOK
  <1>5. QED
    BY <1>2, <1>3, <1>4 DEF Fetch

LEMMA AdoptHistoryTyped ==
  ASSUME TypeOK, NEW m \in Machines, AdoptHistory(m)
  PROVE  TypeOK'
  <1>1. branch' \in [Machines -> Seq(Trees)]
    BY HistoriesTyped DEF AdoptHistory, TypeOK
  <1>2. held' \in [Machines -> SUBSET Located] /\ pc' \in [Machines -> Steps]
    BY DEF AdoptHistory, Goto, Steps, TypeOK
  <1>3. QED
    BY <1>1, <1>2 DEF AdoptHistory, conflictVars, historyVars, TypeOK

LEMMA AdoptFilesTyped ==
  ASSUME TypeOK, NEW m \in Machines, AdoptFiles(m)
  PROVE  TypeOK'
  <1>1. work' \in [Machines -> Trees]
    BY HistoriesTyped, CheckedOutTyped DEF AdoptFiles, TypeOK
  <1>2. overlaid' \subseteq Paths \X Versions
    <2>1. At(work[m], Paths) \subseteq Paths \X Versions
      BY HistoriesTyped, AtTyped
    <2>2. QED
      BY <2>1 DEF AdoptFiles, TypeOK
  <1>3. pc' \in [Machines -> Steps]
    BY DEF AdoptFiles, Goto, Steps, TypeOK
  <1>4. QED
    BY <1>1, <1>2, <1>3 DEF AdoptFiles, conflictVars, TypeOK

LEMMA AdoptLocationsTyped ==
  ASSUME TypeOK, NEW m \in Machines, AdoptLocations(m)
  PROVE  TypeOK'
  <1> DEFINE Here == {p \in held[m] : Tip(branch[m])[p] # Absent}
  <1>1. held[m] \subseteq Paths /\ Here \subseteq Paths
    BY Constants DEF TypeOK
  <1>2. /\ work' = [work EXCEPT ![m] = [p \in Paths |-> IF p \in Here THEN NextVersion(m) ELSE work[m][p]]]
        /\ edits' = IF Here = {} THEN edits ELSE [edits EXCEPT ![m] = @ + 1]
        /\ made' = made \cup {<<p, NextVersion(m)>> : p \in Here}
        /\ replaced' = replaced \cup At(work[m], Here)
        /\ held' = [held EXCEPT ![m] = {}]
    BY DEF AdoptLocations
  <1> HIDE DEF Here
  <1>3. work' \in [Machines -> Trees]
    <2>1. [p \in Paths |-> IF p \in Here THEN NextVersion(m) ELSE work[m][p]] \in Trees
      BY HistoriesTyped, NextVersionTyped DEF Trees
    <2>2. QED
      BY <1>2, <2>1 DEF TypeOK
  <1>4. edits' \in [Machines -> Nat]
    BY <1>2 DEF TypeOK
  <1>5. made' \subseteq Paths \X Versions
    BY <1>1, <1>2, NextVersionTyped DEF TypeOK
  <1>6. replaced' \subseteq Paths \X Versions
    BY <1>1, <1>2, HistoriesTyped, AtTyped DEF TypeOK
  <1>7. pc' \in [Machines -> Steps] /\ held' \in [Machines -> SUBSET Located]
    BY <1>2 DEF AdoptLocations, Goto, Steps, TypeOK
  <1>8. QED
    BY <1>3, <1>4, <1>5, <1>6, <1>7 DEF AdoptLocations, conflictVars, TypeOK

LEMMA CommitTyped ==
  ASSUME TypeOK, NEW m \in Machines, Commit(m)
  PROVE  TypeOK'
  <1>1. branch' \in [Machines -> Seq(Trees)]
    BY HistoriesTyped, TipIs DEF Commit, TypeOK
  <1>2. rebase' \in [Machines -> Rebases \cup {NoRebase}]
    <2>1. CASE Rebasing(m)
      <3>1. [rebase[m] EXCEPT !.unmerged = {}, !.index = work[m]] \in Rebases
        BY <2>1, HistoriesTyped DEF Rebases
      <3>2. QED
        BY <2>1, <3>1 DEF Commit, TypeOK
    <2>2. CASE ~Rebasing(m)
      BY <2>2 DEF Commit, TypeOK
    <2>3. QED
      BY <2>1, <2>2
  <1>3. pc' \in [Machines -> Steps]
    BY DEF Commit, Goto, Steps, TypeOK
  <1>4. QED
    BY <1>1, <1>2, <1>3 DEF Commit, conflictVars, historyVars, TypeOK

LEMMA RebaseStepTyped ==
  ASSUME TypeOK, NEW m \in Machines, Rebase(m)
  PROVE  TypeOK'
  <1> DEFINE result == Rebased(m, Origin(m))
  <1>1. result \in Results(branch[m])
    <2>1. Common(branch[m], Origin(m)) \in 0..Len(branch[m])
      BY HistoriesTyped, CommonOfAll
    <2>2. QED
      BY <2>1, HistoriesTyped, ReplayExtends DEF Rebased
  <1> HIDE DEF result
  <1>2. CASE UNCHANGED <<branch, work, rebase, reachable, answers, conflictVars>> /\ Goto(m, "push")
    BY <1>2 DEF Rebase, Goto, Steps, conflictVars, historyVars, TypeOK
  <1>3. CASE Return(m, fetched[m], {}) /\ UNCHANGED <<branch, work, rebase>>
    <2>1. fetched[m] \in 0..Len(remote) /\ {} \in SUBSET Paths
      BY DEF TypeOK
    <2>2. QED
      BY <1>3, <2>1, ReturnTyped DEF Rebase, historyVars, TypeOK
  <1>4. CASE /\ RunRebase(m, branch[m], Tip(branch[m]), result)
             /\ Goto(m, IF result.clash = {} THEN "push" ELSE "abort")
             /\ UNCHANGED <<reachable, answers, conflictVars>>
    <2>1. /\ branch' \in [Machines -> Seq(Trees)]
          /\ work' \in [Machines -> Trees]
          /\ rebase' \in [Machines -> Rebases \cup {NoRebase}]
      BY <1>1, <1>4, HistoriesTyped, RebaseTyped
    <2>2. QED
      BY <1>4, <2>1 DEF Rebase, Goto, Steps, conflictVars, historyVars, TypeOK
  <1>5. QED
    BY <1>2, <1>3, <1>4 DEF Rebase, result

LEMMA AbortStepTyped ==
  ASSUME TypeOK, NEW m \in Machines, Abort(m), rebase[m] # NoRebase
  PROVE  TypeOK'
  <1>1. /\ branch' \in [Machines -> Seq(Trees)]
        /\ work' \in [Machines -> Trees]
        /\ rebase' \in [Machines -> Rebases \cup {NoRebase}]
        /\ swept' \subseteq Paths \X Versions
    BY AbortTyped DEF Abort
  <1>2. fetched[m] \in 0..Len(remote) /\ rebase[m].unmerged \in SUBSET Paths
    BY HistoriesTyped DEF Rebasing
  <1>3. stranded' \in BOOLEAN
    BY DEF Abort, NoteStranded, TypeOK
  <1>4. Return(m, fetched[m], rebase[m].unmerged)
    BY DEF Abort
  <1>5. QED
    BY <1>1, <1>2, <1>3, <1>4, ReturnTyped DEF Abort, TypeOK

LEMMA PushTyped ==
  ASSUME TypeOK, NEW m \in Machines, Push(m)
  PROVE  /\ TypeOK' /\ Begins(remote, remote')
         /\ remote' = remote \/ (FastForward(m) /\ remote' = branch[m])
  <1>1. remote' = remote \/ (FastForward(m) /\ remote' = branch[m])
    <2>1. \/ FastForward(m) /\ remote' = branch[m]
          \/ remote' = remote
          \/ UNCHANGED <<remote, fetched, failures>>
      BY Zenon DEF Push
    <2>2. UNCHANGED <<remote, fetched, failures>> => remote' = remote
      OBVIOUS
    <2>3. QED
      BY <2>1, <2>2, Zenon
  <1>2. remote \in Seq(Trees) /\ branch[m] \in Seq(Trees)
    BY HistoriesTyped
  <1>3. Begins(remote, remote')
    <2>1. CASE remote' = remote
      BY <2>1, <1>2 DEF Begins
    <2>2. CASE FastForward(m) /\ remote' = branch[m]
      BY <2>2, <1>2, CommonOfAll DEF FastForward
    <2>3. QED
      BY <1>1, <2>1, <2>2
  <1>4. remote' \in Seq(Trees) /\ Len(remote) <= Len(remote')
    BY <1>1, <1>2, <1>3 DEF Begins
  <1>5. fetched' \in [Machines -> 0..Len(remote')]
    <2>1. \A n \in Machines : fetched[n] \in 0..Len(remote')
      BY <1>2, <1>4 DEF TypeOK
    <2>2. \/ UNCHANGED <<remote, fetched, failures>>
          \/ UNCHANGED fetched
          \/ fetched' = [fetched EXCEPT ![m] = Len(branch[m])] /\ remote' = branch[m]
      BY Zenon DEF Push
    <2>3. fetched \in [Machines -> 0..Len(remote')]
      BY <2>1 DEF TypeOK
    <2>4. CASE fetched' = fetched
      BY <2>3, <2>4
    <2>5. CASE fetched' = [fetched EXCEPT ![m] = Len(branch[m])] /\ remote' = branch[m]
      <3>1. Len(branch[m]) \in 0..Len(remote')
        BY <1>2, <2>5
      <3>2. QED
        BY <2>3, <2>5, <3>1
    <2>6. QED
      BY <2>2, <2>4, <2>5
  <1>6. failures' \in 0..MaxFailures
    BY Constants DEF Push, FetchFails, TypeOK
  <1>7. /\ pc' \in [Machines -> Steps]
        /\ reachable' \in [Machines -> BOOLEAN]
        /\ answers' \in [Machines -> Answers \cup {NoAnswers}]
        /\ conflictAt' \in [Machines -> 0..Len(remote')]
        /\ conflicts' \in [Machines -> SUBSET Paths]
    <2>1. 0 \in 0..Len(remote) /\ {} \in SUBSET Paths /\ Return(m, 0, {})
      BY <1>2 DEF Push
    <2>2. conflictAt' \in [Machines -> 0..Len(remote)]
      BY <2>1, ReturnTyped
    <2>3. conflictAt' \in [Machines -> 0..Len(remote')]
      BY <1>2, <1>4, <2>2
    <2>4. QED
      BY <2>1, <2>3, ReturnTyped
  <1>8. TypeOK'
    BY <1>4, <1>5, <1>6, <1>7 DEF Push, historyVars, TypeOK
  <1>9. QED
    BY <1>1, <1>3, <1>8

LEMMA CutOffTyped ==
  ASSUME TypeOK, NEW m \in Machines, CutOff(m)
  PROVE  TypeOK'
  <1>1. cuts' \in 0..MaxCuts
    BY Constants DEF CutOff, TypeOK
  <1>2. held' \in [Machines -> SUBSET Located] /\ pc' \in [Machines -> Steps]
    BY DEF CutOff, Goto, Steps, TypeOK
  <1>3. reachable' \in [Machines -> BOOLEAN] /\ answers' \in [Machines -> Answers \cup {NoAnswers}]
    BY DEF CutOff, ForgetLocals, TypeOK
  <1>4. adoptionCut' \in BOOLEAN /\ stranded' \in BOOLEAN
    BY DEF CutOff, TypeOK
  <1>5. QED
    BY <1>1, <1>2, <1>3, <1>4 DEF CutOff, conflictVars, TypeOK

LEMMA RepairTyped ==
  ASSUME TypeOK, NEW m \in Machines, NEW theirs \in SUBSET conflicts[m], Repair(m, theirs)
  PROVE  LET onto == SubSeq(remote, 1, conflictAt[m])
             result == Rebased(m, onto) IN
         /\ TypeOK'
         /\ onto \in Seq(Trees) /\ result \in Results(branch[m])
         /\ conflictAt[m] \in 1..Len(remote)
         /\ answers'[m] # NoAnswers /\ answers'[m].mine = Tip(branch[m])
         /\ \A n \in Machines \ {m} : answers'[n] = answers[n]
  <1> DEFINE onto == SubSeq(remote, 1, conflictAt[m])
             result == Rebased(m, onto)
             mine == [mine |-> Tip(branch[m]), theirs |-> theirs]
  <1>1. conflictAt[m] \in 1..Len(remote)
    BY DEF Repair, TypeOK
  <1>2. onto \in Seq(Trees)
    BY <1>1, HistoriesTyped
  <1> HIDE DEF onto
  <1>3. result \in Results(branch[m])
    <2>1. Common(branch[m], onto) \in 0..Len(branch[m])
      BY <1>2, HistoriesTyped, CommonOfAll
    <2>2. QED
      BY <1>2, <2>1, HistoriesTyped, ReplayExtends DEF Rebased
  <1>4. mine \in Answers /\ mine.mine = Tip(branch[m])
    <2>1. theirs \subseteq Paths
      BY DEF TypeOK
    <2>2. QED
      BY <2>1, HistoriesTyped DEF Answers
  <1>5. answers' = [answers EXCEPT ![m] = mine]
    BY DEF Repair
  <1> HIDE DEF result, mine
  <1>6. answers' \in [Machines -> Answers \cup {NoAnswers}]
    BY <1>4, <1>5 DEF TypeOK
  <1>7. /\ answers'[m] # NoAnswers /\ answers'[m].mine = Tip(branch[m])
        /\ \A n \in Machines \ {m} : answers'[n] = answers[n]
    BY <1>4, <1>5, Constants DEF TypeOK
  <1>8. /\ branch' \in [Machines -> Seq(Trees)]
        /\ work' \in [Machines -> Trees]
        /\ rebase' \in [Machines -> Rebases \cup {NoRebase}]
    <2>1. CASE UNCHANGED <<branch, work, rebase>>
      BY <2>1 DEF TypeOK
    <2>2. CASE RunRebase(m, branch[m], Tip(branch[m]), result)
      BY <1>3, <2>2, HistoriesTyped, RebaseTyped
    <2>3. QED
      BY <2>1, <2>2 DEF Repair, result, onto
  <1>9. pc' \in [Machines -> Steps]
    BY DEF Repair, Goto, Steps, TypeOK
  <1>10. TypeOK'
    BY <1>6, <1>8, <1>9 DEF Repair, conflictVars, historyVars, TypeOK
  <1>11. QED
    BY <1>1, <1>2, <1>3, <1>7, <1>10 DEF result, onto

\* What a pass over the unmerged paths decides.
Decided(m, tree) ==
  [p \in Paths |-> IF p \notin Unmerged(m) THEN tree[p]
                  ELSE IF p \in Unmerged(m) \cap answers[m].theirs THEN remote[conflictAt[m]][p]
                  ELSE answers[m].mine[p]]

LEMMA ResolveTyped ==
  ASSUME TypeOK, NEW m \in Machines, InPlace(m), Resolve(m)
  PROVE  LET Theirs == Unmerged(m) \cap answers[m].theirs
             theirTree == remote[conflictAt[m]] IN
         /\ TypeOK'
         /\ pc[m] = "resolve" /\ answers[m] \in Answers /\ conflictAt[m] \in 1..Len(remote)
         /\ \/ /\ AbortRebase(m) /\ NoteStranded(m) /\ pc'[m] = "idle" /\ UNCHANGED replaced
               /\ \A n \in Machines \ {m} : answers'[n] = answers[n] /\ conflictAt'[n] = conflictAt[n]
            \/ /\ Rebasing(m) /\ rebase[m].unmerged # {}
               /\ work' = [work EXCEPT ![m] = Decided(m, work[m])]
               /\ rebase' = [rebase EXCEPT ![m].unmerged = {},
                                           ![m].index = Decided(m, rebase[m].index)]
               /\ replaced' = replaced \cup At(answers[m].mine, Theirs)
                                       \cup At(theirTree, Unmerged(m) \ Theirs)
               /\ swept' = swept \cup At(work[m], Unstaged(m) \cap Unmerged(m))
               /\ pc'[m] = "continue"
               /\ UNCHANGED <<branch, answers, conflictAt, stranded>>
  <1> DEFINE Theirs == Unmerged(m) \cap answers[m].theirs
             theirTree == remote[conflictAt[m]]
             decides == /\ Unmerged(m) # {}
                        /\ work' = [work EXCEPT ![m] = Decided(m, work[m])]
                        /\ rebase' = [rebase EXCEPT ![m].unmerged = {},
                                                    ![m].index = Decided(m, rebase[m].index)]
                        /\ replaced' = replaced \cup At(answers[m].mine, Theirs)
                                                \cup At(theirTree, Unmerged(m) \ Theirs)
                        /\ swept' = swept \cup At(work[m], Unstaged(m) \cap Unmerged(m))
                        /\ Goto(m, "continue")
                        /\ UNCHANGED <<branch, reachable, answers, conflictVars, stranded>>
             at == IF Unmerged(m) = {} THEN 0 ELSE conflictAt[m]
             gives == /\ AbortRebase(m) /\ NoteStranded(m)
                      /\ Return(m, at, Unmerged(m) \ conflicts[m])
                      /\ UNCHANGED replaced
  <1>1. pc[m] = "resolve" /\ (decides \/ gives)
    BY DEF Resolve, Decided
  <1>2. answers[m] \in Answers /\ conflictAt[m] \in 1..Len(remote)
    BY <1>1 DEF InPlace, TypeOK
  <1>3. theirTree \in Trees /\ answers[m].mine \in Trees /\ Unmerged(m) \subseteq Paths
    BY <1>2, HistoriesTyped, TipIs DEF Answers, Unmerged
  <1>4. UNCHANGED <<remote, fetched, held, edits, failures, cuts, made, overlaid, adoptionCut>>
    BY DEF Resolve
  <1>5. CASE decides
    <2>1. Rebasing(m) /\ rebase[m].unmerged # {}
      BY <1>5 DEF Unmerged
    <2>2. \A tree \in Trees : Decided(m, tree) \in Trees
      BY <1>3 DEF Decided, Trees
    <2>3. work' \in [Machines -> Trees]
      BY <1>5, <2>2, HistoriesTyped DEF TypeOK
    <2>4. rebase' \in [Machines -> Rebases \cup {NoRebase}]
      <3>1. [rebase[m] EXCEPT !.unmerged = {}, !.index = Decided(m, rebase[m].index)] \in Rebases
        BY <2>1, <2>2, HistoriesTyped DEF Rebases
      <3>2. QED
        BY <1>5, <2>1, <3>1 DEF TypeOK
    <2>5. replaced' \subseteq Paths \X Versions
      <3>1. At(answers[m].mine, Theirs) \subseteq Paths \X Versions
        BY <1>3, AtTyped
      <3>2. At(theirTree, Unmerged(m) \ Theirs) \subseteq Paths \X Versions
        BY <1>3, AtTyped
      <3>3. QED
        BY <1>5, <3>1, <3>2 DEF TypeOK
    <2>6. swept' \subseteq Paths \X Versions
      <3>1. At(work[m], Unstaged(m) \cap Unmerged(m)) \subseteq Paths \X Versions
        BY <1>3, HistoriesTyped, AtTyped
      <3>2. QED
        BY <1>5, <3>1 DEF TypeOK
    <2>7. pc' \in [Machines -> Steps] /\ pc'[m] = "continue"
      BY <1>5 DEF Goto, Steps, TypeOK
    <2>8. UNCHANGED <<branch, reachable, answers, conflictAt, conflicts, stranded>>
      BY <1>5 DEF conflictVars
    <2>9. TypeOK'
      BY <1>4, <2>3, <2>4, <2>5, <2>6, <2>7, <2>8 DEF TypeOK
    <2>10. QED
      BY <1>1, <1>2, <1>5, <2>1, <2>7, <2>8, <2>9
  <1>6. CASE gives
    <2>1. at \in 0..Len(remote) /\ Unmerged(m) \ conflicts[m] \in SUBSET Paths
      BY <1>2, <1>3
    <2>2. /\ pc' \in [Machines -> Steps] /\ pc'[m] = "idle"
          /\ reachable' \in [Machines -> BOOLEAN]
          /\ answers' \in [Machines -> Answers \cup {NoAnswers}]
          /\ conflictAt' \in [Machines -> 0..Len(remote)]
          /\ conflicts' \in [Machines -> SUBSET Paths]
          /\ \A n \in Machines \ {m} : answers'[n] = answers[n] /\ conflictAt'[n] = conflictAt[n]
      BY <1>6, <2>1, ReturnTyped
    <2>3. /\ branch' \in [Machines -> Seq(Trees)]
          /\ work' \in [Machines -> Trees]
          /\ rebase' \in [Machines -> Rebases \cup {NoRebase}]
          /\ swept' \subseteq Paths \X Versions
      BY <1>6, AbortTyped
    <2>4. stranded' \in BOOLEAN
      BY <1>6 DEF NoteStranded, TypeOK
    <2>5. TypeOK'
      BY <1>4, <1>6, <2>2, <2>3, <2>4 DEF TypeOK
    <2>6. QED
      BY <1>1, <1>2, <1>6, <2>2, <2>5
  <1>7. QED
    BY <1>1, <1>5, <1>6

(***************************************************************************)
(* What a step leaves alone                                                *)
(***************************************************************************)

\* What a step may do to what everybody can see.
Onward ==
  /\ TypeOK /\ TypeOK'
  /\ Begins(remote, remote')
  /\ replaced \subseteq replaced' /\ (adoptionCut => adoptionCut')

\* What a step leaves dropped stays so.
LEMMA GoneGrows ==
  ASSUME Onward
  PROVE  /\ Gone \subseteq Gone' /\ replaced' \subseteq Gone'
         /\ adoptionCut' => In(TreesOf({remote'})) \subseteq Gone'
  <1>1. ASSUME NEW v \in In(TreesOf({remote})) PROVE v \in In(TreesOf({remote'}))
    <2>1. PICK i \in 1..Len(remote) : v \in At(remote[i], Paths)
      BY <1>1 DEF In, TreesOf
    <2>2. remote[i] = remote'[i] /\ i \in 1..Len(remote')
      BY DEF Onward, TypeOK, Begins
    <2>3. QED
      BY <2>1, <2>2 DEF In, TreesOf
  <1>2. QED
    BY <1>1 DEF Gone, Onward

Untouched(n) == branch'[n] = branch[n] /\ rebase'[n] = rebase[n]

LEMMA RemoteStays ==
  ASSUME TypeOK, TypeOK', remote' = remote, replaced \subseteq replaced', adoptionCut => adoptionCut'
  PROVE  Onward
  <1>1. remote \in Seq(Trees)
    BY DEF TypeOK
  <1>2. Begins(remote, remote')
    BY <1>1 DEF Begins
  <1>3. QED
    BY <1>2 DEF Onward

LEMMA UntouchedStays ==
  ASSUME Onward, NEW n \in Machines, InPlace(n), Untouched(n)
  PROVE  /\ Rebasing(n)' = Rebasing(n) /\ OwnBranch(n)' = OwnBranch(n)
         /\ Changing(branch'[n])
         /\ Rebasing(n) => /\ Changing(rebase'[n].mine)
                           /\ rebase'[n].at \in 1..Len(rebase'[n].mine)
                           /\ Common(rebase'[n].mine, remote') < Common(branch'[n], remote')
         /\ Common(OwnBranch(n), remote) <= Common(OwnBranch(n)', remote')
  <1>1. Rebasing(n)' = Rebasing(n) /\ OwnBranch(n)' = OwnBranch(n)
    BY DEF Untouched, Rebasing, OwnBranch
  <1>2. /\ remote \in Seq(Trees) /\ remote' \in Seq(Trees) /\ Begins(remote, remote')
        /\ branch[n] \in Seq(Trees)
        /\ OwnBranch(n) \in Seq(Trees)
    BY HistoriesTyped DEF Onward, TypeOK
  <1>3. Begins(branch[n], branch[n]) /\ Begins(OwnBranch(n), OwnBranch(n))
    BY DEF Begins
  <1>4. Common(OwnBranch(n), remote) <= Common(OwnBranch(n)', remote')
    BY <1>1, <1>2, <1>3, CommonGrows
  <1>5. ASSUME Rebasing(n)
        PROVE /\ Changing(rebase[n].mine) /\ rebase[n].at \in 1..Len(rebase[n].mine)
              /\ Common(rebase[n].mine, remote') < Common(branch[n], remote')
    <2>1. Changing(rebase[n].mine) /\ rebase[n].at \in 1..Len(rebase[n].mine)
          /\ Common(rebase[n].mine, remote) < Common(branch[n], remote)
      BY <1>5 DEF InPlace
    <2>2. rebase[n].mine \in Seq(Trees) /\ Begins(rebase[n].mine, rebase[n].mine)
      BY <1>5, HistoriesTyped DEF Onward, Begins
    <2>3. /\ Common(branch[n], remote) \in 0..Len(remote)
          /\ Common(branch[n], remote') \in 0..Len(remote')
          /\ Common(rebase[n].mine, remote) \in 0..Len(remote)
      BY <1>2, <2>2, CommonOfAll
    <2>4. Common(branch[n], remote) <= Common(branch[n], remote')
      BY <1>2, <1>3, CommonGrows
    <2>5. Common(rebase[n].mine, remote) < Len(remote)
      BY <1>2, <2>1, <2>3
    <2>6. Common(rebase[n].mine, remote') = Common(rebase[n].mine, remote)
      BY <1>2, <2>2, <2>5, CommonGrows
    <2>7. QED
      BY <1>2, <2>1, <2>3, <2>4, <2>6
  <1>6. QED
    BY <1>1, <1>4, <1>5 DEF Untouched, InPlace

\* A machine whose histories a step leaves alone is still in place, wherever it goes on to.
LEMMA UntouchedInPlace ==
  ASSUME Onward, NEW n \in Machines, InPlace(n), Untouched(n),
         pc'[n] = "adopt" => branch[n] = <<>>,
         pc'[n] = "checkout" => pc[n] = "checkout",
         pc'[n] \in {"abort", "continue"} => Rebasing(n),
         pc'[n] = "continue" => rebase[n].unmerged = {},
         pc'[n] \in {"resolve", "continue"} => answers'[n] # NoAnswers /\ conflictAt'[n] # 0
  PROVE  /\ InPlace(n)'
         /\ Common(OwnBranch(n), remote) <= Common(OwnBranch(n)', remote')
  <1>1. pc'[n] = "checkout" => Begins(branch[n], remote')
    <2>1. /\ branch[n] \in Seq(Trees) /\ remote \in Seq(Trees) /\ remote' \in Seq(Trees)
          /\ Begins(remote, remote')
      BY DEF Onward, TypeOK
    <2>2. pc'[n] = "checkout" => Begins(branch[n], remote)
      BY DEF InPlace
    <2>3. QED
      BY <2>1, <2>2, BeginsOn
  <1>2. QED
    BY <1>1, UntouchedStays DEF InPlace, Untouched

\* And it drops nothing, if it holds in its files what it drops from none.
LEMMA UntouchedDrops ==
  ASSUME Onward, NEW n \in Machines, DropsNothing(n), Untouched(n),
         ~Rebasing(n) /\ pc'[n] # "checkout" => Settles(Gone', Tip(branch[n]), work'[n], {}),
         Open(n)' => Open(n),
         Open(n) /\ pc'[n] \in {"resolve", "continue"} =>
           Between(n, remote'[conflictAt'[n]], answers'[n].mine)
  PROVE  DropsNothing(n)'
  <1>1. /\ Rebasing(n)' = Rebasing(n) /\ OwnBranch(n)' = OwnBranch(n) /\ branch'[n] = branch[n]
        /\ rebase'[n] = rebase[n]
    BY DEF Untouched, Rebasing, OwnBranch
  <1>2. branch[n] \in Seq(Trees) /\ OwnBranch(n) \in Seq(Trees) /\ Gone \subseteq Gone'
    BY HistoriesTyped, GoneGrows DEF Onward
  <1>3. Steady(Gone', OwnBranch(n)')
    BY <1>1, <1>2, SteadyStays DEF DropsNothing
  <1>4. ASSUME Open(n)
        PROVE /\ Steady(Gone', branch'[n])
              /\ Settles(Gone', Tip(branch'[n]), rebase'[n].index, rebase'[n].unmerged)
              /\ rebase'[n].unmerged # {} => Between(n, Tip(branch[n]), Tip(branch[n]))
    BY <1>1, <1>2, <1>4, SteadyStays DEF DropsNothing
  <1>5. \A a, b : Between(n, a, b)' = Between(n, a, b)
    BY <1>1 DEF Between
  <1>6. QED
    BY <1>1, <1>3, <1>4, <1>5 DEF DropsNothing

\* A machine that a step does not move.
Elsewhere(n) ==
  /\ Untouched(n)
  /\ work'[n] = work[n] /\ pc'[n] = pc[n]
  /\ answers'[n] = answers[n] /\ conflictAt'[n] = conflictAt[n]

LEMMA ElsewhereStays ==
  ASSUME Onward, NEW n \in Machines, InPlace(n), Elsewhere(n)
  PROVE  /\ InPlace(n)'
         /\ Common(OwnBranch(n), remote) <= Common(OwnBranch(n)', remote')
         /\ DropsNothing(n) => DropsNothing(n)'
  <1> USE DEF Elsewhere
  <1>1. InPlace(n)' /\ Common(OwnBranch(n), remote) <= Common(OwnBranch(n)', remote')
    <2>1. /\ pc'[n] = "adopt" => branch[n] = <<>>
          /\ pc'[n] = "checkout" => pc[n] = "checkout"
          /\ pc'[n] \in {"abort", "continue"} => Rebasing(n)
          /\ pc'[n] = "continue" => rebase[n].unmerged = {}
          /\ pc'[n] \in {"resolve", "continue"} => answers'[n] # NoAnswers /\ conflictAt'[n] # 0
      BY DEF InPlace
    <2>2. QED
      BY <2>1, UntouchedInPlace
  <1>2. ASSUME DropsNothing(n) PROVE DropsNothing(n)'
    <2>1. /\ Gone \subseteq Gone' /\ Begins(remote, remote')
          /\ conflictAt[n] \in 0..Len(remote)
      BY GoneGrows DEF Onward, TypeOK
    <2>2. ~Rebasing(n) /\ pc'[n] # "checkout" => Settles(Gone', Tip(branch[n]), work'[n], {})
      BY <1>2, <2>1, SteadyStays DEF DropsNothing
    <2>3. Open(n)' => Open(n)
      BY DEF Open, Rebasing, Untouched
    <2>4. ASSUME Open(n), pc'[n] \in {"resolve", "continue"}
          PROVE Between(n, remote'[conflictAt'[n]], answers'[n].mine)
      <3>1. conflictAt[n] \in 1..Len(remote)
        BY <2>1, <2>4 DEF InPlace
      <3>2. remote'[conflictAt[n]] = remote[conflictAt[n]]
        BY <2>1, <3>1 DEF Begins
      <3>3. QED
        BY <1>2, <2>4, <3>2 DEF DropsNothing
    <2>5. QED
      BY <1>2, <2>2, <2>3, <2>4, UntouchedDrops
  <1>3. QED
    BY <1>1, <1>2

\* Files may be written over whose records have been replaced.
LEMMA SettlesRewritten ==
  ASSUME NEW R, NEW S, R \subseteq S, NEW tip, NEW old, NEW new, Settles(R, tip, old, {}),
         \A p \in Paths : new[p] # old[p] => old[p] \in {Absent, Marked} \/ <<p, old[p]>> \in S
  PROVE  Settles(S, tip, new, {})
  <1>1. ASSUME NEW p \in Paths, tip[p] \notin {Absent, Marked}, new[p] # tip[p]
        PROVE <<p, tip[p]>> \in S
    <2>1. CASE old[p] = tip[p]
      BY <1>1, <2>1
    <2>2. CASE old[p] # tip[p]
      BY <1>1, <2>2 DEF Settles
    <2>3. QED
      BY <2>1, <2>2
  <1>2. QED
    BY <1>1 DEF Settles

\* Whatever is dropped of a history that the remote begins with is in the remote.
LEMMA PublishedSettles ==
  ASSUME NEW h \in Seq(Trees), NEW t \in Seq(Trees), Begins(h, t), NEW new
  PROVE  Settles(In(TreesOf({t})), Tip(h), new, {})
  <1>1. CASE h = <<>>
    BY <1>1 DEF Settles, Tip, EmptyTree
  <1>2. CASE h # <<>>
    <2>1. Len(h) \in 1..Len(h) /\ Len(h) \in 1..Len(t)
      BY <1>2 DEF Begins
    <2>2. Tip(h) = t[Len(h)]
      BY <1>2, <2>1 DEF Tip, Begins
    <2>3. At(Tip(h), Paths) \subseteq In(TreesOf({t}))
      BY <2>1, <2>2 DEF In, TreesOf
    <2>4. QED
      BY <2>3 DEF Settles, At
  <1>3. QED
    BY <1>1, <1>2

\* What is checked out is in the files.
LEMMA CheckedOutSettles ==
  ASSUME NEW R, NEW m, NEW tracked, NEW tree
  PROVE  Settles(R, tree, CheckedOut(m, tracked, tree), {})
  BY DEF Settles, CheckedOut

LEMMA AtIs ==
  ASSUME NEW tree, NEW S, NEW p \in S, tree[p] \notin {Absent, Marked}
  PROVE  <<p, tree[p]>> \in At(tree, S)
  BY DEF At

(***************************************************************************)
(* The steps                                                               *)
(***************************************************************************)

\* What every step of machine m does: the others stay where they are, and machine m is in
\* place, has at least as much in common with the remote, and drops nothing.
Goes(m) ==
  /\ Onward
  /\ \A n \in Machines \ {m} : Elsewhere(n)
  /\ InPlace(m)'
  /\ Common(OwnBranch(m), remote) <= Common(OwnBranch(m)', remote')
  /\ DropsNothing(m)'

LEMMA EditGoes ==
  ASSUME IInv, NEW m \in Machines, NEW p \in Paths, NEW version \in Versions \cup {Absent},
         Edit(m, p, version)
  PROVE  Goes(m) /\ remote' = remote
  <1>1. TypeOK /\ TypeOK' /\ InPlace(m) /\ DropsNothing(m)
    BY EditTyped DEF IInv
  <1>2. /\ UNCHANGED <<remote, branch, rebase, pc, answers, conflictAt, adoptionCut>>
        /\ work' = [work EXCEPT ![m][p] = version]
        /\ replaced' = replaced \cup At(work[m], {p})
    BY DEF Edit, syncVars, conflictVars
  <1>3. Onward /\ \A n \in Machines : Untouched(n)
    BY <1>1, <1>2, RemoteStays DEF Untouched
  <1>4. \A n \in Machines \ {m} : Elsewhere(n)
    BY <1>1, <1>2, <1>3 DEF Elsewhere, TypeOK
  <1>5. InPlace(m)' /\ Common(OwnBranch(m), remote) <= Common(OwnBranch(m)', remote')
    <2>1. /\ pc'[m] = "adopt" => branch[m] = <<>>
          /\ pc'[m] = "checkout" => pc[m] = "checkout"
          /\ pc'[m] \in {"abort", "continue"} => Rebasing(m)
          /\ pc'[m] = "continue" => rebase[m].unmerged = {}
          /\ pc'[m] \in {"resolve", "continue"} => answers'[m] # NoAnswers /\ conflictAt'[m] # 0
      BY <1>1, <1>2 DEF InPlace
    <2>2. QED
      BY <1>1, <1>3, <2>1, UntouchedInPlace
  <1>6. DropsNothing(m)'
    <2>1. DropsNothing(m)
      BY <1>1
    <2>2. \A q \in Paths : work'[m][q] # work[m][q] =>
            work[m][q] \in {Absent, Marked} \/ <<q, work[m][q]>> \in Gone'
      <3>1. \A q \in Paths : work'[m][q] # work[m][q] => q = p
        BY <1>1, <1>2 DEF TypeOK, Trees
      <3>2. work[m][p] \notin {Absent, Marked} => <<p, work[m][p]>> \in At(work[m], {p})
        BY AtIs
      <3>3. QED
        BY <1>2, <1>3, <3>1, <3>2, GoneGrows
    <2>3. ASSUME ~Rebasing(m), pc'[m] # "checkout"
          PROVE Settles(Gone', Tip(branch[m]), work'[m], {})
      <3>1. Settles(Gone, Tip(branch[m]), work[m], {}) /\ Gone \subseteq Gone'
        BY <1>2, <1>3, <2>1, <2>3, GoneGrows DEF DropsNothing
      <3>2. QED
        BY <2>2, <3>1, SettlesRewritten
    <2>4. Open(m)' => Open(m)
      BY <1>2 DEF Open, Rebasing
    <2>5. Open(m) /\ pc'[m] \in {"resolve", "continue"} =>
            Between(m, remote'[conflictAt'[m]], answers'[m].mine)
      BY <1>2, <2>1 DEF DropsNothing
    <2>6. QED
      BY <1>3, <2>1, <2>3, <2>4, <2>5, UntouchedDrops
  <1>7. QED
    BY <1>2, <1>3, <1>4, <1>5, <1>6 DEF Goes

\* A step that moves machine m on without touching its histories, its files or its answers.
LEMMA MovesOn ==
  ASSUME IInv, TypeOK', NEW m \in Machines,
         UNCHANGED <<remote, branch, rebase, replaced, adoptionCut>>,
         ~Rebasing(m) => pc[m] # "checkout" /\ work'[m] = work[m],
         pc'[m] # "checkout",
         \A n \in Machines \ {m} : /\ work'[n] = work[n] /\ pc'[n] = pc[n]
                                  /\ answers'[n] = answers[n] /\ conflictAt'[n] = conflictAt[n],
         pc'[m] = "adopt" => branch[m] = <<>>,
         pc'[m] \notin {"abort", "resolve", "continue"}
  PROVE  Goes(m)
  <1>1. TypeOK /\ InPlace(m) /\ DropsNothing(m)
    BY DEF IInv
  <1>2. Onward /\ \A n \in Machines : Untouched(n)
    BY <1>1, RemoteStays DEF Untouched
  <1>3. \A n \in Machines \ {m} : Elsewhere(n)
    BY <1>2 DEF Elsewhere
  <1>4. InPlace(m)' /\ Common(OwnBranch(m), remote) <= Common(OwnBranch(m)', remote')
    BY <1>1, <1>2, UntouchedInPlace
  <1>5. DropsNothing(m)'
    <2>1. DropsNothing(m)
      BY <1>1
    <2>2. ~Rebasing(m) => Settles(Gone', Tip(branch[m]), work'[m], {})
      BY <1>2, <2>1, GoneGrows, SteadyStays DEF DropsNothing
    <2>3. Open(m)' => Open(m)
      BY DEF Open, Rebasing
    <2>4. QED
      BY <1>2, <2>1, <2>2, <2>3, UntouchedDrops
  <1>6. QED
    BY <1>2, <1>3, <1>4, <1>5 DEF Goes

LEMMA FetchGoes ==
  ASSUME IInv, NEW m \in Machines, Fetch(m)
  PROVE  Goes(m) /\ remote' = remote
  <1>1. TypeOK /\ TypeOK'
    BY FetchTyped DEF IInv
  <1>2. /\ UNCHANGED <<remote, branch, rebase, replaced, adoptionCut, work>>
        /\ pc[m] \in {"idle", "fetch"}
    BY DEF Fetch, historyVars
  <1>3. /\ \A n \in Machines \ {m} : /\ work'[n] = work[n] /\ pc'[n] = pc[n]
                                     /\ answers'[n] = answers[n] /\ conflictAt'[n] = conflictAt[n]
        /\ pc'[m] = "adopt" => branch[m] = <<>>
        /\ pc'[m] \notin {"checkout", "abort", "resolve", "continue"}
    BY <1>1, <1>2 DEF Fetch, Goto, Return, ForgetLocals, HasCommits, conflictVars, TypeOK
  <1>4. QED
    BY <1>1, <1>2, <1>3, MovesOn

LEMMA AdoptHistoryGoes ==
  ASSUME IInv, NEW m \in Machines, AdoptHistory(m)
  PROVE  Goes(m) /\ remote' = remote
  <1>1. TypeOK /\ TypeOK' /\ InPlace(m)
    BY AdoptHistoryTyped DEF IInv
  <1>2. /\ UNCHANGED <<remote, rebase, replaced, adoptionCut, work, answers, conflictAt>>
        /\ pc[m] = "adopt" /\ branch' = [branch EXCEPT ![m] = Origin(m)]
        /\ pc' = [pc EXCEPT ![m] = "checkout"]
    BY DEF AdoptHistory, Goto, conflictVars, historyVars
  <1>3. branch'[m] = Origin(m) /\ pc'[m] = "checkout"
    BY <1>1, <1>2 DEF TypeOK
  <1>4. Onward
    BY <1>1, <1>2, RemoteStays
  <1>5. \A n \in Machines \ {m} : Elsewhere(n)
    BY <1>1, <1>2 DEF Elsewhere, Untouched, TypeOK
  <1>6. ~Rebasing(m) /\ ~Rebasing(m)' /\ branch[m] = <<>>
    <2>1. branch[m] = <<>> /\ <<>> \in Seq(Trees)
      BY <1>1, <1>2 DEF InPlace
    <2>2. ASSUME Rebasing(m) PROVE FALSE
      <3>1. Common(branch[m], remote) <= 0 /\ Common(branch[m], remote) \in Nat
        BY <1>1, <2>1, HistoriesTyped, CommonOfAll
      <3>2. rebase[m].mine \in Seq(Trees) /\ remote \in Seq(Trees)
        BY <1>1, <2>2, HistoriesTyped
      <3>3. Common(rebase[m].mine, remote) \in Nat
        BY <3>2, CommonOfAll
      <3>4. QED
        BY <1>1, <2>2, <3>1, <3>3 DEF InPlace
    <2>3. QED
      BY <1>2, <2>1, <2>2 DEF Rebasing
  <1>7. OwnBranch(m) = <<>> /\ OwnBranch(m)' = Origin(m)
    BY <1>3, <1>6 DEF OwnBranch
  <1>8. InPlace(m)'
    <2>1. Changing(Origin(m))
      BY <1>1, ChangingFirst DEF Origin, IInv, TypeOK
    <2>2. Begins(Origin(m), remote)
      BY <1>1, CommonOfFirst DEF Origin, TypeOK
    <2>3. QED
      BY <1>2, <1>3, <1>6, <2>1, <2>2 DEF InPlace
  <1>9. Common(OwnBranch(m), remote) <= Common(OwnBranch(m)', remote')
    <2>1. Common(<<>>, remote) = 0 /\ Common(Origin(m), remote) \in Nat
      <3>1. <<>> \in Seq(Trees) /\ remote \in Seq(Trees) /\ Origin(m) \in Seq(Trees)
        BY <1>1, HistoriesTyped
      <3>2. Common(<<>>, remote) \in 0..Len(remote) /\ Common(<<>>, remote) <= Len(<<>>)
        BY <3>1, CommonOfAll
      <3>3. QED
        BY <3>1, <3>2, CommonOfAll
    <2>2. QED
      BY <1>2, <1>7, <2>1
  <1>10. DropsNothing(m)'
    <2>1. Steady(Gone, Origin(m))
      BY <1>1, SteadyFirst DEF Origin, IInv, TypeOK
    <2>2. Steady(Gone', Origin(m))
      BY <1>1, <1>4, <2>1, GoneGrows, SteadyStays, HistoriesTyped
    <2>3. ~Open(m)'
      BY <1>6 DEF Open
    <2>4. QED
      BY <1>2, <1>3, <1>7, <2>2, <2>3 DEF DropsNothing
  <1>11. QED
    BY <1>2, <1>4, <1>5, <1>8, <1>9, <1>10 DEF Goes

\* A step of a join that writes files: its histories stay.
LEMMA FilesGo ==
  ASSUME IInv, TypeOK', NEW m \in Machines,
         UNCHANGED <<remote, branch, rebase, answers, conflictAt, adoptionCut>>,
         replaced \subseteq replaced',
         \A n \in Machines \ {m} : work'[n] = work[n] /\ pc'[n] = pc[n],
         pc'[m] \in {"restore", "commit"},
         DropsNothing(m) /\ ~Rebasing(m) => Settles(Gone', Tip(branch[m]), work'[m], {})
  PROVE  Goes(m)
  <1>1. TypeOK /\ InPlace(m) /\ DropsNothing(m)
    BY DEF IInv
  <1>2. Onward /\ \A n \in Machines : Untouched(n)
    BY <1>1, RemoteStays DEF Untouched
  <1>3. \A n \in Machines \ {m} : Elsewhere(n)
    BY <1>2 DEF Elsewhere
  <1>4. InPlace(m)' /\ Common(OwnBranch(m), remote) <= Common(OwnBranch(m)', remote')
    BY <1>1, <1>2, UntouchedInPlace
  <1>5. DropsNothing(m)'
    <2>1. DropsNothing(m)
      BY <1>1
    <2>2. Open(m)' => Open(m)
      BY DEF Open, Rebasing
    <2>3. QED
      BY <1>2, <2>1, <2>2, UntouchedDrops
  <1>6. QED
    BY <1>2, <1>3, <1>4, <1>5 DEF Goes

LEMMA AdoptFilesGoes ==
  ASSUME IInv, NEW m \in Machines, AdoptFiles(m)
  PROVE  Goes(m) /\ remote' = remote
  <1>1. TypeOK /\ TypeOK'
    BY AdoptFilesTyped DEF IInv
  <1>2. /\ UNCHANGED <<remote, branch, rebase, answers, conflictAt, adoptionCut, replaced>>
        /\ work' = [work EXCEPT ![m] = CheckedOut(m, Tip(branch[m]), Tip(branch[m]))]
        /\ pc' = [pc EXCEPT ![m] = "restore"]
    BY DEF AdoptFiles, Goto, conflictVars
  <1>3. /\ work'[m] = CheckedOut(m, Tip(branch[m]), Tip(branch[m])) /\ pc'[m] = "restore"
        /\ \A n \in Machines \ {m} : work'[n] = work[n] /\ pc'[n] = pc[n]
    BY <1>1, <1>2 DEF TypeOK
  <1>4. Settles(Gone', Tip(branch[m]), work'[m], {})
    BY <1>3, CheckedOutSettles
  <1>5. QED
    BY <1>1, <1>2, <1>3, <1>4, FilesGo

LEMMA AdoptLocationsGoes ==
  ASSUME IInv, NEW m \in Machines, AdoptLocations(m)
  PROVE  Goes(m) /\ remote' = remote
  <1> DEFINE Here == {p \in held[m] : Tip(branch[m])[p] # Absent}
  <1>1. TypeOK /\ TypeOK'
    BY AdoptLocationsTyped DEF IInv
  <1>2. /\ UNCHANGED <<remote, branch, rebase, answers, conflictAt, adoptionCut>>
        /\ work' = [work EXCEPT ![m] = [p \in Paths |-> IF p \in Here THEN NextVersion(m) ELSE work[m][p]]]
        /\ replaced' = replaced \cup At(work[m], Here)
        /\ pc' = [pc EXCEPT ![m] = "commit"] /\ pc[m] = "restore"
    BY DEF AdoptLocations, Goto, conflictVars
  <1> HIDE DEF Here
  <1>3. /\ \A p \in Paths : work'[m][p] = IF p \in Here THEN NextVersion(m) ELSE work[m][p]
        /\ pc'[m] = "commit"
        /\ \A n \in Machines \ {m} : work'[n] = work[n] /\ pc'[n] = pc[n]
    BY <1>1, <1>2 DEF TypeOK
  <1>4. ASSUME DropsNothing(m), ~Rebasing(m) PROVE Settles(Gone', Tip(branch[m]), work'[m], {})
    <2>1. Onward
      BY <1>1, <1>2, RemoteStays
    <2>2. Settles(Gone, Tip(branch[m]), work[m], {}) /\ Gone \subseteq Gone' /\ replaced' \subseteq Gone'
      BY <1>2, <1>4, <2>1, GoneGrows DEF DropsNothing
    <2>3. \A p \in Paths : work'[m][p] # work[m][p] =>
            work[m][p] \in {Absent, Marked} \/ <<p, work[m][p]>> \in Gone'
      BY <1>2, <1>3, <2>2, AtIs
    <2>4. QED
      BY <2>2, <2>3, SettlesRewritten
  <1>5. QED
    BY <1>1, <1>2, <1>3, <1>4, FilesGo

LEMMA CutOffGoes ==
  ASSUME IInv, NEW m \in Machines, CutOff(m)
  PROVE  Goes(m) /\ remote' = remote
  <1>1. TypeOK /\ TypeOK' /\ InPlace(m) /\ DropsNothing(m)
    BY CutOffTyped DEF IInv
  <1>2. /\ UNCHANGED <<remote, branch, rebase, replaced, work, conflictAt>>
        /\ adoptionCut' = (adoptionCut \/ pc[m] = "checkout")
        /\ pc' = [pc EXCEPT ![m] = "idle"] /\ answers' = [answers EXCEPT ![m] = NoAnswers]
    BY DEF CutOff, Goto, ForgetLocals, conflictVars
  <1>3. Onward /\ \A n \in Machines : Untouched(n)
    BY <1>1, <1>2, RemoteStays DEF Untouched
  <1>4. pc'[m] = "idle" /\ \A n \in Machines \ {m} : Elsewhere(n)
    BY <1>1, <1>2, <1>3 DEF Elsewhere, TypeOK
  <1>5. InPlace(m)' /\ Common(OwnBranch(m), remote) <= Common(OwnBranch(m)', remote')
    BY <1>1, <1>3, <1>4, UntouchedInPlace
  <1>6. DropsNothing(m)'
    <2>1. DropsNothing(m)
      BY <1>1
    <2>2. ~Rebasing(m) => Settles(Gone', Tip(branch[m]), work'[m], {})
      <3>1. CASE pc[m] = "checkout"
        <4>1. adoptionCut' /\ Begins(branch[m], remote)
          BY <1>1, <1>2, <3>1 DEF InPlace
        <4>2. In(TreesOf({remote})) \subseteq Gone'
          BY <1>2, <1>3, <4>1, GoneGrows
        <4>3. Settles(In(TreesOf({remote})), Tip(branch[m]), work[m], {})
          BY <1>1, <4>1, PublishedSettles DEF TypeOK
        <4>4. QED
          BY <1>2, <4>2, <4>3, SteadyStays
      <3>2. CASE pc[m] # "checkout"
        <4>1. Gone \subseteq Gone'
          BY <1>3, GoneGrows
        <4>2. QED
          BY <1>2, <2>1, <3>2, <4>1, SteadyStays DEF DropsNothing
      <3>3. QED
        BY <3>1, <3>2
    <2>3. Open(m)' => Open(m)
      BY <1>2, <1>4 DEF Open, Rebasing
    <2>4. QED
      BY <1>3, <1>4, <2>1, <2>2, <2>3, UntouchedDrops
  <1>7. adoptionCut => adoptionCut'
    BY <1>2
  <1>8. QED
    BY <1>2, <1>3, <1>4, <1>5, <1>6, <1>7 DEF Goes

LEMMA CommitGoes ==
  ASSUME IInv, NEW m \in Machines, Commit(m)
  PROVE  Goes(m) /\ remote' = remote
  <1>1. TypeOK /\ TypeOK' /\ InPlace(m) /\ DropsNothing(m)
    BY CommitTyped DEF IInv
  <1>2. /\ UNCHANGED <<remote, replaced, adoptionCut, work, answers, conflictAt>>
        /\ branch' = IF work[m] = Tip(branch[m]) THEN branch
                     ELSE [branch EXCEPT ![m] = Append(branch[m], work[m])]
        /\ rebase' = IF ~Rebasing(m) THEN rebase
                     ELSE [rebase EXCEPT ![m].unmerged = {}, ![m].index = work[m]]
        /\ pc' = [pc EXCEPT ![m] = "rebase"] /\ pc[m] = "commit"
    BY DEF Commit, Goto, conflictVars, historyVars
  <1>3. /\ \/ branch'[m] = branch[m] /\ work[m] = Tip(branch[m])
           \/ branch'[m] = Append(branch[m], work[m]) /\ work[m] # Tip(branch[m])
        /\ pc'[m] = "rebase"
    BY <1>1, <1>2 DEF TypeOK
  <1>4. /\ Rebasing(m)' = Rebasing(m)
        /\ ~Rebasing(m) => rebase'[m] = rebase[m]
        /\ Rebasing(m) => /\ rebase'[m].mine = rebase[m].mine /\ rebase'[m].at = rebase[m].at
                          /\ rebase'[m].unmerged = {}
    <2>1. CASE ~Rebasing(m)
      BY <1>2, <2>1 DEF Rebasing
    <2>2. CASE Rebasing(m)
      <3>1. /\ rebase'[m] = [rebase[m] EXCEPT !.unmerged = {}, !.index = work[m]]
            /\ rebase[m] \in Rebases
        BY <1>1, <1>2, <2>2, HistoriesTyped DEF TypeOK
      <3>2. rebase'[m] \in Rebases
        BY <1>1, <2>2, <3>1, HistoriesTyped DEF Rebases
      <3>3. /\ rebase'[m].mine = rebase[m].mine /\ rebase'[m].at = rebase[m].at
            /\ rebase'[m].unmerged = {}
        BY <3>1 DEF Rebases
      <3>4. Rebasing(m)'
        BY <3>2, Constants DEF Rebasing
      <3>5. QED
        BY <2>2, <3>3, <3>4
    <2>3. QED
      BY <2>1, <2>2
  <1>5. Onward
    BY <1>1, <1>2, RemoteStays
  <1>6. \A n \in Machines \ {m} : Elsewhere(n)
    BY <1>1, <1>2 DEF Elsewhere, Untouched, TypeOK
  <1>7. /\ branch[m] \in Seq(Trees) /\ branch'[m] \in Seq(Trees) /\ work[m] \in Trees
        /\ remote \in Seq(Trees) /\ Begins(remote, remote)
    BY <1>1, HistoriesTyped DEF TypeOK, Begins
  <1>8. Begins(branch[m], branch'[m]) /\ Changing(branch'[m]) /\ Tip(branch'[m]) = work[m]
    <2>1. Changing(branch[m]) /\ Begins(branch[m], branch[m])
      BY <1>1, <1>7 DEF InPlace, Begins
    <2>2. CASE branch'[m] = branch[m] /\ work[m] = Tip(branch[m])
      BY <2>1, <2>2
    <2>3. CASE branch'[m] = Append(branch[m], work[m]) /\ work[m] # Tip(branch[m])
      BY <1>7, <2>1, <2>3, BeginsOn, ChangingGrows, TipIs
    <2>4. QED
      BY <1>3, <2>2, <2>3
  <1>9. Common(branch[m], remote) <= Common(branch'[m], remote)
    BY <1>7, <1>8, CommonGrows
  <1>10. InPlace(m)' /\ Common(OwnBranch(m), remote) <= Common(OwnBranch(m)', remote')
    <2>1. CASE ~Rebasing(m)
      <3>1. OwnBranch(m) = branch[m] /\ OwnBranch(m)' = branch'[m]
        BY <1>4, <2>1 DEF OwnBranch
      <3>2. QED
        BY <1>2, <1>3, <1>4, <1>8, <1>9, <2>1, <3>1 DEF InPlace
    <2>2. CASE Rebasing(m)
      <3>1. /\ OwnBranch(m) = rebase[m].mine /\ OwnBranch(m)' = rebase[m].mine
            /\ rebase[m].mine \in Seq(Trees)
        BY <1>1, <1>4, <2>2, HistoriesTyped DEF OwnBranch
      <3>2. /\ Common(rebase[m].mine, remote) \in Nat /\ Common(branch[m], remote) \in Nat
            /\ Common(branch'[m], remote) \in Nat
        BY <1>7, <3>1, CommonNat
      <3>3. /\ Changing(rebase[m].mine) /\ rebase[m].at \in 1..Len(rebase[m].mine)
            /\ Common(rebase[m].mine, remote) < Common(branch[m], remote)
        BY <1>1, <2>2 DEF InPlace
      <3>4. Common(rebase[m].mine, remote) < Common(branch'[m], remote)
        BY <1>9, <3>2, <3>3
      <3>5. QED
        BY <1>2, <1>3, <1>4, <1>8, <2>2, <3>1, <3>2, <3>3, <3>4 DEF InPlace
    <2>3. QED
      BY <2>1, <2>2
  <1>11. DropsNothing(m)'
    <2>1. DropsNothing(m)
      BY <1>1
    <2>2. ~Open(m)'
      BY <1>3, <1>4 DEF Open
    <2>3. Settles(Gone, Tip(branch'[m]), work'[m], {})
      BY <1>2, <1>8 DEF Settles
    <2>4. Steady(Gone, OwnBranch(m)')
      <3>1. CASE ~Rebasing(m)
        <4>1. Steady(Gone, branch[m]) /\ Settles(Gone, Tip(branch[m]), work[m], {})
          BY <1>2, <2>1, <3>1 DEF DropsNothing, OwnBranch
        <4>2. Steady(Gone, branch'[m])
          BY <1>3, <1>7, <4>1, SteadyGrows
        <4>3. QED
          BY <1>4, <3>1, <4>2 DEF OwnBranch
      <3>2. CASE Rebasing(m)
        BY <1>4, <2>1, <3>2 DEF DropsNothing, OwnBranch
      <3>3. QED
        BY <3>1, <3>2
    <2>5. Gone' = Gone
      BY <1>2 DEF Gone
    <2>6. QED
      BY <1>2, <2>2, <2>3, <2>4, <2>5 DEF DropsNothing
  <1>12. QED
    BY <1>2, <1>5, <1>6, <1>10, <1>11 DEF Goes

\* A rebase has run, on something that has more in common with the remote than the
\* branch it replays.
LEMMA ReplayedGoes ==
  ASSUME IInv, TypeOK', NEW m \in Machines,
         NEW mine \in Seq(Trees), NEW from \in 0..Len(mine), NEW onto \in Seq(Trees),
         NEW tracked \in Trees, NEW result, result = Replay(mine, from, onto),
         RunRebase(m, mine, tracked, result),
         OwnBranch(m) = mine, Changing(mine), Changing(onto),
         Common(mine, remote) < Common(onto, remote),
         UNCHANGED <<remote, replaced, adoptionCut, conflictAt>>,
         \A n \in Machines \ {m} : pc'[n] = pc[n] /\ answers'[n] = answers[n],
         pc'[m] \in IF result.clash = {} THEN {"push", "fetch"} ELSE {"abort", "resolve"},
         pc'[m] = "resolve" => answers'[m] # NoAnswers /\ conflictAt[m] # 0,
         Steady(Gone, mine) /\ Steady(Gone, onto),
         pc'[m] = "resolve" =>
           Sided(mine, from, Tip(onto), remote[conflictAt[m]], answers'[m].mine, {})
  PROVE  Goes(m)
  <1>1. TypeOK /\ InPlace(m)
    BY DEF IInv
  <1>2. /\ result \in Results(mine)
        /\ Begins(onto, result.to) /\ Changing(result.to)
        /\ result.clash # {} => result.at \in from + 1..Len(mine)
        /\ result.clash = {} => result.tree = Tip(result.to)
    BY ReplayExtends
  <1>3. /\ branch'[m] = result.to
        /\ work'[m] = CheckedOut(m, tracked, result.tree)
        /\ result.clash = {} => rebase'[m] = NoRebase
        /\ result.clash # {} => /\ rebase'[m] \in Rebases
                                /\ rebase'[m].mine = mine /\ rebase'[m].at = result.at
                                /\ rebase'[m].unmerged = result.clash
                                /\ rebase'[m].index = result.tree
        /\ \A n \in Machines \ {m} : /\ branch'[n] = branch[n] /\ work'[n] = work[n]
                                     /\ rebase'[n] = rebase[n]
    BY <1>1, <1>2, RebaseTyped
  <1>4. Onward
    BY <1>1, RemoteStays
  <1>5. \A n \in Machines \ {m} : Elsewhere(n)
    BY <1>1, <1>3 DEF Elsewhere, Untouched, TypeOK
  <1>6. Rebasing(m)' <=> result.clash # {}
    BY <1>3, Constants DEF Rebasing
  <1>7. OwnBranch(m)' = IF result.clash = {} THEN result.to ELSE mine
    BY <1>3, <1>6 DEF OwnBranch
  <1>8. /\ Common(onto, remote) <= Common(result.to, remote)
        /\ Common(mine, remote) < Common(result.to, remote)
    <2>1. /\ remote \in Seq(Trees) /\ result.to \in Seq(Trees)
          /\ Begins(remote, remote)
      BY <1>1, <1>2, HistoriesTyped DEF Begins, Results
    <2>2. Common(onto, remote) <= Common(result.to, remote)
      BY <1>2, <2>1, CommonGrows
    <2>3. /\ Common(mine, remote) \in Nat /\ Common(onto, remote) \in Nat
          /\ Common(result.to, remote) \in Nat
      BY <2>1, CommonNat
    <2>4. QED
      BY <2>2, <2>3
  <1>9. InPlace(m)'
    <2>1. CASE result.clash = {}
      BY <1>2, <1>3, <1>6, <2>1 DEF InPlace
    <2>2. CASE result.clash # {}
      <3>1. rebase'[m].at \in 1..Len(rebase'[m].mine)
        BY <1>2, <1>3, <2>2
      <3>2. QED
        BY <1>2, <1>3, <1>6, <1>8, <2>2, <3>1 DEF InPlace
    <2>3. QED
      BY <2>1, <2>2
  <1>10. Common(OwnBranch(m), remote) <= Common(OwnBranch(m)', remote')
    <2>1. Common(mine, remote) \in Nat /\ Common(result.to, remote) \in Nat
      BY <1>1, <1>2, HistoriesTyped, CommonNat DEF Results
    <2>2. QED
      BY <1>7, <1>8, <2>1
  <1>11. DropsNothing(m)'
    <2>0. Gone' = Gone
      BY DEF Gone
    <2>1. /\ Steady(Gone', result.to) /\ Steady(Gone', mine)
          /\ Settles(Gone', Tip(result.to), result.tree, result.clash)
      BY <2>0, ReplaySteady
    <2>2. Steady(Gone', OwnBranch(m)')
      BY <1>7, <2>1
    <2>3. CASE result.clash = {}
      <3>1. Settles(Gone', Tip(branch'[m]), work'[m], {})
        BY <1>2, <1>3, <2>3, CheckedOutSettles
      <3>2. ~Open(m)'
        BY <1>6, <2>3 DEF Open
      <3>3. QED
        BY <2>2, <3>1, <3>2 DEF DropsNothing
    <2>4. CASE result.clash # {}
      <3>1. pc'[m] \in {"abort", "resolve"} /\ Rebasing(m)'
        BY <1>6, <2>4
      <3>2. /\ Steady(Gone', branch'[m])
            /\ Settles(Gone', Tip(branch'[m]), rebase'[m].index, rebase'[m].unmerged)
        BY <1>3, <2>1, <2>4
      <3>3. \A a, b : Between(m, a, b)' <=>
                      Stopped(mine, result.at, Tip(result.to), result.tree, result.clash, a, b)
        BY <1>3, <2>4 DEF Between
      <3>4. Between(m, Tip(branch[m]), Tip(branch[m]))'
        <4>1. Sided(mine, from, Tip(onto), Tip(onto), Tip(onto), {})
          BY DEF Sided
        <4>2. Stopped(mine, result.at, Tip(result.to), result.tree, result.clash,
                      Tip(result.to), Tip(result.to))
          BY <2>4, <4>1, ReplayStops
        <4>3. QED
          BY <1>3, <2>4, <4>2 DEF Between
      <3>5. pc'[m] \in {"resolve", "continue"} =>
              Between(m, remote[conflictAt[m]], answers[m].mine)'
        <4>1. SUFFICES ASSUME pc'[m] = "resolve"
                       PROVE Between(m, remote[conflictAt[m]], answers[m].mine)'
          BY <3>1
        <4>2. Stopped(mine, result.at, Tip(result.to), result.tree, result.clash,
                      remote[conflictAt[m]], answers'[m].mine)
          BY <2>4, <4>1, ReplayStops
        <4>3. QED
          BY <1>3, <2>4, <4>2 DEF Between
      <3>6. QED
        BY <2>2, <3>1, <3>2, <3>4, <3>5 DEF DropsNothing
    <2>5. QED
      BY <2>3, <2>4
  <1>12. QED
    BY <1>4, <1>5, <1>9, <1>10, <1>11 DEF Goes

LEMMA RebaseGoes ==
  ASSUME IInv, NEW m \in Machines, Rebase(m)
  PROVE  Goes(m) /\ remote' = remote
  <1> DEFINE result == Rebased(m, Origin(m))
  <1>1. TypeOK /\ TypeOK' /\ InPlace(m) /\ DropsNothing(m)
    BY RebaseStepTyped DEF IInv
  <1>2. UNCHANGED <<remote, replaced, adoptionCut>> /\ pc[m] = "rebase"
    BY DEF Rebase, historyVars
  <1>3. CASE /\ Goto(m, "push")
             /\ UNCHANGED <<branch, work, rebase, reachable, answers, conflictVars>>
    <2>1. /\ \A n \in Machines \ {m} : /\ work'[n] = work[n] /\ pc'[n] = pc[n]
                                       /\ answers'[n] = answers[n] /\ conflictAt'[n] = conflictAt[n]
          /\ pc'[m] = "push"
      BY <1>1, <1>3 DEF Goto, conflictVars, TypeOK
    <2>2. QED
      BY <1>1, <1>2, <1>3, <2>1, MovesOn
  <1>4. CASE Return(m, fetched[m], {}) /\ UNCHANGED <<branch, work, rebase>>
    <2>1. fetched[m] \in 0..Len(remote) /\ {} \in SUBSET Paths
      BY <1>1, HistoriesTyped
    <2>2. /\ \A n \in Machines \ {m} : /\ work'[n] = work[n] /\ pc'[n] = pc[n]
                                       /\ answers'[n] = answers[n] /\ conflictAt'[n] = conflictAt[n]
          /\ pc'[m] = "idle"
      BY <1>1, <1>4, <2>1, ReturnTyped
    <2>3. QED
      BY <1>1, <1>2, <1>4, <2>2, MovesOn
  <1>5. CASE /\ ~Rebasing(m) /\ Behind(m) > 0
             /\ RunRebase(m, branch[m], Tip(branch[m]), result)
             /\ Goto(m, IF result.clash = {} THEN "push" ELSE "abort")
             /\ UNCHANGED <<reachable, answers, conflictVars>>
    <2> DEFINE onto == Origin(m)
               from == Common(branch[m], onto)
    <2>1. /\ branch[m] \in Seq(Trees) /\ onto \in Seq(Trees) /\ remote \in Seq(Trees)
          /\ Tip(branch[m]) \in Trees /\ fetched[m] \in 0..Len(remote)
          /\ onto = SubSeq(remote, 1, fetched[m])
      BY <1>1, HistoriesTyped DEF Origin
    <2>2. from \in 0..Len(branch[m]) /\ from < fetched[m]
      <3>1. from \in 0..Len(onto) /\ from <= Len(branch[m])
        BY <2>1, CommonOfAll, Zenon
      <3>2. from < fetched[m]
        BY <1>1, <1>5, HistoriesTyped, Zenon
      <3> HIDE DEF onto, from
      <3>3. QED
        BY <2>1, <3>1, <3>2
    <2>3. result = Replay(branch[m], from, onto)
      BY DEF Rebased
    <2>4. Common(branch[m], remote) < Common(onto, remote)
      <3>1. Common(branch[m], remote) = from
        BY <2>1, <2>2, CommonOfFirst
      <3>2. fetched[m] <= Common(onto, remote) /\ Common(onto, remote) \in Nat
        <4>1. Begins(onto, onto)
          BY <2>1 DEF Begins
        <4>2. QED
          BY <2>1, <4>1, CommonOfFirst, CommonNat
      <3>3. QED
        BY <2>1, <2>2, <3>1, <3>2
    <2>5. OwnBranch(m) = branch[m] /\ Changing(branch[m]) /\ Changing(onto)
      BY <1>1, <1>5, <2>1, ChangingFirst DEF OwnBranch, InPlace, IInv
    <2>6. Steady(Gone, branch[m]) /\ Steady(Gone, onto)
      BY <1>1, <2>1, <2>5, SteadyFirst DEF IInv, DropsNothing
    <2>7. /\ \A n \in Machines \ {m} : pc'[n] = pc[n] /\ answers'[n] = answers[n]
          /\ UNCHANGED conflictAt
          /\ pc'[m] = IF result.clash = {} THEN "push" ELSE "abort"
      BY <1>1, <1>5 DEF Goto, conflictVars, TypeOK
    <2> HIDE DEF result, onto, from
    <2>8. QED
      BY <1>1, <1>2, <1>5, <2>1, <2>2, <2>3, <2>4, <2>5, <2>6, <2>7, ReplayedGoes
  <1>6. QED
    BY <1>2, <1>3, <1>4, <1>5 DEF Rebase, result

\* A machine that gives a rebase up is back on its branch, if git lets it.
LEMMA AbortedGoes ==
  ASSUME IInv, TypeOK', NEW m \in Machines, AbortRebase(m),
         UNCHANGED <<remote, replaced, adoptionCut>>,
         \A n \in Machines \ {m} : /\ pc'[n] = pc[n] /\ answers'[n] = answers[n]
                                  /\ conflictAt'[n] = conflictAt[n],
         pc[m] # "checkout", pc'[m] = "idle"
  PROVE  Goes(m)
  <1>1. TypeOK /\ InPlace(m) /\ DropsNothing(m)
    BY DEF IInv
  <1>2. /\ \/ UNCHANGED <<branch, work, rebase, swept>>
           \/ /\ Rebasing(m) /\ rebase'[m] = NoRebase
              /\ branch'[m] = rebase[m].mine
              /\ work'[m] = CheckedOut(m, rebase[m].index, Tip(rebase[m].mine))
        /\ \A n \in Machines \ {m} : /\ branch'[n] = branch[n] /\ work'[n] = work[n]
                                     /\ rebase'[n] = rebase[n]
    BY <1>1, AbortTyped
  <1>3. CASE UNCHANGED <<branch, work, rebase, swept>>
    BY <1>3, MovesOn
  <1>4. CASE /\ Rebasing(m) /\ rebase'[m] = NoRebase
             /\ branch'[m] = rebase[m].mine
             /\ work'[m] = CheckedOut(m, rebase[m].index, Tip(rebase[m].mine))
    <2>1. Onward
      BY <1>1, RemoteStays
    <2>2. \A n \in Machines \ {m} : Elsewhere(n)
      BY <1>2 DEF Elsewhere, Untouched
    <2>3. ~Rebasing(m)' /\ OwnBranch(m) = rebase[m].mine /\ OwnBranch(m)' = rebase[m].mine
      BY <1>4 DEF Rebasing, OwnBranch
    <2>4. InPlace(m)'
      BY <1>1, <1>4, <2>3 DEF InPlace
    <2>5. Common(OwnBranch(m), remote) <= Common(OwnBranch(m)', remote')
      BY <1>1, <1>4, <2>3, HistoriesTyped, CommonNat
    <2>6. DropsNothing(m)'
      <3>1. Steady(Gone', OwnBranch(m)')
        BY <1>1, <2>1, <2>3, GoneGrows, SteadyStays, HistoriesTyped DEF DropsNothing
      <3>2. Settles(Gone', Tip(branch'[m]), work'[m], {})
        BY <1>4, CheckedOutSettles
      <3>3. ~Open(m)'
        BY <2>3 DEF Open
      <3>4. QED
        BY <3>1, <3>2, <3>3 DEF DropsNothing
    <2>7. QED
      BY <2>1, <2>2, <2>4, <2>5, <2>6 DEF Goes
  <1>5. QED
    BY <1>2, <1>3, <1>4

LEMMA AbortGoes ==
  ASSUME IInv, NEW m \in Machines, Abort(m)
  PROVE  Goes(m) /\ remote' = remote
  <1>1. TypeOK /\ InPlace(m) /\ pc[m] = "abort" /\ Rebasing(m)
    BY DEF IInv, InPlace, Abort
  <1>2. TypeOK'
    BY <1>1, AbortStepTyped DEF Rebasing
  <1>3. /\ UNCHANGED <<remote, replaced, adoptionCut>> /\ AbortRebase(m)
        /\ Return(m, fetched[m], rebase[m].unmerged)
    BY DEF Abort
  <1>4. /\ \A n \in Machines \ {m} : /\ pc'[n] = pc[n] /\ answers'[n] = answers[n]
                                     /\ conflictAt'[n] = conflictAt[n]
        /\ pc'[m] = "idle"
    BY <1>1, <1>3, HistoriesTyped, ReturnTyped
  <1>5. QED
    BY <1>1, <1>2, <1>3, <1>4, AbortedGoes

LEMMA RepairGoes ==
  ASSUME IInv, NEW m \in Machines, NEW theirs \in SUBSET conflicts[m], Repair(m, theirs)
  PROVE  Goes(m) /\ remote' = remote
  <1> DEFINE onto == SubSeq(remote, 1, conflictAt[m])
             from == Common(branch[m], onto)
             result == Rebased(m, onto)
  <1>1. TypeOK /\ TypeOK' /\ InPlace(m) /\ DropsNothing(m)
    BY RepairTyped DEF IInv
  <1>2. /\ conflictAt[m] \in 1..Len(remote)
        /\ answers'[m] # NoAnswers /\ answers'[m].mine = Tip(branch[m])
        /\ \A n \in Machines \ {m} : answers'[n] = answers[n]
    BY <1>1, RepairTyped
  <1>3. /\ UNCHANGED <<remote, replaced, adoptionCut, conflictAt>>
        /\ pc[m] = "idle" /\ conflictAt[m] # 0
        /\ \A n \in Machines \ {m} : pc'[n] = pc[n]
    BY <1>1 DEF Repair, Goto, conflictVars, historyVars, TypeOK
  <1>4. CASE Goto(m, "resolve") /\ UNCHANGED <<branch, work, rebase>>
    <2>1. Onward /\ \A n \in Machines : Untouched(n)
      BY <1>1, <1>3, <1>4, RemoteStays DEF Untouched
    <2>2. pc'[m] = "resolve"
      BY <1>1, <1>4 DEF Goto, TypeOK
    <2>3. \A n \in Machines \ {m} : Elsewhere(n)
      BY <1>2, <1>3, <1>4, <2>1 DEF Elsewhere
    <2>4. InPlace(m)' /\ Common(OwnBranch(m), remote) <= Common(OwnBranch(m)', remote')
      BY <1>1, <1>2, <1>3, <2>1, <2>2, UntouchedInPlace
    <2>5. DropsNothing(m)'
      <3>1. DropsNothing(m)
        BY <1>1
      <3>2. ~Rebasing(m) /\ pc'[m] # "checkout" => Settles(Gone', Tip(branch[m]), work'[m], {})
        BY <1>3, <1>4, <2>1, <3>1, GoneGrows, SteadyStays DEF DropsNothing
      <3>3. Open(m)' => Open(m)
        BY <1>4, <2>2 DEF Open, Rebasing
      <3>4. Open(m) => Between(m, remote'[conflictAt'[m]], answers'[m].mine)
        <4>1. SUFFICES ASSUME Open(m)
                       PROVE Between(m, remote[conflictAt[m]], Tip(branch[m]))
          BY <1>2, <1>3
        <4>2. Between(m, Tip(branch[m]), Tip(branch[m]))
          BY <1>3, <3>1, <4>1 DEF DropsNothing, Open
        <4>3. QED
          BY <4>2 DEF Between, Stopped, Sided
      <3>5. QED
        BY <2>1, <3>1, <3>2, <3>3, <3>4, UntouchedDrops
    <2>6. QED
      BY <1>3, <2>1, <2>3, <2>4, <2>5 DEF Goes
  <1>5. CASE /\ ~Rebasing(m)
             /\ RunRebase(m, branch[m], Tip(branch[m]), result)
             /\ Goto(m, IF result.clash = {} THEN "fetch" ELSE "resolve")
    <2>1. /\ branch[m] \in Seq(Trees) /\ onto \in Seq(Trees) /\ remote \in Seq(Trees)
          /\ Tip(branch[m]) \in Trees
      BY <1>1, <1>2, HistoriesTyped
    <2>2. Len(onto) = conflictAt[m] /\ Tip(onto) = remote[conflictAt[m]]
      BY <1>2, <2>1, TipIs
    <2>3. from \in 0..Len(branch[m]) /\ from <= conflictAt[m]
      <3>1. from \in 0..Len(onto) /\ from <= Len(branch[m])
        BY <2>1, CommonOfAll, Zenon
      <3> HIDE DEF onto, from
      <3>2. QED
        BY <2>1, <2>2, <3>1
    <2>4. result = Replay(branch[m], from, onto)
      BY DEF Rebased
    <2>5. OwnBranch(m) = branch[m] /\ Changing(branch[m]) /\ Changing(onto)
      BY <1>1, <1>2, <1>5, <2>1, ChangingFirst DEF OwnBranch, InPlace, IInv
    <2>6. Steady(Gone, branch[m]) /\ Steady(Gone, onto)
      BY <1>1, <1>2, <2>1, <2>5, SteadyFirst DEF IInv, DropsNothing
    <2>7. pc'[m] = IF result.clash = {} THEN "fetch" ELSE "resolve"
      BY <1>1, <1>5 DEF Goto, TypeOK
    <2>8. CASE from < conflictAt[m]
      <3>1. Common(branch[m], remote) < Common(onto, remote)
        <4>1. Common(branch[m], remote) = from
          BY <1>2, <2>1, <2>8, CommonOfFirst
        <4>2. Begins(onto, onto)
          BY <2>1 DEF Begins
        <4>3. conflictAt[m] <= Common(onto, remote)
          <5>1. conflictAt[m] \in 0..Len(remote)
            BY <1>2
          <5>2. QED
            BY <2>1, <4>2, <5>1, CommonOfFirst, Zenon
        <4>4. Common(onto, remote) \in Nat
          BY <2>1, CommonNat
        <4> HIDE DEF onto, from
        <4>5. QED
          BY <1>2, <2>3, <2>8, <4>1, <4>3, <4>4
      <3>2. Sided(branch[m], from, Tip(onto), remote[conflictAt[m]], answers'[m].mine, {})
        BY <2>2 DEF Sided
      <3> HIDE DEF result, onto, from
      <3>3. QED
        BY <1>1, <1>2, <1>3, <1>5, <2>1, <2>3, <2>4, <2>5, <2>6, <2>7, <3>1, <3>2, ReplayedGoes
    <2>9. CASE from = conflictAt[m]
      <3>1. onto = SubSeq(branch[m], 1, from)
        <4>1. Begins(onto, branch[m])
          BY <1>2, <2>1, <2>9, CommonOfFirst
        <4>2. Len(SubSeq(branch[m], 1, from)) = from /\ SubSeq(branch[m], 1, from) \in Seq(Trees)
              /\ \A i \in 1..from : SubSeq(branch[m], 1, from)[i] = branch[m][i]
          <5> HIDE DEF from
          <5>1. QED
            BY <2>1, <2>3
        <4> HIDE DEF onto, from
        <4>3. QED
          BY <2>1, <2>2, <2>9, <4>1, <4>2 DEF Begins
      <3>2. result.to = branch[m] /\ result.clash = {} /\ result.tree = Tip(branch[m])
        <4> HIDE DEF result, onto, from
        <4>1. QED
          BY <2>1, <2>3, <2>4, <2>5, <3>1, ReplayInPlace
      <3>3. result \in Results(branch[m])
        BY <1>1, RepairTyped
      <3> HIDE DEF result, onto, from
      <3>4. /\ branch'[m] = branch[m] /\ rebase'[m] = NoRebase
            /\ work'[m] = CheckedOut(m, Tip(branch[m]), Tip(branch[m]))
            /\ \A n \in Machines \ {m} : /\ branch'[n] = branch[n] /\ work'[n] = work[n]
                                         /\ rebase'[n] = rebase[n]
        BY <1>1, <1>5, <2>1, <3>2, <3>3, RebaseTyped
      <3>5. Onward /\ Untouched(m)
        BY <1>1, <1>3, <1>5, <3>4, RemoteStays DEF Untouched, Rebasing
      <3>6. \A n \in Machines \ {m} : Elsewhere(n)
        BY <1>2, <1>3, <3>4 DEF Elsewhere, Untouched
      <3>7. pc'[m] = "fetch"
        BY <2>7, <3>2
      <3>8. InPlace(m)' /\ Common(OwnBranch(m), remote) <= Common(OwnBranch(m)', remote')
        BY <1>1, <3>5, <3>7, UntouchedInPlace
      <3>9. DropsNothing(m)'
        <4>1. DropsNothing(m)
          BY <1>1
        <4>2. Settles(Gone', Tip(branch[m]), work'[m], {})
          BY <3>4, CheckedOutSettles
        <4>3. ~Open(m)' /\ ~Open(m)
          BY <1>5, <3>5 DEF Open, Rebasing, Untouched
        <4>4. QED
          BY <3>5, <4>1, <4>2, <4>3, UntouchedDrops
      <3>10. QED
        BY <1>3, <3>5, <3>6, <3>8, <3>9 DEF Goes
    <2>10. QED
      BY <1>2, <2>3, <2>8, <2>9
  <1>6. QED
    BY <1>3, <1>4, <1>5 DEF Repair, result, onto

LEMMA ResolveGoes ==
  ASSUME IInv, NEW m \in Machines, Resolve(m)
  PROVE  Goes(m) /\ remote' = remote
  <1> DEFINE theirTree == remote[conflictAt[m]]
             Theirs == Unmerged(m) \cap answers[m].theirs
             index == Decided(m, rebase[m].index)
  <1>1. TypeOK /\ TypeOK' /\ InPlace(m) /\ DropsNothing(m)
    BY ResolveTyped DEF IInv
  <1>2. /\ pc[m] = "resolve" /\ answers[m] \in Answers /\ conflictAt[m] \in 1..Len(remote)
        /\ UNCHANGED <<remote, adoptionCut>>
    BY <1>1, ResolveTyped DEF Resolve
  <1>3. \A n \in Machines \ {m} : pc'[n] = pc[n]
    BY <1>1 DEF Resolve, Return, Goto, TypeOK
  <1>4. CASE /\ AbortRebase(m) /\ pc'[m] = "idle" /\ UNCHANGED replaced
             /\ \A n \in Machines \ {m} : answers'[n] = answers[n] /\ conflictAt'[n] = conflictAt[n]
    BY <1>1, <1>2, <1>3, <1>4, AbortedGoes
  <1>5. CASE /\ Rebasing(m) /\ rebase[m].unmerged # {}
             /\ work' = [work EXCEPT ![m] = Decided(m, work[m])]
             /\ rebase' = [rebase EXCEPT ![m].unmerged = {}, ![m].index = index]
             /\ replaced' = replaced \cup At(answers[m].mine, Theirs)
                                     \cup At(theirTree, Unmerged(m) \ Theirs)
             /\ pc'[m] = "continue"
             /\ UNCHANGED <<branch, answers, conflictAt>>
    <2> HIDE DEF index
    <2>1. /\ rebase[m] \in Rebases /\ Unmerged(m) = rebase[m].unmerged
          /\ rebase'[m] = [rebase[m] EXCEPT !.unmerged = {}, !.index = index]
          /\ \A n \in Machines \ {m} : rebase'[n] = rebase[n] /\ work'[n] = work[n]
      BY <1>1, <1>5, HistoriesTyped DEF TypeOK, Unmerged
    <2>2. /\ rebase'[m].mine = rebase[m].mine /\ rebase'[m].at = rebase[m].at
          /\ rebase'[m].unmerged = {} /\ rebase'[m].index = index
      BY <2>1 DEF Rebases
    <2>3. Rebasing(m)'
      <3>1. rebase'[m] # NoRebase
        <4>1. rebase'[m] \in Rebases
          <5>1. index \in Trees
            <6>1. theirTree \in Trees /\ answers[m].mine \in Trees /\ rebase[m].index \in Trees
              BY <1>1, <1>2, <1>5, HistoriesTyped, TipIs DEF Answers
            <6>2. QED
              BY <6>1 DEF Decided, Trees, index
          <5>2. QED
            BY <2>1, <5>1 DEF Rebases
        <4>2. QED
          BY <4>1, Constants
      <3>2. QED
        BY <3>1 DEF Rebasing
    <2>4. Onward
      BY <1>1, <1>2, <1>5, RemoteStays
    <2>5. \A n \in Machines \ {m} : Elsewhere(n)
      BY <1>3, <1>5, <2>1 DEF Elsewhere, Untouched
    <2>6. OwnBranch(m)' = OwnBranch(m)
      BY <1>5, <2>2, <2>3 DEF OwnBranch
    <2>7. InPlace(m)'
      BY <1>1, <1>2, <1>5, <2>2, <2>3 DEF InPlace
    <2>8. Common(OwnBranch(m), remote) <= Common(OwnBranch(m)', remote')
      BY <1>1, <1>2, <2>6, HistoriesTyped, CommonNat
    <2>9. DropsNothing(m)'
      <3> DEFINE tip == Tip(branch[m])
                 mine == rebase[m].mine
                 at == rebase[m].at
                 Clashing == rebase[m].unmerged
      <3>1. /\ Steady(Gone, OwnBranch(m)) /\ Steady(Gone, branch[m])
            /\ Settles(Gone, tip, rebase[m].index, Clashing)
            /\ Stopped(mine, at, tip, rebase[m].index, Clashing, theirTree, answers[m].mine)
        BY <1>1, <1>2, <1>5 DEF DropsNothing, Open, Between
      <3>2. \A p \in Paths : index[p] = IF p \notin Clashing THEN rebase[m].index[p]
                                       ELSE IF p \in Theirs THEN theirTree[p] ELSE answers[m].mine[p]
        BY <2>1 DEF index, Decided
      <3>3. \A p \in Clashing : p \in Paths /\ tip[p] \in {theirTree[p], answers[m].mine[p]}
        <4>1. Clashing \subseteq Paths
          BY <2>1 DEF Rebases
        <4>2. QED
          BY <3>1, <4>1 DEF Stopped, Sided, Parent
      <3>4. Settles(Gone', tip, index, {})
        <4>1. ASSUME NEW p \in Paths, tip[p] \notin {Absent, Marked}, index[p] # tip[p]
              PROVE <<p, tip[p]>> \in Gone'
          <5>1. CASE p \notin Clashing
            <6>1. <<p, tip[p]>> \in Gone
              BY <3>1, <3>2, <4>1, <5>1 DEF Settles
            <6>2. QED
              BY <2>4, <6>1, GoneGrows
          <5>2. CASE p \in Clashing /\ p \in Theirs
            <6>1. tip[p] = answers[m].mine[p]
              BY <3>2, <3>3, <4>1, <5>2
            <6>2. <<p, tip[p]>> \in At(answers[m].mine, Theirs)
              BY <4>1, <5>2, <6>1, AtIs
            <6>3. QED
              BY <1>5, <2>4, <6>2, GoneGrows
          <5>3. CASE p \in Clashing /\ p \notin Theirs
            <6>1. tip[p] = theirTree[p] /\ p \in Unmerged(m) \ Theirs
              BY <2>1, <3>2, <3>3, <4>1, <5>3
            <6>2. <<p, tip[p]>> \in At(theirTree, Unmerged(m) \ Theirs)
              BY <4>1, <6>1, AtIs
            <6>3. QED
              BY <1>5, <2>4, <6>2, GoneGrows
          <5>4. QED
            BY <5>1, <5>2, <5>3
        <4>2. QED
          BY <4>1 DEF Settles
      <3>5. Stopped(mine, at, tip, index, {}, theirTree, answers[m].mine)
        BY <3>1, <3>2 DEF Stopped, Sided
      <3>6. Steady(Gone', OwnBranch(m)') /\ Steady(Gone', branch'[m])
        <4>1. /\ OwnBranch(m) \in Seq(Trees) /\ branch[m] \in Seq(Trees)
              /\ Gone \subseteq Gone'
          BY <1>1, <2>4, HistoriesTyped, GoneGrows
        <4>2. QED
          BY <1>5, <2>6, <3>1, <4>1, SteadyStays
      <3>7. Settles(Gone', Tip(branch'[m]), rebase'[m].index, rebase'[m].unmerged)
        BY <1>5, <2>2, <3>4
      <3>8. Between(m, remote[conflictAt[m]], answers[m].mine)'
        BY <1>2, <1>5, <2>2, <3>5 DEF Between
      <3>9. QED
        BY <2>2, <2>3, <3>6, <3>7, <3>8 DEF DropsNothing
    <2>10. QED
      BY <1>2, <2>4, <2>5, <2>7, <2>8, <2>9 DEF Goes
  <1>6. QED
    BY <1>1, <1>2, <1>4, <1>5, ResolveTyped

LEMMA ContinueGoes ==
  ASSUME IInv, NEW m \in Machines, Continue(m)
  PROVE  Goes(m) /\ remote' = remote
  <1> DEFINE index == rebase[m].index
             mine == rebase[m].mine
             at == rebase[m].at
             head == IF index = Tip(branch[m]) THEN branch[m] ELSE Append(branch[m], index)
             result == Replay(mine, at, head)
  <1>1. TypeOK /\ InPlace(m) /\ DropsNothing(m) /\ pc[m] = "continue"
    BY DEF IInv, Continue
  <1>2. /\ Rebasing(m) /\ rebase[m].unmerged = {}
        /\ answers[m] # NoAnswers /\ conflictAt[m] # 0
        /\ UNCHANGED <<remote, replaced, adoptionCut, answers, conflictAt>>
    BY <1>1 DEF InPlace, Continue, conflictVars, historyVars
  <1>3. \A n \in Machines \ {m} : pc'[n] = pc[n]
    BY <1>1 DEF Continue, Goto, TypeOK
  <1>4. /\ index \in Trees /\ mine \in Seq(Trees) /\ at \in 1..Len(mine) /\ Changing(mine)
        /\ branch[m] \in Seq(Trees) /\ Changing(branch[m])
        /\ Common(mine, remote) < Common(branch[m], remote)
    BY <1>1, <1>2, HistoriesTyped DEF InPlace
  <1>5. head \in Seq(Trees) /\ Tip(head) = index /\ Changing(head) /\ Begins(branch[m], head)
    <2>1. Begins(branch[m], branch[m])
      BY <1>4 DEF Begins
    <2>2. QED
      BY <1>4, <2>1, BeginsOn, ChangingGrows, TipIs
  <1> HIDE DEF head
  <1>6. result \in Results(mine) /\ at \in 0..Len(mine)
    BY <1>4, <1>5, ReplayExtends
  <1> HIDE DEF result
  <1>7. CASE Goto(m, "resolve") /\ UNCHANGED <<branch, work, rebase>>
    <2>1. TypeOK' /\ pc'[m] = "resolve"
      BY <1>1, <1>7 DEF Continue, Goto, Steps, conflictVars, historyVars, TypeOK
    <2>2. Onward /\ \A n \in Machines : Untouched(n)
      BY <1>1, <1>2, <1>7, <2>1, RemoteStays DEF Untouched
    <2>3. \A n \in Machines \ {m} : Elsewhere(n)
      BY <1>2, <1>3, <1>7, <2>2 DEF Elsewhere
    <2>4. InPlace(m)' /\ Common(OwnBranch(m), remote) <= Common(OwnBranch(m)', remote')
      BY <1>1, <1>2, <2>1, <2>2, UntouchedInPlace
    <2>5. DropsNothing(m)'
      <3>1. Open(m) /\ ~Open(m)'
        BY <1>1, <1>2, <1>7, <2>1 DEF Open
      <3>2. Open(m) /\ pc'[m] \in {"resolve", "continue"} =>
              Between(m, remote'[conflictAt'[m]], answers'[m].mine)
        BY <1>1, <1>2 DEF DropsNothing
      <3>3. QED
        BY <1>1, <1>2, <2>2, <3>1, <3>2, UntouchedDrops
    <2>6. QED
      BY <1>2, <2>2, <2>3, <2>4, <2>5 DEF Goes
  <1>8. CASE /\ RunRebase(m, mine, index, result)
             /\ Goto(m, IF result.clash = {} THEN "fetch" ELSE "resolve")
    <2>1. /\ branch' \in [Machines -> Seq(Trees)]
          /\ work' \in [Machines -> Trees]
          /\ rebase' \in [Machines -> Rebases \cup {NoRebase}]
      BY <1>1, <1>4, <1>6, <1>8, RebaseTyped
    <2>2. TypeOK' /\ pc'[m] = IF result.clash = {} THEN "fetch" ELSE "resolve"
      BY <1>1, <1>8, <2>1 DEF Continue, Goto, Steps, conflictVars, historyVars, TypeOK
    <2>3. OwnBranch(m) = mine
      BY <1>2 DEF OwnBranch
    <2>4. Common(mine, remote) < Common(head, remote)
      <3>1. remote \in Seq(Trees) /\ Begins(remote, remote)
        BY <1>1 DEF TypeOK, Begins
      <3>2. Common(branch[m], remote) <= Common(head, remote)
        BY <1>4, <1>5, <3>1, CommonGrows
      <3>3. /\ Common(mine, remote) \in Nat /\ Common(branch[m], remote) \in Nat
            /\ Common(head, remote) \in Nat
        BY <1>4, <1>5, <3>1, CommonNat
      <3>4. QED
        BY <1>4, <3>2, <3>3
    <2>5. /\ Steady(Gone, mine) /\ Steady(Gone, head)
          /\ Sided(mine, at, Tip(head), remote[conflictAt[m]], answers'[m].mine, {})
      <3>1. /\ Steady(Gone, mine) /\ Steady(Gone, branch[m])
            /\ Settles(Gone, Tip(branch[m]), index, {})
            /\ Stopped(mine, at, Tip(branch[m]), index, {}, remote[conflictAt[m]], answers[m].mine)
        BY <1>1, <1>2, <2>3 DEF DropsNothing, Open, Between
      <3>2. Steady(Gone, head)
        BY <1>4, <3>1, SteadyGrows DEF head
      <3>3. QED
        BY <1>2, <1>5, <3>1, <3>2 DEF Stopped
    <2>6. result = Replay(mine, at, head)
      BY DEF result
    <2> HIDE DEF mine, at, index
    <2>7. QED
      BY <1>2, <1>3, <1>4, <1>5, <1>6, <1>8, <2>2, <2>3, <2>4, <2>5, <2>6, ReplayedGoes
  <1>9. QED
    BY <1>2, <1>7, <1>8 DEF Continue, result, head

\* A push adds nothing but the branch of a machine that drops nothing.
LEMMA PushGoes ==
  ASSUME IInv, NEW m \in Machines, Push(m)
  PROVE  /\ Goes(m)
         /\ Changing(remote')
         /\ Steady(Gone', remote')
         /\ remote' = remote \/ (FastForward(m) /\ remote' = branch[m] /\ OwnBranch(m)' = branch[m])
  <1>1. /\ TypeOK /\ InPlace(m) /\ Changing(remote) /\ pc[m] = "push"
        /\ DropsNothing(m) /\ Steady(Gone, remote)
    BY DEF IInv, Push
  <1>2. /\ TypeOK' /\ Begins(remote, remote')
        /\ remote' = remote \/ (FastForward(m) /\ remote' = branch[m])
    BY <1>1, PushTyped
  <1>3. UNCHANGED <<branch, rebase, work, replaced, adoptionCut>> /\ Return(m, 0, {})
    BY DEF Push, historyVars
  <1>4. Onward /\ \A n \in Machines : Untouched(n)
    BY <1>1, <1>2, <1>3 DEF Onward, Untouched
  <1>5. /\ pc'[m] = "idle"
        /\ \A n \in Machines \ {m} : /\ pc'[n] = pc[n] /\ answers'[n] = answers[n]
                                     /\ conflictAt'[n] = conflictAt[n]
    <2>1. 0 \in 0..Len(remote) /\ {} \in SUBSET Paths
      BY <1>1 DEF TypeOK
    <2>2. QED
      BY <1>1, <1>3, <2>1, ReturnTyped
  <1>6. \A n \in Machines \ {m} : Elsewhere(n)
    BY <1>3, <1>4, <1>5 DEF Elsewhere
  <1>7. InPlace(m)' /\ Common(OwnBranch(m), remote) <= Common(OwnBranch(m)', remote')
    BY <1>1, <1>4, <1>5, UntouchedInPlace
  <1>8. DropsNothing(m)'
    <2>1. ~Rebasing(m) => Settles(Gone', Tip(branch[m]), work'[m], {})
      BY <1>1, <1>3, <1>4, GoneGrows, SteadyStays DEF DropsNothing
    <2>2. Open(m)' => Open(m)
      BY <1>3, <1>5 DEF Open, Rebasing
    <2>3. QED
      BY <1>1, <1>4, <1>5, <2>1, <2>2, UntouchedDrops
  <1>9. FastForward(m) => OwnBranch(m) = branch[m] /\ OwnBranch(m)' = branch[m]
    BY <1>3 DEF FastForward, OwnBranch, Rebasing
  <1>10. Changing(remote') /\ Steady(Gone', remote')
    <2>1. Gone \subseteq Gone' /\ remote \in Seq(Trees) /\ branch[m] \in Seq(Trees)
      BY <1>1, <1>4, GoneGrows DEF TypeOK
    <2>2. FastForward(m) => Steady(Gone, branch[m])
      BY <1>1, <1>9 DEF DropsNothing
    <2>3. QED
      BY <1>1, <1>2, <2>1, <2>2, SteadyStays DEF InPlace
  <1>11. QED
    BY <1>2, <1>3, <1>4, <1>6, <1>7, <1>8, <1>9, <1>10 DEF Goes

(***************************************************************************)
(* The theorems                                                            *)
(***************************************************************************)

\* Machine m takes a step.
Moves(m) ==
  \/ SyncStep(m) \/ RepairStep(m) \/ CutOff(m)
  \/ \E p \in Paths : WriteRecord(m, p) \/ DeleteRecord(m, p)

\* What a step does to the remote: nothing, or it puts there the branch of a machine that
\* has all that was there.
Publishes(m) ==
  /\ Changing(remote')
  /\ Steady(Gone', remote')
  /\ remote' = remote \/ (FastForward(m) /\ remote' = branch[m] /\ OwnBranch(m)' = branch[m])

\* Every step does what Goes and Publishes say; and what they say keeps the invariant.
LEMMA MovesGoes ==
  ASSUME IInv, NEW m \in Machines, Moves(m)
  PROVE  Goes(m) /\ Publishes(m)
  <1>1. ASSUME Goes(m), remote' = remote PROVE Publishes(m)
    <2>1. remote \in Seq(Trees) /\ Gone \subseteq Gone'
      BY <1>1, GoneGrows DEF IInv, TypeOK, Goes
    <2>2. QED
      BY <1>1, <2>1, SteadyStays DEF IInv, Publishes
  <1>2. CASE Fetch(m)
    BY <1>1, <1>2, FetchGoes
  <1>3. CASE AdoptHistory(m)
    BY <1>1, <1>3, AdoptHistoryGoes
  <1>4. CASE AdoptFiles(m)
    BY <1>1, <1>4, AdoptFilesGoes
  <1>5. CASE AdoptLocations(m)
    BY <1>1, <1>5, AdoptLocationsGoes
  <1>6. CASE Commit(m)
    BY <1>1, <1>6, CommitGoes
  <1>7. CASE Rebase(m)
    BY <1>1, <1>7, RebaseGoes
  <1>8. CASE Abort(m)
    BY <1>1, <1>8, AbortGoes
  <1>9. CASE Push(m)
    BY <1>9, PushGoes DEF Publishes
  <1>10. CASE Resolve(m)
    BY <1>1, <1>10, ResolveGoes
  <1>11. CASE Continue(m)
    BY <1>1, <1>11, ContinueGoes
  <1>12. CASE RepairStep(m)
    BY <1>1, <1>12, RepairGoes DEF RepairStep
  <1>13. CASE CutOff(m)
    BY <1>1, <1>13, CutOffGoes
  <1>14. CASE \E p \in Paths : WriteRecord(m, p) \/ DeleteRecord(m, p)
    <2>1. PICK p \in Paths : WriteRecord(m, p) \/ DeleteRecord(m, p)
      BY <1>14
    <2>2. NextVersion(m) \in Versions
      BY NextVersionTyped DEF IInv
    <2>3. \E version \in Versions \cup {Absent} : Edit(m, p, version)
      BY <2>1, <2>2 DEF WriteRecord, DeleteRecord
    <2>4. QED
      BY <1>1, <2>3, EditGoes
  <1>15. QED
    BY <1>2, <1>3, <1>4, <1>5, <1>6, <1>7, <1>8, <1>9, <1>10, <1>11, <1>12, <1>13, <1>14
    DEF Moves, SyncStep

LEMMA GoesKeeps ==
  ASSUME IInv, NEW m \in Machines, Goes(m), Publishes(m)
  PROVE  IInv'
  <1>1. TypeOK' /\ Onward
    BY DEF Goes, Onward
  <1>2. ASSUME NEW n \in Machines PROVE InPlace(n)' /\ DropsNothing(n)'
    <2>1. CASE n = m
      BY <2>1 DEF Goes
    <2>2. CASE n # m
      BY <1>1, <2>2, ElsewhereStays DEF Goes, IInv
    <2>3. QED
      BY <2>1, <2>2
  <1>3. QED
    BY <1>1, <1>2 DEF IInv, Publishes

LEMMA IdleKeeps ==
  ASSUME IInv, UNCHANGED vars
  PROVE  IInv'
  <1>1. TypeOK'
    BY DEF IInv, TypeOK, vars, syncVars, conflictVars, historyVars
  <1>2. Onward /\ UNCHANGED <<remote, replaced, adoptionCut>>
    BY <1>1, RemoteStays DEF IInv, vars, historyVars
  <1>3. ASSUME NEW n \in Machines PROVE Elsewhere(n)
    BY DEF Elsewhere, Untouched, vars, syncVars, conflictVars
  <1>4. ASSUME NEW n \in Machines PROVE InPlace(n)' /\ DropsNothing(n)'
    BY <1>2, <1>3, ElsewhereStays DEF IInv
  <1>5. Gone' = Gone
    BY <1>2 DEF Gone
  <1>6. QED
    BY <1>1, <1>2, <1>4, <1>5 DEF IInv

\* The invariant holds to begin with, and every step keeps it.
LEMMA InvariantStarts == Init => IInv
  <1> SUFFICES ASSUME Init PROVE IInv
    OBVIOUS
  <1>1. <<>> \in Seq(Trees) /\ Len(<<>>) = 0 /\ Tip(<<>>) = EmptyTree /\ EmptyTree \in Trees
    BY TreesTyped DEF Tip
  <1>2. TypeOK
    <2>1. 0 \in 0..Len(remote) /\ 0 \in 0..MaxFailures /\ 0 \in 0..MaxCuts /\ "idle" \in Steps
      BY <1>1, Constants DEF Init, Steps
    <2>2. /\ remote \in Seq(Trees) /\ branch \in [Machines -> Seq(Trees)]
          /\ work \in [Machines -> Trees]
      BY <1>1 DEF Init
    <2>3. /\ rebase \in [Machines -> Rebases \cup {NoRebase}]
          /\ answers \in [Machines -> Answers \cup {NoAnswers}]
      BY DEF Init
    <2>4. /\ fetched \in [Machines -> 0..Len(remote)] /\ conflictAt \in [Machines -> 0..Len(remote)]
          /\ pc \in [Machines -> Steps]
      BY <2>1 DEF Init
    <2>5. QED
      BY <2>1, <2>2, <2>3, <2>4 DEF Init, TypeOK
  <1>3. \A m \in Machines : ~Rebasing(m) /\ branch[m] = <<>> /\ work[m] = EmptyTree /\ pc[m] = "idle"
    BY DEF Init, Rebasing
  <1>4. Changing(<<>>) /\ Steady(Gone, <<>>) /\ Settles(Gone, EmptyTree, EmptyTree, {})
    BY <1>1 DEF Changing, Steady, Settles
  <1>5. \A m \in Machines : InPlace(m)
    BY <1>3, <1>4 DEF InPlace
  <1>6. \A m \in Machines : DropsNothing(m)
    BY <1>1, <1>3, <1>4 DEF DropsNothing, OwnBranch, Open
  <1>7. QED
    BY <1>2, <1>4, <1>5, <1>6 DEF IInv, Init

LEMMA InvariantKept == IInv /\ [Next]_vars => IInv'
  <1> SUFFICES ASSUME IInv, [Next]_vars PROVE IInv'
    OBVIOUS
  <1>1. ASSUME NEW m \in Machines, Moves(m) PROVE IInv'
    BY <1>1, MovesGoes, GoesKeeps
  <1>2. CASE UNCHANGED vars
    BY <1>2, IdleKeeps
  <1>3. QED
    BY <1>1, <1>2 DEF Next, Moves

LEMMA InvariantHolds == Spec => []IInv
  BY InvariantStarts, InvariantKept, PTL DEF Spec

\* Every variable has its type, whatever the machines do.
THEOREM TypeCorrect == Spec => []TypeOK
  BY InvariantHolds, PTL DEF IInv

\* No "silent winner" (docs/multi-machine.md:373): a record that reached the remote is at its
\* tip, or somebody changed it, deleted it or decided against it in a repair, whatever
\* order the git commands of syncs and repairs on all machines run in, wherever they are
\* cut off, and however often the network fails; a first join cut off half-way excepted.
THEOREM NoSilentWinner == Spec => []NoSilentLoss
  <1>1. IInv => NoSilentLoss
    <2> SUFFICES ASSUME IInv, ~adoptionCut, NEW v \in Lost PROVE FALSE
      BY DEF NoSilentLoss
    <2>1. Steady(Gone, remote) /\ remote \in Seq(Trees)
      BY DEF IInv, TypeOK
    <2>2. PICK tree \in TreesOf({remote}) : v \in At(tree, Paths)
      BY DEF Lost, In
    <2>3. PICK i \in 1..Len(remote) : tree = remote[i]
      BY <2>2 DEF TreesOf
    <2>4. PICK p \in Paths : v = <<p, tree[p]>> /\ tree[p] \notin {Absent, Marked}
      BY <2>2 DEF At
    <2>5. /\ Tip(remote) = remote[Len(remote)] /\ i \in 1..Len(remote)
          /\ Len(remote) \in 1..Len(remote)
      BY <2>1, <2>3 DEF Tip
    <2>6. Settles(Gone, tree, Tip(remote), {})
      BY <2>1, <2>3, <2>5 DEF Steady
    <2>7. v \in At(Tip(remote), Paths) \/ v \in replaced
      BY <2>4, <2>6 DEF Settles, At, Gone
    <2>8. QED
      BY <2>7 DEF Lost
  <1>2. QED
    BY <1>1, InvariantHolds, PTL

\* Every step is one that the shared history allows.
LEMMA StepShared ==
  ASSUME IInv, [Next]_vars
  PROVE  [Shared!Next]_(Shared!vars)
  <1> DEFINE known == [n \in Machines |-> Common(OwnBranch(n), remote)]
  <1>1. TypeOK /\ remote \in Seq(Trees)
    BY DEF IInv, TypeOK
  <1>2. CASE UNCHANGED vars
    BY <1>2 DEF Shared!vars, OwnBranch, Rebasing, vars
  <1>3. ASSUME NEW m \in Machines, Moves(m) PROVE Shared!Incorporate(m) \/ Shared!Publish(m)
    <2>1. Goes(m) /\ Publishes(m)
      BY <1>3, MovesGoes
    <2>2. \A n \in Machines \ {m} : OwnBranch(n)' = OwnBranch(n)
      BY <2>1 DEF Goes, Elsewhere, Untouched, OwnBranch, Rebasing
    <2>3. \A n \in Machines : Common(OwnBranch(n), remote) <= Common(OwnBranch(n)', remote')
      BY <2>1, ElsewhereStays DEF Goes, IInv
    <2>4. OwnBranch(m) \in Seq(Trees) /\ OwnBranch(m)' \in Seq(Trees) /\ remote' \in Seq(Trees)
      <3>1. TypeOK'
        BY <2>1 DEF Goes, Onward
      <3>2. /\ branch'[m] \in Seq(Trees)
            /\ (Rebasing(m)' => rebase'[m].mine \in Seq(Trees)) /\ remote' \in Seq(Trees)
        BY <3>1 DEF TypeOK, Rebasing, Rebases
      <3>3. QED
        BY <1>1, <3>2, HistoriesTyped DEF OwnBranch
    <2>5. CASE remote' = remote
      <3> DEFINE k == Common(OwnBranch(m), remote)'
      <3>1. k \in known[m]..Len(remote)
        <4>1. Common(OwnBranch(m), remote) \in Nat /\ k \in 0..Len(remote)
          BY <1>1, <2>4, <2>5, CommonOfAll
        <4>2. QED
          BY <1>1, <2>3, <4>1
      <3>2. known' = [known EXCEPT ![m] = k]
        BY <2>2, <2>5
      <3>3. QED
        BY <2>5, <3>1, <3>2 DEF Shared!Incorporate
    <2>6. CASE FastForward(m) /\ remote' = branch[m] /\ OwnBranch(m)' = branch[m] /\ remote' # remote
      <3>1. known[m] = Len(remote)
        BY <2>6 DEF FastForward, OwnBranch
      <3>2. Begins(remote, remote')
        BY <2>1 DEF Goes, Onward
      <3>3. Len(remote') > Len(remote) /\ SubSeq(remote', 1, Len(remote)) = remote
        <4>1. Len(remote) <= Len(remote') /\ \A i \in 1..Len(remote) : remote[i] = remote'[i]
          BY <3>2 DEF Begins
        <4>2. SubSeq(remote', 1, Len(remote)) = remote
          BY <1>1, <2>4, <4>1
        <4>3. Len(remote') = Len(remote) => remote' = remote
          BY <1>1, <2>4, <4>1
        <4>4. QED
          BY <1>1, <2>4, <2>6, <4>1, <4>2, <4>3
      <3>4. known'[m] = Len(remote')
        BY <2>4, <2>6, CommonOfAll
      <3>5. \A n \in Machines : known'[n] >= known[n]
        BY <2>3
      <3>6. QED
        BY <3>1, <3>3, <3>4, <3>5 DEF Shared!Publish
    <2>7. QED
      BY <2>1, <2>5, <2>6 DEF Publishes
  <1>4. QED
    BY <1>2, <1>3 DEF Next, Moves, Shared!Next

\* The push of runSync implements SharedHistory: the remote only grows, a machine adds to it
\* only when its own branch holds all that was published, and no step, not the abort of
\* a rebase either, takes a machine back behind what it had of the remote.
THEOREM AddsToHistory == Spec => OnlyEverAddsToHistory
  <1>1. Init => Shared!Init
    <2>1. <<>> \in Seq(Trees) /\ Len(<<>>) = 0
      OBVIOUS
    <2>2. Common(<<>>, <<>>) = 0
      BY <2>1, CommonOfAll
    <2>3. QED
      BY <2>2 DEF Init, Shared!Init, OwnBranch, Rebasing
  <1>2. QED
    BY <1>1, InvariantHolds, StepShared, PTL DEF Spec, OnlyEverAddsToHistory, Shared!Spec

(***************************************************************************)
(* What nobody loses                                                       *)
(***************************************************************************)

\* The versions of records that a history holds.
Held(h) == UNION {At(h[i], Paths) : i \in 1..Len(h)}

LEMMA HeldIs ==
  ASSUME NEW h \in Seq(Trees)
  PROVE  /\ In(TreesOf({h})) = Held(h)
         /\ \A i \in 1..Len(h) : At(h[i], Paths) \subseteq Held(h)
         /\ At(Tip(h), Paths) \subseteq Held(h)
         /\ \A tree \in Trees : Held(Append(h, tree)) = Held(h) \cup At(tree, Paths)
         /\ \A t \in Seq(Trees) : Begins(h, t) => Held(h) \subseteq Held(t)
  <1>1. In(TreesOf({h})) = Held(h)
    BY DEF In, TreesOf, Held
  <1>2. \A i \in 1..Len(h) : At(h[i], Paths) \subseteq Held(h)
    BY DEF Held
  <1>3. At(Tip(h), Paths) \subseteq Held(h)
    <2>1. CASE h = <<>>
      BY <2>1 DEF Tip, EmptyTree, At
    <2>2. CASE h # <<>>
      <3>1. Len(h) \in 1..Len(h)
        BY <2>2
      <3>2. QED
        BY <1>2, <2>2, <3>1 DEF Tip
    <2>3. QED
      BY <2>1, <2>2
  <1>4. ASSUME NEW tree \in Trees PROVE Held(Append(h, tree)) = Held(h) \cup At(tree, Paths)
    <2> DEFINE g == Append(h, tree)
    <2>1. /\ Len(g) = Len(h) + 1 /\ g[Len(h) + 1] = tree /\ \A i \in 1..Len(h) : g[i] = h[i]
          /\ Len(h) \in Nat
      OBVIOUS
    <2> HIDE DEF g
    <2>2. 1..Len(g) = (1..Len(h)) \cup {Len(h) + 1}
      BY <2>1
    <2>3. {At(g[i], Paths) : i \in 1..Len(g)} =
            {At(h[i], Paths) : i \in 1..Len(h)} \cup {At(tree, Paths)}
      BY <2>1, <2>2
    <2>4. QED
      BY <2>3 DEF Held, g
  <1>5. ASSUME NEW t \in Seq(Trees), Begins(h, t) PROVE Held(h) \subseteq Held(t)
    <2>1. \A i \in 1..Len(h) : i \in 1..Len(t) /\ h[i] = t[i]
      BY <1>5 DEF Begins
    <2>2. QED
      BY <2>1 DEF Held
  <1>6. QED
    BY <1>1, <1>2, <1>3, <1>4, <1>5

\* What the first n commits of `mine` hold is in R, or history h holds it too.
Carried(R, mine, n, h) == \A k \in 1..n : At(mine[k], Paths) \subseteq R \cup Held(h)

\* A replay that stops has carried what it replayed, and has in its tree what it stopped
\* at, but for the clash.
Carries(R, mine, h, at, clash, tree) ==
  /\ Carried(R, mine, at - 1, h)
  /\ At(mine[at], Paths \ clash) \subseteq R \cup Held(h) \cup At(tree, Paths)

LEMMA MergeCarries ==
  ASSUME NEW R, NEW mine \in Seq(Trees), NEW i \in 1..Len(mine), NEW h \in Seq(Trees),
         Carried(R, mine, i - 1, h)
  PROVE  Carries(R, mine, h, i, Clash(Parent(mine, i), mine[i], Tip(h)),
                 Merged(Parent(mine, i), mine[i], Tip(h)))
  <1> DEFINE parent == Parent(mine, i)
             clash == Clash(parent, mine[i], Tip(h))
             tree == Merged(parent, mine[i], Tip(h))
  <1>1. /\ parent \in Trees /\ mine[i] \in Trees /\ Tip(h) \in Trees
        /\ i > 1 => parent = mine[i - 1]
        /\ i = 1 => parent = EmptyTree
    BY ParentTyped, TipIs
  <1> HIDE DEF parent
  <1>2. ASSUME NEW p \in Paths \ clash, mine[i][p] \notin {Absent, Marked}
        PROVE <<p, mine[i][p]>> \in R \cup Held(h) \cup At(tree, Paths)
    <2>1. tree[p] = IF mine[i][p] # parent[p] THEN mine[i][p] ELSE Tip(h)[p]
      BY <1>1, MergedTyped
    <2>2. CASE mine[i][p] # parent[p]
      <3>1. tree[p] = mine[i][p]
        BY <2>1, <2>2
      <3>2. QED
        BY <1>2, <3>1, AtIs
    <2>3. CASE mine[i][p] = parent[p]
      <3>1. i > 1 /\ parent = mine[i - 1]
        BY <1>1, <1>2, <2>3 DEF EmptyTree
      <3>2. <<p, mine[i - 1][p]>> \in At(mine[i - 1], Paths)
        BY <1>2, <2>3, <3>1, AtIs
      <3>3. i - 1 \in 1..i - 1
        BY <3>1
      <3>4. QED
        BY <2>3, <3>1, <3>2, <3>3 DEF Carried
    <2>4. QED
      BY <2>2, <2>3
  <1>3. At(mine[i], Paths \ clash) \subseteq R \cup Held(h) \cup At(tree, Paths)
    BY <1>2 DEF At
  <1>4. QED
    BY <1>3 DEF Carries, parent

\* A replay carries everything it replays.
LEMMA ReplayCarries ==
  ASSUME NEW R, NEW mine \in Seq(Trees), NEW from \in 0..Len(mine), NEW onto \in Seq(Trees),
         Carried(R, mine, from, onto)
  PROVE  LET result == Replay(mine, from, onto) IN
         /\ result.clash = {} => Carried(R, mine, Len(mine), result.to)
         /\ result.clash # {} =>
              Carries(R, mine, result.to, result.at, result.clash, result.tree)
  <1> DEFINE Good(i) == {r \in Results(mine) :
                          /\ r.clash = {} => Carried(R, mine, i, r.to)
                          /\ r.clash # {} => Carries(R, mine, r.to, r.at, r.clash, r.tree)}
             Q == [i \in from..Len(mine) |-> Good(i)]
  <1>1. Base(from, onto) \in Good(from)
    <2>1. Tip(onto) \in Trees
      BY TipIs
    <2>2. QED
      BY <2>1 DEF Base, Results
  <1>2. ASSUME NEW i \in from + 1..Len(mine), NEW last \in Good(i - 1)
        PROVE ReplayCommit(mine, i, last) \in Good(i)
    <2> DEFINE tip == Tip(last.to)
               clash == Clash(Parent(mine, i), mine[i], tip)
               tree == Merged(Parent(mine, i), mine[i], tip)
               next == ReplayCommit(mine, i, last)
    <2>1. i \in 1..Len(mine) /\ last \in Results(mine) /\ last.to \in Seq(Trees)
      BY DEF Results
    <2>2. /\ next \in Results(mine) /\ tree \in Trees
          /\ \/ last.clash # {} /\ next = last
             \/ /\ last.clash = {} /\ clash # {}
                /\ next = [to |-> last.to, at |-> i, clash |-> clash, tree |-> tree]
             \/ /\ last.clash = {} /\ clash = {} /\ tree = tip
                /\ next = [to |-> last.to, at |-> i, clash |-> {}, tree |-> tree]
             \/ /\ last.clash = {} /\ clash = {} /\ tree # tip
                /\ next = [to |-> Append(last.to, tree), at |-> i, clash |-> {}, tree |-> tree]
      BY <2>1, CommitReplayed
    <2>3. last.clash = {} => Carries(R, mine, last.to, i, clash, tree)
      BY <2>1, MergeCarries
    <2> HIDE DEF clash, tree, next
    <2> SUFFICES next \in Good(i)
      BY DEF next
    <2>4. CASE last.clash # {} /\ next = last
      BY <2>4
    <2>5. CASE /\ last.clash = {} /\ clash # {}
               /\ next = [to |-> last.to, at |-> i, clash |-> clash, tree |-> tree]
      <3>1. next.to = last.to /\ next.clash = clash /\ next.tree = tree /\ next.at = i
        BY <2>5
      <3>2. QED
        BY <2>2, <2>3, <2>5, <3>1
    <2>6. CASE last.clash = {} /\ clash = {}
      <3>1. /\ Carried(R, mine, i - 1, last.to)
            /\ At(mine[i], Paths) \subseteq R \cup Held(last.to) \cup At(tree, Paths)
        <4>1. Paths \ {} = Paths
          OBVIOUS
        <4>2. QED
          BY <2>3, <2>6, <4>1 DEF Carries
      <3>2. next.clash = {} /\ Held(last.to) \cup At(tree, Paths) \subseteq Held(next.to)
        <4>1. CASE tree = tip
          <5>1. next.to = last.to /\ next.clash = {}
            BY <2>2, <2>6, <4>1
          <5>2. QED
            BY <2>1, <4>1, <5>1, HeldIs
        <4>2. CASE tree # tip
          <5>1. next.to = Append(last.to, tree) /\ next.clash = {}
            BY <2>2, <2>6, <4>2
          <5>2. Held(Append(last.to, tree)) = Held(last.to) \cup At(tree, Paths)
            BY <2>1, <2>2, HeldIs
          <5>3. QED
            BY <5>1, <5>2
        <4>3. QED
          BY <4>1, <4>2
      <3>3. Carried(R, mine, i, next.to)
        <4>1. SUFFICES ASSUME NEW k \in 1..i PROVE At(mine[k], Paths) \subseteq R \cup Held(next.to)
          BY DEF Carried
        <4>2. CASE k = i
          BY <3>1, <3>2, <4>2
        <4>3. CASE k # i
          <5>1. k \in 1..i - 1
            BY <2>1, <4>3
          <5>2. QED
            BY <3>1, <3>2, <5>1 DEF Carried
        <4>4. QED
          BY <4>2, <4>3
      <3>4. QED
        BY <2>2, <3>2, <3>3
    <2>7. QED
      BY <2>2, <2>4, <2>5, <2>6
  <1>3. Q[Len(mine)] = Good(Len(mine)) /\ Q[from] = Good(from)
        /\ \A i \in from + 1..Len(mine) : Q[i - 1] = Good(i - 1) /\ Q[i] = Good(i)
    OBVIOUS
  <1> HIDE DEF Q, Good
  <1>4. Replay(mine, from, onto) \in Q[Len(mine)]
    BY <1>1, <1>2, <1>3, ReplayKeeps
  <1>5. Replay(mine, from, onto) \in Good(Len(mine))
    BY <1>3, <1>4
  <1>6. QED
    BY <1>5 DEF Good

\* A merge makes up no record.
LEMMA MergeBrings ==
  ASSUME NEW S, NEW parent \in Trees, NEW mine \in Trees, NEW tip \in Trees,
         At(mine, Paths) \subseteq S, At(tip, Paths) \subseteq S
  PROVE  At(Merged(parent, mine, tip), Paths) \subseteq S
  <1> DEFINE tree == Merged(parent, mine, tip)
  <1>1. ASSUME NEW p \in Paths, tree[p] \notin {Absent, Marked} PROVE tree[p] \in {mine[p], tip[p]}
    <2>1. CASE p \notin Clash(parent, mine, tip)
      BY <2>1, MergedTyped
    <2>2. CASE p \in Clash(parent, mine, tip)
      <3>1. tree[p] = IF Absent \in {mine[p], tip[p]}
                      THEN CHOOSE v \in {mine[p], tip[p]} : v # Absent ELSE Marked
        BY <2>2 DEF Merged
      <3>2. \E v \in {mine[p], tip[p]} : v # Absent
        BY <2>2 DEF Clash
      <3>3. QED
        BY <1>1, <3>1, <3>2
    <2>3. QED
      BY <2>1, <2>2
  <1> HIDE DEF tree
  <1>2. ASSUME NEW p \in Paths, tree[p] \notin {Absent, Marked} PROVE <<p, tree[p]>> \in S
    <2>1. tree[p] = mine[p] \/ tree[p] = tip[p]
      BY <1>1, <1>2
    <2>2. QED
      BY <1>2, <2>1 DEF At
  <1>3. QED
    BY <1>2 DEF At, tree

\* Nor does a replay.
LEMMA ReplayBrings ==
  ASSUME NEW S, NEW mine \in Seq(Trees), NEW from \in 0..Len(mine), NEW onto \in Seq(Trees),
         Held(mine) \subseteq S, Held(onto) \subseteq S
  PROVE  LET result == Replay(mine, from, onto) IN
         Held(result.to) \subseteq S /\ At(result.tree, Paths) \subseteq S
  <1> DEFINE Good == {r \in Results(mine) : Held(r.to) \subseteq S /\ At(r.tree, Paths) \subseteq S}
             Q == [i \in from..Len(mine) |-> Good]
  <1>1. Base(from, onto) \in Good
    <2>1. Tip(onto) \in Trees /\ At(Tip(onto), Paths) \subseteq S
      BY TipIs, HeldIs
    <2>2. QED
      BY <2>1 DEF Base, Results
  <1>2. ASSUME NEW i \in from + 1..Len(mine), NEW last \in Good
        PROVE ReplayCommit(mine, i, last) \in Good
    <2> DEFINE tip == Tip(last.to)
               clash == Clash(Parent(mine, i), mine[i], tip)
               tree == Merged(Parent(mine, i), mine[i], tip)
               next == ReplayCommit(mine, i, last)
    <2>1. /\ i \in 1..Len(mine) /\ last \in Results(mine) /\ last.to \in Seq(Trees)
          /\ Held(last.to) \subseteq S
      BY DEF Results
    <2>2. /\ next \in Results(mine) /\ tree \in Trees
          /\ \/ last.clash # {} /\ next = last
             \/ /\ last.clash = {} /\ clash # {}
                /\ next = [to |-> last.to, at |-> i, clash |-> clash, tree |-> tree]
             \/ /\ last.clash = {} /\ clash = {} /\ tree = tip
                /\ next = [to |-> last.to, at |-> i, clash |-> {}, tree |-> tree]
             \/ /\ last.clash = {} /\ clash = {} /\ tree # tip
                /\ next = [to |-> Append(last.to, tree), at |-> i, clash |-> {}, tree |-> tree]
      BY <2>1, CommitReplayed
    <2>3. At(tree, Paths) \subseteq S
      <3>1. Parent(mine, i) \in Trees /\ mine[i] \in Trees /\ tip \in Trees
        BY <2>1, ParentTyped, TipIs
      <3>2. At(mine[i], Paths) \subseteq S /\ At(tip, Paths) \subseteq S
        BY <2>1, HeldIs
      <3>3. QED
        BY <3>1, <3>2, MergeBrings
    <2>4. Held(Append(last.to, tree)) \subseteq S
      <3>1. Held(Append(last.to, tree)) = Held(last.to) \cup At(tree, Paths)
        BY <2>1, <2>2, HeldIs
      <3>2. QED
        BY <2>1, <2>3, <3>1
    <2> HIDE DEF clash, tree, next
    <2>5. next = last \/ (next.to \in {last.to, Append(last.to, tree)} /\ next.tree = tree)
      BY <2>2
    <2>6. next \in Good
      BY <2>1, <2>2, <2>3, <2>4, <2>5
    <2>7. QED
      BY <2>6 DEF next
  <1> HIDE DEF Good
  <1>3. /\ Q[Len(mine)] = Good /\ Q[from] = Good
        /\ \A i \in from + 1..Len(mine) : Q[i - 1] = Good /\ Q[i] = Good
    OBVIOUS
  <1> HIDE DEF Q
  <1>4. Replay(mine, from, onto) \in Q[Len(mine)]
    BY <1>1, <1>2, <1>3, ReplayKeeps
  <1>5. QED
    BY <1>3, <1>4 DEF Good

\* A file that is not in what is replayed on, and that no commit replayed writes, is not in
\* what comes out.
LEMMA ReplayLeaves ==
  ASSUME NEW mine \in Seq(Trees), NEW from \in 0..Len(mine), NEW onto \in Seq(Trees),
         NEW p \in Paths, Tip(onto)[p] = Absent
  PROVE  LET result == Replay(mine, from, onto) IN
         ~Writes(mine, from, result.at, p) => result.tree[p] = Absent
  <1> DEFINE Unwritten(n) == \A i \in from + 1..n : mine[i][p] \in {Absent, Parent(mine, i)[p]}
             Good(i) == {r \in Results(mine) :
                          /\ r.clash = {} => r.at = i /\ r.tree = Tip(r.to)
                          /\ Unwritten(r.at) => r.tree[p] = Absent}
             Q == [i \in from..Len(mine) |-> Good(i)]
  <1>1. Base(from, onto) \in Good(from)
    <2>1. Tip(onto) \in Trees
      BY TipIs
    <2>2. QED
      BY <2>1 DEF Base, Results
  <1>2. ASSUME NEW i \in from + 1..Len(mine), NEW last \in Good(i - 1)
        PROVE ReplayCommit(mine, i, last) \in Good(i)
    <2> DEFINE tip == Tip(last.to)
               clash == Clash(Parent(mine, i), mine[i], tip)
               tree == Merged(Parent(mine, i), mine[i], tip)
               next == ReplayCommit(mine, i, last)
    <2>1. /\ i \in 1..Len(mine) /\ last \in Results(mine) /\ last.to \in Seq(Trees)
          /\ last.clash = {} => last.at = i - 1 /\ last.tree = tip
          /\ Unwritten(last.at) => last.tree[p] = Absent
      BY DEF Results
    <2>2. /\ next \in Results(mine) /\ tree \in Trees
          /\ \/ last.clash # {} /\ next = last
             \/ /\ last.clash = {} /\ clash # {}
                /\ next = [to |-> last.to, at |-> i, clash |-> clash, tree |-> tree]
             \/ /\ last.clash = {} /\ clash = {} /\ tree = tip
                /\ next = [to |-> last.to, at |-> i, clash |-> {}, tree |-> tree]
             \/ /\ last.clash = {} /\ clash = {} /\ tree # tip
                /\ next = [to |-> Append(last.to, tree), at |-> i, clash |-> {}, tree |-> tree]
      BY <2>1, CommitReplayed
    <2>3. ASSUME last.clash = {}, Unwritten(i) PROVE tree[p] = Absent
      <3> DEFINE parent == Parent(mine, i)
      <3>1. /\ parent \in Trees /\ mine[i] \in Trees /\ tip \in Trees
            /\ i \in from + 1..i /\ \A j \in from + 1..i - 1 : j \in from + 1..i
        BY <2>1, ParentTyped, TipIs
      <3>2. mine[i][p] \in {Absent, parent[p]} /\ tip[p] = Absent
        BY <2>1, <2>3, <3>1
      <3> HIDE DEF parent, tip
      <3>3. p \notin Clash(parent, mine[i], tip)
        BY <3>2 DEF Clash
      <3>4. Merged(parent, mine[i], tip)[p] = IF mine[i][p] # parent[p] THEN mine[i][p] ELSE tip[p]
        BY <3>1, <3>3, MergedTyped
      <3>5. QED
        BY <3>2, <3>4 DEF parent, tip
    <2>4. Tip(Append(last.to, tree)) = tree
      BY <2>1, <2>2, TipIs
    <2> HIDE DEF clash, tree, next, Unwritten
    <2> SUFFICES next \in Good(i)
      BY DEF next
    <2>5. CASE last.clash # {} /\ next = last
      BY <2>1, <2>5
    <2>6. CASE last.clash = {}
      <3>1. next.at = i /\ next.tree = tree
        BY <2>2, <2>6
      <3>2. ASSUME next.clash = {} PROVE next.tree = Tip(next.to)
        <4>1. CASE clash # {}
          BY <2>2, <2>6, <3>2, <4>1
        <4>2. CASE clash = {} /\ tree = tip
          <5>1. next.to = last.to
            BY <2>2, <2>6, <4>2
          <5>2. QED
            BY <3>1, <4>2, <5>1
        <4>3. CASE clash = {} /\ tree # tip
          <5>1. next.to = Append(last.to, tree)
            BY <2>2, <2>6, <4>3
          <5>2. QED
            BY <2>4, <3>1, <5>1
        <4>4. QED
          BY <4>1, <4>2, <4>3
      <3>3. QED
        BY <2>2, <2>3, <2>6, <3>1, <3>2
    <2>7. QED
      BY <2>2, <2>5, <2>6
  <1>3. Q[Len(mine)] = Good(Len(mine)) /\ Q[from] = Good(from)
        /\ \A i \in from + 1..Len(mine) : Q[i - 1] = Good(i - 1) /\ Q[i] = Good(i)
    OBVIOUS
  <1> DEFINE result == Replay(mine, from, onto)
  <1>4. ~Writes(mine, from, result.at, p) <=> Unwritten(result.at)
    BY DEF Writes, Parent
  <1> HIDE DEF Q, Good, Unwritten
  <1>5. result \in Q[Len(mine)]
    BY <1>1, <1>2, <1>3, ReplayKeeps
  <1> HIDE DEF result
  <1>6. result \in Good(Len(mine))
    BY <1>3, <1>5
  <1>7. Unwritten(result.at) => result.tree[p] = Absent
    BY <1>6 DEF Good
  <1>8. QED
    BY <1>4, <1>7 DEF result

\* The versions that are accounted for whatever becomes of the machines.
Accounted == replaced \cup overlaid \cup swept \cup Held(remote)

\* What machine m has: its files, and its own branch.
Has(m) == At(work[m], Paths) \cup Held(OwnBranch(m))

\* A machine that no command has left in the middle of a rebase is in one only on the way.
\* Then HEAD and the index hold nothing that is not accounted for or in the branch it
\* replays; and what it has replayed of that branch is in HEAD, what it has stopped at in
\* the index.
MidRebase(m) ==
  Rebasing(m) =>
    /\ pc[m] \in {"abort", "resolve", "continue"}
    /\ pc[m] # "abort" => answers[m].mine = Tip(rebase[m].mine)
    /\ Held(branch[m]) \subseteq Accounted \cup Held(rebase[m].mine)
    /\ At(rebase[m].index, Paths) \subseteq Accounted \cup Held(rebase[m].mine)
    /\ Carries(Accounted, rebase[m].mine, branch[m], rebase[m].at, rebase[m].unmerged,
               rebase[m].index)

\* The inductive invariant, on top of IInv.
KeptInv ==
  ~stranded =>
    /\ \A m \in Machines : MidRebase(m)
    /\ made \subseteq Accounted \cup UNION {Has(m) : m \in Machines}

\* What every step of machine m does to that.
Keeps(m) ==
  /\ overlaid \subseteq overlaid' /\ swept \subseteq swept' /\ (stranded => stranded')
  /\ ~stranded' /\ MidRebase(m) =>
       /\ MidRebase(m)'
       /\ Has(m) \subseteq Accounted' \cup Has(m)'
       /\ made' \subseteq made \cup Has(m)'

LEMMA AccountedGrows ==
  ASSUME Onward, overlaid \subseteq overlaid', swept \subseteq swept'
  PROVE  /\ Accounted \subseteq Accounted'
         /\ \A mine, h, at, clash, tree :
              Carries(Accounted, mine, h, at, clash, tree) => Carries(Accounted', mine, h, at, clash, tree)
  <1>1. Held(remote) \subseteq Held(remote')
    BY HeldIs DEF Onward, TypeOK
  <1>2. Accounted \subseteq Accounted'
    BY <1>1 DEF Accounted, Onward
  <1>3. \A mine, h, n : Carried(Accounted, mine, n, h) => Carried(Accounted', mine, n, h)
    BY <1>2 DEF Carried
  <1>4. QED
    BY <1>2, <1>3 DEF Carries

\* A machine that stays where it was in its rebase.
LEMMA MidRebaseStays ==
  ASSUME Onward, overlaid \subseteq overlaid', swept \subseteq swept', NEW n \in Machines,
         MidRebase(n), Untouched(n),
         Rebasing(n) => /\ pc'[n] \in {"abort", "resolve", "continue"}
                        /\ pc'[n] # "abort" => answers'[n].mine = Tip(rebase[n].mine)
  PROVE  MidRebase(n)'
  <1>1. Rebasing(n)' = Rebasing(n) /\ branch'[n] = branch[n] /\ rebase'[n] = rebase[n]
    BY DEF Untouched, Rebasing
  <1>2. QED
    BY <1>1, AccountedGrows DEF MidRebase

\* A step that leaves its histories alone.
LEMMA HistoriesKept ==
  ASSUME IInv, NEW m \in Machines, Goes(m), Untouched(m),
         overlaid \subseteq overlaid', swept \subseteq swept', stranded => stranded',
         ~stranded' /\ MidRebase(m) /\ Rebasing(m) =>
           /\ pc'[m] \in {"abort", "resolve", "continue"}
           /\ pc'[m] # "abort" => answers'[m].mine = Tip(rebase[m].mine),
         ~stranded' /\ MidRebase(m) => At(work[m], Paths) \subseteq Accounted' \cup At(work'[m], Paths),
         made' \subseteq made \cup At(work'[m], Paths)
  PROVE  Keeps(m)
  <1>1. Onward
    BY DEF Goes
  <1>2. OwnBranch(m)' = OwnBranch(m)
    BY DEF Untouched, OwnBranch, Rebasing
  <1>3. ASSUME ~stranded', MidRebase(m)
        PROVE /\ MidRebase(m)'
              /\ Has(m) \subseteq Accounted' \cup Has(m)'
              /\ made' \subseteq made \cup Has(m)'
    <2>1. MidRebase(m)'
      BY <1>1, <1>3, MidRebaseStays
    <2>2. QED
      BY <1>2, <1>3, <2>1 DEF Has
  <1>4. QED
    BY <1>3 DEF Keeps

\* A step that leaves its files alone too.
LEMMA AllKept ==
  ASSUME IInv, NEW m \in Machines, Goes(m), Untouched(m), work'[m] = work[m],
         UNCHANGED <<made, overlaid, swept>>, stranded => stranded',
         ~stranded' /\ MidRebase(m) /\ Rebasing(m) =>
           /\ pc'[m] \in {"abort", "resolve", "continue"}
           /\ pc'[m] # "abort" => answers'[m].mine = Tip(rebase[m].mine)
  PROVE  Keeps(m)
  BY HistoriesKept

LEMMA EditKeeps ==
  ASSUME IInv, NEW m \in Machines, NEW p \in Paths, NEW version \in Versions \cup {Absent},
         Edit(m, p, version)
  PROVE  Keeps(m)
  <1>1. TypeOK /\ Goes(m)
    BY EditGoes DEF IInv
  <1>2. /\ UNCHANGED <<branch, rebase, pc, answers, overlaid, swept, stranded, remote>>
        /\ work' = [work EXCEPT ![m][p] = version]
        /\ replaced' = replaced \cup At(work[m], {p})
        /\ made' = made \cup At(work'[m], {p})
    BY DEF Edit, syncVars, conflictVars
  <1>3. \A q \in Paths \ {p} : work'[m][q] = work[m][q]
    BY <1>1, <1>2 DEF TypeOK, Trees
  <1>4. At(work[m], Paths) \subseteq Accounted' \cup At(work'[m], Paths)
    BY <1>2, <1>3 DEF At, Accounted
  <1>5. made' \subseteq made \cup At(work'[m], Paths)
    BY <1>2 DEF At
  <1>6. QED
    BY <1>1, <1>2, <1>4, <1>5, HistoriesKept DEF Untouched, MidRebase

LEMMA FetchKeeps ==
  ASSUME IInv, NEW m \in Machines, Fetch(m)
  PROVE  Keeps(m)
  <1>1. Goes(m)
    BY FetchGoes
  <1>2. UNCHANGED <<branch, rebase, work, historyVars>> /\ pc[m] \in {"idle", "fetch"}
    BY DEF Fetch
  <1>3. QED
    BY <1>1, <1>2, AllKept DEF Untouched, MidRebase, historyVars

LEMMA AdoptHistoryKeeps ==
  ASSUME IInv, NEW m \in Machines, AdoptHistory(m)
  PROVE  Keeps(m)
  <1>1. TypeOK /\ Goes(m) /\ InPlace(m)
    BY AdoptHistoryGoes DEF IInv
  <1>2. UNCHANGED <<rebase, work, historyVars>> /\ pc[m] = "adopt"
    BY DEF AdoptHistory
  <1>3. branch[m] = <<>>
    BY <1>1, <1>2 DEF InPlace
  <1>4. ASSUME MidRebase(m)
        PROVE MidRebase(m)' /\ Has(m) \subseteq Has(m)'
    <2>1. ~Rebasing(m) /\ ~Rebasing(m)'
      BY <1>2, <1>4 DEF MidRebase, Rebasing
    <2>2. Held(OwnBranch(m)) = {}
      BY <1>3, <2>1 DEF OwnBranch, Held
    <2>3. QED
      BY <1>2, <2>1, <2>2 DEF MidRebase, Has
  <1>5. QED
    BY <1>2, <1>4 DEF Keeps, historyVars

LEMMA AdoptFilesKeeps ==
  ASSUME IInv, NEW m \in Machines, AdoptFiles(m)
  PROVE  Keeps(m)
  <1> DEFINE tip == Tip(branch[m])
  <1>1. TypeOK /\ Goes(m)
    BY AdoptFilesGoes DEF IInv
  <1>2. /\ UNCHANGED <<branch, rebase, made, swept, stranded>> /\ pc[m] = "checkout"
        /\ work' = [work EXCEPT ![m] = CheckedOut(m, tip, tip)]
        /\ overlaid' = overlaid \cup {v \in At(work[m], Paths) : tip[v[1]] \notin {Absent, v[2]}}
    BY DEF AdoptFiles
  <1>3. \A p \in Paths : work'[m][p] = IF tip[p] = Absent THEN work[m][p] ELSE tip[p]
    BY <1>1, <1>2 DEF CheckedOut, TypeOK
  <1> HIDE DEF tip
  <1>4. At(work[m], Paths) \subseteq Accounted' \cup At(work'[m], Paths)
    <2>1. ASSUME NEW p \in Paths, work[m][p] \notin {Absent, Marked}
          PROVE <<p, work[m][p]>> \in Accounted' \cup At(work'[m], Paths)
      <3>1. <<p, work[m][p]>> \in At(work[m], Paths)
        BY <2>1, AtIs
      <3>2. CASE tip[p] \in {Absent, work[m][p]}
        <4>1. work'[m][p] = work[m][p]
          BY <1>3, <3>2
        <4>2. QED
          BY <2>1, <4>1, AtIs
      <3>3. CASE tip[p] \notin {Absent, work[m][p]}
        <4>1. <<p, work[m][p]>> \in overlaid'
          BY <1>2, <3>1, <3>3
        <4>2. QED
          BY <4>1 DEF Accounted
      <3>4. QED
        BY <3>2, <3>3
    <2>2. QED
      BY <2>1 DEF At
  <1>5. QED
    BY <1>1, <1>2, <1>4, HistoriesKept DEF Untouched, MidRebase

LEMMA AdoptLocationsKeeps ==
  ASSUME IInv, NEW m \in Machines, AdoptLocations(m)
  PROVE  Keeps(m)
  <1> DEFINE Here == {p \in held[m] : Tip(branch[m])[p] # Absent}
  <1>1. TypeOK /\ Goes(m) /\ NextVersion(m) \in Versions
    BY AdoptLocationsGoes, NextVersionTyped DEF IInv
  <1>2. Here \subseteq Paths
    BY <1>1, Constants DEF TypeOK
  <1>3. /\ UNCHANGED <<branch, rebase, overlaid, swept, stranded>> /\ pc[m] = "restore"
        /\ work' = [work EXCEPT ![m] = [p \in Paths |-> IF p \in Here THEN NextVersion(m) ELSE work[m][p]]]
        /\ made' = made \cup {<<p, NextVersion(m)>> : p \in Here}
        /\ replaced' = replaced \cup At(work[m], Here)
    BY DEF AdoptLocations
  <1> HIDE DEF Here
  <1>4. \A p \in Paths : work'[m][p] = IF p \in Here THEN NextVersion(m) ELSE work[m][p]
    BY <1>1, <1>3 DEF TypeOK
  <1>5. At(work[m], Paths) \subseteq Accounted' \cup At(work'[m], Paths)
    <2>1. \A p \in Here : work[m][p] \notin {Absent, Marked} => <<p, work[m][p]>> \in Accounted'
      BY <1>3, AtIs DEF Accounted
    <2>2. QED
      BY <1>4, <2>1 DEF At
  <1>6. made' \subseteq made \cup At(work'[m], Paths)
    <2>1. ASSUME NEW p \in Here PROVE <<p, NextVersion(m)>> \in At(work'[m], Paths)
      <3>1. p \in Paths /\ work'[m][p] = NextVersion(m) /\ NextVersion(m) \notin {Absent, Marked}
        BY <1>1, <1>2, <1>4, Constants
      <3>2. QED
        BY <3>1, AtIs
    <2>2. QED
      BY <1>3, <2>1
  <1>7. QED
    BY <1>1, <1>3, <1>5, <1>6, HistoriesKept DEF Untouched, MidRebase

LEMMA CommitKeeps ==
  ASSUME IInv, NEW m \in Machines, Commit(m)
  PROVE  Keeps(m)
  <1>1. TypeOK
    BY DEF IInv
  <1>2. /\ UNCHANGED <<work, historyVars>> /\ pc[m] = "commit"
        /\ branch' = IF work[m] = Tip(branch[m]) THEN branch
                     ELSE [branch EXCEPT ![m] = Append(branch[m], work[m])]
        /\ ~Rebasing(m) => rebase' = rebase
    BY DEF Commit
  <1>3. ASSUME MidRebase(m) PROVE MidRebase(m)' /\ Has(m) \subseteq Has(m)'
    <2>1. ~Rebasing(m) /\ ~Rebasing(m)'
      BY <1>2, <1>3 DEF MidRebase, Rebasing
    <2>2. branch'[m] = branch[m] \/ branch'[m] = Append(branch[m], work[m])
      BY <1>1, <1>2 DEF TypeOK
    <2>3. Held(Append(branch[m], work[m])) = Held(branch[m]) \cup At(work[m], Paths)
      BY <1>1, HeldIs DEF TypeOK
    <2>4. Held(OwnBranch(m)) \subseteq Held(OwnBranch(m)')
      BY <2>1, <2>2, <2>3 DEF OwnBranch
    <2>5. QED
      BY <1>2, <2>1, <2>4 DEF MidRebase, Has
  <1>4. QED
    BY <1>2, <1>3 DEF Keeps, historyVars

LEMMA PushKeeps ==
  ASSUME IInv, NEW m \in Machines, Push(m)
  PROVE  Keeps(m)
  <1>1. Goes(m)
    BY PushGoes
  <1>2. UNCHANGED <<branch, rebase, work, historyVars>> /\ pc[m] = "push"
    BY DEF Push
  <1>3. QED
    BY <1>1, <1>2, AllKept DEF Untouched, MidRebase, historyVars

LEMMA CutOffKeeps ==
  ASSUME IInv, NEW m \in Machines, CutOff(m)
  PROVE  Keeps(m)
  <1>1. Goes(m)
    BY CutOffGoes
  <1>2. /\ UNCHANGED <<branch, rebase, work, made, overlaid, swept>>
        /\ stranded' = (stranded \/ Rebasing(m))
    BY DEF CutOff
  <1>3. QED
    BY <1>1, <1>2, AllKept DEF Untouched

\* What git writes over, in a rebase that it gives up, is in the index or noted.
LEMMA AbortedKeeps ==
  ASSUME IInv, NEW m \in Machines, Goes(m), AbortRebase(m), NoteStranded(m),
         UNCHANGED <<made, overlaid, remote>>
  PROVE  Keeps(m)
  <1> DEFINE mine == rebase[m].mine
             index == rebase[m].index
  <1>1. TypeOK /\ Onward /\ (stranded => stranded')
    BY DEF IInv, Goes, NoteStranded
  <1>2. CASE UNCHANGED <<branch, work, rebase, swept>>
    <2>1. ~stranded' => ~Rebasing(m)
      BY <1>2 DEF NoteStranded, Rebasing
    <2>2. QED
      BY <1>1, <1>2, <2>1, AllKept DEF Untouched
  <1>3. CASE /\ Rebasing(m)
             /\ branch' = [branch EXCEPT ![m] = mine]
             /\ work' = [work EXCEPT ![m] = CheckedOut(m, index, Tip(mine))]
             /\ rebase' = [rebase EXCEPT ![m] = NoRebase]
             /\ swept' = swept \cup (At(work[m], Unstaged(m)) \ At(work'[m], Paths))
    <2>1. /\ branch'[m] = mine /\ ~Rebasing(m)'
          /\ OwnBranch(m) = mine /\ OwnBranch(m)' = mine
      BY <1>1, <1>3 DEF TypeOK, Rebasing, OwnBranch
    <2>2. overlaid \subseteq overlaid' /\ swept \subseteq swept'
      BY <1>3
    <2>3. ASSUME MidRebase(m) PROVE Has(m) \subseteq Accounted' \cup Has(m)'
      <3>1. At(index, Paths) \subseteq Accounted \cup Held(mine) /\ Accounted \subseteq Accounted'
        BY <1>1, <1>3, <2>2, <2>3, AccountedGrows DEF MidRebase
      <3>2. ASSUME NEW p \in Paths, work[m][p] \notin {Absent, Marked}
            PROVE <<p, work[m][p]>> \in Accounted' \cup Held(mine) \cup At(work'[m], Paths)
        <4>1. CASE p \in Unstaged(m)
          <5>1. <<p, work[m][p]>> \in At(work[m], Unstaged(m))
            BY <3>2, <4>1, AtIs
          <5>2. QED
            BY <1>3, <5>1 DEF Accounted
        <4>2. CASE p \notin Unstaged(m)
          <5>1. work[m][p] = index[p]
            BY <4>2 DEF Unstaged
          <5>2. <<p, index[p]>> \in At(index, Paths)
            BY <3>2, <5>1, AtIs
          <5>3. QED
            BY <3>1, <5>1, <5>2
        <4>3. QED
          BY <4>1, <4>2
      <3>3. At(work[m], Paths) \subseteq Accounted' \cup Held(mine) \cup At(work'[m], Paths)
        BY <3>2 DEF At
      <3>4. QED
        BY <2>1, <3>3 DEF Has
    <2>4. MidRebase(m)'
      BY <2>1 DEF MidRebase
    <2>5. QED
      BY <1>1, <2>2, <2>3, <2>4 DEF Keeps
  <1>4. QED
    BY <1>2, <1>3 DEF AbortRebase

LEMMA AbortKeeps ==
  ASSUME IInv, NEW m \in Machines, Abort(m)
  PROVE  Keeps(m)
  <1>1. Goes(m)
    BY AbortGoes
  <1>2. AbortRebase(m) /\ NoteStranded(m) /\ UNCHANGED <<made, overlaid, remote>>
    BY DEF Abort
  <1>3. QED
    BY <1>1, <1>2, AbortedKeeps

\* A rebase that runs carries the branch it replays over, and leaves alone the files that
\* are in neither.
LEMMA ReplayedKeeps ==
  ASSUME IInv, NEW m \in Machines, Goes(m),
         NEW mine \in Seq(Trees), NEW from \in 0..Len(mine), NEW onto \in Seq(Trees),
         NEW tracked \in Trees, NEW result, result = Replay(mine, from, onto),
         RunRebase(m, mine, tracked, result), OwnBranch(m) = mine,
         UNCHANGED <<made, overlaid, swept, stranded>>,
         result.clash # {} => pc'[m] \in {"abort", "resolve"},
         ~stranded /\ MidRebase(m) =>
           /\ result.clash # {} /\ pc'[m] = "resolve" => answers'[m].mine = Tip(mine)
           /\ Carried(Accounted, mine, from, onto)
           /\ Held(onto) \subseteq Accounted \cup Held(mine)
           /\ \A p \in Paths : work[m][p] \notin {Absent, Marked} =>
                \/ <<p, work[m][p]>> \in Accounted \cup Held(mine)
                \/ tracked[p] = Absent /\ Tip(onto)[p] = Absent /\ ~Writes(mine, from, result.at, p)
  PROVE  Keeps(m)
  <1>1. TypeOK /\ Onward
    BY DEF IInv, Goes
  <1>2. result \in Results(mine)
    BY ReplayExtends
  <1>3. /\ branch'[m] = result.to
        /\ work'[m] = CheckedOut(m, tracked, result.tree)
        /\ result.clash = {} => rebase'[m] = NoRebase
        /\ result.clash # {} => /\ rebase'[m] \in Rebases
                                /\ rebase'[m].mine = mine /\ rebase'[m].at = result.at
                                /\ rebase'[m].unmerged = result.clash
                                /\ rebase'[m].index = result.tree
    BY <1>1, <1>2, RebaseTyped
  <1>4. Rebasing(m)' <=> result.clash # {}
    BY <1>3, Constants DEF Rebasing
  <1>5. OwnBranch(m)' = IF result.clash = {} THEN result.to ELSE mine
    BY <1>3, <1>4 DEF OwnBranch
  <1>6. SUFFICES ASSUME ~stranded', MidRebase(m)
                 PROVE MidRebase(m)' /\ Has(m) \subseteq Accounted' \cup Has(m)'
    BY DEF Keeps
  <1>7. /\ Carried(Accounted, mine, from, onto)
        /\ Held(onto) \subseteq Accounted \cup Held(mine)
        /\ Accounted \subseteq Accounted'
        /\ result.clash # {} /\ pc'[m] = "resolve" => answers'[m].mine = Tip(mine)
    BY <1>1, <1>6, AccountedGrows
  <1>8. /\ result.clash = {} => Carried(Accounted, mine, Len(mine), result.to)
        /\ result.clash # {} =>
             Carries(Accounted, mine, result.to, result.at, result.clash, result.tree)
    BY <1>7, ReplayCarries
  <1>9. Held(mine) \subseteq Accounted' \cup Held(OwnBranch(m)')
    <2>1. CASE result.clash = {}
      <3>1. Held(mine) \subseteq Accounted \cup Held(result.to)
        BY <1>8, <2>1 DEF Carried, Held
      <3>2. QED
        BY <1>5, <1>7, <2>1, <3>1
    <2>2. CASE result.clash # {}
      BY <1>5, <2>2
    <2>3. QED
      BY <2>1, <2>2
  <1>10. MidRebase(m)'
    <2>1. SUFFICES ASSUME result.clash # {} PROVE MidRebase(m)'
      BY <1>4 DEF MidRebase
    <2>2. /\ Held(result.to) \subseteq Accounted' \cup Held(mine)
          /\ At(result.tree, Paths) \subseteq Accounted' \cup Held(mine)
      <3>1. /\ Held(result.to) \subseteq Accounted \cup Held(mine)
            /\ At(result.tree, Paths) \subseteq Accounted \cup Held(mine)
        BY <1>7, ReplayBrings
      <3>2. QED
        BY <1>7, <3>1
    <2>3. Carries(Accounted', mine, result.to, result.at, result.clash, result.tree)
      BY <1>1, <1>8, <2>1, AccountedGrows
    <2>4. QED
      BY <1>3, <1>7, <2>1, <2>2, <2>3 DEF MidRebase
  <1>11. At(work[m], Paths) \subseteq Accounted' \cup Has(m)'
    <2>1. ASSUME NEW p \in Paths, work[m][p] \notin {Absent, Marked}
          PROVE <<p, work[m][p]>> \in Accounted' \cup Has(m)'
      <3>1. CASE <<p, work[m][p]>> \in Accounted \cup Held(mine)
        BY <1>7, <1>9, <3>1 DEF Has
      <3>2. CASE tracked[p] = Absent /\ Tip(onto)[p] = Absent /\ ~Writes(mine, from, result.at, p)
        <4>1. result.tree[p] = Absent
          BY <3>2, ReplayLeaves
        <4>2. work'[m][p] = work[m][p]
          BY <1>3, <3>2, <4>1 DEF CheckedOut
        <4>3. <<p, work'[m][p]>> \in At(work'[m], Paths)
          BY <2>1, <4>2, AtIs
        <4>4. QED
          BY <4>2, <4>3 DEF Has
      <3>3. QED
        BY <1>6, <2>1, <3>1, <3>2
    <2>2. QED
      BY <2>1 DEF At
  <1>12. QED
    BY <1>9, <1>10, <1>11 DEF Has

\* A branch replayed where it leaves another one: what both have is in the other, and git
\* has refused where a file would be lost.
LEMMA RebasedKeeps ==
  ASSUME IInv, NEW m \in Machines, Goes(m), NEW k \in 0..Len(remote),
         NEW onto, onto = SubSeq(remote, 1, k), NEW result, result = Rebased(m, onto),
         ~Rebasing(m), ~RebaseBlocked(m, onto), Common(branch[m], onto) < k,
         RunRebase(m, branch[m], Tip(branch[m]), result),
         UNCHANGED <<made, overlaid, swept, stranded>>,
         result.clash # {} => /\ pc'[m] \in {"abort", "resolve"}
                              /\ pc'[m] = "resolve" => answers'[m].mine = Tip(branch[m])
  PROVE  Keeps(m)
  <1> DEFINE mine == branch[m]
             from == Common(mine, onto)
  <1>1. TypeOK /\ mine \in Seq(Trees) /\ remote \in Seq(Trees) /\ Tip(mine) \in Trees
    BY HistoriesTyped DEF IInv
  <1>2. onto \in Seq(Trees) /\ Len(onto) = k /\ Begins(onto, remote)
    BY <1>1, CommonOfFirst
  <1>3. from \in 0..Len(mine) /\ from < k /\ \A i \in 1..from : i \in 1..Len(onto) /\ mine[i] = onto[i]
    <2>1. Agree(mine, onto, from)
      BY <1>1, <1>2, CommonAgrees
    <2> HIDE DEF mine, from
    <2>2. QED
      BY <1>1, <1>2, <2>1 DEF Agree, mine, from
  <1>4. result = Replay(mine, from, onto) /\ OwnBranch(m) = mine
    BY DEF Rebased, OwnBranch
  <1>5. Carried(Accounted, mine, from, onto)
    <2>1. \A i \in 1..from : At(mine[i], Paths) \subseteq Held(onto)
      BY <1>2, <1>3, HeldIs
    <2>2. QED
      BY <2>1 DEF Carried
  <1>6. Held(onto) \subseteq Accounted
    BY <1>1, <1>2, HeldIs DEF Accounted
  <1>7. ASSUME NEW p \in Paths, work[m][p] \notin {Absent, Marked}
        PROVE \/ <<p, work[m][p]>> \in Accounted \cup Held(mine)
              \/ Tip(mine)[p] = Absent /\ Tip(onto)[p] = Absent /\ ~Writes(mine, from, result.at, p)
    <2>1. CASE work[m][p] = Tip(mine)[p]
      <3>1. <<p, Tip(mine)[p]>> \in At(Tip(mine), Paths)
        BY <1>7, <2>1, AtIs
      <3>2. QED
        BY <1>1, <2>1, <3>1, HeldIs
    <2>2. CASE work[m][p] # Tip(mine)[p]
      <3>1. /\ Tip(mine)[p] = Absent
            /\ ~(from < Len(onto) /\ (Tip(onto)[p] # Absent \/ Writes(mine, from, result.at, p)))
        BY <2>2 DEF RebaseBlocked
      <3>2. QED
        BY <1>2, <1>3, <3>1
    <2>3. QED
      BY <2>1, <2>2
  <1>8. /\ result.clash # {} => pc'[m] \in {"abort", "resolve"}
        /\ result.clash # {} /\ pc'[m] = "resolve" => answers'[m].mine = Tip(mine)
    OBVIOUS
  <1> HIDE DEF from
  <1>9. QED
    BY <1>1, <1>2, <1>3, <1>4, <1>5, <1>6, <1>7, <1>8, ReplayedKeeps

LEMMA RebaseKeeps ==
  ASSUME IInv, NEW m \in Machines, Rebase(m)
  PROVE  Keeps(m)
  <1> DEFINE result == Rebased(m, Origin(m))
  <1>1. TypeOK /\ Goes(m)
    BY RebaseGoes DEF IInv
  <1>2. UNCHANGED <<made, overlaid, swept, stranded>> /\ pc[m] = "rebase"
    BY DEF Rebase, historyVars
  <1>3. CASE UNCHANGED <<branch, work, rebase>>
    BY <1>1, <1>2, <1>3, AllKept DEF Untouched, MidRebase
  <1>4. CASE /\ ~Rebasing(m) /\ Behind(m) > 0 /\ ~RebaseBlocked(m, Origin(m))
             /\ RunRebase(m, branch[m], Tip(branch[m]), result)
             /\ Goto(m, IF result.clash = {} THEN "push" ELSE "abort")
    <2>1. fetched[m] \in 0..Len(remote) /\ Common(branch[m], Origin(m)) < fetched[m]
      BY <1>1, <1>4, HistoriesTyped
    <2>2. result.clash # {} => pc'[m] = "abort"
      BY <1>1, <1>4 DEF Goto, TypeOK
    <2> HIDE DEF result
    <2>3. QED
      BY <1>1, <1>2, <1>4, <2>1, <2>2, RebasedKeeps DEF Origin, result
  <1>5. QED
    BY <1>3, <1>4 DEF Rebase, result

\* Where a branch has all of what it is replayed on, there is nothing to replay.
LEMMA NothingToReplay ==
  ASSUME NEW mine \in Seq(Trees), Changing(mine), NEW t \in Seq(Trees), NEW k \in 0..Len(t),
         Common(mine, SubSeq(t, 1, k)) = k
  PROVE  LET result == Replay(mine, k, SubSeq(t, 1, k)) IN
         result.to = mine /\ result.clash = {} /\ result.tree = Tip(mine)
  <1> DEFINE onto == SubSeq(t, 1, k)
  <1>1. onto \in Seq(Trees) /\ Len(onto) = k /\ Begins(onto, mine)
    BY CommonOfFirst
  <1> HIDE DEF onto
  <1>2. k \in 0..Len(mine)
    BY <1>1 DEF Begins
  <1>3. /\ SubSeq(mine, 1, k) \in Seq(Trees) /\ Len(SubSeq(mine, 1, k)) = k
        /\ \A i \in 1..k : SubSeq(mine, 1, k)[i] = mine[i]
    BY <1>2
  <1>4. onto = SubSeq(mine, 1, k)
    BY <1>1, <1>3 DEF Begins
  <1>5. QED
    BY <1>2, <1>4, ReplayInPlace DEF onto

LEMMA RepairKeeps ==
  ASSUME IInv, NEW m \in Machines, NEW theirs \in SUBSET conflicts[m], Repair(m, theirs)
  PROVE  Keeps(m)
  <1> DEFINE k == conflictAt[m]
             onto == SubSeq(remote, 1, k)
             from == Common(branch[m], onto)
             result == Rebased(m, onto)
  <1>1. TypeOK /\ TypeOK' /\ InPlace(m) /\ Goes(m)
    BY RepairTyped, RepairGoes DEF IInv
  <1>2. /\ k \in 1..Len(remote) /\ answers'[m].mine = Tip(branch[m])
        /\ result \in Results(branch[m])
    BY <1>1, RepairTyped
  <1>3. UNCHANGED <<made, overlaid, swept, stranded>> /\ pc[m] = "idle"
    BY DEF Repair, historyVars
  <1>4. CASE UNCHANGED <<branch, work, rebase>>
    BY <1>1, <1>3, <1>4, AllKept DEF Untouched, MidRebase
  <1>5. CASE /\ ~Rebasing(m) /\ ~RebaseBlocked(m, onto)
             /\ RunRebase(m, branch[m], Tip(branch[m]), result)
             /\ Goto(m, IF result.clash = {} THEN "fetch" ELSE "resolve")
    <2>1. /\ branch[m] \in Seq(Trees) /\ onto \in Seq(Trees) /\ remote \in Seq(Trees)
          /\ Tip(branch[m]) \in Trees /\ work[m] \in Trees /\ work'[m] \in Trees
          /\ Len(onto) = k /\ k \in 0..Len(remote)
      <3>1. k \in 0..Len(remote) /\ remote \in Seq(Trees)
        BY <1>1, <1>2 DEF TypeOK
      <3>2. onto \in Seq(Trees) /\ Len(onto) = k
        BY <3>1, CommonOfFirst
      <3>3. QED
        BY <1>1, <3>1, <3>2, HistoriesTyped DEF TypeOK
    <2>2. from \in 0..Len(branch[m]) /\ from <= k
      <3>1. from \in 0..Len(onto) /\ from <= Len(branch[m])
        BY <2>1, CommonOfAll, Zenon
      <3> HIDE DEF onto, from
      <3>2. QED
        BY <2>1, <3>1
    <2>3. CASE from < k
      <3>1. result.clash # {} => pc'[m] = "resolve"
        BY <1>1, <1>5 DEF Goto, TypeOK
      <3> HIDE DEF result, k
      <3>2. QED
        BY <1>1, <1>2, <1>3, <1>5, <2>1, <2>3, <3>1, RebasedKeeps DEF result
    <2>4. CASE from = k
      <3>1. /\ result.to = branch[m] /\ result.clash = {} /\ result.tree = Tip(branch[m])
        BY <1>1, <1>2, <2>1, <2>4, NothingToReplay DEF InPlace, Rebased
      <3> HIDE DEF result, onto, from
      <3>2. /\ branch'[m] = branch[m] /\ rebase'[m] = rebase[m]
            /\ work'[m] = CheckedOut(m, Tip(branch[m]), Tip(branch[m]))
        BY <1>1, <1>2, <1>5, <2>1, <3>1, RebaseTyped DEF Rebasing
      <3>3. work'[m] = work[m]
        <4>1. ASSUME NEW p \in Paths PROVE work'[m][p] = work[m][p]
          BY <1>5, <3>2 DEF RebaseBlocked, CheckedOut
        <4>2. QED
          BY <2>1, <4>1 DEF Trees
      <3>4. QED
        BY <1>1, <1>3, <1>5, <3>2, <3>3, AllKept DEF Untouched
    <2>5. QED
      BY <1>2, <2>2, <2>3, <2>4
  <1>6. QED
    BY <1>4, <1>5 DEF Repair, result, onto

LEMMA ContinueKeeps ==
  ASSUME IInv, NEW m \in Machines, Continue(m)
  PROVE  Keeps(m)
  <1> DEFINE index == rebase[m].index
             mine == rebase[m].mine
             at == rebase[m].at
             head == IF index = Tip(branch[m]) THEN branch[m] ELSE Append(branch[m], index)
             result == Replay(mine, at, head)
             blocked == \E p \in Unstaged(m) : index[p] # Absent \/ Writes(mine, at, result.at, p)
  <1>1. TypeOK /\ InPlace(m) /\ Goes(m) /\ pc[m] = "continue"
    BY ContinueGoes DEF IInv, Continue
  <1>2. /\ Rebasing(m) /\ rebase[m].unmerged = {}
        /\ UNCHANGED <<answers, made, overlaid, swept, stranded>>
    BY <1>1 DEF InPlace, Continue, historyVars
  <1>3. /\ index \in Trees /\ mine \in Seq(Trees) /\ at \in 1..Len(mine)
        /\ branch[m] \in Seq(Trees) /\ OwnBranch(m) = mine
    BY <1>1, <1>2, HistoriesTyped DEF InPlace, OwnBranch
  <1>4. head \in Seq(Trees) /\ Tip(head) = index /\ Held(head) = Held(branch[m]) \cup At(index, Paths)
    <2>1. CASE index = Tip(branch[m])
      BY <1>3, <2>1, HeldIs
    <2>2. CASE index # Tip(branch[m])
      BY <1>3, <2>2, HeldIs, TipIs
    <2>3. QED
      BY <2>1, <2>2
  <1> HIDE DEF head
  <1>5. CASE Goto(m, "resolve") /\ UNCHANGED <<branch, work, rebase>>
    <2>1. pc'[m] = "resolve"
      BY <1>1, <1>5 DEF Goto, TypeOK
    <2>2. QED
      BY <1>1, <1>2, <1>5, <2>1, AllKept DEF Untouched, MidRebase
  <1>6. CASE /\ ~blocked
             /\ RunRebase(m, mine, index, result)
             /\ Goto(m, IF result.clash = {} THEN "fetch" ELSE "resolve")
    <2>1. result.clash # {} => pc'[m] = "resolve"
      BY <1>1, <1>6 DEF Goto, TypeOK
    <2>2. ASSUME MidRebase(m)
          PROVE /\ answers[m].mine = Tip(mine)
                /\ Carried(Accounted, mine, at, head)
                /\ Held(head) \subseteq Accounted \cup Held(mine)
                /\ At(index, Paths) \subseteq Accounted \cup Held(mine)
      <3>1. /\ answers[m].mine = Tip(mine)
            /\ Held(branch[m]) \subseteq Accounted \cup Held(mine)
            /\ At(index, Paths) \subseteq Accounted \cup Held(mine)
            /\ Carried(Accounted, mine, at - 1, branch[m])
            /\ At(mine[at], Paths) \subseteq Accounted \cup Held(branch[m]) \cup At(index, Paths)
        <4>1. Paths \ {} = Paths
          OBVIOUS
        <4>2. QED
          BY <1>1, <1>2, <2>2, <4>1 DEF MidRebase, Carries
      <3>2. Carried(Accounted, mine, at, head)
        <4>1. SUFFICES ASSUME NEW i \in 1..at
                       PROVE At(mine[i], Paths) \subseteq Accounted \cup Held(head)
          BY DEF Carried
        <4>2. CASE i = at
          BY <1>4, <3>1, <4>2
        <4>3. CASE i # at
          <5>1. i \in 1..at - 1
            BY <1>3, <4>3
          <5>2. QED
            BY <1>4, <3>1, <5>1 DEF Carried
        <4>4. QED
          BY <4>2, <4>3
      <3>3. QED
        BY <1>4, <3>1, <3>2
    <2>3. ASSUME MidRebase(m), NEW p \in Paths, work[m][p] \notin {Absent, Marked}
          PROVE \/ <<p, work[m][p]>> \in Accounted \cup Held(mine)
                \/ index[p] = Absent /\ Tip(head)[p] = Absent /\ ~Writes(mine, at, result.at, p)
      <3>1. CASE work[m][p] = index[p]
        <4>1. <<p, index[p]>> \in At(index, Paths)
          BY <2>3, <3>1, AtIs
        <4>2. QED
          BY <2>2, <2>3, <3>1, <4>1
      <3>2. CASE work[m][p] # index[p]
        <4>1. p \in Unstaged(m)
          BY <3>2 DEF Unstaged
        <4>2. QED
          BY <1>4, <1>6, <4>1
      <3>3. QED
        BY <3>1, <3>2
    <2>4. result = Replay(mine, at, head) /\ at \in 0..Len(mine)
      BY <1>3
    <2> HIDE DEF result, mine, at, index
    <2>5. QED
      BY <1>1, <1>2, <1>3, <1>4, <1>6, <2>1, <2>2, <2>3, <2>4, ReplayedKeeps
  <1>7. QED
    BY <1>5, <1>6 DEF Continue, blocked, result, head

LEMMA ResolveKeeps ==
  ASSUME IInv, NEW m \in Machines, Resolve(m)
  PROVE  Keeps(m)
  <1> DEFINE mine == rebase[m].mine
             at == rebase[m].at
             Clashing == rebase[m].unmerged
             theirTree == remote[conflictAt[m]]
             Theirs == Unmerged(m) \cap answers[m].theirs
             index == Decided(m, rebase[m].index)
  <1>1. TypeOK /\ TypeOK' /\ InPlace(m) /\ DropsNothing(m) /\ Goes(m) /\ Onward
    BY ResolveTyped, ResolveGoes DEF IInv, Goes
  <1>2. /\ UNCHANGED <<made, overlaid, remote>>
        /\ pc[m] = "resolve" /\ conflictAt[m] \in 1..Len(remote)
    BY <1>1, ResolveTyped DEF Resolve
  <1>3. CASE AbortRebase(m) /\ NoteStranded(m)
    BY <1>1, <1>2, <1>3, AbortedKeeps
  <1>4. CASE /\ Rebasing(m)
             /\ work' = [work EXCEPT ![m] = Decided(m, work[m])]
             /\ rebase' = [rebase EXCEPT ![m].unmerged = {}, ![m].index = index]
             /\ replaced' = replaced \cup At(answers[m].mine, Theirs)
                                     \cup At(theirTree, Unmerged(m) \ Theirs)
             /\ swept' = swept \cup At(work[m], Unstaged(m) \cap Unmerged(m))
             /\ pc'[m] = "continue"
             /\ UNCHANGED <<branch, answers, conflictAt, stranded>>
    <2> HIDE DEF index
    <2>1. /\ rebase[m] \in Rebases /\ Unmerged(m) = Clashing /\ Clashing \subseteq Paths
          /\ rebase'[m] = [rebase[m] EXCEPT !.unmerged = {}, !.index = index]
          /\ rebase[m].index \in Trees /\ mine \in Seq(Trees) /\ at \in 1..Len(mine)
          /\ remote \in Seq(Trees)
      BY <1>1, <1>4, HistoriesTyped DEF InPlace, TypeOK, Unmerged
    <2>2. /\ rebase'[m].mine = mine /\ rebase'[m].at = at
          /\ rebase'[m].unmerged = {} /\ rebase'[m].index = index
      BY <2>1 DEF Rebases
    <2>3. /\ \A p \in Paths : index[p] = IF p \notin Clashing THEN rebase[m].index[p]
                                        ELSE IF p \in Theirs THEN theirTree[p] ELSE answers[m].mine[p]
          /\ \A p \in Paths \ Clashing : work'[m][p] = work[m][p]
      BY <1>1, <1>4, <2>1 DEF index, Decided, TypeOK
    <2>4. Accounted \subseteq Accounted' /\ overlaid \subseteq overlaid' /\ swept \subseteq swept'
      BY <1>1, <1>2, <1>4, AccountedGrows
    <2>5. OwnBranch(m) = mine /\ (Rebasing(m)' => OwnBranch(m)' = mine)
      BY <1>4, <2>2 DEF OwnBranch
    <2>6. Rebasing(m)'
      <3>1. InPlace(m)'
        BY <1>1 DEF Goes
      <3>2. QED
        BY <1>4, <3>1 DEF InPlace
    <2>7. SUFFICES ASSUME MidRebase(m)
                   PROVE MidRebase(m)' /\ Has(m) \subseteq Accounted' \cup Has(m)'
      BY <1>2, <1>4, <2>4 DEF Keeps
    <2>8. /\ answers[m].mine = Tip(mine)
          /\ Held(branch[m]) \subseteq Accounted \cup Held(mine)
          /\ At(rebase[m].index, Paths) \subseteq Accounted \cup Held(mine)
          /\ Carries(Accounted, mine, branch[m], at, Clashing, rebase[m].index)
      BY <1>2, <1>4, <2>7 DEF MidRebase
    <2>9. At(Tip(mine), Paths) \subseteq Held(mine) /\ At(theirTree, Paths) \subseteq Accounted
      BY <1>2, <2>1, HeldIs DEF Accounted
    <2>10. At(index, Paths) \subseteq Accounted \cup Held(mine)
      <3>1. ASSUME NEW p \in Paths, index[p] \notin {Absent, Marked}
            PROVE <<p, index[p]>> \in Accounted \cup Held(mine)
        <4>1. index[p] \in {rebase[m].index[p], theirTree[p], Tip(mine)[p]}
          BY <2>3, <2>8
        <4>2. <<p, index[p]>> \in At(rebase[m].index, Paths) \cup At(theirTree, Paths) \cup At(Tip(mine), Paths)
          BY <3>1, <4>1 DEF At
        <4>3. QED
          BY <2>8, <2>9, <4>2
      <3>2. QED
        BY <3>1 DEF At
    <2>11. At(mine[at], Paths) \subseteq Accounted' \cup Held(branch[m]) \cup At(index, Paths)
      <3>1. ASSUME NEW p \in Paths, mine[at][p] \notin {Absent, Marked}
            PROVE <<p, mine[at][p]>> \in Accounted' \cup Held(branch[m]) \cup At(index, Paths)
        <4>1. CASE p \notin Clashing
          <5>1. <<p, mine[at][p]>> \in At(mine[at], Paths \ Clashing)
            BY <3>1, <4>1, AtIs
          <5>2. <<p, mine[at][p]>> \in Accounted \cup Held(branch[m]) \cup At(rebase[m].index, Paths)
            BY <2>8, <5>1 DEF Carries
          <5>3. <<p, mine[at][p]>> \in At(rebase[m].index, Paths) =>
                  <<p, mine[at][p]>> \in At(index, Paths)
            BY <2>3, <4>1 DEF At
          <5>4. QED
            BY <2>4, <5>2, <5>3
        <4>2. CASE p \in Clashing /\ mine[at][p] # Tip(mine)[p]
          <5>1. Steady(Gone, mine)
            BY <1>1, <2>5 DEF DropsNothing
          <5>2. Settles(Gone, mine[at], Tip(mine), {})
            <6>1. mine # <<>> /\ Len(mine) \in 1..Len(mine) /\ at \in 1..Len(mine)
              BY <2>1
            <6>2. QED
              BY <5>1, <6>1 DEF Steady, Tip
          <5>3. <<p, mine[at][p]>> \in Gone
            BY <3>1, <4>2, <5>2 DEF Settles
          <5>4. Gone \subseteq Accounted
            BY <2>1, HeldIs DEF Gone, Accounted
          <5>5. QED
            BY <2>4, <5>3, <5>4
        <4>3. CASE p \in Clashing /\ mine[at][p] = Tip(mine)[p]
          <5>1. CASE p \in Theirs
            <6>1. <<p, answers[m].mine[p]>> \in At(answers[m].mine, Theirs)
              BY <2>8, <3>1, <4>3, <5>1, AtIs
            <6>2. QED
              BY <1>4, <2>8, <4>3, <6>1 DEF Accounted
          <5>2. CASE p \notin Theirs
            <6>1. index[p] = mine[at][p]
              BY <2>3, <2>8, <4>3, <5>2
            <6>2. <<p, index[p]>> \in At(index, Paths)
              BY <3>1, <6>1, AtIs
            <6>3. QED
              BY <6>1, <6>2
          <5>3. QED
            BY <5>1, <5>2
        <4>4. QED
          BY <4>1, <4>2, <4>3
      <3>2. QED
        BY <3>1 DEF At
    <2>12. MidRebase(m)'
      <3>1. Carried(Accounted', mine, at - 1, branch[m])
        BY <2>4, <2>8 DEF Carries, Carried
      <3>2. Paths \ {} = Paths
        OBVIOUS
      <3>3. Carries(Accounted', mine, branch[m], at, {}, index)
        BY <2>11, <3>1, <3>2 DEF Carries
      <3>4. QED
        BY <1>4, <2>2, <2>4, <2>8, <2>10, <3>3 DEF MidRebase
    <2>13. At(work[m], Paths) \subseteq Accounted' \cup Has(m)'
      <3>1. ASSUME NEW p \in Paths, work[m][p] \notin {Absent, Marked}
            PROVE <<p, work[m][p]>> \in Accounted' \cup Has(m)'
        <4>1. CASE p \notin Clashing
          <5>1. <<p, work'[m][p]>> \in At(work'[m], Paths) /\ work'[m][p] = work[m][p]
            BY <2>3, <3>1, <4>1, AtIs
          <5>2. QED
            BY <5>1 DEF Has
        <4>2. CASE p \in Clashing /\ p \in Unstaged(m)
          <5>1. <<p, work[m][p]>> \in At(work[m], Unstaged(m) \cap Unmerged(m))
            BY <2>1, <3>1, <4>2, AtIs
          <5>2. QED
            BY <1>4, <5>1 DEF Accounted
        <4>3. CASE p \in Clashing /\ p \notin Unstaged(m)
          <5>1. work[m][p] = rebase[m].index[p]
            BY <4>3 DEF Unstaged
          <5>2. <<p, rebase[m].index[p]>> \in At(rebase[m].index, Paths)
            BY <3>1, <5>1, AtIs
          <5>3. QED
            BY <2>4, <2>5, <2>6, <2>8, <5>1, <5>2 DEF Has
        <4>4. QED
          BY <4>1, <4>2, <4>3
      <3>2. QED
        BY <3>1 DEF At
    <2>14. QED
      BY <2>5, <2>6, <2>12, <2>13 DEF Has
  <1>5. QED
    BY <1>1, <1>3, <1>4, ResolveTyped

\* Whatever machine m does, it keeps what it has.
LEMMA MovesKeeps ==
  ASSUME IInv, NEW m \in Machines, Moves(m)
  PROVE  Keeps(m)
  <1>1. CASE RepairStep(m)
    BY <1>1, RepairKeeps DEF RepairStep
  <1>2. CASE CutOff(m)
    BY <1>2, CutOffKeeps
  <1>3. CASE \E p \in Paths : WriteRecord(m, p) \/ DeleteRecord(m, p)
    <2>1. PICK p \in Paths : WriteRecord(m, p) \/ DeleteRecord(m, p)
      BY <1>3
    <2>2. NextVersion(m) \in Versions
      BY NextVersionTyped DEF IInv
    <2>3. \E version \in Versions \cup {Absent} : Edit(m, p, version)
      BY <2>1, <2>2 DEF WriteRecord, DeleteRecord
    <2>4. QED
      BY <2>3, EditKeeps
  <1>4. CASE SyncStep(m)
    BY <1>4, FetchKeeps, AdoptHistoryKeeps, AdoptFilesKeeps, AdoptLocationsKeeps, CommitKeeps,
       RebaseKeeps, AbortKeeps, PushKeeps, ResolveKeeps, ContinueKeeps
    DEF SyncStep
  <1>5. QED
    BY <1>1, <1>2, <1>3, <1>4 DEF Moves

\* And what the others have stays where it is.
LEMMA KeptInvKept ==
  ASSUME IInv, KeptInv, [Next]_vars
  PROVE  KeptInv'
  <1>1. CASE UNCHANGED vars
    <2>1. /\ UNCHANGED <<stranded, made, Accounted>>
          /\ \A n \in Machines : UNCHANGED <<MidRebase(n), Has(n)>>
      BY <1>1 DEF vars, syncVars, historyVars, Accounted, MidRebase, Has, Rebasing, OwnBranch
    <2>2. QED
      BY <2>1 DEF KeptInv
  <1>2. ASSUME NEW m \in Machines, Moves(m) PROVE KeptInv'
    <2>1. Goes(m) /\ Keeps(m) /\ Onward
      BY <1>2, MovesGoes, MovesKeeps DEF Goes
    <2>2. SUFFICES ASSUME ~stranded'
                   PROVE /\ \A n \in Machines : MidRebase(n)'
                         /\ made' \subseteq Accounted' \cup UNION {Has(n)' : n \in Machines}
      BY DEF KeptInv
    <2>3. /\ ~stranded /\ \A n \in Machines : MidRebase(n)
          /\ made \subseteq Accounted \cup UNION {Has(n) : n \in Machines}
      BY <2>1, <2>2 DEF Keeps, KeptInv
    <2>4. /\ Accounted \subseteq Accounted' /\ overlaid \subseteq overlaid' /\ swept \subseteq swept'
          /\ MidRebase(m)' /\ Has(m) \subseteq Accounted' \cup Has(m)' /\ made' \subseteq made \cup Has(m)'
      BY <2>1, <2>2, <2>3, AccountedGrows DEF Keeps
    <2>5. ASSUME NEW n \in Machines \ {m} PROVE MidRebase(n)' /\ Has(n)' = Has(n)
      <3>1. Elsewhere(n)
        BY <2>1 DEF Goes
      <3>2. MidRebase(n)'
        BY <2>1, <2>3, <2>4, <3>1, MidRebaseStays DEF Elsewhere, MidRebase
      <3>3. Has(n)' = Has(n)
        BY <3>1 DEF Elsewhere, Untouched, Has, OwnBranch, Rebasing
      <3>4. QED
        BY <3>2, <3>3
    <2>6. \A n \in Machines : Has(n) \subseteq Accounted' \cup Has(n)'
      BY <2>4, <2>5
    <2>7. made \subseteq Accounted' \cup UNION {Has(n)' : n \in Machines}
      BY <2>3, <2>4, <2>6
    <2>8. QED
      BY <2>4, <2>5, <2>7
  <1>3. QED
    BY <1>1, <1>2 DEF Next, Moves

\* "Nothing was lost" (git-sync.ts:394): a version of a record that somebody wrote was
\* replaced on purpose, or is in somebody's files, in somebody's branch or in the remote,
\* whatever the machines do and wherever they are cut off, short of a machine left in the
\* middle of a rebase; but for what a first join, an abort or a repair wrote over.
THEOREM LocalKept == Spec => []NothingLocalLost
  <1>1. Init => KeptInv
    BY DEF Init, KeptInv, MidRebase, Rebasing
  <1>2. IInv /\ KeptInv => NothingLocalLost
    <2> SUFFICES ASSUME IInv, KeptInv, ~stranded
                 PROVE made \subseteq replaced \cup overlaid \cup swept \cup
                         In({work[m] : m \in Machines} \cup TreesOf(Histories))
      BY DEF NothingLocalLost
    <2> DEFINE All == {work[m] : m \in Machines} \cup TreesOf(Histories)
    <2>1. TypeOK
      BY DEF IInv
    <2>2. \A h \in Histories : In(TreesOf({h})) \subseteq In(All)
      BY DEF In, TreesOf
    <2>3. Held(remote) \subseteq In(All)
      <3>1. remote \in Histories /\ remote \in Seq(Trees)
        BY <2>1 DEF TypeOK, Histories
      <3>2. In(TreesOf({remote})) = Held(remote)
        BY <3>1, HeldIs
      <3>3. QED
        BY <2>2, <3>1, <3>2
    <2>4. ASSUME NEW m \in Machines PROVE Has(m) \subseteq In(All)
      <3>1. At(work[m], Paths) \subseteq In(All)
        BY DEF In
      <3>2. OwnBranch(m) \in Histories /\ OwnBranch(m) \in Seq(Trees)
        BY <2>1, HistoriesTyped DEF Histories
      <3>3. Held(OwnBranch(m)) \subseteq In(All)
        BY <2>2, <3>2, HeldIs
      <3>4. QED
        BY <3>1, <3>3 DEF Has
    <2>5. made \subseteq Accounted \cup UNION {Has(m) : m \in Machines}
      BY DEF KeptInv
    <2> HIDE DEF All
    <2>6. made \subseteq replaced \cup overlaid \cup swept \cup In(All)
      BY <2>3, <2>4, <2>5 DEF Accounted
    <2>7. QED
      BY <2>6 DEF All
  <1>3. IInv /\ KeptInv /\ [Next]_vars => KeptInv'
    BY KeptInvKept
  <1>4. QED
    BY <1>1, <1>2, <1>3, InvariantHolds, PTL DEF Spec
=============================================================================
