--------------------------- MODULE RecordsProofs ---------------------------
(***************************************************************************)
(* What is kept of what a call recorded, for any number of calls of any    *)
(* kinds side by side, any number of migrations among them, and any number *)
(* of deaths, pulls and unreadable files; and what is read of decisions.md *)
(* after appends, edits and merges, for any number of machines.            *)
(***************************************************************************)
EXTENDS Records, Decisions, WellFoundedInduction, TLAPS

\* Where a call of each kind can be, and what it has read by then.
Paths ==
  \A c \in Callers :
    /\ pc[c] \in {"checkpoint", "write"} =>
         kind[c] \notin {"decision", "migrate"} /\ copy[c][FileOf(c)] \in Records
    /\ pc[c] \in {"header", "append"} => kind[c] = "decision"
    /\ pc[c] = "header" => copy[c]["decisions"] = NoFile
    /\ pc[c] \in {"confirm", "backup", "project", "tasks"} => kind[c] = "migrate"
    /\ pc[c] \in {"new", "confirm", "backup"} => backup[c] = [f \in Files |-> NoFile]

\* Calls that write the same record at the same time have met.
RivalsMet ==
  \A c, d \in Callers : c # d /\ Running(c) /\ Running(d) /\ Rivals(c, d) => d \in met[c]

\* A record a migration has yet to write holds what the migration copied aside, or
\* what was written since.
BackupCovers ==
  \A c \in Callers, f \in {"project", "tasks"} : pc[c] \in {"project", f} =>
    Edits(f) \subseteq late[c] \cup Saved(c, f)

\* The record has what call c recorded, and whoever is about to write it back, or a
\* migrated form of it, has it too; or found the file unreadable, as it still is.
Held(c) ==
  /\ c \in Edits(FileOf(c))
  /\ \A d \in Callers :
       /\ pc[d] \in {"checkpoint", "write"} /\ FileOf(d) = FileOf(c) =>
            c \in copy[d][FileOf(c)].edits \/ ~disk[FileOf(c)].ok
       /\ pc[d] = "header" => FileOf(d) # FileOf(c)
       /\ pc[d] \notin {"project", "tasks"}

\* A call that has met nobody is held, or is accounted for, for good.
Kept(c) ==
  pc[c] = "done" /\ kind[c] # "migrate" /\ met[c] = {} =>
    \/ c \in unread
    \/ \E d \in Callers : c \in Saved(d, FileOf(c))
    \/ Held(c)

\* The inductive invariant.
IInv ==
  /\ TypeOK /\ Paths /\ RivalsMet /\ BackupCovers
  /\ \A c \in Callers : Kept(c)

LEMMA Constants ==
  /\ KindsOf \in [Callers -> SUBSET Kinds]
  /\ NoFile \notin Records
  /\ MaxFaults \in Nat
  /\ "project" \in Files /\ "tasks" \in Files /\ "decisions" \in Files
  /\ \A v \in Versions, edits \in SUBSET Callers :
       Record(v, edits) \in Records /\ Record(v, edits).edits = edits /\ Record(v, edits).ok
  /\ CurrentVersion \in Versions /\ 0 \in Versions
  BY RecordsAssumption DEF Files, Record, Records, Versions, CurrentVersion

\* Reading a file, and migrating what was read, keeps what it holds.
LEMMA ReadingKeeps ==
  ASSUME TypeOK, NEW f \in Files
  PROVE  /\ Edits(f) \subseteq Callers
         /\ disk[f] # NoFile => /\ Migrated(disk[f]) \in Records
                                /\ Migrated(disk[f]).edits = disk[f].edits
         /\ Loaded(f) \in Records
         /\ disk[f] # NoFile /\ disk[f].ok => Loaded(f).edits = Edits(f)
  <1>1. ASSUME NEW r \in Records PROVE Migrated(r) \in Records /\ Migrated(r).edits = r.edits
    BY DEF Migrated, Records, Versions, CurrentVersion
  <1>2. disk[f] \in Records \cup {NoFile}
    BY DEF TypeOK
  <1>3. Edits(f) \subseteq Callers
    BY <1>2 DEF Edits, Records
  <1>4. QED
    BY <1>1, <1>2, <1>3, Constants DEF Loaded, Edits

\* Whoever begins meets every running rival, and each of them meets him.
LEMMA Meeting ==
  ASSUME TypeOK, NEW c \in Callers, Meets(c)
  PROVE  /\ met' \in [Callers -> SUBSET Callers]
         /\ \A d \in Callers \ {c} : met[d] \subseteq met'[d]
         /\ \A d \in Callers : Running(d) /\ Rivals(c, d) => d \in met'[c]
         /\ \A d \in Callers \ {c} : Running(d) /\ Rivals(c, d) => c \in met'[d]
  <1> DEFINE others == {d \in Callers : Running(d) /\ Rivals(c, d)}
  <1>1. met' = [d \in Callers |-> IF d = c THEN others
                               ELSE met[d] \cup (IF d \in others THEN {c} ELSE {})]
    BY DEF Meets
  <1>2. met \in [Callers -> SUBSET Callers]
    BY DEF TypeOK
  <1>3. QED
    BY <1>1, <1>2

\* What is written over a record is a record.
LEMMA Rewritten ==
  ASSUME NEW r \in Records
  PROVE  /\ r.edits \in SUBSET Callers
         /\ \A c \in Callers : Changed(r, c) \in Records /\ Changed(r, c).edits = r.edits \cup {c}
         /\ Newer(r) \in Records /\ Newer(r).edits = r.edits /\ Newer(r).ok = r.ok
         /\ Spoilt(r) \in Records /\ Spoilt(r).edits = r.edits /\ ~Spoilt(r).ok
  <1> USE DEF Records
  <1>1. r.edits \in SUBSET Callers /\ r.version \in Versions /\ r.ok \in BOOLEAN
    OBVIOUS
  <1>2. ASSUME NEW c \in Callers
        PROVE Changed(r, c) \in Records /\ Changed(r, c).edits = r.edits \cup {c}
    <2>1. r.edits \cup {c} \in SUBSET Callers
      BY <1>1
    <2>2. QED
      BY <2>1 DEF Changed
  <1>3. Newer(r) \in Records /\ Newer(r).edits = r.edits /\ Newer(r).ok = r.ok
    <2>1. CurrentVersion + 1 \in Versions
      BY DEF Versions, CurrentVersion
    <2>2. QED
      BY <2>1 DEF Newer
  <1>4. Spoilt(r) \in Records /\ Spoilt(r).edits = r.edits /\ ~Spoilt(r).ok
    BY DEF Spoilt
  <1>5. QED
    BY <1>1, <1>2, <1>3, <1>4

\* Who rivals whom does not change, and is mutual.
LEMMA RivalsStay ==
  ASSUME kind' = kind
  PROVE  \A c, d \in Callers : Rivals(c, d)' = Rivals(c, d) /\ Rivals(c, d) = Rivals(d, c)
  BY DEF Rivals, FileOf

\* What is written beside a migration is known to be late.
LEMMA LateTyped ==
  ASSUME TypeOK, NEW c \in Callers, NEW edits \in SUBSET Callers, Late(c, edits)
  PROVE  /\ late' \in [Callers -> SUBSET Callers]
         /\ \A d \in Callers : late[d] \subseteq late'[d]
         /\ \A d \in Callers \ {c} : pc[d] \in {"project", "tasks"} => edits \subseteq late'[d]
  BY DEF TypeOK, Late

LEMMA FileTyped ==
  ASSUME NEW c \in Callers
  PROVE  /\ FileOf(c) \in Files
         /\ kind[c] = "decision" => FileOf(c) = "decisions"
         /\ kind[c] # "decision" => FileOf(c) \in {"project", "tasks"}
         /\ kind' = kind => FileOf(c)' = FileOf(c)
  BY DEF FileOf, Files

\* What a call that writes its record back leaves there.
LEMMA WrittenBack ==
  ASSUME IInv, NEW c \in Callers, WriteBack(c)
  PROVE  /\ FileOf(c) \in {"project", "tasks"}
         /\ copy[c][FileOf(c)] \in Records
         /\ disk' = [disk EXCEPT ![FileOf(c)] = Changed(copy[c][FileOf(c)], c)]
         /\ Changed(copy[c][FileOf(c)], c) \in Records
         /\ Changed(copy[c][FileOf(c)], c).edits = copy[c][FileOf(c)].edits \cup {c}
         /\ late' \in [Callers -> SUBSET Callers]
         /\ \A d \in Callers : late[d] \subseteq late'[d]
         /\ \A d \in Callers \ {c} : pc[d] \in {"project", "tasks"} =>
              copy[c][FileOf(c)].edits \cup {c} \subseteq late'[d]
  <1>1. FileOf(c) \in {"project", "tasks"} /\ copy[c][FileOf(c)] \in Records
    BY FileTyped DEF WriteBack, IInv, Paths
  <1>2. PICK r \in Records : r = copy[c][FileOf(c)]
    BY <1>1
  <1>3. /\ Changed(r, c) \in Records /\ Changed(r, c).edits = r.edits \cup {c}
        /\ r.edits \cup {c} \in SUBSET Callers
    BY Rewritten
  <1>4. disk' = [disk EXCEPT ![FileOf(c)] = Changed(r, c)] /\ Late(c, r.edits \cup {c})
    BY <1>2 DEF WriteBack
  <1>5. QED
    BY <1>1, <1>2, <1>3, <1>4, LateTyped DEF IInv

LEMMA Initially == Init => IInv
  <1> SUFFICES ASSUME Init PROVE IInv
    OBVIOUS
  <1> USE Constants DEF Init
  <1>1. TypeOK
    BY DEF TypeOK, Labels, Files, CurrentVersion, Versions
  <1>2. Paths /\ RivalsMet /\ BackupCovers /\ \A c \in Callers : Kept(c)
    BY DEF Paths, RivalsMet, BackupCovers, Kept, Running
  <1>3. QED
    BY <1>1, <1>2 DEF IInv

LEMMA TypesKept == IInv /\ [Next]_vars => TypeOK'
  <1> SUFFICES ASSUME IInv, [Next]_vars PROVE TypeOK'
    OBVIOUS
  <1> USE Constants, FileTyped DEF IInv, TypeOK, Labels, Goes
  <1>1. ASSUME NEW c \in Callers, Open(c) PROVE TypeOK'
    <2>1. met' \in [Callers -> SUBSET Callers]
      BY <1>1, Meeting DEF Open
    <2>2. pc' \in [Callers -> Labels]
      BY <1>1 DEF Open
    <2>3. copy' \in [Callers -> [Files -> Records \cup {NoFile}]]
      BY <1>1, ReadingKeeps DEF Open
    <2>4. QED
      BY <1>1, <2>1, <2>2, <2>3 DEF Open
  <1>2. ASSUME NEW c \in Callers, WriteCheckpoint(c) PROVE TypeOK'
    BY <1>2 DEF WriteCheckpoint
  <1>3. ASSUME NEW c \in Callers, WriteBack(c) PROVE TypeOK'
    <2>1. copy[c][FileOf(c)] \in Records
      BY <1>3 DEF WriteBack, Paths
    <2>2. /\ Changed(copy[c][FileOf(c)], c) \in Records
          /\ copy[c][FileOf(c)].edits \cup {c} \in SUBSET Callers
      BY <2>1, Rewritten
    <2>3. disk' \in [Files -> Records \cup {NoFile}] /\ disk'["project"] # NoFile
      BY <1>3, <2>2 DEF WriteBack
    <2>4. unread' \subseteq Callers
      BY <1>3, ReadingKeeps DEF WriteBack
    <2>5. late' \in [Callers -> SUBSET Callers]
      BY <1>3, <2>2, LateTyped DEF WriteBack
    <2>6. QED
      BY <1>3, <2>3, <2>4, <2>5 DEF WriteBack, Forgets
  <1>4. ASSUME NEW c \in Callers, WriteHeader(c) PROVE TypeOK'
    BY <1>4 DEF WriteHeader
  <1>5. ASSUME NEW c \in Callers, AppendDecision(c) PROVE TypeOK'
    <2>1. late' \in [Callers -> SUBSET Callers]
      BY <1>5, LateTyped DEF AppendDecision
    <2>2. Record(CurrentVersion, Edits("decisions") \cup {c}) \in Records
      BY ReadingKeeps
    <2>3. QED
      BY <1>5, <2>1, <2>2 DEF AppendDecision, Forgets
  <1>6. ASSUME NEW c \in Callers, Plan(c) PROVE TypeOK'
    <2>1. met' \in [Callers -> SUBSET Callers]
      BY <1>6, Meeting DEF Plan
    <2>2. copy' \in [Callers -> [Files -> Records \cup {NoFile}]]
      BY <1>6, ReadingKeeps DEF Plan, Old
    <2>3. QED
      BY <1>6, <2>1, <2>2 DEF Plan
  <1>7. ASSUME NEW c \in Callers, Confirm(c) PROVE TypeOK'
    <2>1. CASE Goes(c, "backup") /\ UNCHANGED copy
      BY <1>7, <2>1 DEF Confirm
    <2>2. CASE Goes(c, "done") /\ Forgets(c)
      BY <1>7, <2>2 DEF Confirm, Forgets
    <2>3. QED
      BY <1>7, <2>1, <2>2 DEF Confirm
  <1>8. ASSUME NEW c \in Callers, CopyAside(c) PROVE TypeOK'
    BY <1>8 DEF CopyAside
  <1>9. ASSUME NEW c \in Callers, WriteMigrated(c, "project", "tasks") PROVE TypeOK'
    <2>1. copy' \in [Callers -> [Files -> Records \cup {NoFile}]]
      BY <1>9 DEF WriteMigrated, Forgets
    <2>2. CASE Planned(c, "project")
      <3>1. copy[c]["project"] \in Records
        BY <2>2 DEF Planned
      <3>2. copy[c]["project"].edits \in SUBSET Callers
        BY <3>1 DEF Records
      <3>3. late' \in [Callers -> SUBSET Callers]
        BY <1>9, <2>2, <3>2, LateTyped DEF WriteMigrated
      <3>4. disk' = [disk EXCEPT !["project"] = copy[c]["project"]]
        BY <1>9, <2>2 DEF WriteMigrated
      <3>5. disk' \in [Files -> Records \cup {NoFile}] /\ disk'["project"] # NoFile
        BY <3>1, <3>4
      <3>6. QED
        BY <1>9, <2>1, <3>3, <3>5 DEF WriteMigrated
    <2>3. CASE ~Planned(c, "project")
      BY <1>9, <2>1, <2>3 DEF WriteMigrated
    <2>4. QED
      BY <2>2, <2>3
  <1>10. ASSUME NEW c \in Callers, WriteMigrated(c, "tasks", "done") PROVE TypeOK'
    <2>1. copy' \in [Callers -> [Files -> Records \cup {NoFile}]]
      BY <1>10 DEF WriteMigrated, Forgets
    <2>2. CASE Planned(c, "tasks")
      <3>1. copy[c]["tasks"] \in Records
        BY <2>2 DEF Planned
      <3>2. copy[c]["tasks"].edits \in SUBSET Callers
        BY <3>1 DEF Records
      <3>3. late' \in [Callers -> SUBSET Callers]
        BY <1>10, <2>2, <3>2, LateTyped DEF WriteMigrated
      <3>4. disk' = [disk EXCEPT !["tasks"] = copy[c]["tasks"]]
        BY <1>10, <2>2 DEF WriteMigrated
      <3>5. disk' \in [Files -> Records \cup {NoFile}] /\ disk'["project"] # NoFile
        BY <3>1, <3>4
      <3>6. QED
        BY <1>10, <2>1, <3>3, <3>5 DEF WriteMigrated
    <2>3. CASE ~Planned(c, "tasks")
      BY <1>10, <2>1, <2>3 DEF WriteMigrated
    <2>4. QED
      BY <2>2, <2>3
  <1>11. ASSUME NEW c \in Callers, Die(c) PROVE TypeOK'
    BY <1>11 DEF Die, Fault, Forgets
  <1>12. CASE PullNewer
    <2>1. PICK f \in {"project", "tasks"} :
            disk[f] # NoFile /\ disk' = [disk EXCEPT ![f] = Newer(disk[f])]
      BY <1>12 DEF PullNewer
    <2>2. Newer(disk[f]) \in Records
      BY <2>1, Rewritten
    <2>3. QED
      BY <1>12, <2>1, <2>2 DEF PullNewer, Fault
  <1>13. CASE Spoil
    <2>1. PICK f \in {"project", "tasks"} :
            disk[f] # NoFile /\ disk' = [disk EXCEPT ![f] = Spoilt(disk[f])]
      BY <1>13 DEF Spoil
    <2>2. Spoilt(disk[f]) \in Records
      BY <2>1, Rewritten
    <2>3. QED
      BY <1>13, <2>1, <2>2 DEF Spoil, Fault
  <1>14. CASE UNCHANGED vars
    BY <1>14 DEF vars
  <1>15. QED
    BY <1>1, <1>2, <1>3, <1>4, <1>5, <1>6, <1>7, <1>8, <1>9, <1>10, <1>11, <1>12, <1>13, <1>14
    DEF Next, CallStep

LEMMA PathsKept == IInv /\ [Next]_vars => (Paths /\ RivalsMet)'
  <1> SUFFICES ASSUME IInv, [Next]_vars PROVE (Paths /\ RivalsMet)'
    OBVIOUS
  <1> USE Constants, FileTyped, RivalsStay DEF IInv, TypeOK, Paths, RivalsMet, Running, Goes
  <1>1. ASSUME NEW c \in Callers, Open(c) PROVE (Paths /\ RivalsMet)'
    <2>1. /\ \A d \in Callers \ {c} : met[d] \subseteq met'[d]
          /\ \A d \in Callers : Running(d) /\ Rivals(c, d) => d \in met'[c]
          /\ \A d \in Callers \ {c} : Running(d) /\ Rivals(c, d) => c \in met'[d]
      BY <1>1, Meeting DEF Open
    <2>2. kind' = kind /\ \A d \in Callers \ {c} : pc'[d] = pc[d] /\ copy'[d] = copy[d]
      BY <1>1 DEF Open
    <2>3. RivalsMet'
      <3>1. ASSUME NEW x \in Callers, NEW y \in Callers, x # y, Running(x)', Running(y)', Rivals(x, y)'
            PROVE  y \in met'[x]
        <4>1. Rivals(x, y) /\ Rivals(y, x)
          BY <2>2, <3>1, RivalsStay
        <4>2. CASE x = c
          BY <2>1, <2>2, <3>1, <4>1, <4>2
        <4>3. CASE y = c
          BY <2>1, <2>2, <3>1, <4>1, <4>3
        <4>4. CASE x # c /\ y # c
          BY <2>1, <2>2, <3>1, <4>1, <4>4
        <4>5. QED
          BY <4>2, <4>3, <4>4
      <3>2. QED
        BY <3>1
    <2>4. copy'[c][FileOf(c)] = IF kind[c] = "decision" THEN disk["decisions"] ELSE Loaded(FileOf(c))
      BY <1>1 DEF Open
    <2>5. Paths'
      BY <1>1, <2>2, <2>4, ReadingKeeps DEF Open
    <2>6. QED
      BY <2>3, <2>5
  <1>2. ASSUME NEW c \in Callers, WriteCheckpoint(c) PROVE (Paths /\ RivalsMet)'
    BY <1>2 DEF WriteCheckpoint
  <1>3. ASSUME NEW c \in Callers, WriteBack(c) PROVE (Paths /\ RivalsMet)'
    BY <1>3 DEF WriteBack, Forgets
  <1>4. ASSUME NEW c \in Callers, WriteHeader(c) PROVE (Paths /\ RivalsMet)'
    BY <1>4 DEF WriteHeader
  <1>5. ASSUME NEW c \in Callers, AppendDecision(c) PROVE (Paths /\ RivalsMet)'
    BY <1>5 DEF AppendDecision, Forgets
  <1>6. ASSUME NEW c \in Callers, Plan(c) PROVE (Paths /\ RivalsMet)'
    <2>1. /\ \A d \in Callers \ {c} : met[d] \subseteq met'[d]
          /\ \A d \in Callers : Running(d) /\ Rivals(c, d) => d \in met'[c]
          /\ \A d \in Callers \ {c} : Running(d) /\ Rivals(c, d) => c \in met'[d]
      BY <1>6, Meeting DEF Plan
    <2>2. kind' = kind /\ \A d \in Callers \ {c} : pc'[d] = pc[d] /\ copy'[d] = copy[d]
      BY <1>6 DEF Plan
    <2>3. RivalsMet'
      <3>1. ASSUME NEW x \in Callers, NEW y \in Callers, x # y, Running(x)', Running(y)', Rivals(x, y)'
            PROVE  y \in met'[x]
        <4>1. Rivals(x, y) /\ Rivals(y, x)
          BY <2>2, <3>1, RivalsStay
        <4>2. CASE x = c
          BY <2>1, <2>2, <3>1, <4>1, <4>2
        <4>3. CASE y = c
          BY <2>1, <2>2, <3>1, <4>1, <4>3
        <4>4. CASE x # c /\ y # c
          BY <2>1, <2>2, <3>1, <4>1, <4>4
        <4>5. QED
          BY <4>2, <4>3, <4>4
      <3>2. QED
        BY <3>1
    <2>4. Paths'
      BY <1>6, <2>2 DEF Plan
    <2>5. QED
      BY <2>3, <2>4
  <1>7. ASSUME NEW c \in Callers, Confirm(c) PROVE (Paths /\ RivalsMet)'
    <2>1. CASE Goes(c, "backup") /\ UNCHANGED copy
      BY <1>7, <2>1, RivalsStay DEF Confirm
    <2>2. CASE Goes(c, "done") /\ Forgets(c)
      BY <1>7, <2>2, RivalsStay DEF Confirm, Forgets
    <2>3. QED
      BY <1>7, <2>1, <2>2 DEF Confirm
  <1>8. ASSUME NEW c \in Callers, CopyAside(c) PROVE (Paths /\ RivalsMet)'
    BY <1>8 DEF CopyAside
  <1>9. ASSUME NEW c \in Callers, WriteMigrated(c, "project", "tasks") PROVE (Paths /\ RivalsMet)'
    BY <1>9 DEF WriteMigrated
  <1>10. ASSUME NEW c \in Callers, WriteMigrated(c, "tasks", "done") PROVE (Paths /\ RivalsMet)'
    BY <1>10 DEF WriteMigrated, Forgets
  <1>11. ASSUME NEW c \in Callers, Die(c) PROVE (Paths /\ RivalsMet)'
    BY <1>11 DEF Die, Fault, Forgets
  <1>12. CASE PullNewer
    BY <1>12 DEF PullNewer, Fault
  <1>13. CASE Spoil
    BY <1>13 DEF Spoil, Fault
  <1>14. CASE UNCHANGED vars
    BY <1>14 DEF vars
  <1>15. QED
    BY <1>1, <1>2, <1>3, <1>4, <1>5, <1>6, <1>7, <1>8, <1>9, <1>10, <1>11, <1>12, <1>13, <1>14
    DEF Next, CallStep

\* A migration's own writes are the only ones it need not account for: each goes to a
\* record it has no more to write.
LEMMA CoverKept == IInv /\ [Next]_vars => BackupCovers'
  <1> SUFFICES ASSUME IInv, [Next]_vars PROVE BackupCovers'
    OBVIOUS
  <1> USE Constants DEF IInv, TypeOK, BackupCovers, Edits, Saved, Goes
  <1>1. ASSUME NEW c \in Callers, Open(c) PROVE BackupCovers'
    BY <1>1 DEF Open
  <1>2. ASSUME NEW c \in Callers, WriteCheckpoint(c) PROVE BackupCovers'
    BY <1>2 DEF WriteCheckpoint
  <1>3. ASSUME NEW c \in Callers, WriteBack(c) PROVE BackupCovers'
    <2>1. pc' = [pc EXCEPT ![c] = "done"] /\ UNCHANGED backup
      BY <1>3 DEF WriteBack
    <2>2. QED
      <3>1. ASSUME NEW d \in Callers, NEW g \in {"project", "tasks"}, pc'[d] \in {"project", g}
            PROVE  Edits(g)' \subseteq late'[d] \cup Saved(d, g)'
        <4>1. d # c
          BY <2>1, <3>1
        <4>2. CASE g = FileOf(c)
          BY <1>3, <2>1, <3>1, <4>1, <4>2, WrittenBack
        <4>3. CASE g # FileOf(c)
          BY <1>3, <2>1, <3>1, <4>1, <4>3, WrittenBack
        <4>4. QED
          BY <4>2, <4>3
      <3>2. QED
        BY <3>1
  <1>4. ASSUME NEW c \in Callers, WriteHeader(c) PROVE BackupCovers'
    BY <1>4 DEF WriteHeader
  <1>5. ASSUME NEW c \in Callers, AppendDecision(c) PROVE BackupCovers'
    <2>1. \A d \in Callers : late[d] \subseteq late'[d]
      BY <1>5, LateTyped DEF AppendDecision
    <2>2. QED
      BY <1>5, <2>1 DEF AppendDecision
  <1>6. ASSUME NEW c \in Callers, Plan(c) PROVE BackupCovers'
    BY <1>6 DEF Plan
  <1>7. ASSUME NEW c \in Callers, Confirm(c) PROVE BackupCovers'
    BY <1>7 DEF Confirm, Forgets
  <1>8. ASSUME NEW c \in Callers, CopyAside(c) PROVE BackupCovers'
    BY <1>8 DEF CopyAside
  <1>9. ASSUME NEW c \in Callers, WriteMigrated(c, "project", "tasks") PROVE BackupCovers'
    <2>1. CASE Planned(c, "project")
      <3>a. copy[c]["project"] \in Records
        BY <2>1 DEF Planned
      <3>1. copy[c]["project"] \in Records /\ copy[c]["project"].edits \in SUBSET Callers
        BY <3>a DEF Records
      <3>2. disk' = [disk EXCEPT !["project"] = copy[c]["project"]] /\ Late(c, copy[c]["project"].edits)
        BY <1>9, <2>1 DEF WriteMigrated
      <3>3. /\ \A d \in Callers : late[d] \subseteq late'[d]
            /\ \A d \in Callers \ {c} : pc[d] \in {"project", "tasks"} => copy[c]["project"].edits \subseteq late'[d]
        BY <3>1, <3>2, LateTyped
      <3>4. UNCHANGED backup /\ pc' = [pc EXCEPT ![c] = "tasks"]
        BY <1>9 DEF WriteMigrated
      <3>5. ASSUME NEW d \in Callers, NEW g \in {"project", "tasks"}, pc'[d] \in {"project", g}
            PROVE  Edits(g)' \subseteq late'[d] \cup Saved(d, g)'
        <4>1. CASE d = c
          BY <1>9, <3>2, <3>3, <3>4, <3>5, <4>1 DEF WriteMigrated
        <4>2. CASE d # c /\ g = "project"
          BY <3>1, <3>2, <3>3, <3>4, <3>5, <4>2
        <4>3. CASE d # c /\ g # "project"
          BY <3>2, <3>3, <3>4, <3>5, <4>3
        <4>4. QED
          BY <4>1, <4>2, <4>3
      <3>6. QED
        BY <3>5
    <2>2. CASE ~Planned(c, "project")
      BY <1>9, <2>2 DEF WriteMigrated
    <2>3. QED
      BY <2>1, <2>2
  <1>10. ASSUME NEW c \in Callers, WriteMigrated(c, "tasks", "done") PROVE BackupCovers'
    <2>1. CASE Planned(c, "tasks")
      <3>a. copy[c]["tasks"] \in Records
        BY <2>1 DEF Planned
      <3>1. copy[c]["tasks"] \in Records /\ copy[c]["tasks"].edits \in SUBSET Callers
        BY <3>a DEF Records
      <3>2. disk' = [disk EXCEPT !["tasks"] = copy[c]["tasks"]] /\ Late(c, copy[c]["tasks"].edits)
        BY <1>10, <2>1 DEF WriteMigrated
      <3>3. /\ \A d \in Callers : late[d] \subseteq late'[d]
            /\ \A d \in Callers \ {c} : pc[d] \in {"project", "tasks"} => copy[c]["tasks"].edits \subseteq late'[d]
        BY <3>1, <3>2, LateTyped
      <3>4. UNCHANGED backup /\ pc' = [pc EXCEPT ![c] = "done"]
        BY <1>10 DEF WriteMigrated
      <3>5. ASSUME NEW d \in Callers, NEW g \in {"project", "tasks"}, pc'[d] \in {"project", g}
            PROVE  Edits(g)' \subseteq late'[d] \cup Saved(d, g)'
        <4>1. CASE d = c
          BY <1>10, <3>2, <3>3, <3>4, <3>5, <4>1 DEF WriteMigrated
        <4>2. CASE d # c /\ g = "tasks"
          BY <3>1, <3>2, <3>3, <3>4, <3>5, <4>2
        <4>3. CASE d # c /\ g # "tasks"
          BY <3>2, <3>3, <3>4, <3>5, <4>3
        <4>4. QED
          BY <4>1, <4>2, <4>3
      <3>6. QED
        BY <3>5
    <2>2. CASE ~Planned(c, "tasks")
      BY <1>10, <2>2 DEF WriteMigrated
    <2>3. QED
      BY <2>1, <2>2
  <1>11. ASSUME NEW c \in Callers, Die(c) PROVE BackupCovers'
    BY <1>11 DEF Die, Fault, Forgets
  <1>12. CASE PullNewer
    <2>1. PICK f \in {"project", "tasks"} : disk[f] # NoFile /\ disk' = [disk EXCEPT ![f] = Newer(disk[f])]
      BY <1>12 DEF PullNewer
    <2>2. Newer(disk[f]) \in Records /\ Newer(disk[f]).edits = disk[f].edits
      BY <2>1, Rewritten
    <2>3. QED
      BY <1>12, <2>1, <2>2 DEF PullNewer
  <1>13. CASE Spoil
    <2>1. PICK f \in {"project", "tasks"} : disk[f] # NoFile /\ disk' = [disk EXCEPT ![f] = Spoilt(disk[f])]
      BY <1>13 DEF Spoil
    <2>2. Spoilt(disk[f]) \in Records /\ Spoilt(disk[f]).edits = disk[f].edits
      BY <2>1, Rewritten
    <2>3. QED
      BY <1>13, <2>1, <2>2 DEF Spoil
  <1>14. CASE UNCHANGED vars
    BY <1>14 DEF vars
  <1>15. QED
    BY <1>1, <1>2, <1>3, <1>4, <1>5, <1>6, <1>7, <1>8, <1>9, <1>10, <1>11, <1>12, <1>13, <1>14
    DEF Next, CallStep

\* What a step may never take back.
Lasting ==
  /\ kind' = kind /\ unread \subseteq unread'
  /\ \A d \in Callers, f \in Files : Saved(d, f) \subseteq Saved(d, f)'
  /\ \A d \in Callers : pc[d] = "done" => pc'[d] = "done" /\ met[d] \subseteq met'[d]

\* A backup is never taken back, and what was written over unread or met is known for good.
LEMMA Persists == IInv /\ [Next]_vars => Lasting
  <1> SUFFICES ASSUME IInv, [Next]_vars PROVE Lasting
    OBVIOUS
  <1> USE DEF IInv, TypeOK, Saved, Goes, Running, Lasting
  <1>1. ASSUME NEW c \in Callers, Open(c) PROVE Lasting
    <2>1. \A d \in Callers \ {c} : met[d] \subseteq met'[d]
      BY <1>1, Meeting DEF Open
    <2>2. QED
      BY <1>1, <2>1 DEF Open
  <1>2. ASSUME NEW c \in Callers, WriteCheckpoint(c) PROVE Lasting
    BY <1>2 DEF WriteCheckpoint
  <1>3. ASSUME NEW c \in Callers, WriteBack(c) PROVE Lasting
    BY <1>3 DEF WriteBack, Forgets
  <1>4. ASSUME NEW c \in Callers, WriteHeader(c) PROVE Lasting
    BY <1>4 DEF WriteHeader
  <1>5. ASSUME NEW c \in Callers, AppendDecision(c) PROVE Lasting
    BY <1>5 DEF AppendDecision, Forgets
  <1>6. ASSUME NEW c \in Callers, Plan(c) PROVE Lasting
    <2>1. \A d \in Callers \ {c} : met[d] \subseteq met'[d]
      BY <1>6, Meeting DEF Plan
    <2>2. QED
      BY <1>6, <2>1 DEF Plan
  <1>7. ASSUME NEW c \in Callers, Confirm(c) PROVE Lasting
    <2>1. UNCHANGED <<kind, unread, backup, met>> /\ pc[c] = "confirm"
          /\ pc' \in {[pc EXCEPT ![c] = "backup"], [pc EXCEPT ![c] = "done"]}
      BY <1>7 DEF Confirm
    <2>2. QED
      BY <2>1
  <1>8. ASSUME NEW c \in Callers, CopyAside(c) PROVE Lasting
    <2>1. \A f \in Files : Saved(c, f) = {}
      BY <1>8 DEF CopyAside, Paths
    <2>2. QED
      BY <1>8, <2>1 DEF CopyAside
  <1>9. ASSUME NEW c \in Callers, WriteMigrated(c, "project", "tasks") PROVE Lasting
    BY <1>9 DEF WriteMigrated
  <1>10. ASSUME NEW c \in Callers, WriteMigrated(c, "tasks", "done") PROVE Lasting
    BY <1>10 DEF WriteMigrated, Forgets
  <1>11. ASSUME NEW c \in Callers, Die(c) PROVE Lasting
    BY <1>11 DEF Die, Fault, Forgets
  <1>12. CASE PullNewer
    BY <1>12 DEF PullNewer, Fault
  <1>13. CASE Spoil
    BY <1>13 DEF Spoil, Fault
  <1>14. CASE UNCHANGED vars
    BY <1>14 DEF vars
  <1>15. QED
    BY <1>1, <1>2, <1>3, <1>4, <1>5, <1>6, <1>7, <1>8, <1>9, <1>10, <1>11, <1>12, <1>13, <1>14
    DEF Next, CallStep

\* What the record holds of a call that met nobody stays there, until a migration's backup
\* holds it or somebody writes over a file he could not read.
LEMMA HeldStays ==
  ASSUME IInv, [Next]_vars, NEW a \in Callers, pc[a] = "done", kind[a] # "migrate", Held(a),
         a \notin unread', \A d \in Callers : a \notin Saved(d, FileOf(a))'
  PROVE  Held(a)'
  <1> DEFINE f == FileOf(a)
  <1>a. f \in Files /\ f' = f /\ a \in Edits(f) /\ disk[f] \in Records /\ a \in disk[f].edits
        /\ \A d \in Callers : FileOf(d)' = FileOf(d)
    BY FileTyped, Persists DEF Held, Edits, IInv, TypeOK, Lasting
  <1> HIDE DEF f
  <1>b. \A d \in Callers :
          /\ pc[d] \in {"checkpoint", "write"} /\ FileOf(d) = f => a \in copy[d][f].edits \/ ~disk[f].ok
          /\ pc[d] = "header" => FileOf(d) # f
          /\ pc[d] \notin {"project", "tasks"}
    BY DEF Held, f
  <1> DEFINE StillHeld ==
               /\ disk'[f] # NoFile /\ a \in disk'[f].edits
               /\ \A d \in Callers :
                    /\ pc'[d] \in {"checkpoint", "write"} /\ FileOf(d) = f =>
                         a \in copy'[d][f].edits \/ ~disk'[f].ok
                    /\ pc'[d] = "header" => FileOf(d) # f
                    /\ pc'[d] \notin {"project", "tasks"}
  <1>c. SUFFICES StillHeld
    BY <1>a DEF Held, Edits, f
  <1> USE <1>a, <1>b, Constants DEF IInv, TypeOK, Goes
  <1>1. ASSUME NEW c \in Callers, Open(c) PROVE StillHeld
    <2>1. disk' = disk /\ \A d \in Callers \ {c} : pc'[d] = pc[d] /\ copy'[d] = copy[d]
      BY <1>1 DEF Open
    <2>2. ASSUME kind[c] # "decision", FileOf(c) = f PROVE a \in copy'[c][f].edits \/ ~disk[f].ok
      BY <1>1, <2>2, ReadingKeeps DEF Open, Edits
    <2>3. pc'[c] \in {"checkpoint", "write"} => kind[c] # "decision"
      BY <1>1 DEF Open
    <2>4. pc'[c] = "header" => FileOf(c) # f
      BY <1>1, FileTyped DEF Open
    <2>5. pc'[c] \notin {"project", "tasks"}
      BY <1>1 DEF Open
    <2>6. QED
      BY <2>1, <2>2, <2>3, <2>4, <2>5
  <1>2. ASSUME NEW c \in Callers, WriteCheckpoint(c) PROVE StillHeld
    BY <1>2 DEF WriteCheckpoint
  <1>3. ASSUME NEW c \in Callers, WriteBack(c) PROVE StillHeld
    <2>1. pc' = [pc EXCEPT ![c] = "done"] /\ \A d \in Callers \ {c} : copy'[d] = copy[d]
      BY <1>3 DEF WriteBack, Forgets
    <2>2. CASE FileOf(c) = f
      <3>1. disk[f].ok
        BY <1>3, <2>2 DEF WriteBack
      <3>2. a \in copy[c][f].edits
        BY <1>3, <2>2, <3>1 DEF WriteBack
      <3>3. disk'[f] \in Records /\ a \in disk'[f].edits
        BY <1>3, <2>2, <3>2, WrittenBack
      <3>4. QED
        BY <2>1, <3>1, <3>3
    <2>3. CASE FileOf(c) # f
      BY <1>3, <2>1, <2>3, WrittenBack
    <2>4. QED
      BY <2>2, <2>3
  <1>4. ASSUME NEW c \in Callers, WriteHeader(c) PROVE StillHeld
    <2>1. f # "decisions"
      BY <1>4, FileTyped DEF WriteHeader, Paths
    <2>2. QED
      BY <1>4, <2>1 DEF WriteHeader
  <1>5. ASSUME NEW c \in Callers, AppendDecision(c) PROVE StillHeld
    <2>1. pc' = [pc EXCEPT ![c] = "done"] /\ \A d \in Callers \ {c} : copy'[d] = copy[d]
      BY <1>5 DEF AppendDecision, Forgets
    <2>2. CASE f = "decisions"
      <3>1. \A d \in Callers : pc[d] \in {"checkpoint", "write"} => FileOf(d) # f
        BY <2>2, FileTyped DEF Paths
      <3>2. Record(CurrentVersion, Edits("decisions") \cup {c}) \in Records
            /\ Record(CurrentVersion, Edits("decisions") \cup {c}).edits = Edits("decisions") \cup {c}
        BY ReadingKeeps
      <3>3. disk'[f] \in Records /\ a \in disk'[f].edits
        BY <1>5, <2>2, <3>2 DEF AppendDecision
      <3>4. QED
        BY <2>1, <3>1, <3>3
    <2>3. CASE f # "decisions"
      BY <1>5, <2>1, <2>3 DEF AppendDecision
    <2>4. QED
      BY <2>2, <2>3
  <1>6. ASSUME NEW c \in Callers, Plan(c) PROVE StillHeld
    BY <1>6 DEF Plan
  <1>7. ASSUME NEW c \in Callers, Confirm(c) PROVE StillHeld
    <2>1. /\ disk' = disk /\ pc'[c] \in {"backup", "done"}
          /\ \A d \in Callers \ {c} : pc'[d] = pc[d] /\ copy'[d] = copy[d]
      BY <1>7 DEF Confirm, Forgets
    <2>2. QED
      BY <2>1
  <1>8. ASSUME NEW c \in Callers, CopyAside(c) PROVE StillHeld
    <2>1. a \in Saved(c, FileOf(a))'
      BY <1>8 DEF CopyAside, Saved, f
    <2>2. QED
      BY <2>1
  <1>9. ASSUME NEW c \in Callers, WriteMigrated(c, "project", "tasks") PROVE StillHeld
    BY <1>9 DEF WriteMigrated
  <1>10. ASSUME NEW c \in Callers, WriteMigrated(c, "tasks", "done") PROVE StillHeld
    BY <1>10 DEF WriteMigrated, Forgets
  <1>11. ASSUME NEW c \in Callers, Die(c) PROVE StillHeld
    BY <1>11 DEF Die, Fault, Forgets
  <1>12. CASE PullNewer
    <2>1. PICK g \in {"project", "tasks"} : disk[g] # NoFile /\ disk' = [disk EXCEPT ![g] = Newer(disk[g])]
      BY <1>12 DEF PullNewer
    <2>2. Newer(disk[f]) \in Records /\ Newer(disk[f]).edits = disk[f].edits /\ Newer(disk[f]).ok = disk[f].ok
      BY Rewritten
    <2>3. QED
      BY <1>12, <2>1, <2>2 DEF PullNewer
  <1>13. CASE Spoil
    <2>1. PICK g \in {"project", "tasks"} : disk[g] # NoFile /\ disk' = [disk EXCEPT ![g] = Spoilt(disk[g])]
      BY <1>13 DEF Spoil
    <2>2. Spoilt(disk[f]) \in Records /\ Spoilt(disk[f]).edits = disk[f].edits /\ ~Spoilt(disk[f]).ok
      BY Rewritten
    <2>3. QED
      BY <1>13, <2>1, <2>2 DEF Spoil
  <1>14. CASE UNCHANGED vars
    BY <1>14 DEF vars
  <1>15. QED
    BY <1>1, <1>2, <1>3, <1>4, <1>5, <1>6, <1>7, <1>8, <1>9, <1>10, <1>11, <1>12, <1>13, <1>14
    DEF Next, CallStep

\* When a call that has met nobody ends, nobody else is at its record.
LEMMA HeldAtFirst ==
  ASSUME IInv, NEW a \in Callers, WriteBack(a) \/ AppendDecision(a), met'[a] = {}
  PROVE  Held(a)'
  <1>1. kind' = kind /\ met' = met /\ \A d \in Callers \ {a} : pc'[d] = pc[d] /\ copy'[d] = copy[d]
    BY DEF WriteBack, AppendDecision, Goes, Forgets, IInv, TypeOK
  <1>2. pc'[a] = "done" /\ Running(a)
    BY DEF WriteBack, AppendDecision, Goes, Running, IInv, TypeOK
  <1>3. \A d \in Callers \ {a} : Running(d) => ~Rivals(a, d)
    BY <1>1, <1>2 DEF IInv, RivalsMet
  <1>4. ASSUME NEW d \in Callers \ {a}
        PROVE  /\ pc[d] \in {"checkpoint", "write", "header"} => FileOf(d) # FileOf(a)
               /\ pc[d] \notin {"project", "tasks"}
    BY <1>3 DEF Running, Rivals, IInv, Paths
  <1>5. a \in Edits(FileOf(a))'
    <2>1. CASE WriteBack(a)
      <3>1. FileOf(a)' = FileOf(a) /\ FileOf(a) \in Files
        BY <1>1, FileTyped
      <3>2. disk'[FileOf(a)] \in Records /\ a \in disk'[FileOf(a)].edits
        BY <2>1, <3>1, WrittenBack DEF IInv, TypeOK
      <3>3. QED
        BY <3>1, <3>2, Constants DEF Edits
    <2>2. CASE AppendDecision(a)
      <3>1. FileOf(a) = "decisions"
        BY <2>2, FileTyped DEF AppendDecision, IInv, Paths
      <3>2. /\ Record(CurrentVersion, Edits("decisions") \cup {a}) \in Records
            /\ Record(CurrentVersion, Edits("decisions") \cup {a}).edits = Edits("decisions") \cup {a}
        BY ReadingKeeps, Constants DEF IInv
      <3>3. disk'["decisions"] = Record(CurrentVersion, Edits("decisions") \cup {a})
        BY <2>2, Constants DEF AppendDecision, IInv, TypeOK
      <3>4. QED
        <4>1. FileOf(a)' = FileOf(a)
          BY <1>1, FileTyped
        <4>2. disk'[FileOf(a)] \in Records /\ a \in disk'[FileOf(a)].edits
          BY <3>1, <3>2, <3>3
        <4>3. QED
          BY <4>1, <4>2, Constants DEF Edits
    <2>3. QED
      BY <2>1, <2>2
  <1>6. QED
    BY <1>1, <1>2, <1>4, <1>5, FileTyped DEF Held

\* Only a call that writes its record back or appends to it ends well, the migrations aside.
LEMMA EndsByWriting ==
  ASSUME IInv, [Next]_vars, NEW a \in Callers, kind[a] # "migrate", pc[a] # "done", pc'[a] = "done"
  PROVE  WriteBack(a) \/ AppendDecision(a)
  <1> USE DEF IInv, TypeOK, Paths, Goes
  <1>1. ASSUME NEW c \in Callers, Open(c) PROVE FALSE
    BY <1>1 DEF Open
  <1>2. ASSUME NEW c \in Callers, WriteCheckpoint(c) PROVE FALSE
    BY <1>2 DEF WriteCheckpoint
  <1>3. ASSUME NEW c \in Callers, WriteHeader(c) PROVE FALSE
    BY <1>3 DEF WriteHeader
  <1>4. ASSUME NEW c \in Callers, Plan(c) PROVE FALSE
    BY <1>4 DEF Plan
  <1>5. ASSUME NEW c \in Callers, Confirm(c) PROVE FALSE
    BY <1>5 DEF Confirm
  <1>6. ASSUME NEW c \in Callers, CopyAside(c) PROVE FALSE
    BY <1>6 DEF CopyAside
  <1>7. ASSUME NEW c \in Callers, WriteMigrated(c, "project", "tasks") PROVE FALSE
    BY <1>7 DEF WriteMigrated
  <1>8. ASSUME NEW c \in Callers, WriteMigrated(c, "tasks", "done") PROVE FALSE
    BY <1>8 DEF WriteMigrated
  <1>9. ASSUME NEW c \in Callers, Die(c) PROVE FALSE
    BY <1>9 DEF Die
  <1>10. ASSUME NEW c \in Callers \ {a}, WriteBack(c) \/ AppendDecision(c) PROVE FALSE
    BY <1>10 DEF WriteBack, AppendDecision
  <1>11. ASSUME PullNewer \/ Spoil \/ UNCHANGED vars PROVE FALSE
    BY <1>11 DEF PullNewer, Spoil, vars
  <1>12. QED
    BY <1>1, <1>2, <1>3, <1>4, <1>5, <1>6, <1>7, <1>8, <1>9, <1>10, <1>11 DEF Next, CallStep

LEMMA KeptKept == IInv /\ [Next]_vars => \A a \in Callers : Kept(a)'
  <1> SUFFICES ASSUME IInv, [Next]_vars, NEW a \in Callers,
                      pc'[a] = "done", kind'[a] # "migrate", met'[a] = {},
                      a \notin unread', \A d \in Callers : a \notin Saved(d, FileOf(a))'
               PROVE  Held(a)'
    BY DEF Kept
  <1>1. /\ kind' = kind /\ unread \subseteq unread'
        /\ \A d \in Callers, f \in Files : Saved(d, f) \subseteq Saved(d, f)'
        /\ \A d \in Callers : pc[d] = "done" => pc'[d] = "done" /\ met[d] \subseteq met'[d]
    BY Persists DEF Lasting
  <1>2. CASE pc[a] = "done"
    <2>1. FileOf(a)' = FileOf(a) /\ FileOf(a) \in Files
      BY <1>1, FileTyped
    <2>2. a \notin unread /\ \A d \in Callers : a \notin Saved(d, FileOf(a))
      BY <1>1, <2>1 DEF Saved
    <2>3. Held(a)
      BY <1>1, <1>2, <2>2 DEF IInv, Kept
    <2>4. QED
      BY <1>1, <1>2, <2>3, HeldStays
  <1>3. CASE pc[a] # "done"
    BY <1>1, <1>3, EndsByWriting, HeldAtFirst
  <1>4. QED
    BY <1>2, <1>3

LEMMA Inductive == IInv /\ [Next]_vars => IInv'
  BY TypesKept, PathsKept, CoverKept, KeptKept DEF IInv

LEMMA Invariant == Spec => []IInv
  BY Initially, Inductive, PTL DEF Spec

\* Type correctness.
THEOREM TypeCorrect == Spec => []TypeOK
  <1>1. IInv => TypeOK
    BY DEF IInv
  <1>2. QED
    BY Invariant, <1>1, PTL

\* mcp/tools.ts:33-42: what a call said it recorded is in the record or in the backup of a
\* migration, unless a call it ran beside wrote the same record, or it was in a file that
\* could not be read when that was next written.
THEOREM AnswersKept == Spec => []AnsweredIsKept
  <1>1. IInv => AnsweredIsKept
    BY DEF IInv, Kept, Held, AnsweredIsKept
  <1>2. QED
    BY Invariant, <1>1, PTL

\* The decisions after a step.
DecisionsStep ==
  \/ Edits("decisions") \subseteq Edits("decisions")'
  \/ \E c \in Callers : /\ pc[c] = "header" /\ pc'[c] = "append"
                        /\ copy[c]["decisions"] = NoFile

\* Calls of the other kinds do not write the decisions, and one that appends keeps them.
LEMMA DecisionsKept ==
  ASSUME IInv, Next
  PROVE  DecisionsStep
  <1> USE Constants DEF IInv, TypeOK, Paths, DecisionsStep, Edits, Goes
  <1>1. ASSUME NEW c \in Callers, Open(c) PROVE DecisionsStep
    BY <1>1 DEF Open
  <1>2. ASSUME NEW c \in Callers, WriteCheckpoint(c) PROVE DecisionsStep
    BY <1>2 DEF WriteCheckpoint
  <1>3. ASSUME NEW c \in Callers, WriteBack(c) PROVE DecisionsStep
    BY <1>3, WrittenBack
  <1>4. ASSUME NEW c \in Callers, WriteHeader(c) PROVE DecisionsStep
    BY <1>4 DEF WriteHeader
  <1>5. ASSUME NEW c \in Callers, AppendDecision(c) PROVE DecisionsStep
    <2>1. Record(CurrentVersion, Edits("decisions") \cup {c}).edits = Edits("decisions") \cup {c}
          /\ Record(CurrentVersion, Edits("decisions") \cup {c}) \in Records
      BY ReadingKeeps
    <2>2. disk'["decisions"] = Record(CurrentVersion, Edits("decisions") \cup {c})
      BY <1>5 DEF AppendDecision
    <2>3. QED
      BY <2>1, <2>2
  <1>6. ASSUME NEW c \in Callers, Plan(c) PROVE DecisionsStep
    BY <1>6 DEF Plan
  <1>7. ASSUME NEW c \in Callers, Confirm(c) PROVE DecisionsStep
    BY <1>7 DEF Confirm, Forgets
  <1>8. ASSUME NEW c \in Callers, CopyAside(c) PROVE DecisionsStep
    BY <1>8 DEF CopyAside
  <1>9. ASSUME NEW c \in Callers, WriteMigrated(c, "project", "tasks") PROVE DecisionsStep
    BY <1>9 DEF WriteMigrated
  <1>10. ASSUME NEW c \in Callers, WriteMigrated(c, "tasks", "done") PROVE DecisionsStep
    BY <1>10 DEF WriteMigrated, Forgets
  <1>11. ASSUME NEW c \in Callers, Die(c) PROVE DecisionsStep
    BY <1>11 DEF Die, Fault, Forgets
  <1>12. CASE PullNewer
    BY <1>12 DEF PullNewer, Fault
  <1>13. CASE Spoil
    BY <1>13 DEF Spoil, Fault
  <1>14. QED
    BY <1>1, <1>2, <1>3, <1>4, <1>5, <1>6, <1>7, <1>8, <1>9, <1>10, <1>11, <1>12, <1>13
    DEF Next, CallStep

\* What a migration's write takes from a record it has copied aside, or it came later.
ReplacedStep ==
  \A c \in Callers, f \in Files : pc[c] = f /\ pc'[c] # pc[c] =>
    Edits(f) \ Edits(f)' \subseteq late[c] \cup Saved(c, f)

LEMMA ReplacedKept ==
  ASSUME IInv, Next
  PROVE  ReplacedStep
  <1> SUFFICES ASSUME NEW c \in Callers, NEW f \in Files, pc[c] = f
               PROVE  Edits(f) \subseteq late[c] \cup Saved(c, f)
    BY DEF ReplacedStep
  <1>1. f \in {"project", "tasks"}
    BY DEF IInv, TypeOK, Labels, Files
  <1>2. QED
    BY <1>1 DEF IInv, BackupCovers

\* store.ts, appendDecision: a decision disappears only when the header of a call that had
\* found no file is written over it; no other call, migration or pull takes one away.
THEOREM DecisionsSafe == Spec => DecisionsGrow
  <1>1. IInv /\ [Next]_vars => [DecisionsStep]_vars
    BY DecisionsKept
  <1>2. QED
    BY Invariant, <1>1, PTL DEF Spec, DecisionsGrow, DecisionsStep

\* migrate.ts:132-139: whatever a migration's write takes from a record is in that migration's
\* own backup, or was written after the backup was made.
THEOREM BackupSafe == Spec => BackupHoldsReplaced
  <1>1. IInv /\ [Next]_vars => [ReplacedStep]_vars
    BY ReplacedKept
  <1>2. QED
    BY Invariant, <1>1, PTL DEF Spec, BackupHoldsReplaced, ReplacedStep

(***************************************************************************)
(* decisions.md                                                            *)
(***************************************************************************)
\* Every set of naturals has a least one: what takes the place of induction below.
LEMMA Least ==
  ASSUME NEW T \in SUBSET Nat, T # {}
  PROVE  \E n \in T : \A k \in T : n <= k
  <1>1. IsWellFoundedOn(OpToRel(<, Nat), Nat)
    BY NatLessThanWellFounded, Zenon
  <1>2. PICK n \in T : \A k \in T : <<k, n>> \notin OpToRel(<, Nat)
    BY ONLY <1>1, T \in SUBSET Nat, T # {}, WFMin, Zenon
  <1>3. \A k \in T : ~(k < n)
    BY <1>2, Zenon DEF OpToRel
  <1>4. QED
    BY <1>3

(***************************************************************************)
(* The merge                                                               *)
(***************************************************************************)
LEMMA PartOf ==
  ASSUME NEW X, NEW s \in Seq(X), NEW a \in 1..(Len(s) + 1), NEW b \in (a - 1)..Len(s)
  PROVE  /\ SubSeq(s, a, b) \in Seq(X) /\ Len(SubSeq(s, a, b)) = b - a + 1
         /\ \A i \in 1..(b - a + 1) : SubSeq(s, a, b)[i] = s[a + i - 1]
  <1> DEFINE t == SubSeq(s, a, b)
             m == b - a + 1
  <1>1. \A i \in 1..m : a + i - 1 \in 1..Len(s) /\ s[i + a - 1] \in X /\ i + a - 1 = a + i - 1
    OBVIOUS
  <1>2. t = [i \in 1..m |-> s[i + a - 1]] /\ m \in Nat
    OBVIOUS
  <1> HIDE DEF t, m
  <1>3. t \in Seq(X) /\ Len(t) = m /\ \A i \in 1..m : t[i] = s[i + a - 1]
    BY <1>1, <1>2
  <1>4. QED
    BY <1>1, <1>3 DEF t, m

LEMMA Joined ==
  ASSUME NEW X, NEW s \in Seq(X), NEW t \in Seq(X)
  PROVE  /\ s \o t \in Seq(X) /\ Len(s \o t) = Len(s) + Len(t)
         /\ \A i \in 1..Len(s) : (s \o t)[i] = s[i]
         /\ \A i \in 1..Len(t) : (s \o t)[Len(s) + i] = t[i]
  OBVIOUS

\* Two sequences begin alike up to p, and no further.
Alike(x, y, p) ==
  /\ p \in Nat /\ p <= Len(x) /\ p <= Len(y)
  /\ \A i \in 1..p : x[i] = y[i]
  /\ ~(p < Len(x) /\ p < Len(y) /\ x[p + 1] = y[p + 1])

LEMMA AlikeTo ==
  ASSUME NEW X, NEW x \in Seq(X), NEW y \in Seq(X)
  PROVE  \E p \in Nat : Alike(x, y, p)
  <1> DEFINE T == {k \in Nat : ~(k < Len(x) /\ k < Len(y) /\ x[k + 1] = y[k + 1])}
  <1>1. PICK p \in T : \A k \in T : p <= k
    <2>1. T \in SUBSET Nat /\ Len(x) \in T
      OBVIOUS
    <2> HIDE DEF T
    <2>2. QED
      BY <2>1, Least
  <1>2. \A k \in 0..(p - 1) : k < Len(x) /\ k < Len(y) /\ x[k + 1] = y[k + 1]
    BY <1>1
  <1>3. p <= Len(x) /\ p <= Len(y)
    <2>1. CASE p = 0
      BY <2>1
    <2>2. CASE p # 0
      <3>1. p - 1 \in 0..(p - 1)
        BY <1>1, <2>2
      <3>2. QED
        BY <1>1, <1>2, <3>1
    <2>3. QED
      BY <2>1, <2>2
  <1>4. ASSUME NEW i \in 1..p PROVE x[i] = y[i]
    <2>1. i - 1 \in 0..(p - 1) /\ i - 1 + 1 = i
      BY <1>1
    <2>2. QED
      BY <1>2, <2>1
  <1>5. QED
    BY <1>1, <1>3, <1>4 DEF Alike

LEMMA CommonHeadIs ==
  ASSUME NEW X, NEW x \in Seq(X), NEW y \in Seq(X)
  PROVE  /\ CommonHead(x, y) = SubSeq(x, 1, Len(CommonHead(x, y)))
         /\ Alike(x, y, Len(CommonHead(x, y)))
  <1> DEFINE h == CommonHead(x, y)
             C == CommonPrefixes({x, y})
  <1>1. PICK p \in Nat : Alike(x, y, p)
    BY AlikeTo
  <1> DEFINE c == SubSeq(x, 1, p)
  <1>2. /\ p <= Len(x) /\ p <= Len(y) /\ \A i \in 1..p : x[i] = y[i]
        /\ ~(p < Len(x) /\ p < Len(y) /\ x[p + 1] = y[p + 1])
    BY <1>1 DEF Alike
  <1>3. c \in Seq(X) /\ Len(c) = p /\ \A i \in 1..p : c[i] = x[i]
    <2>1. 1 \in 1..(Len(x) + 1) /\ p \in (1 - 1)..Len(x) /\ p - 1 + 1 = p /\ \A i \in 1..p : 1 + i - 1 = i
      BY <1>2
    <2>2. QED
      BY <2>1, PartOf
  <1>4. \A s \in Seq(X) : (p <= Len(s) /\ \A i \in 1..p : s[i] = x[i]) => IsPrefix(c, s)
    <2> SUFFICES ASSUME NEW s \in Seq(X), p <= Len(s), \A i \in 1..p : s[i] = x[i]
                 PROVE  SubSeq(c, 1, p) = SubSeq(s, 1, p)
      BY <1>3 DEF IsPrefix
    <2> HIDE DEF c
    <2>1. SubSeq(c, 1, p) = [i \in 1..p |-> c[i]] /\ SubSeq(s, 1, p) = [i \in 1..p |-> s[i]]
      BY <1>3
    <2>2. QED
      BY <1>3, <2>1
  <1>5. c \in C
    <2>1. c \in Prefixes(x)
      BY <1>2 DEF Prefixes
    <2>2. IsPrefix(c, x) /\ IsPrefix(c, y)
      BY <1>2, <1>4
    <2> HIDE DEF c
    <2>3. QED
      BY <2>1, <2>2 DEF CommonPrefixes
  <1>6. ASSUME NEW o \in C
        PROVE  o = SubSeq(x, 1, Len(o)) /\ Len(o) \in Nat /\ Len(o) <= p
    <2>1. PICK s \in {x, y} : \E l \in 0..Len(s) : o = SubSeq(s, 1, l)
      BY DEF CommonPrefixes, Prefixes
    <2>0. PICK l \in 0..Len(s) : o = SubSeq(s, 1, l)
      BY <2>1
    <2>2. o \in Seq(X) /\ Len(o) = l
      <3>1. 1 \in 1..(Len(s) + 1) /\ l \in (1 - 1)..Len(s) /\ s \in Seq(X) /\ l - 1 + 1 = l
        OBVIOUS
      <3>2. QED
        BY <2>0, <3>1, PartOf
    <2>3. IsPrefix(o, x) /\ IsPrefix(o, y)
      BY DEF CommonPrefixes
    <2> HIDE DEF C, h, c
    <2>4. l <= Len(x) /\ l <= Len(y) /\ SubSeq(o, 1, l) = SubSeq(x, 1, l) /\ SubSeq(o, 1, l) = SubSeq(y, 1, l)
      BY <2>2, <2>3 DEF IsPrefix
    <2>5. SubSeq(o, 1, l) = o
      BY <2>2
    <2>6. ~(p < l)
      <3> SUFFICES ASSUME p < l PROVE FALSE
        OBVIOUS
      <3>1. SubSeq(x, 1, l)[p + 1] = x[p + 1] /\ SubSeq(y, 1, l)[p + 1] = y[p + 1]
        BY <2>4
      <3>2. QED
        BY <1>2, <2>4, <3>1
    <2>7. QED
      BY <2>2, <2>4, <2>5, <2>6
  <1>7. h \in C /\ \A o \in C : Len(o) <= Len(h)
    <2>1. \A o \in C : Len(o) <= Len(c)
      BY <1>3, <1>6
    <2>2. h = CHOOSE l \in C : \A o \in C : Len(o) <= Len(l)
      BY DEF CommonHead, LongestCommonPrefix
    <2> HIDE DEF h, C, c
    <2>3. QED
      BY <1>5, <2>1, <2>2
  <1> HIDE DEF h, C, c
  <1>8. Len(h) = p /\ h = SubSeq(x, 1, Len(h))
    BY <1>3, <1>5, <1>6, <1>7
  <1>9. QED
    BY <1>1, <1>8 DEF h

LEMMA MinOf ==
  ASSUME NEW T \in SUBSET Nat, T # {}
  PROVE  Min(T) \in T /\ \A k \in T : Min(T) <= k
  <1>1. PICK n \in T : \A k \in T : n <= k
    BY Least
  <1>2. Min(T) = CHOOSE least \in T : \A k \in T : least <= k
    BY DEF Min
  <1>3. QED
    BY <1>1, <1>2

LEMMA Reversed ==
  ASSUME NEW X, NEW s \in Seq(X)
  PROVE  /\ Reverse(s) \in Seq(X) /\ Len(Reverse(s)) = Len(s)
         /\ \A i \in 1..Len(s) : Reverse(s)[i] = s[Len(s) - i + 1]
  <1> DEFINE n == Len(s)
             r == Reverse(s)
  <1>1. n \in Nat /\ r = [i \in 1..n |-> s[(n - i) + 1]]
    BY DEF Reverse
  <1>2. \A i \in 1..n : s[(n - i) + 1] \in X
    OBVIOUS
  <1> HIDE DEF n, r
  <1>3. r \in Seq(X) /\ Len(r) = n /\ \A i \in 1..n : r[i] = s[(n - i) + 1]
    BY <1>1, <1>2
  <1>4. QED
    BY <1>3 DEF n, r

\* And they end alike in the last t, and no more.
EndAlike(x, y, t) ==
  /\ t \in Nat /\ t <= Len(x) /\ t <= Len(y)
  /\ \A k \in 1..t : x[Len(x) - t + k] = y[Len(y) - t + k]
  /\ ~(t < Len(x) /\ t < Len(y) /\ x[Len(x) - t] = y[Len(y) - t])

LEMMA CommonTailIs ==
  ASSUME NEW X, NEW x \in Seq(X), NEW y \in Seq(X)
  PROVE  LET tail == CommonTail(x, y)
             t == Len(tail)
         IN /\ tail \in Seq(X) /\ EndAlike(x, y, t)
            /\ \A k \in 1..t : tail[k] = y[Len(y) - t + k]
  <1> DEFINE tail == CommonTail(x, y)
             rx == Reverse(x)
             ry == Reverse(y)
             h == CommonHead(rx, ry)
             p == Len(h)
  <1>1. /\ rx \in Seq(X) /\ Len(rx) = Len(x) /\ \A i \in 1..Len(x) : rx[i] = x[Len(x) - i + 1]
        /\ ry \in Seq(X) /\ Len(ry) = Len(y) /\ \A i \in 1..Len(y) : ry[i] = y[Len(y) - i + 1]
    BY Reversed
  <1>2. tail = Reverse(h)
    BY DEF CommonTail
  <1> HIDE DEF rx, ry
  <1>3. h = SubSeq(rx, 1, p) /\ Alike(rx, ry, p)
    BY <1>1, CommonHeadIs
  <1> HIDE DEF h
  <1>4. /\ p \in Nat /\ p <= Len(x) /\ p <= Len(y)
        /\ \A i \in 1..p : rx[i] = ry[i]
        /\ ~(p < Len(x) /\ p < Len(y) /\ rx[p + 1] = ry[p + 1])
    BY <1>1, <1>3 DEF Alike
  <1> HIDE DEF p
  <1>5. h \in Seq(X) /\ Len(h) = p /\ \A i \in 1..p : h[i] = rx[i]
    <2>1. /\ 1 \in 1..(Len(rx) + 1) /\ p \in (1 - 1)..Len(rx) /\ p - 1 + 1 = p
          /\ \A i \in 1..p : 1 + i - 1 = i
      BY <1>1, <1>4
    <2>2. QED
      BY <1>1, <1>3, <2>1, PartOf
  <1>6. tail \in Seq(X) /\ Len(tail) = p /\ \A i \in 1..p : tail[i] = h[p - i + 1]
    BY <1>2, <1>5, Reversed
  <1> HIDE DEF tail
  <1>7. ASSUME NEW k \in 1..p
        PROVE  tail[k] = y[Len(y) - p + k] /\ x[Len(x) - p + k] = y[Len(y) - p + k]
    <2>1. p - k + 1 \in 1..p /\ p - k + 1 \in 1..Len(x) /\ p - k + 1 \in 1..Len(y)
      BY <1>4
    <2>2. tail[k] = h[p - k + 1] /\ h[p - k + 1] = rx[p - k + 1] /\ rx[p - k + 1] = ry[p - k + 1]
      BY <1>4, <1>5, <1>6, <2>1
    <2>3. /\ rx[p - k + 1] = x[Len(x) - (p - k + 1) + 1]
          /\ ry[p - k + 1] = y[Len(y) - (p - k + 1) + 1]
      BY <1>1, <2>1
    <2>4. /\ Len(x) - (p - k + 1) + 1 = Len(x) - p + k
          /\ Len(y) - (p - k + 1) + 1 = Len(y) - p + k
      BY <1>4
    <2>5. QED
      BY <2>2, <2>3, <2>4
  <1>8. ~(p < Len(x) /\ p < Len(y) /\ x[Len(x) - p] = y[Len(y) - p])
    <2> SUFFICES ASSUME p < Len(x), p < Len(y), x[Len(x) - p] = y[Len(y) - p] PROVE FALSE
      OBVIOUS
    <2>1. /\ p + 1 \in 1..Len(x) /\ p + 1 \in 1..Len(y)
          /\ Len(x) - (p + 1) + 1 = Len(x) - p /\ Len(y) - (p + 1) + 1 = Len(y) - p
      BY <1>4
    <2>2. rx[p + 1] = x[Len(x) - p] /\ ry[p + 1] = y[Len(y) - p]
      BY <1>1, <2>1
    <2>3. QED
      BY <1>4, <2>2
  <1>9. QED
    BY <1>4, <1>6, <1>7, <1>8 DEF tail, EndAlike

-----------------------------------------------------------------------------
(* What is in a file.                                                      *)

Words ==
  {"note", "Decisions"} \cup Machines \cup Nat \cup Entries \cup {Title[d] : d \in Entries}
  \cup UNION {UNION {Range(l.text) : l \in Range(Reason[d])} : d \in Entries}
Lines == [kind : {"top", "heading", "marker", "text"}, text : Seq(Words), nl : BOOLEAN]

HeadLine(d) == Line("heading", <<Title[d]>>)
MarkLine(d) == Line("marker", <<d>>)

\* A line with the newline it may lack.
Ending(l) == [l EXCEPT !.nl = TRUE]

\* z is what the union driver makes of x and y: their p common lines, q of x, and the rest
\* of y, whose last t lines are also those of x.
MergedOf(z, x, y, p, q, t) ==
  /\ z \in Seq(Lines) /\ Len(z) = q + Len(y)
  /\ q \in Nat /\ t \in Nat /\ p + q + t = Len(x) /\ p + t <= Len(y)
  /\ Alike(x, y, p)
  /\ \A k \in 1..t : x[p + q + k] = y[Len(y) - t + k]
  /\ ~(q > 0 /\ p + t < Len(y) /\ x[p + q] = y[Len(y) - t])
  /\ \A i \in 1..(p + q) : z[i] = x[i] \/ z[i] = Ending(x[i])
  /\ \A i \in (p + q + 1)..(q + Len(y)) : z[i] = y[i - q]

LEMMA EndingIs == \A l \in Lines : Ending(l) \in Lines
  BY DEF Lines, Ending

LEMMA ClosedIs ==
  ASSUME NEW s \in Seq(Lines)
  PROVE  /\ Closed(s) \in Seq(Lines) /\ Len(Closed(s)) = Len(s)
         /\ \A i \in 1..Len(s) : Closed(s)[i] = s[i] \/ Closed(s)[i] = Ending(s[i])
         /\ \A i \in 1..Len(s) : Closed(s)[i] = IF i = Len(s) THEN Ending(s[i]) ELSE s[i]
  <1>1. CASE s = <<>>
    BY <1>1 DEF Closed
  <1>2. CASE s # <<>>
    <2> DEFINE n == Len(s)
    <2>1. n \in 1..Len(s) /\ s[n] \in Lines
      BY <1>2
    <2>2. Closed(s) = [s EXCEPT ![n] = Ending(s[n])]
      BY <1>2 DEF Closed, Ending
    <2>3. Ending(s[n]) \in Lines
      BY <2>1, EndingIs
    <2>4. QED
      BY <2>1, <2>2, <2>3
  <1>3. QED
    BY <1>1, <1>2

LEMMA UnionIs ==
  ASSUME NEW x \in Seq(Lines), NEW y \in Seq(Lines), NEW origin, x # origin, y # origin
  PROVE  \E p, q, t \in Nat : MergedOf(Union(x, y, origin), x, y, p, q, t)
  <1> DEFINE head == CommonHead(x, y)
             p == Len(head)
             a == SubSeq(x, p + 1, Len(x))
             b == SubSeq(y, p + 1, Len(y))
             tail == CommonTail(a, b)
             t == Len(tail)
             ra == SubSeq(a, 1, Len(a) - t)
             rb == SubSeq(b, 1, Len(b) - t)
             q == Len(x) - p - t
             w == Len(y) - p - t
             mid == IF rb \o tail = <<>> THEN a ELSE Closed(ra)
             z == head \o mid \o rb \o tail
  <1>1. Union(x, y, origin) = z
    BY DEF Union
  <1>2. head = SubSeq(x, 1, p) /\ Alike(x, y, p)
    BY CommonHeadIs
  <1>3. /\ p \in Nat /\ p <= Len(x) /\ p <= Len(y)
        /\ \A i \in 1..p : x[i] = y[i]
        /\ ~(p < Len(x) /\ p < Len(y) /\ x[p + 1] = y[p + 1])
    BY <1>2 DEF Alike
  <1> HIDE DEF head
  <1>4. head \in Seq(Lines) /\ \A i \in 1..p : head[i] = x[i]
    <2> HIDE DEF p
    <2>1. /\ 1 \in 1..(Len(x) + 1) /\ p \in (1 - 1)..Len(x) /\ p - 1 + 1 = p
          /\ \A i \in 1..p : 1 + i - 1 = i
      BY <1>3
    <2>2. QED
      BY <1>2, <2>1, PartOf
  <1> HIDE DEF p
  <1>5. /\ a \in Seq(Lines) /\ Len(a) = Len(x) - p /\ \A i \in 1..(Len(x) - p) : a[i] = x[p + i]
        /\ b \in Seq(Lines) /\ Len(b) = Len(y) - p /\ \A i \in 1..(Len(y) - p) : b[i] = y[p + i]
    <2>1. /\ p + 1 \in 1..(Len(x) + 1) /\ Len(x) \in (p + 1 - 1)..Len(x)
          /\ p + 1 \in 1..(Len(y) + 1) /\ Len(y) \in (p + 1 - 1)..Len(y)
          /\ Len(x) - (p + 1) + 1 = Len(x) - p /\ Len(y) - (p + 1) + 1 = Len(y) - p
      BY <1>3
    <2>2. ASSUME NEW i \in Nat PROVE p + 1 + i - 1 = p + i
      BY <1>3
    <2>3. /\ a \in Seq(Lines) /\ Len(a) = Len(x) - (p + 1) + 1
          /\ \A i \in 1..(Len(x) - (p + 1) + 1) : a[i] = x[p + 1 + i - 1]
      BY ONLY <2>1, x \in Seq(Lines), PartOf
    <2>4. /\ b \in Seq(Lines) /\ Len(b) = Len(y) - (p + 1) + 1
          /\ \A i \in 1..(Len(y) - (p + 1) + 1) : b[i] = y[p + 1 + i - 1]
      BY ONLY <2>1, y \in Seq(Lines), PartOf
    <2> HIDE DEF a, b
    <2>5. ASSUME NEW i \in 1..(Len(x) - p) PROVE a[i] = x[p + i]
      <3>1. i \in Nat /\ a[i] = x[p + 1 + i - 1]
        BY <2>1, <2>3
      <3>2. QED
        BY ONLY <2>2, <3>1
    <2>6. ASSUME NEW i \in 1..(Len(y) - p) PROVE b[i] = y[p + i]
      <3>1. i \in Nat /\ b[i] = y[p + 1 + i - 1]
        BY <2>1, <2>4
      <3>2. QED
        BY ONLY <2>2, <3>1
    <2>7. QED
      BY <2>1, <2>3, <2>4, <2>5, <2>6
  <1> HIDE DEF a, b
  <1>6. /\ tail \in Seq(Lines) /\ EndAlike(a, b, t)
        /\ \A k \in 1..t : tail[k] = b[Len(b) - t + k]
    BY <1>5, CommonTailIs
  <1>7. /\ t \in Nat /\ t <= Len(a) /\ t <= Len(b)
        /\ \A k \in 1..t : a[Len(a) - t + k] = b[Len(b) - t + k]
        /\ ~(t < Len(a) /\ t < Len(b) /\ a[Len(a) - t] = b[Len(b) - t])
    BY <1>6 DEF EndAlike
  <1> HIDE DEF tail
  <1>8. q \in Nat /\ w \in Nat /\ Len(a) - t = q /\ Len(b) - t = w
    BY <1>3, <1>5, <1>7
  <1>9. /\ ra \in Seq(Lines) /\ Len(ra) = q /\ \A i \in 1..q : ra[i] = x[p + i]
        /\ rb \in Seq(Lines) /\ Len(rb) = w /\ \A i \in 1..w : rb[i] = y[p + i]
    <2>1. /\ 1 \in 1..(Len(a) + 1) /\ q \in (1 - 1)..Len(a) /\ q - 1 + 1 = q
          /\ 1 \in 1..(Len(b) + 1) /\ w \in (1 - 1)..Len(b) /\ w - 1 + 1 = w
          /\ \A i \in Nat : 1 + i - 1 = i
      BY <1>3, <1>5, <1>7
    <2> HIDE DEF q, w
    <2>2. /\ SubSeq(a, 1, q) \in Seq(Lines) /\ Len(SubSeq(a, 1, q)) = q
          /\ \A i \in 1..q : SubSeq(a, 1, q)[i] = a[i]
      BY ONLY <1>5, <2>1, PartOf
    <2>3. /\ SubSeq(b, 1, w) \in Seq(Lines) /\ Len(SubSeq(b, 1, w)) = w
          /\ \A i \in 1..w : SubSeq(b, 1, w)[i] = b[i]
      BY ONLY <1>5, <2>1, PartOf
    <2>4. (\A i \in 1..q : i \in 1..(Len(x) - p)) /\ \A i \in 1..w : i \in 1..(Len(y) - p)
      BY <1>3, <1>7, <1>8 DEF q, w
    <2>5. QED
      BY <1>5, <1>8, <2>2, <2>3, <2>4
  <1> HIDE DEF ra, rb
  <1>10. \A k \in 1..t : tail[k] = y[p + w + k] /\ x[p + q + k] = y[p + w + k]
    <2> SUFFICES ASSUME NEW k \in 1..t PROVE tail[k] = y[p + w + k] /\ x[p + q + k] = y[p + w + k]
      OBVIOUS
    <2>1. /\ q + k \in 1..(Len(x) - p) /\ w + k \in 1..(Len(y) - p)
          /\ p + (q + k) = p + q + k /\ p + (w + k) = p + w + k
      BY <1>3, <1>5, <1>7
    <2>2. tail[k] = b[w + k] /\ a[q + k] = b[w + k]
      BY <1>6, <1>7, <1>8
    <2>3. QED
      BY <1>5, <2>1, <2>2
  <1>11. /\ p + q + t = Len(x) /\ p + w + t = Len(y) /\ p + t <= Len(y)
         /\ Len(y) - t = p + w
    <2>1. /\ p \in Nat /\ q \in Nat /\ w \in Nat /\ t \in Nat
          /\ Len(x) \in Nat /\ Len(y) \in Nat
          /\ Len(a) = Len(x) - p /\ Len(b) = Len(y) - p
      BY <1>3, <1>5, <1>7, <1>8
    <2>2. Len(x) - p - t = q /\ Len(y) - p - t = w
      BY <1>8, <2>1
    <2>3. QED
      BY ONLY <2>1, <2>2
  <1>12. ~(q > 0 /\ p + t < Len(y) /\ x[p + q] = y[Len(y) - t])
    <2> SUFFICES ASSUME q > 0, p + t < Len(y), x[p + q] = y[Len(y) - t] PROVE FALSE
      OBVIOUS
    <2>1. t < Len(a) /\ t < Len(b) /\ q \in 1..(Len(x) - p) /\ w \in 1..(Len(y) - p)
      BY <1>3, <1>5, <1>7, <1>8, <1>11
    <2>2. a[q] = x[p + q] /\ b[w] = y[p + w]
      BY <1>5, <2>1
    <2>3. QED
      BY <1>7, <1>8, <1>11, <2>1, <2>2
  <1>13. /\ mid \in Seq(Lines) /\ Len(mid) = q
         /\ \A i \in 1..q : mid[i] = x[p + i] \/ mid[i] = Ending(x[p + i])
    <2>1. CASE rb \o tail = <<>>
      <3>1. rb \in Seq(Lines) /\ tail \in Seq(Lines) /\ Len(rb) = w
        BY <1>6, <1>9
      <3>2. w + t = 0
        <4>1. Len(rb \o tail) = Len(rb) + Len(tail)
          BY ONLY <3>1, Joined
        <4>2. Len(rb \o tail) = 0
          BY ONLY <2>1
        <4>3. QED
          BY ONLY <3>1, <4>1, <4>2
      <3>4. w = 0 /\ t = 0
        BY <1>7, <1>8, <3>2
      <3>3. QED
        BY <1>5, <1>8, <2>1, <3>4
    <2>2. CASE rb \o tail # <<>>
      BY <1>9, <2>2, ClosedIs
    <2>3. QED
      BY <2>1, <2>2
  <1> HIDE DEF mid, q, w, t
  <1>14. /\ head \o mid \in Seq(Lines) /\ Len(head \o mid) = p + q
         /\ \A i \in 1..p : (head \o mid)[i] = x[i]
         /\ \A i \in 1..q : (head \o mid)[p + i] = mid[i]
    <2>1. Len(head) = p
      BY DEF p
    <2>2. head \in Seq(Lines) /\ mid \in Seq(Lines) /\ Len(mid) = q /\ \A i \in 1..p : head[i] = x[i]
      BY <1>4, <1>13
    <2>3. /\ head \o mid \in Seq(Lines) /\ Len(head \o mid) = Len(head) + Len(mid)
          /\ \A i \in 1..Len(head) : (head \o mid)[i] = head[i]
          /\ \A i \in 1..Len(mid) : (head \o mid)[Len(head) + i] = mid[i]
      BY ONLY <2>2, Joined
    <2>4. QED
      BY ONLY <2>1, <2>2, <2>3
  <1> DEFINE u == head \o mid
             v == u \o rb
  <1> HIDE DEF u
  <1>15. /\ v \in Seq(Lines) /\ Len(v) = p + q + w
         /\ \A i \in 1..(p + q) : v[i] = u[i]
         /\ \A i \in 1..w : v[p + q + i] = rb[i]
    <2>1. u \in Seq(Lines) /\ Len(u) = p + q /\ rb \in Seq(Lines) /\ Len(rb) = w
      BY <1>9, <1>14 DEF u
    <2>2. /\ u \o rb \in Seq(Lines) /\ Len(u \o rb) = Len(u) + Len(rb)
          /\ \A i \in 1..Len(u) : (u \o rb)[i] = u[i]
          /\ \A i \in 1..Len(rb) : (u \o rb)[Len(u) + i] = rb[i]
      <3>1. u \in Seq(Lines) /\ rb \in Seq(Lines)
        BY <2>1
      <3>2. QED
        BY ONLY <3>1, Joined
    <2>3. QED
      BY ONLY <2>1, <2>2
  <1>16. z = v \o tail
    BY DEF u
  <1> HIDE DEF v, z
  <1>17. /\ z \in Seq(Lines) /\ Len(z) = p + q + w + t
         /\ \A i \in 1..(p + q + w) : z[i] = v[i]
         /\ \A i \in 1..t : z[p + q + w + i] = tail[i]
    <2>1. Len(tail) = t
      BY DEF t
    <2>2. tail \in Seq(Lines) /\ v \in Seq(Lines) /\ Len(v) = p + q + w
      BY <1>6, <1>15
    <2>3. /\ v \o tail \in Seq(Lines) /\ Len(v \o tail) = Len(v) + Len(tail)
          /\ \A i \in 1..Len(v) : (v \o tail)[i] = v[i]
          /\ \A i \in 1..Len(tail) : (v \o tail)[Len(v) + i] = tail[i]
      <3>1. v \in Seq(Lines) /\ tail \in Seq(Lines)
        BY <2>2
      <3>2. QED
        BY ONLY <3>1, Joined
    <2>4. QED
      BY ONLY <1>16, <2>1, <2>2, <2>3
  <1>18. ASSUME NEW i \in 1..(p + q) PROVE z[i] = x[i] \/ z[i] = Ending(x[i])
    <2>1. z[i] = u[i]
      BY <1>3, <1>8, <1>15, <1>17
    <2>2. CASE i \in 1..p
      BY <1>14, <2>1, <2>2 DEF u
    <2>3. CASE i \notin 1..p
      <3>1. i - p \in 1..q /\ p + (i - p) = i
        BY <1>3, <1>8, <2>3
      <3>2. QED
        BY <1>13, <1>14, <2>1, <3>1 DEF u
    <2>4. QED
      BY <2>2, <2>3
  <1>19. ASSUME NEW i \in (p + q + 1)..(q + Len(y)) PROVE z[i] = y[i - q]
    <2>1. CASE i <= p + q + w
      <3>1. i - p - q \in 1..w /\ p + q + (i - p - q) = i /\ p + (i - p - q) = i - q
        BY <1>3, <1>8, <2>1
      <3>2. i \in 1..(p + q + w)
        BY <1>3, <1>8, <2>1
      <3>3. z[i] = rb[i - p - q]
        BY <1>15, <1>17, <3>1, <3>2
      <3>4. QED
        BY <1>9, <3>1, <3>3
    <2>2. CASE i > p + q + w
      <3>1. /\ i - p - q - w \in 1..t /\ p + q + w + (i - p - q - w) = i
            /\ p + w + (i - p - q - w) = i - q
        BY <1>3, <1>7, <1>8, <1>11, <2>2
      <3>2. z[i] = tail[i - p - q - w]
        BY <1>17, <3>1
      <3>3. QED
        BY <1>10, <3>1, <3>2
    <2>3. QED
      BY <1>3, <1>8, <2>1, <2>2
  <1>20. Len(z) = q + Len(y)
    <2>1. Len(z) = p + q + w + t /\ p + w + t = Len(y) /\ p \in Nat /\ q \in Nat /\ w \in Nat /\ t \in Nat
      BY <1>3, <1>7, <1>8, <1>11, <1>17
    <2>2. QED
      BY ONLY <2>1
  <1>21. MergedOf(z, x, y, p, q, t)
    BY <1>2, <1>7, <1>8, <1>10, <1>11, <1>12, <1>17, <1>18, <1>19, <1>20 DEF MergedOf
  <1>22. QED
    BY <1>1, <1>3, <1>7, <1>8, <1>21

\* Where the heading of d stands, its marker follows.
Paired(lines, d) ==
  /\ \A i \in 1..Len(lines) : lines[i] = HeadLine(d) => i < Len(lines) /\ lines[i + 1] = MarkLine(d)
  /\ \A i \in 1..Len(lines) : lines[i] = MarkLine(d) => 1 < i /\ lines[i - 1] = HeadLine(d)

Marks(lines, d) == \E i \in 1..Len(lines) : lines[i] = MarkLine(d)

\* A line without a newline is the user's.
Loose(l) == l.nl = FALSE => l.kind # "marker" /\ Len(l.text) > 1

LEMMA Longer ==
  ASSUME NEW t, NEW a, Len(t) > 1
  PROVE  t # <<a>>
  <1> SUFFICES ASSUME t = <<a>> PROVE FALSE
    OBVIOUS
  <1>1. Len(t) = 1
    OBVIOUS
  <1>2. QED
    BY <1>1

\* A line that is made to end is no heading of a decision, and no marker.
LEMMA EndingKeeps ==
  ASSUME NEW l \in Lines, Loose(l), NEW d
  PROVE  /\ Ending(l) = HeadLine(d) <=> l = HeadLine(d)
         /\ Ending(l) = MarkLine(d) <=> l = MarkLine(d)
         /\ Loose(Ending(l))
  <1>1. CASE l.nl = TRUE
    <2>1. Ending(l) = l
      BY <1>1 DEF Ending, Lines
    <2>2. QED
      BY <1>1, <2>1 DEF Loose
  <1>2. CASE l.nl = FALSE
    <2>1. l.kind # "marker" /\ Len(l.text) > 1
      BY <1>2 DEF Loose
    <2>2. Ending(l).kind = l.kind /\ Ending(l).text = l.text /\ Ending(l).nl = TRUE
      BY DEF Ending, Lines
    <2>3. /\ HeadLine(d).text = <<Title[d]>> /\ MarkLine(d).kind = "marker"
          /\ HeadLine(d).nl = TRUE /\ MarkLine(d).nl = TRUE
      BY DEF HeadLine, MarkLine, Line
    <2>4. Len(<<Title[d]>>) = 1
      OBVIOUS
    <2>5. Ending(l) # HeadLine(d) /\ l # HeadLine(d) /\ l # MarkLine(d) /\ Ending(l) # MarkLine(d)
      <3>1. l.text # <<Title[d]>>
        BY <2>1, Longer
      <3>2. QED
        BY <1>2, <2>1, <2>2, <2>3, <3>1
    <2>6. Loose(Ending(l))
      BY <2>2 DEF Loose
    <2>7. QED
      BY <2>5, <2>6
  <1>3. QED
    BY <1>1, <1>2 DEF Lines

\* A heading and its marker stay together in a merge.
LEMMA MergePairs ==
  ASSUME NEW x \in Seq(Lines), NEW y \in Seq(Lines), NEW z, NEW p, NEW q, NEW t,
         MergedOf(z, x, y, p, q, t), NEW d, Paired(x, d), Paired(y, d),
         \A i \in 1..Len(x) : Loose(x[i])
  PROVE  Paired(z, d)
  <1>1. /\ z \in Seq(Lines) /\ Len(z) = q + Len(y)
        /\ p \in Nat /\ q \in Nat /\ t \in Nat /\ p + q + t = Len(x) /\ p + t <= Len(y)
        /\ \A i \in 1..p : x[i] = y[i]
        /\ ~(p < Len(x) /\ p < Len(y) /\ x[p + 1] = y[p + 1])
        /\ \A k \in 1..t : x[p + q + k] = y[Len(y) - t + k]
        /\ ~(q > 0 /\ p + t < Len(y) /\ x[p + q] = y[Len(y) - t])
        /\ \A i \in (p + q + 1)..(q + Len(y)) : z[i] = y[i - q]
    BY DEF MergedOf, Alike
  <1>2. \A i \in 1..(p + q) : i \in 1..Len(x) /\ (z[i] = HeadLine(d) <=> x[i] = HeadLine(d))
                              /\ (z[i] = MarkLine(d) <=> x[i] = MarkLine(d))
    <2> SUFFICES ASSUME NEW i \in 1..(p + q)
                 PROVE  /\ i \in 1..Len(x) /\ (z[i] = HeadLine(d) <=> x[i] = HeadLine(d))
                        /\ (z[i] = MarkLine(d) <=> x[i] = MarkLine(d))
      OBVIOUS
    <2>1. i \in 1..Len(x)
      BY <1>1
    <2>2. x[i] \in Lines /\ Loose(x[i]) /\ (z[i] = x[i] \/ z[i] = Ending(x[i]))
      BY <2>1 DEF MergedOf
    <2>3. QED
      BY <2>1, <2>2, EndingKeeps
  <1>3. /\ \A i \in 1..Len(x) : x[i] = HeadLine(d) => i < Len(x) /\ x[i + 1] = MarkLine(d)
        /\ \A i \in 1..Len(x) : x[i] = MarkLine(d) => 1 < i /\ x[i - 1] = HeadLine(d)
        /\ \A i \in 1..Len(y) : y[i] = HeadLine(d) => i < Len(y) /\ y[i + 1] = MarkLine(d)
        /\ \A i \in 1..Len(y) : y[i] = MarkLine(d) => 1 < i /\ y[i - 1] = HeadLine(d)
    BY DEF Paired
  <1>4. /\ p \in Nat /\ q \in Nat /\ t \in Nat /\ Len(x) \in Nat /\ Len(y) \in Nat /\ Len(z) \in Nat
        /\ Len(z) = q + Len(y) /\ p + q + t = Len(x) /\ p + t <= Len(y)
    BY <1>1
  \* What both begin with does not end in the heading.
  <1>5. ASSUME p \in 1..p, x[p] = HeadLine(d) PROVE FALSE
    <2>1. p \in 1..Len(x) /\ p \in 1..Len(y)
      BY ONLY <1>4, <1>5
    <2>2. x[p] = y[p]
      BY <1>1, <1>5
    <2>3. p < Len(x) /\ x[p + 1] = MarkLine(d) /\ p < Len(y) /\ y[p + 1] = MarkLine(d)
      BY ONLY <1>3, <1>5, <2>1, <2>2
    <2>4. QED
      BY <1>1, <2>3
  \* What both end with does not begin with the marker.
  <1>6. ASSUME q > 0, t > 0, x[p + q] = HeadLine(d) PROVE FALSE
    <2>1. p + q \in 1..Len(x) /\ 1 \in 1..t
      BY ONLY <1>4, <1>6
    <2>2. x[p + q + 1] = MarkLine(d)
      BY ONLY <1>3, <1>6, <2>1
    <2>3. x[p + q + 1] = y[Len(y) - t + 1]
      BY <1>1, <2>1
    <2> DEFINE j == Len(y) - t + 1
    <2>0. j \in 1..Len(y) /\ j = Len(y) - t + 1 /\ j - 1 = Len(y) - t
      BY ONLY <1>4, <2>1
    <2> HIDE DEF j
    <2>4. 1 < Len(y) - t + 1 /\ y[Len(y) - t] = HeadLine(d)
      <3>1. y[j] = MarkLine(d)
        BY ONLY <2>0, <2>2, <2>3
      <3>2. 1 < j /\ y[j - 1] = HeadLine(d)
        BY ONLY <1>3, <2>0, <3>1
      <3>3. QED
        BY ONLY <2>0, <3>2
    <2>5. ~(p + t < Len(y))
      BY <1>1, <1>6, <2>4
    <2>6. Len(y) - t = p /\ p \in 1..p
      BY ONLY <1>4, <2>4, <2>5
    <2>7. x[p] = y[p]
      BY <1>1, <2>6
    <2>8. QED
      BY ONLY <1>5, <2>4, <2>6, <2>7
  <1>7. ASSUME NEW i \in 1..Len(z), z[i] = HeadLine(d) PROVE i < Len(z) /\ z[i + 1] = MarkLine(d)
    <2>1. CASE i <= p + q
      <3>1. i \in 1..(p + q)
        BY ONLY <1>4, <1>7, <2>1
      <3>2. i \in 1..Len(x) /\ x[i] = HeadLine(d)
        BY <1>2, <1>7, <3>1
      <3>3. i < Len(x) /\ x[i + 1] = MarkLine(d)
        BY ONLY <1>3, <3>2
      <3>4. CASE i < p + q
        <4>1. i + 1 \in 1..(p + q) /\ i < Len(z)
          BY ONLY <1>4, <3>1, <3>4
        <4>2. QED
          BY <1>2, <3>3, <4>1
      <3>5. CASE i = p + q
        <4>1. t > 0
          BY ONLY <1>4, <3>3, <3>5
        <4>2. q = 0
          BY ONLY <1>4, <1>6, <3>2, <3>5, <4>1
        <4>3. i = p /\ p \in 1..p
          BY ONLY <1>4, <3>1, <3>5, <4>2
        <4>4. QED
          BY ONLY <1>5, <3>2, <4>3
      <3>6. QED
        BY ONLY <1>4, <2>1, <3>1, <3>4, <3>5
    <2>2. CASE i > p + q
      <3>1. i \in (p + q + 1)..(q + Len(y)) /\ i - q \in 1..Len(y)
        BY ONLY <1>4, <1>7, <2>2
      <3>2. y[i - q] = HeadLine(d)
        BY <1>1, <1>7, <3>1
      <3>3. i - q < Len(y) /\ y[i - q + 1] = MarkLine(d)
        BY ONLY <1>3, <3>1, <3>2
      <3>4. /\ i + 1 \in (p + q + 1)..(q + Len(y)) /\ i + 1 - q = i - q + 1
            /\ i < Len(z)
        BY ONLY <1>4, <3>1, <3>3
      <3>5. z[i + 1] = y[i + 1 - q]
        BY <1>1, <3>4
      <3>6. QED
        BY ONLY <3>3, <3>4, <3>5
    <2>3. QED
      BY ONLY <1>4, <1>7, <2>1, <2>2
  <1>8. ASSUME NEW i \in 1..Len(z), z[i] = MarkLine(d) PROVE 1 < i /\ z[i - 1] = HeadLine(d)
    <2>1. CASE i <= p + q
      <3>1. i \in 1..(p + q)
        BY ONLY <1>4, <1>8, <2>1
      <3>2. i \in 1..Len(x) /\ x[i] = MarkLine(d)
        BY <1>2, <1>8, <3>1
      <3>3. 1 < i /\ x[i - 1] = HeadLine(d)
        BY ONLY <1>3, <3>2
      <3>4. i - 1 \in 1..(p + q)
        BY ONLY <1>4, <3>1, <3>3
      <3>5. QED
        BY <1>2, <3>3, <3>4
    <2>2. CASE i > p + q
      <3>1. i \in (p + q + 1)..(q + Len(y)) /\ i - q \in 1..Len(y)
        BY ONLY <1>4, <1>8, <2>2
      <3>2. y[i - q] = MarkLine(d)
        BY <1>1, <1>8, <3>1
      <3>3. 1 < i - q /\ y[i - q - 1] = HeadLine(d)
        BY ONLY <1>3, <3>1, <3>2
      <3>4. CASE i - 1 > p + q
        <4>1. i - 1 \in (p + q + 1)..(q + Len(y)) /\ i - 1 - q = i - q - 1 /\ 1 < i
          BY ONLY <1>4, <3>1, <3>4
        <4>2. z[i - 1] = y[i - 1 - q]
          BY <1>1, <4>1
        <4>3. QED
          BY ONLY <3>3, <4>1, <4>2
      <3>5. CASE i = p + q + 1
        <4>1. i - q - 1 = p /\ p \in 1..p
          BY ONLY <1>4, <3>3, <3>5
        <4>2. x[p] = y[p]
          BY <1>1, <4>1
        <4>3. QED
          BY ONLY <1>5, <3>3, <4>1, <4>2
      <3>6. QED
        BY ONLY <1>4, <2>2, <3>1, <3>4, <3>5
    <2>3. QED
      BY ONLY <1>4, <1>8, <2>1, <2>2
  <1>9. QED
    BY <1>7, <1>8 DEF Paired

\* A merge has the markers of both, and every line of it comes from one of them.
LEMMA MergeMarks ==
  ASSUME NEW x \in Seq(Lines), NEW y \in Seq(Lines), NEW z, NEW p, NEW q, NEW t,
         MergedOf(z, x, y, p, q, t),
         \A i \in 1..Len(x) : Loose(x[i]), \A i \in 1..Len(y) : Loose(y[i])
  PROVE  /\ z \in Seq(Lines) /\ \A i \in 1..Len(z) : Loose(z[i])
         /\ \A d : Marks(z, d) <=> Marks(x, d) \/ Marks(y, d)
         /\ \A d : \A i \in 1..Len(z) : z[i] = HeadLine(d) =>
              \/ \E j \in 1..Len(x) : x[j] = HeadLine(d)
              \/ \E j \in 1..Len(y) : y[j] = HeadLine(d)
  <1>1. /\ z \in Seq(Lines) /\ Len(z) = q + Len(y)
        /\ p \in Nat /\ q \in Nat /\ t \in Nat /\ p + q + t = Len(x) /\ p + t <= Len(y)
        /\ \A i \in 1..p : x[i] = y[i]
        /\ \A k \in 1..t : x[p + q + k] = y[Len(y) - t + k]
        /\ \A i \in (p + q + 1)..(q + Len(y)) : z[i] = y[i - q]
    BY DEF MergedOf, Alike
  <1>2. ASSUME NEW i \in 1..(p + q)
        PROVE  /\ i \in 1..Len(x) /\ i \in 1..Len(z) /\ Loose(z[i])
               /\ \A d : (z[i] = HeadLine(d) <=> x[i] = HeadLine(d))
                         /\ (z[i] = MarkLine(d) <=> x[i] = MarkLine(d))
    <2>1. i \in 1..Len(x) /\ i \in 1..Len(z)
      BY <1>1
    <2>2. x[i] \in Lines /\ Loose(x[i])
      BY <2>1
    <2>3. z[i] = x[i] \/ z[i] = Ending(x[i])
      BY DEF MergedOf
    <2>4. QED
      BY <2>1, <2>2, <2>3, EndingKeeps
  <1>3. ASSUME NEW i \in 1..Len(z), i > p + q
        PROVE  i - q \in 1..Len(y) /\ z[i] = y[i - q]
    <2>1. p \in Nat /\ q \in Nat /\ Len(y) \in Nat /\ Len(z) = q + Len(y)
      BY <1>1
    <2>2. i - q \in 1..Len(y) /\ i \in (p + q + 1)..(q + Len(y))
      BY ONLY <1>3, <2>1, i \in 1..Len(z)
    <2>3. QED
      BY <1>1, <2>2
  <1>4. \A i \in 1..Len(z) : i \in 1..(p + q) \/ i > p + q
    BY <1>1
  <1>5. ASSUME NEW d, Marks(x, d) PROVE Marks(z, d)
    <2>1. PICK i \in 1..Len(x) : x[i] = MarkLine(d)
      BY <1>5 DEF Marks
    <2>2. CASE i <= p + q
      <3>1. i \in 1..(p + q)
        BY <1>1, <2>2
      <3>2. QED
        BY <1>2, <2>1, <3>1 DEF Marks
    <2>3. CASE i > p + q
      <3>1. i - p - q \in 1..t /\ p + q + (i - p - q) = i
        BY <1>1, <2>3
      <3>2. y[Len(y) - t + (i - p - q)] = MarkLine(d)
        BY <1>1, <2>1, <3>1
      <3> DEFINE j == q + (Len(y) - t + (i - p - q))
      <3>3. j \in (p + q + 1)..(q + Len(y)) /\ j \in 1..Len(z) /\ j - q = Len(y) - t + (i - p - q)
        BY <1>1, <3>1
      <3>4. QED
        BY <1>1, <3>2, <3>3 DEF Marks
    <2>4. QED
      BY <1>1, <2>2, <2>3
  <1>6. ASSUME NEW d, Marks(y, d) PROVE Marks(z, d)
    <2>1. PICK j \in 1..Len(y) : y[j] = MarkLine(d)
      BY <1>6 DEF Marks
    <2>2. CASE j <= p
      <3>1. j \in 1..(p + q) /\ x[j] = MarkLine(d)
        BY <1>1, <2>1, <2>2
      <3>2. QED
        BY <1>2, <3>1 DEF Marks
    <2>3. CASE j > p
      <3>1. j + q \in (p + q + 1)..(q + Len(y)) /\ j + q \in 1..Len(z) /\ j + q - q = j
        BY <1>1, <2>3
      <3>2. z[j + q] = y[j + q - q]
        BY <1>1, <3>1
      <3>3. QED
        BY <2>1, <3>1, <3>2 DEF Marks
    <2>4. QED
      BY <1>1, <2>2, <2>3
  <1>7. ASSUME NEW d, Marks(z, d) PROVE Marks(x, d) \/ Marks(y, d)
    BY <1>2, <1>3, <1>4, <1>7 DEF Marks
  <1>8. ASSUME NEW i \in 1..Len(z) PROVE Loose(z[i])
    BY <1>2, <1>3, <1>4
  <1>9. ASSUME NEW d, NEW i \in 1..Len(z), z[i] = HeadLine(d)
        PROVE  \/ \E j \in 1..Len(x) : x[j] = HeadLine(d)
               \/ \E j \in 1..Len(y) : y[j] = HeadLine(d)
    BY <1>2, <1>3, <1>4, <1>9
  <1>10. QED
    BY <1>1, <1>5, <1>6, <1>7, <1>8, <1>9

\* Of what is recorded in a file, its marker is there; a heading is that of a decision
\* recorded, or one that such a decision repeats; and a decision whose heading is not
\* repeated and was not appended to a line of the user's has its marker after it.
Tidy(lines, rec, g) ==
  /\ lines \in Seq(Lines) /\ \A i \in 1..Len(lines) : Loose(lines[i])
  /\ \A d \in Entries : d \in rec <=> Marks(lines, d)
  /\ \A d \in Entries : \A i \in 1..Len(lines) :
       lines[i] = HeadLine(d) => \E e \in rec : e = d \/ Repeats(e, d)
  /\ \A d \in rec \ g : (\A e \in rec : ~Repeats(e, d)) => Paired(lines, d)

LEMMA TidyOfMore ==
  ASSUME NEW lines, NEW rec, NEW g, NEW h, Tidy(lines, rec, g), g \subseteq h
  PROVE  Tidy(lines, rec, h)
  BY DEF Tidy

\* A decision whose heading none of all that there are repeats.
LEMMA PairedIn ==
  ASSUME NEW lines, NEW rec \in SUBSET Entries, NEW g, Tidy(lines, rec, g), NEW all, rec \subseteq all,
         NEW d \in Entries, d \notin g, \A e \in all : ~Repeats(e, d)
  PROVE  Paired(lines, d)
  <1>1. CASE d \in rec
    BY <1>1 DEF Tidy
  <1>2. CASE d \notin rec
    <2>1. \A i \in 1..Len(lines) : lines[i] # MarkLine(d)
      BY <1>2 DEF Tidy, Marks
    <2>2. \A i \in 1..Len(lines) : lines[i] # HeadLine(d)
      BY <1>2 DEF Tidy
    <2>3. QED
      BY <2>1, <2>2 DEF Paired
  <1>3. QED
    BY <1>1, <1>2

LEMMA TidyMerged ==
  ASSUME NEW x, NEW y, NEW r \in SUBSET Entries, NEW s \in SUBSET Entries, NEW g,
         Tidy(x, r, g), Tidy(y, s, g), NEW z, NEW p, NEW q, NEW t, MergedOf(z, x, y, p, q, t)
  PROVE  Tidy(z, r \cup s, g)
  <1>1. /\ x \in Seq(Lines) /\ \A i \in 1..Len(x) : Loose(x[i])
        /\ y \in Seq(Lines) /\ \A i \in 1..Len(y) : Loose(y[i])
    BY DEF Tidy
  <1>2. /\ z \in Seq(Lines) /\ \A i \in 1..Len(z) : Loose(z[i])
        /\ \A d : Marks(z, d) <=> Marks(x, d) \/ Marks(y, d)
        /\ \A d : \A i \in 1..Len(z) : z[i] = HeadLine(d) =>
              \/ \E j \in 1..Len(x) : x[j] = HeadLine(d)
              \/ \E j \in 1..Len(y) : y[j] = HeadLine(d)
    BY <1>1, MergeMarks
  <1>3. \A d \in Entries : d \in r \cup s <=> Marks(z, d)
    BY <1>2 DEF Tidy
  <1>4. ASSUME NEW d \in Entries, NEW i \in 1..Len(z), z[i] = HeadLine(d)
        PROVE  \E e \in r \cup s : e = d \/ Repeats(e, d)
    BY <1>2, <1>4 DEF Tidy
  <1>5. ASSUME NEW d \in (r \cup s) \ g, \A e \in r \cup s : ~Repeats(e, d)
        PROVE  Paired(z, d)
    <2>1. d \in Entries /\ d \notin g /\ r \subseteq r \cup s /\ s \subseteq r \cup s
      OBVIOUS
    <2>2. Paired(x, d) /\ Paired(y, d)
      BY <1>5, <2>1, PairedIn
    <2>3. QED
      BY <1>1, <2>2, MergePairs
  <1>6. QED
    BY <1>2, <1>3, <1>4, <1>5 DEF Tidy

LEMMA TidyJoined ==
  ASSUME NEW x, NEW y, NEW r \in SUBSET Entries, NEW s \in SUBSET Entries, NEW g,
         Tidy(x, r, g), Tidy(y, s, g)
  PROVE  Tidy(x \o y, r \cup s, g)
  <1> DEFINE z == x \o y
             n == Len(x)
             m == Len(y)
  <1>1. /\ x \in Seq(Lines) /\ \A i \in 1..n : Loose(x[i])
        /\ y \in Seq(Lines) /\ \A i \in 1..m : Loose(y[i])
    BY DEF Tidy
  <1>2. /\ z \in Seq(Lines) /\ Len(z) = n + m /\ n \in Nat /\ m \in Nat
        /\ \A i \in 1..n : z[i] = x[i]
        /\ \A i \in 1..m : z[n + i] = y[i]
    BY <1>1, Joined
  <1> HIDE DEF z, n, m
  <1>3. ASSUME NEW i \in 1..Len(z), i \notin 1..n
        PROVE  i - n \in 1..m /\ n + (i - n) = i /\ z[i] = y[i - n]
    <2>1. i - n \in 1..m /\ n + (i - n) = i
      BY <1>2, <1>3
    <2>2. z[n + (i - n)] = y[i - n]
      BY <1>2, <2>1
    <2>3. QED
      BY <2>1, <2>2
  <1>4. \A i \in 1..n : i \in 1..Len(z)
    BY <1>2
  <1>5. \A i \in 1..m : n + i \in 1..Len(z)
    BY <1>2
  <1>6. ASSUME NEW i \in 1..Len(z) PROVE Loose(z[i])
    BY <1>1, <1>2, <1>3
  <1>7. ASSUME NEW d \in Entries PROVE d \in r \cup s <=> Marks(z, d)
    <2>1. Marks(z, d) <=> Marks(x, d) \/ Marks(y, d)
      BY <1>2, <1>3, <1>4, <1>5 DEF Marks, n, m
    <2>2. QED
      BY <2>1 DEF Tidy
  <1>8. ASSUME NEW d \in Entries, NEW i \in 1..Len(z), z[i] = HeadLine(d)
        PROVE  \E e \in r \cup s : e = d \/ Repeats(e, d)
    <2>1. CASE i \in 1..n
      BY <1>2, <1>8, <2>1 DEF Tidy, n
    <2>2. CASE i \notin 1..n
      BY <1>3, <1>8, <2>2 DEF Tidy, m
    <2>3. QED
      BY <2>1, <2>2
  <1>9. ASSUME NEW d \in (r \cup s) \ g, \A e \in r \cup s : ~Repeats(e, d)
        PROVE  Paired(z, d)
    <2>1. d \in Entries /\ d \notin g /\ r \subseteq r \cup s /\ s \subseteq r \cup s
      OBVIOUS
    <2>2. Paired(x, d) /\ Paired(y, d)
      BY <1>9, <2>1, PairedIn
    <2>3. /\ \A i \in 1..n : x[i] = HeadLine(d) => i < n /\ x[i + 1] = MarkLine(d)
          /\ \A i \in 1..n : x[i] = MarkLine(d) => 1 < i /\ x[i - 1] = HeadLine(d)
          /\ \A i \in 1..m : y[i] = HeadLine(d) => i < m /\ y[i + 1] = MarkLine(d)
          /\ \A i \in 1..m : y[i] = MarkLine(d) => 1 < i /\ y[i - 1] = HeadLine(d)
      BY <2>2 DEF Paired, n, m
    <2>4. ASSUME NEW i \in 1..Len(z)
          PROVE  /\ z[i] = HeadLine(d) => i < Len(z) /\ z[i + 1] = MarkLine(d)
                 /\ z[i] = MarkLine(d) => 1 < i /\ z[i - 1] = HeadLine(d)
      <3>1. CASE i \in 1..n
        <4>1. z[i] = HeadLine(d) => i + 1 \in 1..n /\ i < Len(z) /\ x[i + 1] = MarkLine(d)
          BY <1>2, <2>3, <3>1
        <4>2. z[i] = MarkLine(d) => i - 1 \in 1..n /\ 1 < i /\ x[i - 1] = HeadLine(d)
          BY <1>2, <2>3, <3>1
        <4>3. QED
          BY <1>2, <4>1, <4>2
      <3>2. CASE i \notin 1..n
        <4>0. /\ Len(z) = n + m /\ n \in Nat /\ m \in Nat /\ i \in 1..Len(z)
          BY <1>2
        <4>1. i - n \in 1..m /\ n + (i - n) = i /\ z[i] = y[i - n]
          BY <1>3, <3>2
        <4>5. \A k \in 1..m : z[n + k] = y[k]
          BY <1>2
        <4>2. ASSUME z[i] = HeadLine(d) PROVE i < Len(z) /\ z[i + 1] = MarkLine(d)
          <5>1. i - n < m /\ y[i - n + 1] = MarkLine(d)
            BY <2>3, <4>1, <4>2
          <5>2. i - n + 1 \in 1..m /\ n + (i - n + 1) = i + 1 /\ i < Len(z)
            BY ONLY <4>0, <4>1, <5>1
          <5>3. z[n + (i - n + 1)] = y[i - n + 1]
            BY ONLY <4>5, <5>2
          <5>4. QED
            BY ONLY <5>1, <5>2, <5>3
        <4>3. ASSUME z[i] = MarkLine(d) PROVE 1 < i /\ z[i - 1] = HeadLine(d)
          <5>1. 1 < i - n /\ y[i - n - 1] = HeadLine(d)
            BY <2>3, <4>1, <4>3
          <5>2. i - n - 1 \in 1..m /\ n + (i - n - 1) = i - 1 /\ 1 < i
            BY ONLY <4>0, <4>1, <5>1
          <5>3. z[n + (i - n - 1)] = y[i - n - 1]
            BY ONLY <4>5, <5>2
          <5>4. QED
            BY ONLY <5>1, <5>2, <5>3
        <4>4. QED
          BY <4>2, <4>3
      <3>3. QED
        BY <3>1, <3>2
    <2>5. QED
      BY <2>4 DEF Paired
  <1>10. QED
    BY <1>2, <1>6, <1>7, <1>8, <1>9 DEF Tidy, z

\* Lines that are headings and markers where those of x are.
LEMMA TidyAs ==
  ASSUME NEW x, NEW r \in SUBSET Entries, NEW g, Tidy(x, r, g),
         NEW u \in Seq(Lines), Len(u) = Len(x),
         \A i \in 1..Len(x) : Loose(u[i]),
         \A i \in 1..Len(x) : \A d \in Entries : u[i] = HeadLine(d) <=> x[i] = HeadLine(d),
         \A i \in 1..Len(x) : \A d \in Entries : u[i] = MarkLine(d) <=> x[i] = MarkLine(d)
  PROVE  Tidy(u, r, g)
  <1>1. \A d \in Entries : d \in r <=> Marks(u, d)
    BY DEF Tidy, Marks
  <1>2. \A d \in Entries : \A i \in 1..Len(u) : u[i] = HeadLine(d) =>
           \E e \in r : e = d \/ Repeats(e, d)
    BY DEF Tidy
  <1>3. ASSUME NEW d \in r \ g, \A e \in r : ~Repeats(e, d) PROVE Paired(u, d)
    <2>1. d \in Entries /\ Paired(x, d) /\ x \in Seq(Lines)
      BY <1>3 DEF Tidy
    <2>2. ASSUME NEW i \in 1..Len(u)
          PROVE  /\ u[i] = HeadLine(d) => i < Len(u) /\ u[i + 1] = MarkLine(d)
                 /\ u[i] = MarkLine(d) => 1 < i /\ u[i - 1] = HeadLine(d)
      <3>1. /\ x[i] = HeadLine(d) => i < Len(x) /\ x[i + 1] = MarkLine(d)
            /\ x[i] = MarkLine(d) => 1 < i /\ x[i - 1] = HeadLine(d)
        BY <2>1 DEF Paired
      <3>2. /\ i < Len(x) => i + 1 \in 1..Len(x)
            /\ 1 < i => i - 1 \in 1..Len(x)
        OBVIOUS
      <3>3. QED
        BY <2>1, <3>1, <3>2
    <2>3. QED
      BY <2>2 DEF Paired
  <1>4. QED
    BY <1>1, <1>2, <1>3 DEF Tidy

LEMMA LinesOf ==
  ASSUME NEW d \in Entries
  PROVE  /\ HeadLine(d) \in Lines /\ MarkLine(d) \in Lines
         /\ HeadLine(d).kind = "heading" /\ HeadLine(d).text = <<Title[d]>> /\ HeadLine(d).nl = TRUE
         /\ MarkLine(d).kind = "marker" /\ MarkLine(d).text = <<d>> /\ MarkLine(d).nl = TRUE
         /\ \A e \in Entries : /\ HeadLine(e) = HeadLine(d) => Title[e] = Title[d]
                               /\ MarkLine(e) = MarkLine(d) => e = d
                               /\ HeadLine(e) # MarkLine(d)
  <1>1. Title[d] \in Words /\ d \in Words
    BY DEF Words
  <1>2. <<Title[d]>> \in Seq(Words) /\ <<d>> \in Seq(Words)
    BY <1>1
  <1>3. /\ HeadLine(d) = [kind |-> "heading", text |-> <<Title[d]>>, nl |-> TRUE]
        /\ MarkLine(d) = [kind |-> "marker", text |-> <<d>>, nl |-> TRUE]
    BY DEF HeadLine, MarkLine, Line
  <1>4. HeadLine(d) \in Lines /\ MarkLine(d) \in Lines
    BY <1>2, <1>3 DEF Lines
  <1>5. ASSUME NEW e \in Entries
        PROVE  /\ HeadLine(e) = HeadLine(d) => Title[e] = Title[d]
               /\ MarkLine(e) = MarkLine(d) => e = d
               /\ HeadLine(e) # MarkLine(d)
    <2>1. HeadLine(e).text = <<Title[e]>> /\ MarkLine(e).text = <<e>> /\ HeadLine(e).kind = "heading"
      BY DEF HeadLine, MarkLine, Line
    <2>2. HeadLine(d).text = <<Title[d]>> /\ MarkLine(d).text = <<d>> /\ MarkLine(d).kind = "marker"
      BY <1>3
    <2>3. <<Title[e]>> = <<Title[d]>> => Title[e] = Title[d]
      OBVIOUS
    <2>4. <<e>> = <<d>> => e = d
      OBVIOUS
    <2>5. QED
      BY <2>1, <2>2, <2>3, <2>4
  <1>6. QED
    BY <1>3, <1>4, <1>5

LEMMA Wider ==
  ASSUME NEW A, NEW B, A \subseteq B, NEW s \in Seq(A)
  PROVE  s \in Seq(B)
  <1>1. s \in [1..Len(s) -> B] /\ Len(s) \in Nat
    OBVIOUS
  <1>2. QED
    BY <1>1

\* The lines of a reason are no markers, and one that is a heading repeats it.
LEMMA ReasonsAre ==
  ASSUME NEW d \in Entries
  PROVE  /\ Reason[d] \in Seq(Lines)
         /\ \A i \in 1..Len(Reason[d]) :
              /\ Loose(Reason[d][i])
              /\ \A e \in Entries : /\ Reason[d][i] # MarkLine(e)
                                    /\ Reason[d][i] = HeadLine(e) => Repeats(d, e)
  <1>1. /\ Reason[d] \in Seq(Range(Reason[d]))
        /\ \A l \in Range(Reason[d]) :
             l \in [kind : {"heading", "text"}, text : Seq(Range(l.text)), nl : {TRUE}]
    BY DecisionsAssumption DEF DecisionsAssumption
  <1>2. ASSUME NEW l \in Range(Reason[d])
        PROVE  /\ l \in Lines /\ l.kind # "marker" /\ l.nl = TRUE
               /\ \A e \in Entries : l # MarkLine(e) /\ (l = HeadLine(e) => Repeats(d, e))
    <2>1. Range(l.text) \subseteq Words
      BY DEF Words
    <2>2. l.text \in Seq(Words)
      <3>1. l.text \in Seq(Range(l.text))
        BY <1>1
      <3>2. QED
        BY <2>1, <3>1, Wider
    <2>3. l \in Lines /\ l.kind # "marker" /\ l.nl = TRUE
      BY <1>1, <2>2 DEF Lines
    <2>4. ASSUME NEW e \in Entries PROVE l # MarkLine(e) /\ (l = HeadLine(e) => Repeats(d, e))
      <3>1. /\ HeadLine(e).kind = "heading" /\ HeadLine(e).text = <<Title[e]>>
            /\ MarkLine(e).kind = "marker"
        BY LinesOf
      <3>2. QED
        BY <2>3, <3>1 DEF Repeats
    <2>5. QED
      BY <2>3, <2>4
  <1>3. \A i \in 1..Len(Reason[d]) : Reason[d][i] \in Range(Reason[d])
    BY <1>1 DEF Range
  <1>4. Reason[d] \in Seq(Lines)
    <2>1. Range(Reason[d]) \subseteq Lines
      BY <1>2
    <2>2. QED
      BY <1>1, <2>1, Wider
  <1>5. QED
    BY <1>2, <1>3, <1>4 DEF Loose

\* What is appended is in order by itself.
LEMMA RenderTidy ==
  ASSUME NEW d \in Entries, NEW g
  PROVE  /\ RenderDecision(d) = <<HeadLine(d)>> \o (<<MarkLine(d)>> \o Reason[d])
         /\ Tidy(RenderDecision(d), {d}, g)
         /\ d \in g => Tidy(<<MarkLine(d)>> \o Reason[d], {d}, g)
  <1> DEFINE r == Reason[d]
             t == <<MarkLine(d)>> \o r
             z == <<HeadLine(d)>> \o t
             n == Len(r)
  <1>1. /\ r \in Seq(Lines)
        /\ \A i \in 1..n : /\ Loose(r[i])
                           /\ \A e \in Entries : /\ r[i] # MarkLine(e)
                                                 /\ r[i] = HeadLine(e) => Repeats(d, e)
    BY ReasonsAre
  <1>2. /\ HeadLine(d) \in Lines /\ MarkLine(d) \in Lines
        /\ Loose(HeadLine(d)) /\ Loose(MarkLine(d))
    BY LinesOf DEF Loose
  <1> HIDE DEF r
  <1>3. /\ t \in Seq(Lines) /\ Len(t) = n + 1 /\ n \in Nat /\ t[1] = MarkLine(d)
        /\ \A i \in 2..(n + 1) : t[i] = r[i - 1]
    <2>1. t = [i \in 1..(n + 1) |-> IF i = 1 THEN MarkLine(d) ELSE r[i - 1]] /\ n \in Nat
      BY <1>1
    <2>2. \A i \in 1..(n + 1) : i # 1 => i - 1 \in 1..n /\ r[i - 1] \in Lines
      BY <1>1, <2>1
    <2> HIDE DEF t, n
    <2>3. QED
      BY <1>2, <2>1, <2>2
  <1>4. /\ z \in Seq(Lines) /\ Len(z) = n + 2 /\ z[1] = HeadLine(d) /\ z[2] = MarkLine(d)
        /\ \A i \in 3..(n + 2) : z[i] = r[i - 2]
    <2> HIDE DEF t, n
    <2>1. z = [i \in 1..(n + 2) |-> IF i = 1 THEN HeadLine(d) ELSE t[i - 1]]
      BY <1>3
    <2>2. \A i \in 1..(n + 2) : i # 1 => i - 1 \in 1..(n + 1) /\ t[i - 1] \in Lines
      BY <1>3
    <2>3. \A i \in 3..(n + 2) : i - 1 \in 2..(n + 1) /\ i - 1 - 1 = i - 2
      BY <1>3
    <2> HIDE DEF z
    <2>4. z \in Seq(Lines) /\ Len(z) = n + 2 /\ \A i \in 1..(n + 2) : z[i] = IF i = 1 THEN HeadLine(d) ELSE t[i - 1]
      BY <1>2, <1>3, <2>1, <2>2
    <2>5. z[1] = HeadLine(d) /\ z[2] = t[1]
      BY <1>3, <2>4
    <2>6. ASSUME NEW i \in 3..(n + 2) PROVE z[i] = r[i - 2]
      <3>1. z[i] = t[i - 1]
        BY <1>3, <2>4
      <3>2. QED
        BY <1>3, <2>3, <3>1
    <2>7. QED
      BY <1>3, <2>4, <2>5, <2>6
  <1>5. RenderDecision(d) = z
    <2>1. <<HeadLine(d), MarkLine(d)>> \o r = z
      <3>1. <<HeadLine(d), MarkLine(d)>> = <<HeadLine(d)>> \o <<MarkLine(d)>>
        OBVIOUS
      <3>2. <<HeadLine(d)>> \in Seq(Lines) /\ <<MarkLine(d)>> \in Seq(Lines)
        BY <1>2
      <3>3. (<<HeadLine(d)>> \o <<MarkLine(d)>>) \o r = <<HeadLine(d)>> \o (<<MarkLine(d)>> \o r)
        BY <1>1, <3>2
      <3>4. QED
        BY <3>1, <3>3
    <2>2. QED
      BY <2>1 DEF RenderDecision, HeadLine, MarkLine, r
  <1> HIDE DEF t, z, n
  <1>6. /\ \A i \in 1..(n + 1) : i = 1 \/ (i \in 2..(n + 1) /\ i - 1 \in 1..n)
        /\ \A i \in 1..(n + 2) : i = 1 \/ i = 2 \/ (i \in 3..(n + 2) /\ i - 2 \in 1..n)
        /\ 1 \in 1..(n + 1) /\ 1 \in 1..(n + 2) /\ 2 \in 1..(n + 2)
    BY <1>3
  <1>7. /\ \A i \in 1..(n + 1) : i # 1 =>
             /\ Loose(t[i])
             /\ \A e \in Entries : t[i] # MarkLine(e) /\ (t[i] = HeadLine(e) => Repeats(d, e))
        /\ \A i \in 1..(n + 2) : i # 1 /\ i # 2 =>
             /\ Loose(z[i])
             /\ \A e \in Entries : z[i] # MarkLine(e) /\ (z[i] = HeadLine(e) => Repeats(d, e))
    BY <1>1, <1>3, <1>4, <1>6 DEF n
  <1>8. Tidy(z, {d}, g)
    <2>1. \A i \in 1..Len(z) : Loose(z[i])
      BY <1>2, <1>4, <1>7
    <2>2. \A e \in Entries : \A i \in 1..Len(z) :
            /\ z[i] = MarkLine(e) => e = d /\ i = 2
            /\ z[i] = HeadLine(e) => (d = e /\ i = 1) \/ Repeats(d, e)
      <3> SUFFICES ASSUME NEW e \in Entries, NEW i \in 1..Len(z)
                   PROVE  /\ z[i] = MarkLine(e) => e = d /\ i = 2
                          /\ z[i] = HeadLine(e) => (d = e /\ i = 1) \/ Repeats(d, e)
        OBVIOUS
      <3>1. /\ HeadLine(e) = HeadLine(d) => Title[e] = Title[d]
            /\ MarkLine(e) = MarkLine(d) => e = d
            /\ HeadLine(e) # MarkLine(d) /\ HeadLine(d) # MarkLine(e)
        BY LinesOf
      <3>2. i \in 1..(n + 2)
        BY <1>4
      <3>3. CASE i = 1 \/ i = 2
        BY <1>4, <3>1, <3>3 DEF Repeats
      <3>4. CASE i # 1 /\ i # 2
        BY <1>7, <3>2, <3>4
      <3>5. QED
        BY <3>3, <3>4
    <2>3. \A e \in Entries : e \in {d} <=> Marks(z, e)
      BY <1>4, <1>6, <2>2 DEF Marks
    <2>4. ~Repeats(d, d) => Paired(z, d)
      BY <1>3, <1>4, <2>2 DEF Paired
    <2>5. QED
      BY <1>4, <2>1, <2>2, <2>3, <2>4 DEF Tidy
  <1>9. ASSUME d \in g PROVE Tidy(t, {d}, g)
    <2>1. \A i \in 1..Len(t) : Loose(t[i])
      BY <1>2, <1>3, <1>7
    <2>2. \A e \in Entries : \A i \in 1..Len(t) :
            /\ t[i] = MarkLine(e) => e = d
            /\ t[i] = HeadLine(e) => Repeats(d, e)
      <3> SUFFICES ASSUME NEW e \in Entries, NEW i \in 1..Len(t)
                   PROVE  (t[i] = MarkLine(e) => e = d) /\ (t[i] = HeadLine(e) => Repeats(d, e))
        OBVIOUS
      <3>1. (MarkLine(e) = MarkLine(d) => e = d) /\ HeadLine(e) # MarkLine(d)
        BY LinesOf
      <3>2. i \in 1..(n + 1)
        BY <1>3
      <3>3. QED
        BY <1>3, <1>7, <3>1, <3>2
    <2>3. \A e \in Entries : e \in {d} <=> Marks(t, e)
      BY <1>3, <1>6, <2>2 DEF Marks
    <2>4. QED
      BY <1>3, <1>9, <2>1, <2>2, <2>3 DEF Tidy
  <1>10. QED
    BY <1>5, <1>8, <1>9 DEF z, t, r

LEMMA ClosedTidy ==
  ASSUME NEW x, NEW r \in SUBSET Entries, NEW g, Tidy(x, r, g)
  PROVE  Tidy(Closed(x), r, g)
  <1> DEFINE u == Closed(x)
  <1>1. x \in Seq(Lines) /\ \A i \in 1..Len(x) : Loose(x[i])
    BY DEF Tidy
  <1>2. /\ u \in Seq(Lines) /\ Len(u) = Len(x)
        /\ \A i \in 1..Len(x) : u[i] = x[i] \/ u[i] = Ending(x[i])
    BY <1>1, ClosedIs
  <1> HIDE DEF u
  <1>3. ASSUME NEW i \in 1..Len(x)
        PROVE  /\ Loose(u[i])
               /\ \A d \in Entries : /\ u[i] = HeadLine(d) <=> x[i] = HeadLine(d)
                                     /\ u[i] = MarkLine(d) <=> x[i] = MarkLine(d)
    <2>1. x[i] \in Lines /\ Loose(x[i])
      BY <1>1
    <2>2. QED
      BY <1>2, <2>1, EndingKeeps
  <1>4. QED
    BY <1>2, <1>3, TidyAs DEF u

LEMMA HeaderTidy ==
  ASSUME NEW g
  PROVE  Tidy(Header, {}, g)
  <1>1. <<"Decisions">> \in Seq(Words)
    BY DEF Words
  <1> DEFINE top == Line("top", <<"Decisions">>)
  <1>2. top \in Lines /\ top.kind = "top" /\ top.nl = TRUE
    BY <1>1 DEF Line, Lines
  <1> HIDE DEF top
  <1>3. Header \in Seq(Lines) /\ Len(Header) = 1 /\ \A i \in 1..Len(Header) : Header[i] = top
    BY <1>2 DEF Header, top
  <1>4. \A d \in Entries : top # HeadLine(d) /\ top # MarkLine(d)
    <2> SUFFICES ASSUME NEW d \in Entries PROVE top # HeadLine(d) /\ top # MarkLine(d)
      OBVIOUS
    <2>1. HeadLine(d).kind = "heading" /\ MarkLine(d).kind = "marker"
      BY LinesOf
    <2>2. QED
      BY <1>2, <2>1
  <1>5. Loose(top)
    BY <1>2 DEF Loose
  <1>6. QED
    BY <1>3, <1>4, <1>5 DEF Tidy, Marks

\* A line of the user's, by itself.
LEMMA NoteTidy ==
  ASSUME NEW g, NEW m \in Machines, NEW k \in Nat, NEW sort \in {"heading", "text"}, NEW nl \in BOOLEAN
  PROVE  Tidy(<<[Line(sort, <<"note", m, k>>) EXCEPT !.nl = nl]>>, {}, g)
  <1> DEFINE l == [Line(sort, <<"note", m, k>>) EXCEPT !.nl = nl]
             text == <<"note", m, k>>
             s == <<l>>
  <1>1. "note" \in Words /\ m \in Words /\ k \in Words
    BY DEF Words
  <1>2. text \in Seq(Words) /\ Len(text) = 3
    BY <1>1
  <1>3. l = [kind |-> sort, text |-> text, nl |-> nl]
    BY DEF Line
  <1> HIDE DEF text, l
  <1>4. l \in Lines /\ l.kind = sort /\ l.text = text
    BY <1>2, <1>3 DEF Lines
  <1>5. \A d \in Entries : l # HeadLine(d) /\ l # MarkLine(d)
    <2> SUFFICES ASSUME NEW d \in Entries PROVE l # HeadLine(d) /\ l # MarkLine(d)
      OBVIOUS
    <2>1. HeadLine(d).text = <<Title[d]>> /\ MarkLine(d).kind = "marker"
      BY LinesOf
    <2>2. Len(<<Title[d]>>) = 1
      OBVIOUS
    <2>3. text # <<Title[d]>>
      BY <1>2, <2>2
    <2>4. l.kind # "marker"
      BY <1>4
    <2>5. QED
      BY <1>4, <2>1, <2>3, <2>4
  <1>6. Loose(l)
    <2>1. l.kind # "marker" /\ Len(l.text) = 3
      BY <1>2, <1>4
    <2>2. QED
      BY <2>1 DEF Loose
  <1>7. s \in Seq(Lines) /\ Len(s) = 1 /\ \A i \in 1..Len(s) : s[i] = l
    BY <1>4
  <1> HIDE DEF s
  <1>8. Tidy(s, {}, g)
    BY <1>5, <1>6, <1>7 DEF Tidy, Marks
  <1>9. QED
    BY <1>8 DEF s, l, text

LEMMA Retexted ==
  ASSUME NEW l \in Lines, NEW w \in Seq(Words)
  PROVE  LET v == [l EXCEPT !.text = w, !.nl = TRUE]
         IN v \in Lines /\ v.kind = l.kind /\ v.text = w /\ v.nl = TRUE
  BY DEF Lines

\* The heading goes on on the line that does not end, and is none.
LEMMA GluedTidy ==
  ASSUME NEW x, NEW r \in SUBSET Entries, NEW g, Tidy(x, r, g), ~Ended(x), NEW d \in Entries
  PROVE  Tidy(Front(x) \o <<[Last(x) EXCEPT !.text = @ \o HeadLine(d).text, !.nl = TRUE]>>, r, g)
  <1> DEFINE n == Len(x)
             l == x[n]
             v == [l EXCEPT !.text = @ \o HeadLine(d).text, !.nl = TRUE]
             f == Front(x)
             u == f \o <<v>>
  <1>1. x \in Seq(Lines) /\ \A i \in 1..n : Loose(x[i])
    BY DEF Tidy
  <1>2. n \in 1..n /\ n \in Nat
    <2>1. x # <<>>
      BY DEF Ended
    <2>2. QED
      BY <1>1, <2>1
  <1>0. ~l.nl
    BY DEF Ended, Last
  <1>3. l \in Lines /\ Loose(l)
    BY <1>1, <1>2
  <1>4. l.nl = FALSE /\ l.kind # "marker" /\ l.text \in Seq(Words) /\ Len(l.text) > 1
    BY <1>0, <1>3 DEF Lines, Loose
  <1>5. HeadLine(d).text \in Seq(Words) /\ Len(HeadLine(d).text) = 1
    <2>1. HeadLine(d).text = <<Title[d]>> /\ Title[d] \in Words
      BY LinesOf DEF Words
    <2>2. QED
      BY <2>1
  <1> DEFINE more == HeadLine(d).text
  <1> HIDE DEF more, l
  <1>6. l.text \o more \in Seq(Words) /\ Len(l.text \o more) = Len(l.text) + 1
    <2>1. more \in Seq(Words) /\ Len(more) = 1 /\ l.text \in Seq(Words)
      BY <1>4, <1>5 DEF more
    <2>2. l.text \o more \in Seq(Words) /\ Len(l.text \o more) = Len(l.text) + Len(more)
      <3>1. l.text \in Seq(Words) /\ more \in Seq(Words)
        BY <2>1
      <3>2. QED
        BY ONLY <3>1, Joined
    <2>3. QED
      BY <2>1, <2>2
  <1>7. v \in Lines /\ v.kind = l.kind /\ v.text = l.text \o more /\ v.nl = TRUE
    <2>1. v = [l EXCEPT !.text = l.text \o more, !.nl = TRUE]
      BY <1>3 DEF Lines, more
    <2>2. QED
      BY <1>3, <1>6, <2>1, Retexted
  <1> HIDE DEF v
  <1>8. v \in Lines /\ Loose(v) /\ v.kind # "marker" /\ Len(v.text) > 1
    BY <1>4, <1>6, <1>7 DEF Loose
  <1>9. f \in Seq(Lines) /\ Len(f) = n - 1 /\ \A i \in 1..(n - 1) : f[i] = x[i]
    <2>1. 1 \in 1..(Len(x) + 1) /\ n - 1 \in (1 - 1)..Len(x) /\ n - 1 - 1 + 1 = n - 1
      BY <1>2
    <2>2. \A i \in 1..(n - 1) : 1 + i - 1 = i
      OBVIOUS
    <2>3. QED
      BY <1>1, <2>1, <2>2, PartOf DEF Front
  <1> HIDE DEF f
  <1>10. u \in Seq(Lines) /\ Len(u) = n /\ u[n] = v /\ \A i \in 1..(n - 1) : u[i] = x[i]
    BY <1>2, <1>8, <1>9
  <1> HIDE DEF u
  <1>11. ASSUME NEW i \in 1..n
         PROVE  /\ Loose(u[i])
                /\ \A e \in Entries : /\ u[i] = HeadLine(e) <=> x[i] = HeadLine(e)
                                      /\ u[i] = MarkLine(e) <=> x[i] = MarkLine(e)
    <2>1. CASE i = n
      <3>1. ASSUME NEW e \in Entries
            PROVE  /\ u[i] # HeadLine(e) /\ x[i] # HeadLine(e)
                   /\ u[i] # MarkLine(e) /\ x[i] # MarkLine(e)
        <4>1. HeadLine(e).text = <<Title[e]>> /\ MarkLine(e).kind = "marker" /\ Len(<<Title[e]>>) = 1
          BY LinesOf
        <4>2. x[i] = l
          BY <2>1 DEF l
        <4>3. v.text # <<Title[e]>> /\ l.text # <<Title[e]>>
          BY <1>4, <1>8, Longer
        <4>4. QED
          BY <1>4, <1>8, <1>10, <2>1, <4>1, <4>2, <4>3
      <3>2. QED
        BY <1>8, <1>10, <2>1, <3>1
    <2>2. CASE i # n
      <3>1. i \in 1..(n - 1)
        BY <1>2, <2>2
      <3>2. QED
        BY <1>1, <1>10, <3>1
    <2>3. QED
      BY <2>1, <2>2
  <1>12. Tidy(u, r, g)
    BY <1>10, <1>11, TidyAs
  <1>13. QED
    BY <1>12 DEF u, f, v, l, Last

LEMMA AppendTidy ==
  ASSUME NEW x, NEW r \in SUBSET Entries, NEW g, Tidy(x, r, g), NEW d \in Entries
  PROVE  Tidy(AppendLines(x, RenderDecision(d)), r \cup {d}, IF Ended(x) THEN g ELSE g \cup {d})
  <1> DEFINE more == RenderDecision(d)
             t == <<MarkLine(d)>> \o Reason[d]
             h == g \cup {d}
  <1>1. /\ more = <<HeadLine(d)>> \o t /\ Tidy(more, {d}, g) /\ Tidy(t, {d}, h)
    BY RenderTidy
  <1> HIDE DEF more
  <1>2. {d} \in SUBSET Entries
    OBVIOUS
  <1>3. CASE Ended(x)
    <2>1. Tidy(x \o more, r \cup {d}, g)
      BY <1>1, <1>2, TidyJoined
    <2>2. QED
      BY <1>3, <2>1 DEF AppendLines, more
  <1>4. CASE ~Ended(x)
    <2>1. t \in Seq(Lines)
      BY <1>1 DEF Tidy
    <2> HIDE DEF t
    <2>2. Head(more) = HeadLine(d) /\ Tail(more) = t
      <3>1. HeadLine(d) \in Lines
        BY LinesOf
      <3>2. QED
        BY <1>1, <2>1, <3>1
    <2> DEFINE u == Front(x) \o <<[Last(x) EXCEPT !.text = @ \o HeadLine(d).text, !.nl = TRUE]>>
    <2>3. Tidy(u, r, h)
      BY <1>4, GluedTidy, TidyOfMore
    <2>4. AppendLines(x, more) = u \o t
      BY <1>4, <2>2 DEF AppendLines
    <2> HIDE DEF u
    <2>5. Tidy(u \o t, r \cup {d}, h)
      BY <1>1, <1>2, <2>3, TidyJoined
    <2>6. QED
      BY <1>4, <2>4, <2>5 DEF more
  <1>5. QED
    BY <1>3, <1>4

-----------------------------------------------------------------------------
(* The states.                                                             *)

\* Every file is tidy for what is recorded in it, and what a machine had at its last sync
\* both it and the shared history still have.
FilesTidy ==
  /\ recorded \in [Machines -> SUBSET Entries] /\ pushed \in SUBSET Entries
  /\ file \in [Machines -> Seq(Lines)] /\ base \in [Machines -> Seq(Lines)]
  /\ notes \in [Machines -> Nat]
  /\ \A m \in Machines : Tidy(file[m], recorded[m], glued)
  /\ Tidy(shared, pushed, glued)
  /\ \A m \in Machines : \A d \in Entries : Marks(base[m], d) => d \in recorded[m] /\ d \in pushed

LEMMA TidyNext ==
  ASSUME recorded' \in [Machines -> SUBSET Entries], pushed' \in SUBSET Entries,
         file' \in [Machines -> Seq(Lines)], base' \in [Machines -> Seq(Lines)],
         notes' \in [Machines -> Nat],
         \A m \in Machines : Tidy(file'[m], recorded'[m], glued'),
         Tidy(shared', pushed', glued'),
         \A m \in Machines : \A d \in Entries : Marks(base'[m], d) => d \in recorded'[m] /\ d \in pushed'
  PROVE  FilesTidy'
  <1>1. Tidy(shared, pushed, glued)'
    BY DEF Tidy, Marks, Paired
  <1>2. \A m \in Machines : Tidy(file[m], recorded[m], glued)'
    BY DEF Tidy, Marks, Paired
  <1>3. \A m \in Machines : \A d \in Entries : Marks(base[m], d)' => d \in recorded[m]' /\ d \in pushed'
    BY DEF Marks
  <1>4. QED
    BY <1>1, <1>2, <1>3 DEF FilesTidy

LEMMA RecordsTidily ==
  ASSUME FilesTidy, NEW m \in Machines, NEW d \in Entries, RecordDecision(m, d)
  PROVE  FilesTidy'
  <1> DEFINE existing == IF file[m] = <<>> THEN Header ELSE file[m]
             new == AppendLines(existing, RenderDecision(d))
             g == IF Ended(existing) THEN glued ELSE glued \cup {d}
  <1>1. /\ file' = [file EXCEPT ![m] = new]
        /\ recorded' = [recorded EXCEPT ![m] = @ \cup {d}]
        /\ glued' = IF Ended(file[m]) THEN glued ELSE glued \cup {d}
        /\ base' = base /\ shared' = shared /\ pushed' = pushed /\ notes' = notes
    BY DEF RecordDecision
  <1>2. Tidy(existing, recorded[m], glued) /\ glued' = g
    <2>1. CASE file[m] = <<>>
      <3>1. Tidy(file[m], recorded[m], glued) /\ recorded[m] \in SUBSET Entries
        BY DEF FilesTidy
      <3>2. \A e \in Entries : e \notin recorded[m]
        BY <2>1, <3>1 DEF Tidy, Marks
      <3>3. recorded[m] = {}
        BY <3>1, <3>2
      <3>4. Ended(Header) /\ Ended(file[m])
        BY <2>1 DEF Ended, Header, Line, Last
      <3>5. QED
        BY <1>1, <2>1, <3>3, <3>4, HeaderTidy
    <2>2. CASE file[m] # <<>>
      BY <1>1, <2>2 DEF FilesTidy
    <2>3. QED
      BY <2>1, <2>2
  <1> HIDE DEF existing
  <1>3. Tidy(new, recorded[m] \cup {d}, glued')
    <2>1. recorded[m] \in SUBSET Entries
      BY DEF FilesTidy
    <2>2. QED
      BY <1>2, <2>1, AppendTidy
  <1>4. glued \subseteq glued'
    BY <1>1
  <1> HIDE DEF new, g
  <1>5. /\ recorded' \in [Machines -> SUBSET Entries] /\ recorded'[m] = recorded[m] \cup {d}
        /\ \A n \in Machines : recorded[n] \subseteq recorded'[n] /\ (n # m => recorded'[n] = recorded[n])
    BY <1>1 DEF FilesTidy
  <1>6. /\ file' \in [Machines -> Seq(Lines)] /\ file'[m] = new
        /\ \A n \in Machines : n # m => file'[n] = file[n]
    <2>1. new \in Seq(Lines)
      BY <1>3 DEF Tidy
    <2>2. QED
      BY <1>1, <2>1 DEF FilesTidy
  <1>7. ASSUME NEW n \in Machines PROVE Tidy(file'[n], recorded'[n], glued')
    <2>1. CASE n = m
      BY <1>3, <1>5, <1>6, <2>1
    <2>2. CASE n # m
      <3>1. Tidy(file[n], recorded[n], glued)
        BY DEF FilesTidy
      <3>2. QED
        BY <1>4, <1>5, <1>6, <2>2, <3>1, TidyOfMore
    <2>3. QED
      BY <2>1, <2>2
  <1>8. Tidy(shared', pushed', glued')
    <2>1. Tidy(shared, pushed, glued)
      BY DEF FilesTidy
    <2>2. QED
      BY <1>1, <1>4, <2>1, TidyOfMore
  <1>9. \A n \in Machines : \A e \in Entries : Marks(base'[n], e) => e \in recorded'[n] /\ e \in pushed'
    BY <1>1, <1>5 DEF FilesTidy
  <1>10. pushed' \in SUBSET Entries /\ base' \in [Machines -> Seq(Lines)] /\ notes' \in [Machines -> Nat]
    BY <1>1 DEF FilesTidy
  <1>11. QED
    BY <1>5, <1>6, <1>7, <1>8, <1>9, <1>10, TidyNext

LEMMA NotesTidily ==
  ASSUME FilesTidy, NEW m \in Machines, Note(m)
  PROVE  FilesTidy'
  <1>1. PICK sort \in {"heading", "text"}, nl \in BOOLEAN :
          file' = [file EXCEPT ![m] =
                     Append([file[m] EXCEPT ![Len(file[m])].nl = TRUE],
                            [Line(sort, <<"note", m, notes[m]>>) EXCEPT !.nl = nl])]
    BY DEF Note
  <1> DEFINE note == [Line(sort, <<"note", m, notes[m]>>) EXCEPT !.nl = nl]
             new == Closed(file[m]) \o <<note>>
  <1>2. /\ file[m] # <<>> /\ notes' = [notes EXCEPT ![m] = @ + 1]
        /\ base' = base /\ shared' = shared /\ recorded' = recorded /\ pushed' = pushed
        /\ glued' = glued
    BY DEF Note
  <1>3. Tidy(file[m], recorded[m], glued) /\ recorded[m] \in SUBSET Entries
    BY DEF FilesTidy
  <1>4. Tidy(Closed(file[m]), recorded[m], glued)
    BY <1>3, ClosedTidy
  <1>5. Tidy(<<note>>, {}, glued)
    <2>1. notes[m] \in Nat
      BY DEF FilesTidy
    <2>2. QED
      BY <2>1, NoteTidy
  <1>6. Tidy(new, recorded[m], glued)
    <2>1. {} \in SUBSET Entries /\ recorded[m] \cup {} = recorded[m]
      OBVIOUS
    <2> HIDE DEF note
    <2>2. Tidy(new, recorded[m] \cup {}, glued)
      BY <1>3, <1>4, <1>5, <2>1, TidyJoined
    <2>3. QED
      BY <2>1, <2>2
  <1>7. Append(Closed(file[m]), note) = new
    <2>1. Closed(file[m]) \in Seq(Lines) /\ <<note>> \in Seq(Lines)
      BY <1>4, <1>5 DEF Tidy
    <2> HIDE DEF note
    <2>2. QED
      BY <2>1
  <1>8. [file[m] EXCEPT ![Len(file[m])].nl = TRUE] = Closed(file[m])
    BY <1>2 DEF Closed
  <1>9. file' = [file EXCEPT ![m] = new]
    BY <1>1, <1>7, <1>8
  <1> HIDE DEF new, note
  <1>10. /\ file' \in [Machines -> Seq(Lines)] /\ file'[m] = new
         /\ \A n \in Machines : n # m => file'[n] = file[n]
    <2>1. new \in Seq(Lines)
      BY <1>6 DEF Tidy
    <2>2. QED
      BY <1>9, <2>1 DEF FilesTidy
  <1>11. \A n \in Machines : Tidy(file'[n], recorded'[n], glued')
    BY <1>2, <1>6, <1>10 DEF FilesTidy
  <1>12. /\ pushed' \in SUBSET Entries /\ base' \in [Machines -> Seq(Lines)]
         /\ recorded' \in [Machines -> SUBSET Entries] /\ notes' \in [Machines -> Nat]
         /\ Tidy(shared', pushed', glued')
         /\ \A n \in Machines : \A e \in Entries : Marks(base'[n], e) => e \in recorded'[n] /\ e \in pushed'
    BY <1>2 DEF FilesTidy
  <1>13. QED
    BY <1>10, <1>11, <1>12, TidyNext

LEMMA SyncsTidily ==
  ASSUME FilesTidy, NEW m \in Machines, Sync(m)
  PROVE  FilesTidy'
  <1> DEFINE merged == Union(shared, file[m], base[m])
             both == recorded[m] \cup pushed
  <1>1. /\ file' = [file EXCEPT ![m] = merged] /\ base' = [base EXCEPT ![m] = merged]
        /\ shared' = merged
        /\ recorded' = [recorded EXCEPT ![m] = both] /\ pushed' = both
        /\ notes' = notes /\ glued' = glued
    BY DEF Sync
  <1>2. /\ Tidy(file[m], recorded[m], glued) /\ Tidy(shared, pushed, glued)
        /\ recorded[m] \in SUBSET Entries /\ pushed \in SUBSET Entries
        /\ \A d \in Entries : Marks(base[m], d) => d \in recorded[m] /\ d \in pushed
        /\ recorded \in [Machines -> SUBSET Entries] /\ notes \in [Machines -> Nat]
        /\ file \in [Machines -> Seq(Lines)] /\ base \in [Machines -> Seq(Lines)]
    BY DEF FilesTidy
  <1>3. Tidy(merged, both, glued)
    <2>1. CASE shared = base[m]
      <3>1. merged = file[m]
        BY <2>1 DEF Union
      <3>2. both = recorded[m]
        BY <1>2, <2>1 DEF Tidy
      <3>3. QED
        BY <1>2, <3>1, <3>2
    <2>2. CASE shared # base[m] /\ file[m] = base[m]
      <3>1. merged = shared
        BY <2>2 DEF Union
      <3>2. both = pushed
        BY <1>2, <2>2 DEF Tidy
      <3>3. QED
        BY <1>2, <3>1, <3>2
    <2>3. CASE shared # base[m] /\ file[m] # base[m]
      <3>1. shared \in Seq(Lines) /\ file[m] \in Seq(Lines)
        BY <1>2 DEF Tidy
      <3>2. PICK p, q, t \in Nat : MergedOf(merged, shared, file[m], p, q, t)
        BY <2>3, <3>1, UnionIs
      <3> HIDE DEF merged
      <3>3. Tidy(merged, pushed \cup recorded[m], glued)
        BY <1>2, <3>2, TidyMerged
      <3>4. both = pushed \cup recorded[m]
        OBVIOUS
      <3>5. QED
        BY <3>3, <3>4
    <2>4. QED
      BY <2>1, <2>2, <2>3
  <1> HIDE DEF merged
  <1>4. both \in SUBSET Entries /\ recorded[m] \subseteq both /\ pushed \subseteq both
    BY <1>2
  <1>5. merged \in Seq(Lines) /\ \A d \in Entries : Marks(merged, d) => d \in both
    BY <1>3 DEF Tidy
  <1> HIDE DEF both
  <1>6. /\ file' \in [Machines -> Seq(Lines)] /\ file'[m] = merged
        /\ base' \in [Machines -> Seq(Lines)] /\ base'[m] = merged
        /\ recorded' \in [Machines -> SUBSET Entries] /\ recorded'[m] = both
        /\ \A n \in Machines : n # m =>
             file'[n] = file[n] /\ base'[n] = base[n] /\ recorded'[n] = recorded[n]
    BY <1>1, <1>2, <1>4, <1>5
  <1>7. \A n \in Machines : Tidy(file'[n], recorded'[n], glued')
    BY <1>1, <1>3, <1>6 DEF FilesTidy
  <1>8. Tidy(shared', pushed', glued')
    BY <1>1, <1>3
  <1>9. ASSUME NEW n \in Machines, NEW e \in Entries, Marks(base'[n], e)
        PROVE  e \in recorded'[n] /\ e \in pushed'
    <2>1. CASE n = m
      BY <1>1, <1>5, <1>6, <1>9, <2>1
    <2>2. CASE n # m
      BY <1>1, <1>4, <1>6, <1>9, <2>2 DEF FilesTidy
    <2>3. QED
      BY <2>1, <2>2
  <1>10. pushed' \in SUBSET Entries /\ notes' \in [Machines -> Nat]
    BY <1>1, <1>2, <1>4
  <1>11. QED
    BY <1>6, <1>7, <1>8, <1>9, <1>10, TidyNext

IsRead(lines, d) == \E r \in ParseDecisions(lines) : r.id = d /\ r.title = <<Title[d]>>

\* A tidy file is read: the block of a decision begins with its heading and its marker.
LEMMA TidyIsRead ==
  ASSUME NEW lines, NEW rec \in SUBSET Entries, NEW g, Tidy(lines, rec, g),
         NEW d \in rec, d \notin g, \A e \in rec : ~Repeats(e, d)
  PROVE  IsRead(lines, d)
  <1>1. d \in Entries /\ lines \in Seq(Lines) /\ Marks(lines, d) /\ Paired(lines, d)
    BY DEF Tidy
  <1>2. PICK i \in 1..Len(lines) : lines[i] = MarkLine(d)
    BY <1>1 DEF Marks
  <1> DEFINE h == i - 1
             last == BlockEnd(lines, h)
             markers == {j \in h..last : lines[j].kind = "marker"}
  <1>3. h \in 1..Len(lines) /\ h + 1 = i /\ h + 1 \in 1..Len(lines) /\ lines[h] = HeadLine(d)
    BY <1>1, <1>2 DEF Paired
  <1>4. /\ lines[h].kind = "heading" /\ lines[h].text = <<Title[d]>>
        /\ lines[h + 1].kind = "marker" /\ lines[h + 1].text = <<d>>
    <2>1. /\ HeadLine(d).kind = "heading" /\ HeadLine(d).text = <<Title[d]>>
          /\ MarkLine(d).kind = "marker" /\ MarkLine(d).text = <<d>>
      BY <1>1, LinesOf
    <2>2. lines[h] = HeadLine(d) /\ lines[h + 1] = MarkLine(d)
      BY <1>2, <1>3
    <2>3. QED
      BY <2>1, <2>2
  <1> DEFINE after == {j \in 1..Len(lines) : j > h /\ lines[j].kind = "heading"}
  <1> HIDE DEF h
  <1>5. last \in Nat /\ last >= h + 1
    <2>1. DOMAIN lines = 1..Len(lines) /\ Len(lines) \in Nat
      BY <1>1
    <2>2. last = IF after = {} THEN Len(lines) ELSE Min(after) - 1
      BY <2>1 DEF BlockEnd
    <2>3. CASE after = {}
      BY <1>3, <2>1, <2>2, <2>3
    <2>4. CASE after # {}
      <3>1. after \in SUBSET Nat
        BY <2>1
      <3>2. Min(after) \in after
        BY <2>4, <3>1, MinOf
      <3>3. Min(after) # h + 1
        BY <1>4, <3>2
      <3>4. Min(after) \in Nat /\ Min(after) > h /\ h \in Nat
        BY <1>3, <2>1, <3>2
      <3>5. last = Min(after) - 1
        BY <2>2, <2>4
      <3> HIDE DEF after, last
      <3>6. QED
        BY <3>3, <3>4, <3>5
    <2>5. QED
      BY <2>3, <2>4
  <1> HIDE DEF last
  <1>6. h + 1 \in markers /\ \A j \in markers : j >= h + 1
    BY <1>3, <1>4, <1>5
  <1>7. Min(markers) = h + 1
    <2>1. markers \in SUBSET Nat
      BY <1>3, <1>5
    <2> HIDE DEF markers
    <2>2. markers # {} /\ Min(markers) \in markers /\ \A j \in markers : Min(markers) <= j
      BY <1>6, <2>1, MinOf
    <2>3. Min(markers) \in Nat /\ Min(markers) >= h + 1 /\ Min(markers) <= h + 1 /\ h \in Nat
      <3>1. Min(markers) \in Nat
        BY <2>1, <2>2
      <3>2. Min(markers) >= h + 1
        BY <1>6, <2>2
      <3>3. Min(markers) <= h + 1
        BY <1>6, <2>2
      <3>4. QED
        BY <1>3, <3>1, <3>2, <3>3
    <2>4. QED
      BY ONLY <2>3
  <1> DEFINE r == [id |-> lines[h + 1].text[1], title |-> lines[h].text,
                   reason |-> SubSeq(lines, h + 2, last)]
  <1>8. r \in ParseDecisions(lines)
    <2>1. DOMAIN lines = 1..Len(lines) /\ h + 1 + 1 = h + 2
      BY <1>1, <1>3
    <2>2. h \in {k \in DOMAIN lines : lines[k].kind = "heading"
                   /\ {j \in k..BlockEnd(lines, k) : lines[j].kind = "marker"} # {}}
      BY <1>3, <1>4, <1>6, <2>1 DEF last
    <2>3. r = LET at == Min(markers)
              IN [id |-> lines[at].text[1], title |-> lines[h].text,
                  reason |-> SubSeq(lines, at + 1, last)]
      BY <1>7, <2>1
    <2>4. QED
      BY <2>2, <2>3 DEF ParseDecisions, last
  <1>9. r.id = d /\ r.title = <<Title[d]>>
    BY <1>4
  <1> HIDE DEF r
  <1>10. QED
    BY <1>8, <1>9 DEF IsRead

\* store.ts and docs/architecture/sync.md:35: whatever machines record and users write and in
\* whatever order they sync, for any number of machines and decisions, a decision is read
\* under its title wherever it has come to, unless its heading is there more than once or went
\* on on a line of the user's.
THEOREM DecisionsRead == DecisionsSpec => []DecisionsAreRead
  <1>1. DecisionsInit => FilesTidy
    <2> SUFFICES ASSUME DecisionsInit PROVE FilesTidy
      OBVIOUS
    <2>1. /\ file = [m \in Machines |-> <<>>] /\ base = file /\ shared = <<>>
          /\ recorded = [m \in Machines |-> {}] /\ pushed = {}
          /\ notes = [m \in Machines |-> 0] /\ glued = {}
      BY DEF DecisionsInit
    <2>2. Tidy(<<>>, {}, {})
      BY DEF Tidy, Marks
    <2>3. \A d \in Entries : ~Marks(<<>>, d)
      BY DEF Marks
    <2>4. QED
      BY <2>1, <2>2, <2>3 DEF FilesTidy
  <1>2. FilesTidy /\ [DecisionsNext]_decisionsVars => FilesTidy'
    <2> SUFFICES ASSUME FilesTidy, [DecisionsNext]_decisionsVars PROVE FilesTidy'
      OBVIOUS
    <2>1. ASSUME NEW m \in Machines, NEW d \in Entries, RecordDecision(m, d) PROVE FilesTidy'
      BY <2>1, RecordsTidily
    <2>2. ASSUME NEW m \in Machines, Note(m) PROVE FilesTidy'
      BY <2>2, NotesTidily
    <2>3. ASSUME NEW m \in Machines, Sync(m) PROVE FilesTidy'
      BY <2>3, SyncsTidily
    <2>4. CASE UNCHANGED decisionsVars
      BY <2>4 DEF decisionsVars, FilesTidy, Tidy, Marks, Paired
    <2>5. QED
      BY <2>1, <2>2, <2>3, <2>4 DEF DecisionsNext
  <1>3. FilesTidy => DecisionsAreRead
    <2> SUFFICES ASSUME FilesTidy, NEW m \in Machines, NEW d \in recorded[m],
                        ~SharesTitle(m, d), d \notin glued
                 PROVE  Read(m, d)
      BY DEF DecisionsAreRead
    <2>1. Tidy(file[m], recorded[m], glued) /\ recorded[m] \in SUBSET Entries
      BY DEF FilesTidy
    <2>2. \A e \in recorded[m] : ~Repeats(e, d)
      BY DEF SharesTitle
    <2>3. d \in recorded[m] /\ d \notin glued
      OBVIOUS
    <2>4. IsRead(file[m], d)
      BY ONLY <2>1, <2>2, <2>3, TidyIsRead
    <2>5. QED
      BY <2>4 DEF Read, IsRead
  <1>4. QED
    BY <1>1, <1>2, <1>3, PTL DEF DecisionsSpec
=============================================================================
