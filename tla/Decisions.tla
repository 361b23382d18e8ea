------------------------------ MODULE Decisions ------------------------------
(***************************************************************************)
(* decisions.md of one project on several machines: how storage/store.ts   *)
(* appends a decision to it and reads the decisions back, what the user    *)
(* writes into it, and what git's union driver makes of two machines'      *)
(* additions (`projects/*/decisions.md merge=union`, core/workspace.ts).   *)
(*                                                                         *)
(* The file is a sequence of lines, blank ones left out: they mean nothing *)
(* to the reader.  A line is a heading, a marker (the comment that holds   *)
(* the fields of a decision) or text; `nl` says that a newline follows it. *)
(* Racing appends on one machine are in Records, the steps of a sync in    *)
(* GitSync: here both are one step.                                        *)
(***************************************************************************)
EXTENDS Naturals, SequencesExt, FiniteSetsExt

CONSTANTS
  Machines,
  Entries,           \* the decisions that may be recorded
  Title, Reason,     \* of each: a text, and the lines of its reason
  MaxNotes           \* bound on what the user writes on one machine

\* A reason has whole lines, and none of them is a marker.
ASSUME DecisionsAssumption ==
  /\ MaxNotes \in Nat
  /\ \A d \in Entries :
       /\ Reason[d] \in Seq(Range(Reason[d]))
       /\ \A l \in Range(Reason[d]) :
            l \in [kind : {"heading", "text"}, text : Seq(Range(l.text)), nl : {TRUE}]

Line(kind, text) == [kind |-> kind, text |-> text, nl |-> TRUE]

VARIABLES
  file,      \* decisions.md on each machine; empty when there is none
  base,      \* the same at the machine's last sync
  shared,    \* the same in the newest commit of the shared history
  recorded,  \* history: the decisions in what each machine has
  pushed,    \* history: the decisions in the shared history
  notes,     \* how often the user has written on each machine
  glued      \* history: decisions appended to a line without a newline

decisionsVars == <<file, base, shared, recorded, pushed, notes, glued>>

DecisionsInit ==
  /\ file = [m \in Machines |-> <<>>] /\ base = file /\ shared = <<>>
  /\ recorded = [m \in Machines |-> {}] /\ pushed = {}
  /\ notes = [m \in Machines |-> 0] /\ glued = {}

-----------------------------------------------------------------------------
(* Writing.                                                                *)

Header == <<Line("top", <<"Decisions">>)>>

\* Faulty variant of RenderDecision: the comment above the heading.
MarkerFirst(d) == <<Line("marker", <<d>>), Line("heading", <<Title[d]>>)>> \o Reason[d]

RenderDecision(d) == <<Line("heading", <<Title[d]>>), Line("marker", <<d>>)>> \o Reason[d]

Ended(lines) == lines = <<>> \/ Last(lines).nl

\* What is appended goes on from the last character of the file.
AppendLines(lines, more) ==
  IF Ended(lines) THEN lines \o more
  ELSE Front(lines) \o <<[Last(lines) EXCEPT !.text = @ \o Head(more).text, !.nl = TRUE]>>
                    \o Tail(more)

RecordDecision(m, d) ==
  /\ \A n \in Machines : d \notin recorded[n]
  /\ d \notin pushed
  /\ LET existing == IF file[m] = <<>> THEN Header ELSE file[m]
     IN file' = [file EXCEPT ![m] = AppendLines(existing, RenderDecision(d))]
  /\ recorded' = [recorded EXCEPT ![m] = @ \cup {d}]
  /\ glued' = IF Ended(file[m]) THEN glued ELSE glued \cup {d}
  /\ UNCHANGED <<base, shared, pushed, notes>>

\* The user adds a line of his own, a heading perhaps; an editor may leave the
\* last line without a newline.
Note(m) ==
  /\ file[m] # <<>> /\ notes[m] < MaxNotes
  /\ \E kind \in {"heading", "text"}, nl \in BOOLEAN :
       LET closed == [file[m] EXCEPT ![Len(file[m])].nl = TRUE]
       IN file' = [file EXCEPT ![m] =
                     Append(closed, [Line(kind, <<"note", m, notes[m]>>) EXCEPT !.nl = nl])]
  /\ notes' = [notes EXCEPT ![m] = @ + 1]
  /\ UNCHANGED <<base, shared, recorded, pushed, glued>>

-----------------------------------------------------------------------------
(* Syncing.                                                                *)

CommonHead(a, b) == LongestCommonPrefix({a, b})
CommonTail(a, b) == Reverse(CommonHead(Reverse(a), Reverse(b)))

Closed(lines) ==
  IF lines = <<>> THEN lines ELSE [lines EXCEPT ![Len(lines)].nl = TRUE]

\* The union driver: where only one side has changed, that side.  Otherwise the
\* lines the two begin and end with alike are taken once, and what is left of
\* theirs follows what is left of ours.  (Git also takes once a run of more than
\* three lines in the middle, blank ones counted; with three entries of these
\* reasons there is none.)
Union(ours, theirs, origin) ==
  IF ours = origin THEN theirs ELSE IF theirs = origin THEN ours
  ELSE LET head == CommonHead(ours, theirs)
           a == SubSeq(ours, Len(head) + 1, Len(ours))
           b == SubSeq(theirs, Len(head) + 1, Len(theirs))
           tail == CommonTail(a, b)
           rest(side) == SubSeq(side, 1, Len(side) - Len(tail))
       IN head \o (IF rest(b) \o tail = <<>> THEN a ELSE Closed(rest(a))) \o rest(b) \o tail

\* The machine's commit is rebased onto the newest one of the others and pushed.
Sync(m) ==
  LET merged == Union(shared, file[m], base[m])
      both == recorded[m] \cup pushed
  IN /\ shared # base[m] \/ file[m] # base[m]
     /\ file' = [file EXCEPT ![m] = merged]
     /\ base' = [base EXCEPT ![m] = merged]
     /\ shared' = merged
     /\ recorded' = [recorded EXCEPT ![m] = both] /\ pushed' = both
     /\ UNCHANGED <<notes, glued>>

DecisionsNext ==
  \E m \in Machines :
    \/ \E d \in Entries : RecordDecision(m, d)
    \/ Note(m)
    \/ Sync(m)

DecisionsSpec == DecisionsInit /\ [][DecisionsNext]_decisionsVars

-----------------------------------------------------------------------------
(* Reading.                                                                *)

\* A block goes from its heading to the next.
BlockEnd(lines, h) ==
  LET after == {i \in DOMAIN lines : i > h /\ lines[i].kind = "heading"}
  IN IF after = {} THEN Len(lines) ELSE Min(after) - 1

\* A block without a marker is a heading of the user's, and no decision.
ParseDecisions(lines) ==
  LET markers(h) == {i \in h..BlockEnd(lines, h) : lines[i].kind = "marker"}
      headings == {h \in DOMAIN lines : lines[h].kind = "heading" /\ markers(h) # {}}
      read(h) == LET at == Min(markers(h))
                 IN [id |-> lines[at].text[1], title |-> lines[h].text,
                     reason |-> SubSeq(lines, at + 1, BlockEnd(lines, h))]
  IN {read(h) : h \in headings}

-----------------------------------------------------------------------------
(***************************************************************************)
(* The properties.                                                         *)
(***************************************************************************)
Read(m, d) == \E r \in ParseDecisions(file[m]) : r.id = d /\ r.title = <<Title[d]>>

\* Decision e has the heading of d too: as its own, or in its reason.
Repeats(e, d) ==
  \/ e # d /\ Title[e] = Title[d]
  \/ \E l \in Range(Reason[e]) : l.kind = "heading" /\ l.text = <<Title[d]>>

SharesTitle(m, d) == \E e \in recorded[m] : Repeats(e, d)

\* store.ts: whatever machines and users append and in whatever order they sync, a
\* decision is read, under its title, wherever it has come to; unless its heading is
\* there more than once, or went on on a line of the user's.
DecisionsAreRead ==
  \A m \in Machines : \A d \in recorded[m] :
    Read(m, d) \/ SharesTitle(m, d) \/ d \in glued

\* store.ts: no line of one decision is read as the reason of another, with the
\* same exceptions.  (Of two reasons that end alike one may lose its end.)
ReasonsNotMixed ==
  \A m \in Machines : \A r \in ParseDecisions(file[m]) :
    SharesTitle(m, r.id) \/ glued # {} \/
      \A i \in DOMAIN r.reason :
        r.reason[i].text[1] = "note" \/ r.reason[i] \in Range(Reason[r.id])
=============================================================================
