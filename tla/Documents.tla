------------------------------ MODULE Documents ------------------------------
(***************************************************************************)
(* A checkpoint is a Markdown document that the user may read and that     *)
(* StateNest reads back: what checkpoints/create.ts writes of a content    *)
(* that an agent gave, and what storage/frontmatter.ts and store.ts make   *)
(* of it.                                                                  *)
(*                                                                         *)
(* A line is of a kind: text, blank, a heading, a bullet (with a check box *)
(* before its text, or not), a fence of code (``` or ~~~), a rule (---).   *)
(* What an agent gives are lines: of a summary, or of an item of a list,   *)
(* of which the first comes after the dash.  A content is a record of the  *)
(* summary and the lists.                                                  *)
(***************************************************************************)
EXTENDS Naturals, SequencesExt, FiniteSetsExt

Lists == {"completed", "decisions", "blockers", "next"}

Line(kind, text) == [kind |-> kind, text |-> text, box |-> FALSE]
Blank == Line("blank", "")
Rule == Line("rule", "")
Heading(text) == Line("heading", text)

-----------------------------------------------------------------------------
(* Writing.                                                                *)

Trim(lines) ==
  LET full == {i \in DOMAIN lines : lines[i] # Blank}
  IN IF full = {} THEN <<>> ELSE SubSeq(lines, Min(full), Max(full))

MetadataOnly == <<Line("text", "automatic")>>

\* The dash goes before the first line of an item, the others follow as they are.
Bullets(items) ==
  FlattenSeq([i \in DOMAIN items |->
    <<[Head(items[i]) EXCEPT !.kind = "bullet"]>> \o Tail(items[i])])

Section(title, items) ==
  IF items = <<>> THEN <<>> ELSE <<Blank, Heading(title), Blank>> \o Bullets(items)

\* What git says of the repository comes last, under a heading of its own.
RenderCheckpointBody(c) ==
  LET summary == Trim(c.summary)
  IN <<Heading("summary"), Blank>>
     \o (IF summary = <<>> THEN MetadataOnly ELSE summary)
     \o Section("completed", c.lists["completed"]) \o Section("decisions", c.lists["decisions"])
     \o Section("blockers", c.lists["blockers"]) \o Section("next", c.lists["next"])
     \o <<Blank, Heading("repository"), Blank, Line("bullet", "branch")>>

\* The fields of the checkpoint are one line here.
SerializeFrontmatter(body) ==
  <<Rule, Line("data", "fields"), Rule, Blank>> \o Trim(body)

-----------------------------------------------------------------------------
(* Reading.                                                                *)

\* The first rule after the one the document begins with.
FrontmatterEnd(lines) == Min({i \in DOMAIN lines : i > 1 /\ lines[i] = Rule})

ParseFrontmatter(lines) == Trim(SubSeq(lines, FrontmatterEnd(lines) + 1, Len(lines)))

\* Line i stands in a block of code: an odd number of fences opens one before it.
InFence(lines, i) == Cardinality({j \in 1..i : lines[j].kind = "fence"}) % 2 = 1

\* Faulty variant of HeadingsOf: a heading is one wherever it stands.
AllHeadings(lines) == {i \in DOMAIN lines : lines[i].kind = "heading"}

HeadingsOf(lines) == {i \in DOMAIN lines : lines[i].kind = "heading" /\ ~InFence(lines, i)}

\* The text under the last heading of that name.
ExtractSection(body, name) ==
  LET named == {i \in HeadingsOf(body) : body[i].text = name}
      after(i) == {j \in HeadingsOf(body) : j > i}
      end(i) == IF after(i) = {} THEN Len(body) ELSE Min(after(i)) - 1
  IN IF named = {} THEN <<>> ELSE Trim(SubSeq(body, Max(named) + 1, end(Max(named))))

\* The bullets outside code, without their check boxes and the empty ones.
ExtractListItems(section) ==
  LET bullets == SelectSeq([i \in DOMAIN section |-> <<i, section[i]>>],
        LAMBDA p : p[2].kind = "bullet" /\ ~InFence(section, p[1]) /\ p[2].text # "")
  IN [i \in DOMAIN bullets |-> bullets[i][2].text]

ReadCheckpointFile(document) ==
  LET body == ParseFrontmatter(document)
  IN [body |-> body, summary |-> ExtractSection(body, "summary"),
      lists |-> [l \in Lists |-> ExtractListItems(ExtractSection(body, l))]]

-----------------------------------------------------------------------------
(* What a content must be to be read back.                                 *)

\* An agent's Markdown may hold anything; what keeps it apart from the document's own
\* structure is that a block of code it opens it closes.
Closes(lines) == Cardinality({i \in DOMAIN lines : lines[i].kind = "fence"}) % 2 = 0

AllClose(c) ==
  /\ Closes(c.summary)
  /\ \A l \in Lists : \A i \in DOMAIN c.lists[l] : Closes(Tail(c.lists[l][i]))

\* Headings, and bullets, that would be read as the document's.
Standing(lines) == {i \in DOMAIN lines : lines[i].kind = "heading" /\ ~InFence(lines, i)}
Headlines(lines) == {lines[i].text : i \in Standing(lines)}
KeepsToItself(item) == \A i \in 2..Len(item) :
                 item[i].kind \in {"heading", "bullet"} => InFence(Tail(item), i - 1)
=============================================================================
