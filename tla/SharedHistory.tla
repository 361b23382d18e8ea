--------------------------- MODULE SharedHistory ----------------------------
(***************************************************************************)
(* What the machines of one profile are promised by the repository they    *)
(* share: one linear history that only grows, to which a machine adds only *)
(* when what it adds comes on top of everything the others have published. *)
(***************************************************************************)
EXTENDS Naturals, Sequences

CONSTANTS Machines, Entries

VARIABLES
  history,  \* the published entries
  known     \* how many of them each machine's own history begins with

vars == <<history, known>>

TypeOK ==
  /\ history \in Seq(Entries)
  /\ known \in [Machines -> 0..Len(history)]

Init ==
  /\ history = <<>>
  /\ known = [m \in Machines |-> 0]

\* A machine takes over entries it did not have.
Incorporate(m) ==
  /\ \E n \in known[m]..Len(history) : known' = [known EXCEPT ![m] = n]
  /\ UNCHANGED history

\* A machine that has everything adds to it.
Publish(m) ==
  /\ known[m] = Len(history)
  /\ Len(history') > Len(history)
  /\ SubSeq(history', 1, Len(history)) = history
  /\ known'[m] = Len(history')
  /\ \A n \in Machines : known'[n] >= known[n]

Next == \E m \in Machines : Incorporate(m) \/ Publish(m)

Spec == Init /\ [][Next]_vars
=============================================================================
