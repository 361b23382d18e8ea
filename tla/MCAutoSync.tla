----------------------------- MODULE MCAutoSync -----------------------------
(***************************************************************************)
(* A small instance of AutoSync: two records, one of them written by a     *)
(* session whose runner does not wait, and one `statenest sync`.           *)
(***************************************************************************)
EXTENDS AutoSync

CONSTANTS w1, w2, m

MCWriters == {w1, w2}
MCForced == {w1}
MCManual == {m}
=============================================================================
