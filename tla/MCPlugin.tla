------------------------------ MODULE MCPlugin ------------------------------
(***************************************************************************)
(* A small instance of Plugin: a user with two terminals.                  *)
(***************************************************************************)
EXTENDS Plugin

CONSTANTS t1, t2
MCTerminals == {t1, t2}
=============================================================================
