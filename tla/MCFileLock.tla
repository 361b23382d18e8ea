----------------------------- MODULE MCFileLock -----------------------------
(***************************************************************************)
(* A small instance of FileLock: two processes, one of which holds two     *)
(* advisory callers (the MCP server serving two tool calls), and one       *)
(* exclusive caller (a background sync).                                   *)
(***************************************************************************)
EXTENDS FileLock, TLC

CONSTANTS a1, a2, b1, p, q

MCCallers == {a1, a2, b1}
MCProcesses == {p, q}
MCProcessOf == a1 :> p @@ a2 :> p @@ b1 :> q
MCExclusive == {b1}
=============================================================================
