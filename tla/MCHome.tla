------------------------------- MODULE MCHome --------------------------------
(***************************************************************************)
(* What one machine has: its home and profiles, by Workspace, and the      *)
(* servers it deploys to, by Servers.  Neither touches the state of the    *)
(* other, and a behaviour is about one of them.                            *)
(***************************************************************************)
EXTENDS MCWorkspace, MCServers

VARIABLE about   \* what the behaviour is about
homeVars == <<vars, serversVars, about>>

\* Where it is not about the home, these are some commands that have not begun.
SomeCommands ==
  \A c \in Callers : /\ knows[c].target = knows[c1].target
                      /\ knows[c].kind = CHOOSE k \in KindsOf[c] : TRUE

HomeInit ==
  /\ Init /\ ServersInit
  /\ \/ about = "home" /\ sshFiles = NoConfig
     \/ about = "servers" /\ SomeCommands

HomeNext ==
  /\ UNCHANGED about
  /\ \/ about = "home" /\ Next /\ UNCHANGED serversVars
     \/ about = "servers" /\ ServersNext /\ UNCHANGED vars

HomeSpec == HomeInit /\ [][HomeNext]_homeVars

MCHomeSymmetry == MCSymmetry \cup ServersSymmetry
=============================================================================
