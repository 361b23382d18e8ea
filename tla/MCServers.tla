------------------------------ MODULE MCServers -----------------------------
(***************************************************************************)
(* A small instance of Servers: two commands, two servers at most, one     *)
(* project, and configurations of two files.                               *)
(***************************************************************************)
EXTENDS Servers

CONSTANTS u1, u2, i1, i2
MCCommands == {u1, u2}
MCIds == {i1, i2}
ServersSymmetry == Permutations(MCIds) \cup Permutations(MCCommands)

MCInside(term, name) == name # None /\ <<term, name>> \in
  {<<"web", "web">>, <<"web", "web-prod">>, <<"web-prod", "web-prod">>, <<"db", "db">>}
MCTerms == {"web", "web-prod"} \cup MCIds
MCByHand == {[name |-> "web", alias |-> None, host |-> "h1"],
             [name |-> "web", alias |-> "web-prod", host |-> None]}
MCWordsOf(alias) == CASE alias = "web-prod" -> <<"web", "prod">> [] OTHER -> <<alias>>

\* Two hosts of one name in one file and in two, one under no host and one under a
\* Match, patterns, a port out of range, files that include each other.
Line(key, word) == [key |-> key, words |-> <<word>>]
Host(words) == [key |-> "host", words |-> words]
Bodies ==
  {<<Host(<<"web", "*">>), Line("hostname", "h1"), Line("identityfile", "k"), Line("port", "99999"),
     Line("match", "m"), Line("hostname", "h2"), Host(<<"web">>), Line("hostname", "h2")>>,
   <<Line("hostname", "h1"), Line("include", "b"), Host(<<"web-prod", "web">>), Line("port", "22"),
     Line("hostname", "h2"), Line("hostname", "h1"), Line("user", "u"), Line("match", "m"),
     Line("port", "23")>>}
Loop == <<Line("include", "a"), Line("include", "*"), Host(<<"web">>), Line("hostname", "h2")>>
NoConfig == <<>>
MCConfigs == {[a |-> a, b |-> Loop] : a \in Bodies} \cup {NoConfig}
=============================================================================
