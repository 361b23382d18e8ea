------------------------------ MODULE MCAnswers ------------------------------
(***************************************************************************)
(* What StateNest tells its user: the answer to one question, by Reading,  *)
(* and what it says about its plugin, by Plugin.  Neither touches the      *)
(* state of the other, and a behaviour is about one of them.               *)
(***************************************************************************)
EXTENDS MCReading, MCPlugin

VARIABLE about   \* what the behaviour is about
answersVars == <<vars, pluginVars, about>>

\* Where it is not about the plugin, Claude Code is not installed, and no command runs.
NoClaude ==
  /\ package = [files |-> "built", version |-> 1]
  /\ claude = [onPath |-> FALSE, market |-> "none", copy |-> Gone, enabled |-> "absent"]
  /\ data = TRUE
  /\ does = [t \in Terminals |-> "idle"] /\ job = [t \in Terminals |-> NoJob]
  /\ seen = [t \in Terminals |-> NothingSeen] /\ status = [t \in Terminals |-> "none"]
  /\ undisturbed = [t \in Terminals |-> TRUE]
  /\ trouble = 0 /\ changes = 0

AnswersInit ==
  /\ Init
  /\ \/ about = "plugin" /\ PluginInit
     \/ about = "question" /\ NoClaude

AnswersNext ==
  /\ UNCHANGED about
  /\ \/ about = "plugin" /\ PluginNext /\ UNCHANGED vars
     \/ about = "question" /\ Next /\ UNCHANGED pluginVars

\* The fairness of Plugin, for the behaviours about it.
MayGo(A) == about = "plugin" /\ A /\ UNCHANGED <<vars, about>>
AnswersFairness ==
  \A t \in Terminals : /\ WF_answersVars(MayGo(TerminalStep(t)))
                       /\ WF_answersVars(MayGo(Reinstall(t)))
                       /\ WF_answersVars(MayGo(FollowAdvice(t)))

AnswersSpec == AnswersInit /\ [][AnswersNext]_answersVars /\ AnswersFairness
=============================================================================
