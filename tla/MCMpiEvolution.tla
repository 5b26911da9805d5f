--------------------------- MODULE MCMpiEvolution ---------------------------
(* Small instances of the evolution for TLC: the program is started with   *)
(* g_nbProcess processes, or with one, when it has no children and tries   *)
(* the organisms itself.                                                   *)
EXTENDS MpiEvolution

TwoAndFive == {2, 5}

Alone == INSTANCE MpiEvolution WITH g_nbProcess <- 1

IsAlone == DOMAIN child = {}

EitherNext == IF IsAlone THEN Alone!Next ELSE Next

(* The fairness of each of the two programs, for its own behaviours. *)
EitherFairness ==
  /\ WF_vars(IsAlone /\ Alone!Parent)
  /\ WF_vars(~IsAlone /\ Parent)
  /\ WF_vars(~IsAlone /\ waiting /\ toChild[j] = <<>> /\ SendReturns)
  /\ \A c \in Ranks :
       /\ WF_vars(~IsAlone /\ Receive(c)) /\ WF_vars(~IsAlone /\ Child(c))
       /\ WF_vars(~IsAlone /\ toParent[c] = <<>> /\ AnswerReturns(c))

EitherSpec == (Init \/ Alone!Init) /\ [][EitherNext]_vars /\ EitherFairness
=============================================================================
