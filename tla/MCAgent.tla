------------------------------ MODULE MCAgent -------------------------------
(***************************************************************************)
(* Instances of Agent for TLC: opens of one path by one pid.               *)
(***************************************************************************)
EXTENDS Agent, TLC

CONSTANTS p1, f1

MCExtOf == f1 :> NoExt

(* An agent that keeps up with few records over a longer time, or one that *)
(* may be late with more of them, losses included.                         *)
Few  == keeps_up /\ SumFunction(produced) <= 3
Many == ~ keeps_up /\ now <= 1 /\ threshold = 2

MCSpec ==
  /\ AgentInit /\ (Few \/ Many)
  /\ [][AgentNext /\ (Few \/ Many)']_agent_vars
  /\ WF_agent_vars(Read)
  /\ WF_agent_vars(Core)
=============================================================================
