------------------------------- MODULE MCKept -------------------------------
(***************************************************************************)
(* For TLC, what the programs keep: the license files of an installation   *)
(* (License), the files of the vendor's key tool (Keygen), and what the    *)
(* loops of the agent print and store (RunLoop).  They have no state in    *)
(* common here, and a behaviour is one of one of them.                     *)
(*                                                                         *)
(* Fingerprints are alike, so the machine begins with a given one.  A      *)
(* backup of another installation is of the key that expires.  Backends    *)
(* share nothing, so a loop has one of them.                               *)
(***************************************************************************)
EXTENDS MCLicense, Keygen, RunLoop

CONSTANTS p1, f1, a1

VARIABLE part

mc_vars == <<part, vars, keygen_vars, run_vars>>

MCSamples ==
  {[type |-> "Event", pid |-> p1, target |-> f1, net |-> FALSE, shown |-> TRUE],
   [type |-> "Event", pid |-> p1, target |-> a1, net |-> TRUE, shown |-> FALSE],
   [type |-> "Action", pid |-> p1, target |-> NoTarget, net |-> FALSE, shown |-> TRUE]}

MCInit ==
  /\ part \in {"agents", "tool", "loop"}
  /\ Init
  /\ machine = CHOOSE m \in Machines : TRUE
  /\ backup # None => part = "agents" /\ backup.key = dated
  /\ KeygenInit
  /\ RunInit
  /\ IF part = "loop" THEN Cardinality(active) = 1 ELSE active = {} /\ mode = "json"

Loops(A) == part = "loop" /\ A /\ UNCHANGED <<part, vars, keygen_vars>>

MCNext ==
  \/ part = "agents" /\ Next /\ UNCHANGED <<part, keygen_vars, run_vars>>
  \/ part = "tool" /\ KeygenNext /\ UNCHANGED <<part, vars, run_vars>>
  \/ Loops(RunNext)

MCSpec ==
  /\ MCInit /\ [][MCNext]_mc_vars
  /\ WF_mc_vars(Loops(ended = "no" /\ Loop))
  /\ WF_mc_vars(Loops(ended = "no" /\ HouseThread /\ UNCHANGED loop_vars))
=============================================================================
