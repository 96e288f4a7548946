------------------------------ MODULE MCParts -------------------------------
(***************************************************************************)
(* For TLC, parts of the agent that have no state in common: the audit     *)
(* log, the process tree (ProcessTree) and the watchdog (Watchdog).  A     *)
(* behaviour is one of one of them.                                        *)
(***************************************************************************)
EXTENDS AuditLog, Watchdog, ProcessTree

VARIABLE part

mc_vars == <<part, vars, tree_vars, watchdog_vars>>

(* The parts that stand still begin in one way only. *)
MCInit ==
  /\ part \in {"log", "tree", "watchdog"}
  /\ Init /\ TreeInit /\ WatchdogInit
  /\ part # "watchdog" => traffic
  /\ part # "log" =>
       \A w \in Writers : <<machine, entry[w].body>> = CHOOSE mb \in Machines \X Bodies : TRUE

MCNext ==
  \/ part = "log" /\ Next /\ UNCHANGED <<part, tree_vars, watchdog_vars>>
  \/ part = "tree" /\ TreeNext /\ UNCHANGED <<part, vars, watchdog_vars>>
  \/ part = "watchdog" /\ WatchdogNext /\ UNCHANGED <<part, vars, tree_vars>>

MCSpec == MCInit /\ [][MCNext]_mc_vars
=============================================================================
