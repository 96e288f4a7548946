-------------------------------- MODULE Shell --------------------------------
(***************************************************************************)
(* The desktop shell (talus-tauri/src-tauri/src/lib.rs): start_monitor and *)
(* stop_monitor run the agent as a child and keep its pid and whether it   *)
(* runs under two locks of their own.  The commands are synchronous and    *)
(* take turns on the main thread; a thread for each child waits for the    *)
(* end of its stderr and then writes the same two variables, one after the *)
(* other.                                                                  *)
(*                                                                         *)
(* A child is its number: nothing waits for a child that ended, so it      *)
(* keeps its pid while the shell lives.  SIGTERM may be refused (the child *)
(* is sudo) or take its time: a child ends when it likes, if it does.  The *)
(* thread that passes on stdout changes nothing and is left out.           *)
(***************************************************************************)
EXTENDS Naturals

CONSTANT MaxChildren      (* bound on the starts *)

ASSUME ChildAssumption == MaxChildren \in Nat

Children == 1 .. MaxChildren
None     == 0

VARIABLES
  running, pid, (* MonitorState                                            *)
  at,           (* where the main thread is, "idle" between commands       *)
  child,        (* the one spawned last                                    *)
  alive,        (* the children that have not ended                        *)
  thread,       (* of a child: the thread that drains its stderr           *)
  asked,        (* history: children a stop was aimed at                   *)
  overlap       (* history: one was started before the thread of an        *)
                (* earlier one was done                                    *)

vars == <<running, pid, at, child, alive, thread, asked, overlap>>

-----------------------------------------------------------------------------

(* start_monitor, unless it says "already running". *)
Start ==
  /\ at = "idle" /\ ~ running
  /\ child < MaxChildren
  /\ at' = "spawn"
  /\ UNCHANGED <<running, pid, child, alive, thread, asked, overlap>>

Spawn ==
  /\ at = "spawn"
  /\ child' = child + 1
  /\ alive' = alive \cup {child'}
  /\ overlap' = (overlap \/ \E c \in 1 .. child : thread[c] # "done")
  /\ at' = "set pid"
  /\ UNCHANGED <<running, pid, thread, asked>>

SpawnFails ==
  /\ at = "spawn"
  /\ at' = "idle"
  /\ UNCHANGED <<running, pid, child, alive, thread, asked, overlap>>

(* The step of start_monitor after which the thread of the child begins. *)
BeginEarly == "set pid"
Begin      == "set running"

ThreadsNow == IF at = Begin THEN [thread EXCEPT ![child] = "draining"] ELSE thread

SetPid ==
  /\ at = "set pid"
  /\ pid' = child
  /\ at' = "set running"
  /\ thread' = ThreadsNow
  /\ UNCHANGED <<running, child, alive, asked, overlap>>

SetRunning ==
  /\ at = "set running"
  /\ running' = TRUE
  /\ thread' = ThreadsNow
  /\ at' = "idle"
  /\ UNCHANGED <<pid, child, alive, asked, overlap>>

(* stop_monitor, unless it says "not running". *)
Stop ==
  /\ at = "idle" /\ running
  /\ at' = "kill"
  /\ UNCHANGED <<running, pid, child, alive, thread, asked, overlap>>

Kill ==
  /\ at = "kill"
  /\ asked' = asked \cup ({pid} \ {None})
  /\ at' = "clear running"
  /\ UNCHANGED <<running, pid, child, alive, thread, overlap>>

ClearRunning ==
  /\ at = "clear running"
  /\ running' = FALSE
  /\ at' = "clear pid"
  /\ UNCHANGED <<pid, child, alive, thread, asked, overlap>>

ClearPid ==
  /\ at = "clear pid"
  /\ pid' = None
  /\ at' = "idle"
  /\ UNCHANGED <<running, child, alive, thread, asked, overlap>>

-----------------------------------------------------------------------------

(* The agent ends: a signal, an error, sudo refused. *)
End(c) ==
  /\ c \in alive
  /\ alive' = alive \ {c}
  /\ UNCHANGED <<running, pid, at, child, thread, asked, overlap>>

(* The end of stderr, then a pause of 200 ms. *)
ThreadMarksAtOnce(c) ==
  /\ thread[c] = "draining"
  /\ running' = FALSE
  /\ thread' = [thread EXCEPT ![c] = "clearing"]
  /\ UNCHANGED <<pid, at, child, alive, asked, overlap>>

ThreadMarks(c) ==
  /\ thread[c] = "draining" /\ c \notin alive
  /\ running' = FALSE
  /\ thread' = [thread EXCEPT ![c] = "clearing"]
  /\ UNCHANGED <<pid, at, child, alive, asked, overlap>>

ThreadClears(c) ==
  /\ thread[c] = "clearing"
  /\ pid' = None
  /\ thread' = [thread EXCEPT ![c] = "done"]
  /\ UNCHANGED <<running, at, child, alive, asked, overlap>>

-----------------------------------------------------------------------------

Init ==
  /\ running = FALSE /\ pid = None
  /\ at = "idle"
  /\ child = None
  /\ alive = {}
  /\ thread = [c \in Children |-> "none"]
  /\ asked = {}
  /\ overlap = FALSE

Command == Spawn \/ SpawnFails \/ SetPid \/ SetRunning \/ Kill \/ ClearRunning \/ ClearPid

Thread(c) == ThreadMarks(c) \/ ThreadClears(c)

Next ==
  \/ Start
  \/ Stop
  \/ Command
  \/ \E c \in Children : End(c) \/ Thread(c)

(* A command that has begun ends, and so do the threads of ended children. *)
Fairness == WF_vars(Command) /\ \A c \in Children : WF_vars(Thread(c))

Spec == Init /\ [][Next]_vars /\ Fairness

-----------------------------------------------------------------------------

(* What get_status says between two commands.  "Running" is said only of   *)
(* the latest child, and not after its thread has seen its end.  Unless a  *)
(* start overtook the thread of an earlier child, an agent is shown, with  *)
(* its pid, for as long as it lives and no stop was aimed at it, and no    *)
(* second one that nobody stopped lives beside it.                         *)
StatusTrue ==
  at = "idle" =>
    /\ running => thread[child] = "draining"
    /\ pid \in {None, child}
    /\ ~ overlap => \A c \in alive \ asked : c = child /\ running /\ pid = child

(* An agent that ends, however soon after its start, is not shown as       *)
(* running for good.                                                       *)
EndNoticed ==
  \A c \in Children : (child = c /\ c \notin alive) ~> (child # c \/ ~ running)

=============================================================================
