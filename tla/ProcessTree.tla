----------------------------- MODULE ProcessTree -----------------------------
(***************************************************************************)
(* The process tree of the monitor core (build_process_tree of             *)
(* process-monitor/src/monitor.rs) and what it is built from: the keys of  *)
(* stats and pid_to_ppid, which gets the parent that /proc names when an   *)
(* event of the pid is handled, and keeps it.  By then the process may     *)
(* have ended, its parent too, and their pids may belong to others.        *)
(*                                                                         *)
(* The kernel is here as far as parents go: fork, exit with the orphans    *)
(* handed to init, and the zombie that /proc still shows.  Names, counters *)
(* and the order among siblings take no part in the shape and are left     *)
(* out.                                                                    *)
(***************************************************************************)
EXTENDS Integers, FiniteSets, FiniteSetsExt, Functions

CONSTANTS
  Pids,         (* process ids, those of user space and 1                  *)
  MaxForks      (* bound on the forks                                      *)

ASSUME PidAssumption == /\ Pids \subseteq Nat \ {0} /\ IsFiniteSet(Pids)
                        /\ 1 \in Pids
                        /\ MaxForks \in Nat

VARIABLES
  state,        (* of a pid: "free", "alive" or "zombie"                   *)
  parent,       (* of a pid in use, as the kernel has it                   *)
  last,         (* the pid given out last                                  *)
  lives,        (* history: how often the pid was given out                *)
  recorded,     (* pids with an event that is not handled yet              *)
  known,        (* the keys of stats                                       *)
  pid_to_ppid   (* Unread: no entry                                        *)

kernel    == <<state, parent, last, lives>>
tree_vars == <<kernel, recorded, known, pid_to_ppid>>

NoParent == 0
Unread   == -1

-----------------------------------------------------------------------------

(* The kernel, external.  Pids are given out in turn, round and round. *)
FreePids == {p \in Pids : state[p] = "free"}
NextPid  == LET above == {p \in FreePids : p > last}
            IN  Min(IF above # {} THEN above ELSE FreePids)

Fork(p) ==
  /\ state[p] = "alive" /\ FreePids # {}
  /\ SumFunction(lives) <= MaxForks
  /\ last' = NextPid
  /\ state' = [state EXCEPT ![NextPid] = "alive"]
  /\ parent' = [parent EXCEPT ![NextPid] = p]
  /\ lives' = [lives EXCEPT ![NextPid] = @ + 1]
  /\ UNCHANGED <<recorded, known, pid_to_ppid>>

Exit(p) ==
  /\ state[p] = "alive" /\ p # 1
  /\ state' = [state EXCEPT ![p] = "zombie"]
  /\ parent' = [c \in Pids |-> IF parent[c] = p THEN 1 ELSE parent[c]]
  /\ UNCHANGED <<last, lives, recorded, known, pid_to_ppid>>

Reap(p) ==
  /\ state[p] = "zombie"
  /\ state' = [state EXCEPT ![p] = "free"]
  /\ parent' = [parent EXCEPT ![p] = NoParent]
  /\ UNCHANGED <<last, lives, recorded, known, pid_to_ppid>>

(* A process makes a system call that is recorded. *)
Call(p) ==
  /\ state[p] = "alive"
  /\ recorded' = recorded \cup {p}
  /\ UNCHANGED <<kernel, known, pid_to_ppid>>

-----------------------------------------------------------------------------

(* read_ppid_from_proc: the PPid line, if there is such a process now. *)
ReadPpid(p) == IF state[p] = "free" THEN Unread ELSE parent[p]

(* handle_event, as far as the tree goes: an entry is made once. *)
Handle(p) ==
  /\ p \in recorded
  /\ recorded' = recorded \ {p}
  /\ known' = known \cup {p}
  /\ pid_to_ppid' = IF pid_to_ppid[p] = Unread
                    THEN [pid_to_ppid EXCEPT ![p] = ReadPpid(p)]
                    ELSE pid_to_ppid
  /\ UNCHANGED kernel

TreeInit ==
  /\ state = [p \in Pids |-> IF p = 1 THEN "alive" ELSE "free"]
  /\ parent = [p \in Pids |-> NoParent]
  /\ last = 1
  /\ lives = [p \in Pids |-> IF p = 1 THEN 1 ELSE 0]
  /\ recorded = {}
  /\ known = {}
  /\ pid_to_ppid = [p \in Pids |-> Unread]

TreeNext ==
  \E p \in Pids :
    \/ Fork(p)
    \/ Exit(p)
    \/ Reap(p)
    \/ Call(p)
    \/ Handle(p)

TreeSpec == TreeInit /\ [][TreeNext]_tree_vars

-----------------------------------------------------------------------------

(* unwrap_or(0) *)
PpidOf(p) == IF pid_to_ppid[p] = Unread THEN NoParent ELSE pid_to_ppid[p]

ChildrenOf(p) == {c \in known : PpidOf(c) = p}

RootsOfZero == {p \in known : PpidOf(p) = NoParent}
Roots       == {p \in known : PpidOf(p) \notin known}

(* build and flatten_tree: the pids listed at each depth.  A pid is built  *)
(* once for every time its parent is, below it.                            *)
Listed ==
  LET depths == 0 .. Cardinality(known)
      at[d \in depths] == IF d = 0 THEN Roots ELSE UNION {ChildrenOf(p) : p \in at[d - 1]}
  IN  at

-----------------------------------------------------------------------------

(* The pids on the way from p to the top by the entries, p first. *)
Ancestors(p) ==
  LET up[d \in 0 .. Cardinality(known)] ==
        IF d = 0 THEN {p} ELSE {q \in known : \E c \in up[d - 1] : PpidOf(c) = q}
  IN  UNION {up[d] : d \in DOMAIN up}

(* The recursion of build ends, no process is listed twice, and one is     *)
(* missing only if the entries above it run in a circle, which takes a pid *)
(* that has had two owners: without reuse the tree lists every process     *)
(* that was ever seen, however late its events and whoever has ended.      *)
TreeExact ==
  LET hidden == known \ UNION {Listed[d] : d \in DOMAIN Listed}
  IN
  /\ Listed[Cardinality(known)] = {}
  /\ \A d, e \in DOMAIN Listed : d # e => Listed[d] \cap Listed[e] = {}
  /\ \A p \in known : p \in hidden <=> \A q \in Ancestors(p) : PpidOf(q) \in known
  /\ \A p \in hidden : \E q \in Ancestors(p) : lives[q] > 1

=============================================================================
