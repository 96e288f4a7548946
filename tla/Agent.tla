-------------------------------- MODULE Agent --------------------------------
(***************************************************************************)
(* The agent end to end: processes open files, the programs record it      *)
(* (PerfReader), the monitor core counts, alerts and kills (Detector).     *)
(*                                                                         *)
(* What neither part shows alone: a record says when and by which process  *)
(* a file was opened, but the core judges it by the time it handles it and *)
(* by the pid only; and a process may exit, and its pid be given to        *)
(* another, while the record is on its way or the window still remembers.  *)
(***************************************************************************)
EXTENDS Detector

CONSTANTS
  NumCpus,      (* online CPUs                                             *)
  RingCap,      (* records that fit in a perf ring                         *)
  MaxRecords,   (* bound on the records made                               *)
  MaxLives      (* bound on the processes that have a given pid in turn    *)

ASSUME AgentAssumption ==
  /\ NumCpus \in Nat \ {0} /\ RingCap \in Nat \ {0}
  /\ MaxRecords \in Nat /\ MaxLives \in Nat \ {0}

VARIABLES open, produced, rings, missed, reader, channel, beats, received, reported

VARIABLES
  life,         (* which of the processes that had a pid has it now        *)
  alive,        (* and whether it is still running                         *)
  keeps_up,     (* the agent is always done before anything else happens   *)
  seen          (* history: what the core handled, per pid, as captured    *)

stream_vars == <<open, produced, rings, missed, reader, channel, beats, received, reported>>
world_vars  == <<life, alive, keeps_up>>
agent_vars  == <<vars, stream_vars, world_vars, seen>>

(* A record: the event, when it was made and which process it is about. *)
Captures == [ev : Event, at : 0 .. MaxTime, life : 1 .. MaxLives]

Perf == INSTANCE PerfReader WITH Bodies <- Captures

-----------------------------------------------------------------------------

(* A running process makes a call: a record on the CPU it runs on. *)
Capture(c, ev) ==
  /\ alive[ev.pid]
  /\ Perf!Emit(c, [ev |-> ev, at |-> now, life |-> life[ev.pid]])
  /\ UNCHANGED <<vars, world_vars, seen>>

Exit(p) ==
  /\ alive[p]
  /\ alive' = [alive EXCEPT ![p] = FALSE]
  /\ UNCHANGED <<vars, stream_vars, life, keeps_up, seen>>

(* The kernel gives the pid to a new process. *)
Reuse(p) ==
  /\ ~ alive[p]
  /\ life[p] < MaxLives
  /\ life' = [life EXCEPT ![p] = @ + 1]
  /\ alive' = [alive EXCEPT ![p] = TRUE]
  /\ UNCHANGED <<vars, stream_vars, keeps_up, seen>>

Read == Perf!ReaderStep /\ UNCHANGED <<vars, world_vars, seen>>

(* kill(pid, SIGKILL): whoever has the pid now. *)
KillProcess(pid) == alive' = [alive EXCEPT ![pid] = FALSE]

(* One turn of the loop of poll: a message is taken and handled. *)
Handle(msg) ==
  /\ Perf!ReceiveAs(msg)
  /\ IF msg.type = "Lost"
     THEN /\ HandleLost(Perf!LossOf(msg))
          /\ UNCHANGED <<world_vars, seen>>
     ELSE LET ev == msg.body.ev
          IN  /\ \E read \in PpidReads : HandleEvent(ev, read)
              /\ seen' = [seen EXCEPT ![ev.pid] = Append(@, msg.body)]
              /\ IF auto_kill /\ stats'[ev.pid].alerts > stats[ev.pid].alerts
                 THEN KillProcess(ev.pid)
                 ELSE UNCHANGED alive
              /\ UNCHANGED <<life, keeps_up>>

HandleNext == \E msg \in {channel[i] : i \in DOMAIN channel} : Handle(msg)

Begin == BeginPoll /\ UNCHANGED <<stream_vars, world_vars, seen>>

(* try_recv finds the channel empty. *)
End ==
  /\ channel = <<>>
  /\ EndPoll
  /\ UNCHANGED <<stream_vars, world_vars, seen>>

Wait == Tick /\ UNCHANGED <<stream_vars, world_vars, seen>>

Core == Begin \/ HandleNext \/ End

-----------------------------------------------------------------------------

AgentInit ==
  /\ Init
  /\ Perf!Init
  /\ life = [p \in Pids |-> 1]
  /\ alive = [p \in Pids |-> TRUE]
  /\ keeps_up \in BOOLEAN
  /\ seen = [p \in Pids |-> <<>>]

(* Nothing on its way from the programs to the core. *)
Quiet == channel = <<>> /\ \A c \in Perf!Cpus : rings[c] = <<>>

(* An agent that keeps up has dealt with every record before the clock     *)
(* moves on and before a process goes.  The code does not see to it (the   *)
(* loops sleep, print and forward between two polls), so either sort of    *)
(* agent is looked at: keeps_up says what some promises rest on.           *)
Passing == Wait \/ \E p \in Pids : Exit(p) \/ Reuse(p)

AgentNext ==
  \/ \E c \in Perf!Cpus, ev \in Event : Capture(c, ev)
  \/ Read
  \/ Core
  \/ (keeps_up => Quiet) /\ Passing

AgentSpec ==
  /\ AgentInit
  /\ [][AgentNext]_agent_vars
  /\ WF_agent_vars(Read)
  /\ WF_agent_vars(Core)

-----------------------------------------------------------------------------

(* With nothing on its way, the two counters of the status bar account for *)
(* every record made, except the losses no later record has told of.       *)
CountsEndToEnd ==
  Quiet => total.events + total.lost
             = SumFunction([c \in Perf!Cpus |-> produced[c] - missed[c]])

(* And that is where the agent gets to once no more records are made: no   *)
(* record stays in a ring or in the channel for good.                      *)
EventuallyQuiet == <>[]Quiet

(* So many files were opened within one second, among these opens. *)
BurstOfPid(opens) ==
  \E t \in 0 .. MaxTime :
    Cardinality({i \in DOMAIN opens : /\ opens[i].ev.kind = "Open"
                                      /\ opens[i].at \in t .. t + Second}) >= threshold

(* An agent that keeps up alerts on a pid only if that many files really   *)
(* were opened within a second.                                            *)
AlertsReal ==
  [][\A p \in Pids : keeps_up /\ stats'[p].alerts # stats[p].alerts =>
       BurstOfPid(seen'[p])]_agent_vars

(* And on every pid that opened that many within a second, all of them     *)
(* recorded and handled.                                                   *)
BurstsAlerted ==
  keeps_up /\ threshold > 0 =>
    \A p \in Pids : BurstOfPid(seen[p]) => stats[p].alerts > 0

=============================================================================
