----------------------------- MODULE PerfReader -----------------------------
(***************************************************************************)
(* From the tracepoints to the monitor core: one perf ring per CPU, the    *)
(* thread "talus-reader" that goes round the rings (spawn_reader of        *)
(* process-monitor/src/monitor.rs), and the unbounded channel it fills for *)
(* Monitor::poll.                                                          *)
(*                                                                         *)
(* The reader takes from a ring what was there when it came to it, sends   *)
(* one message per record, and after a round sleeps if every ring was      *)
(* empty and signals the watchdog otherwise.  Destroying the monitor drops *)
(* the receiver and detaches the programs; the reader's sends then fail,   *)
(* and it ignores that.                                                    *)
(***************************************************************************)
EXTENDS PerfRings, FiniteSets

VARIABLES
  open,         (* the Monitor exists: programs attached, receiver alive   *)
  reader,       (* the reader thread                                       *)
  channel,      (* mpsc::channel::<Msg>                                    *)
  beats,        (* HEARTBEAT of watchdog.rs                                *)
  received,     (* history: samples poll took, per CPU                     *)
  reported      (* history: losses poll added to total_lost, per CPU       *)

vars == <<open, produced, rings, missed, reader, channel, beats, received, reported>>

-----------------------------------------------------------------------------

(* A program of an attached tracepoint makes its record. *)
Emit(c, b) ==
  /\ open
  /\ Put(c, b)
  /\ UNCHANGED <<open, reader, channel, beats, received, reported>>

-----------------------------------------------------------------------------

Reader == [at : {"enter", "drain", "rest"}, cpu : Cpus, todo : Nat, idle : BOOLEAN]

(* for_each on a ring goes up to the head it finds when it begins. *)
HeadNow     == Len(rings[reader.cpu])

(* idle = false in the callback. *)
AfterReadIdle == [reader EXCEPT !.todo = @ - 1]
AfterRead     == [reader EXCEPT !.todo = @ - 1, !.idle = FALSE]

(* The end of for buf in buffers.iter_mut(). *)
LastRing     == reader.cpu = NumCpus

(* The top of loop. *)
NewRoundIfBusy == [reader EXCEPT !.at = IF reader.idle THEN "rest" ELSE "enter"]
NewRoundHere == [reader EXCEPT !.at = "enter", !.todo = 0, !.idle = TRUE]
NewRound     == [at |-> "enter", cpu |-> 1, todo |-> 0, idle |-> TRUE]

EnterRing ==
  /\ reader.at = "enter"
  /\ reader' = [reader EXCEPT !.at = "drain", !.todo = HeadNow]
  /\ UNCHANGED <<open, produced, rings, missed, channel, beats, received, reported>>

(* One record: decoded, sent, and its place in the ring given back.  The   *)
(* send fails, and nothing is said, once the receiver is gone.  That a     *)
(* record is long enough is checked first; all records are of one size.    *)
ReadRecord ==
  LET c == reader.cpu
  IN
  /\ reader.at = "drain"
  /\ reader.todo > 0
  /\ rings' = [rings EXCEPT ![c] = Tail(@)]
  /\ channel' = IF open THEN Append(channel, Head(rings[c])) ELSE channel
  /\ reader' = AfterRead
  /\ UNCHANGED <<open, produced, missed, beats, received, reported>>

(* The next ring, or the end of the round after the last one. *)
LeaveRing ==
  /\ reader.at = "drain"
  /\ reader.todo = 0
  /\ reader' = IF LastRing
               THEN [reader EXCEPT !.at = "rest"]
               ELSE [reader EXCEPT !.at = "enter", !.cpu = @ + 1]
  /\ UNCHANGED <<open, produced, rings, missed, channel, beats, received, reported>>

(* if idle { sleep(1 ms) } else { heartbeat() }, and round again. *)
EndRound ==
  /\ reader.at = "rest"
  /\ beats' = IF reader.idle THEN beats ELSE beats + 1
  /\ reader' = NewRound
  /\ UNCHANGED <<open, produced, rings, missed, channel, received, reported>>

ReaderStep == EnterRing \/ ReadRecord \/ LeaveRing \/ EndRound

-----------------------------------------------------------------------------

(* try_recv in Monitor::poll. *)
ReceiveAs(msg) ==
  /\ open
  /\ channel # <<>>
  /\ msg = Head(channel)
  /\ channel' = Tail(channel)
  /\ IF msg.type = "Event"
     THEN /\ received' = [received EXCEPT ![msg.cpu] = Append(@, msg)]
          /\ reported' = reported
     ELSE /\ reported' = [reported EXCEPT ![msg.cpu] = @ + LossOf(msg)]
          /\ received' = received
  /\ UNCHANGED <<open, produced, rings, missed, reader, beats>>

Receive == \E msg \in {channel[i] : i \in DOMAIN channel} : ReceiveAs(msg)

(* The Monitor is dropped (talus_monitor_destroy, end of main): the fields *)
(* rx and _bpf go, the JoinHandle _reader is detached.                     *)
Destroy ==
  /\ open
  /\ open' = FALSE
  /\ channel' = <<>>
  /\ UNCHANGED <<produced, rings, missed, reader, beats, received, reported>>

Init ==
  /\ open = TRUE
  /\ PerfInit
  /\ reader = [at |-> "enter", cpu |-> 1, todo |-> 0, idle |-> TRUE]
  /\ channel = <<>>
  /\ beats = 0
  /\ received = [c \in Cpus |-> <<>>]
  /\ reported = [c \in Cpus |-> 0]

Next ==
  \/ \E c \in Cpus, b \in Bodies : Emit(c, b)
  \/ ReaderStep
  \/ Receive
  \/ Destroy

Safe == Init /\ [][Next]_vars

(* The thread is never blocked (an unbounded channel), and the consumers   *)
(* call poll in a loop.  Nothing obliges a program to make records.        *)
Spec == Safe /\ WF_vars(ReaderStep) /\ WF_vars(Receive)

-----------------------------------------------------------------------------

TypeOK ==
  /\ open \in BOOLEAN
  /\ produced \in [Cpus -> Nat]
  /\ rings \in [Cpus -> Seq(Entry)]
  /\ missed \in [Cpus -> Nat]
  /\ reader \in Reader
  /\ channel \in Seq(Entry)
  /\ beats \in Nat
  /\ received \in [Cpus -> Seq(Entry)]
  /\ reported \in [Cpus -> Nat]

(* The reader never asks a ring for a record it does not hold: what it saw *)
(* when it came is still there, the programs only add at the other end.    *)
DrainBounded ==
  reader.at = "drain" => reader.todo <= Len(rings[reader.cpu])

(* Records of c the core has been given or told the loss of. *)
Taken(c) == Len(received[c]) + reported[c]

(* Positions of the channel that hold an entry of c. *)
Queued(c) == {i \in DOMAIN channel : channel[i].cpu = c}

(* An entry of c still on its way: about records that were made, and not   *)
(* yet taken.                                                              *)
Sound(e, c) ==
  /\ e.cpu = c
  /\ e.first \in Taken(c) + 1 .. e.last
  /\ e.last <= produced[c] - missed[c]
  /\ e.type = "Event" => e.first = e.last

(* Nothing overtaken or repeated: the entries of a CPU are on their way in *)
(* the order of their records, those in the channel before those in the    *)
(* ring, and no two speak for the same record.                             *)
InSequence ==
  open => \A c \in Cpus :
    LET ring == rings[c]
    IN  /\ Taken(c) + missed[c] <= produced[c]
        /\ \A i \in Queued(c) : Sound(channel[i], c)
        /\ \A i \in DOMAIN ring : Sound(ring[i], c)
        /\ \A i, j \in Queued(c) : i < j => channel[i].last < channel[j].first
        /\ \A i, j \in DOMAIN ring : i < j => ring[i].last < ring[j].first
        /\ \A i \in Queued(c), j \in DOMAIN ring : channel[i].last < ring[j].first

(* Nothing lost unseen: a record the core has not heard of is in an entry  *)
(* on its way, or among the losses the CPU's next record will tell of.     *)
NothingMissing ==
  open => \A c \in Cpus : \A n \in Taken(c) + 1 .. produced[c] - missed[c] :
    \/ \E i \in Queued(c) : n \in channel[i].first .. channel[i].last
    \/ \E i \in DOMAIN rings[c] : n \in rings[c][i].first .. rings[c][i].last

(* What the core can rely on: when it takes an event it has been given, or *)
(* told the loss of, every earlier record of that CPU, and no later one.   *)
TakenInTurn ==
  [][\A c \in Cpus : received'[c] # received[c] =>
       LET latest == received'[c][Len(received'[c])]
       IN  latest.cpu = c /\ latest.first = Taken(c) + 1]_vars

(* The abstract promise (LossyStream): pending are the samples in flight,  *)
(* delivered those poll took, dropped whatever is neither.  A record is    *)
(* told from every other one by its number, whatever its body, and the     *)
(* promise is about the order of the numbers.                              *)
EventsOf(s, c) == {s[i].first : i \in {j \in DOMAIN s : s[j].cpu = c /\ s[j].type = "Event"}}
InFlight(c)    == EventsOf(channel, c) \cup EventsOf(rings[c], c)

(* The member of S that i members do not exceed, itself one of them. *)
Ranked(S, i) == {n \in S : Cardinality({m \in S : m <= n}) = i}
Ascending(S) == [i \in 1 .. Cardinality(S) |-> CHOOSE n \in Ranked(S, i) : TRUE]

Pending   == [c \in Cpus |-> IF open THEN Ascending(InFlight(c)) ELSE <<>>]
Delivered == [c \in Cpus |-> [i \in DOMAIN received[c] |-> received[c][i].first]]
Dropped   == [c \in Cpus |-> produced[c] - Len(received[c]) - Len(Pending[c])]

Stream == INSTANCE LossyStream WITH
  Bodies    <- 1 .. MaxRecords,
  pending   <- Pending,
  delivered <- Delivered,
  dropped   <- Dropped

(* PerfReader implements LossyStream, its fairness included: each CPU's    *)
(* records in order, every accepted one delivered, losses never invented.  *)
DeliversInOrder == Stream!Spec

(* Every busy round ends in a heartbeat: whenever a ring holds a record,   *)
(* HEARTBEAT is going to grow.                                             *)
BusyReaderBeats ==
  \A k \in 0 .. MaxRecords :
    (beats = k /\ \E c \in Cpus : rings[c] # <<>>) ~> beats > k

=============================================================================
