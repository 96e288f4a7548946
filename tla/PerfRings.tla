----------------------------- MODULE PerfRings ------------------------------
(***************************************************************************)
(* The kernel's perf event rings, one per CPU, as both readers of them see *)
(* them (PerfReader, RawRing).  A program that finds its CPU's ring full   *)
(* drops the record and counts it, and the next record that does fit is    *)
(* preceded by a record of the count.                                      *)
(***************************************************************************)
EXTENDS Naturals, Sequences, Functions

CONSTANTS
  NumCpus,      (* online CPUs                                             *)
  Bodies,       (* what a record says (an event)                           *)
  RingCap,      (* records that fit in a ring of 8 pages                   *)
  MaxRecords    (* bound on the records made, all CPUs together            *)

ASSUME CpuAssumption == NumCpus \in Nat \ {0}
ASSUME RingAssumption == RingCap \in Nat \ {0} /\ MaxRecords \in Nat

Cpus == 1 .. NumCpus

VARIABLES
  produced,     (* records made so far on a CPU                            *)
  rings,        (* perf rings, oldest record first                         *)
  missed        (* losses of a CPU that no record in its ring tells yet    *)

perf_vars == <<produced, rings, missed>>

(* Msg::Event and Msg::Lost, in a ring PerfEvent::Sample and Lost.  A      *)
(* record made on a CPU has a number, and an entry speaks for the records  *)
(* first .. last of its CPU: a sample for itself, a Lost for those it      *)
(* counts.  The code carries neither CPU nor number: they are there for    *)
(* the properties.                                                         *)
Sample(c, n, b)      == [type |-> "Event", cpu |-> c, first |-> n, last |-> n, body |-> b]
Lost(c, first, last) == [type |-> "Lost", cpu |-> c, first |-> first, last |-> last]

Entry == [type : {"Event"}, cpu : Cpus, first : Nat, last : Nat, body : Bodies]
            \cup [type : {"Lost"}, cpu : Cpus, first : Nat, last : Nat]

(* The number a Lost carries. *)
LossOfOne(msg) == 1
LossOf(msg)    == msg.last - msg.first + 1

-----------------------------------------------------------------------------

(* EVENTS.output: what the kernel puts in the ring of c for one record. *)
Entries(c, b) ==
  LET sample == Sample(c, produced[c] + 1, b)
      told   == Lost(c, produced[c] - missed[c] + 1, produced[c])
  IN  IF missed[c] > 0 THEN <<told, sample>> ELSE <<sample>>

Put(c, b) ==
  LET ring == rings[c] \o Entries(c, b)
      fits == Len(ring) <= RingCap
  IN
  /\ SumFunction(produced) < MaxRecords
  /\ produced' = [produced EXCEPT ![c] = @ + 1]
  /\ rings' = IF fits THEN [rings EXCEPT ![c] = ring] ELSE rings
  /\ missed' = [missed EXCEPT ![c] = IF fits THEN 0 ELSE @ + 1]

PerfInit ==
  /\ produced = [c \in Cpus |-> 0]
  /\ rings = [c \in Cpus |-> <<>>]
  /\ missed = [c \in Cpus |-> 0]

=============================================================================
