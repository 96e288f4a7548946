------------------------------ MODULE RawRing ------------------------------
(***************************************************************************)
(* The C port of the loader (c-ebpf/ebpf.c): talus_monitor_poll lets       *)
(* libbpf hand over what the perf rings hold, one callback per record,     *)
(* keeps the records in a ring of its own, and copies as many of them to   *)
(* the caller as he has room for; the rest waits for his next poll.  A     *)
(* record that finds the ring full is dropped without a word.              *)
(*                                                                         *)
(* Callbacks and copying take place in the caller's thread.  libbpf reads  *)
(* a perf ring up to the head it finds and gives its places back only when *)
(* it is through with it.  The check of the size of a record is left out.  *)
(***************************************************************************)
EXTENDS PerfRings, FiniteSets

CONSTANTS
  Size,         (* RAW_RING_SIZE                                           *)
  Rooms         (* values of max_events                                    *)

ASSUME RawAssumption == Size \in Nat \ {0} /\ Rooms \subseteq Nat

VARIABLES
  ring, head, tail,         (* raw_ring                                    *)
  total_lost,
  at,           (* "idle", "poll" (in perf_buffer__poll), "copy"           *)
  ready,        (* the CPUs epoll_wait returned, not yet begun             *)
  cpu,          (* the one being read, 0 if none                           *)
  read, upto,   (* records of it read, and to be read                      *)
  room,         (* max_events - n                                          *)
  copied,       (* history: what the caller got, per CPU                   *)
  told,         (* history: records a Lost told of, per CPU                *)
  dropped       (* history: what found the ring full, and how many waited  *)

raw      == <<ring, head, tail>>
walk     == <<ready, cpu, read, upto>>
raw_vars == <<perf_vars, raw, total_lost, at, walk, room, copied, told, dropped>>

Slots == 0 .. Size - 1

-----------------------------------------------------------------------------

RawEmit(c, b) ==
  /\ Put(c, b)
  /\ UNCHANGED <<raw, total_lost, at, walk, room, copied, told, dropped>>

(* perf_buffer__poll(m->pb, 0) begins. *)
BeginPoll ==
  /\ at = "idle"
  /\ at' = "poll"
  /\ room' \in Rooms
  /\ ready' = {c \in Cpus : rings[c] # <<>>}
  /\ UNCHANGED <<perf_vars, raw, total_lost, cpu, read, upto, copied, told, dropped>>

BeginRing ==
  /\ at = "poll" /\ cpu = 0
  /\ \E c \in ready :
       /\ cpu' = c
       /\ ready' = ready \ {c}
       /\ upto' = Len(rings[c])
  /\ read' = 0
  /\ UNCHANGED <<perf_vars, raw, total_lost, at, room, copied, told, dropped>>

Record == rings[cpu][read + 1]

ReadOne ==
  /\ at = "poll" /\ cpu # 0
  /\ read < upto
  /\ read' = read + 1
  /\ UNCHANGED <<perf_vars, at, ready, cpu, upto, room, copied>>

NextSlot(i) == (i + 1) % Size
Waiting     == (head + Size - tail) % Size

NeverFull == FALSE
Full      == NextSlot(head) = tail

(* perf_event_handler *)
HandleEvent ==
  /\ ReadOne
  /\ Record.type = "Event"
  /\ IF Full
     THEN /\ dropped' = dropped \cup {[cpu |-> cpu, no |-> Record.first, waiting |-> Waiting]}
          /\ UNCHANGED raw
     ELSE /\ ring' = [ring EXCEPT ![head] = Record]
          /\ head' = NextSlot(head)
          /\ UNCHANGED <<tail, dropped>>
  /\ UNCHANGED <<total_lost, told>>

(* perf_event_lost_handler *)
HandleLost ==
  /\ ReadOne
  /\ Record.type = "Lost"
  /\ total_lost' = total_lost + LossOf(Record)
  /\ told' = [told EXCEPT ![cpu] = @ \cup (Record.first .. Record.last)]
  /\ UNCHANGED <<raw, dropped>>

(* ring_buffer_write_tail *)
EndRing ==
  /\ at = "poll" /\ cpu # 0
  /\ read = upto
  /\ rings' = [rings EXCEPT ![cpu] = SubSeq(@, upto + 1, Len(@))]
  /\ cpu' = 0 /\ read' = 0 /\ upto' = 0
  /\ UNCHANGED <<produced, missed, raw, total_lost, at, ready, room, copied, told, dropped>>

EndCallbacks ==
  /\ at = "poll" /\ cpu = 0 /\ ready = {}
  /\ at' = "copy"
  /\ UNCHANGED <<perf_vars, raw, total_lost, walk, room, copied, told, dropped>>

(* One round of the loop that copies, or its end. *)
Copy ==
  /\ at = "copy" /\ tail # head /\ room > 0
  /\ copied' = [copied EXCEPT ![ring[tail].cpu] = Append(@, ring[tail].first)]
  /\ tail' = NextSlot(tail)
  /\ room' = room - 1
  /\ UNCHANGED <<perf_vars, ring, head, total_lost, at, walk, told, dropped>>

EndPoll ==
  /\ at = "copy" /\ (tail = head \/ room = 0)
  /\ at' = "idle" /\ room' = 0
  /\ UNCHANGED <<perf_vars, raw, total_lost, walk, copied, told, dropped>>

RawInit ==
  /\ PerfInit
  /\ ring = [i \in Slots |-> [cpu |-> 0]]       \* calloc
  /\ head = 0 /\ tail = 0
  /\ total_lost = 0
  /\ at = "idle"
  /\ ready = {} /\ cpu = 0 /\ read = 0 /\ upto = 0
  /\ room = 0
  /\ copied = [c \in Cpus |-> <<>>]
  /\ told = [c \in Cpus |-> {}]
  /\ dropped = {}

RawPoll == \/ BeginPoll \/ BeginRing \/ HandleEvent \/ HandleLost
           \/ EndRing \/ EndCallbacks \/ Copy \/ EndPoll

RawNext == RawPoll \/ \E c \in Cpus, b \in Bodies : RawEmit(c, b)

RawSpec == RawInit /\ [][RawNext]_raw_vars

-----------------------------------------------------------------------------

(* What waits in the ring, oldest first. *)
Kept == [i \in 1 .. Waiting |-> ring[(tail + i - 1) % Size]]

(* Entries of c that no callback has had. *)
Unread(c) == (IF c = cpu THEN read + 1 ELSE 1) .. Len(rings[c])

(* The places where record n of c is. *)
Places(c, n) ==
  LET speaks(e) == n \in e.first .. e.last
  IN  UNION {
        {<<"copied", i>>  : i \in {j \in DOMAIN copied[c] : copied[c][j] = n}},
        {<<"kept", i>>    : i \in {j \in DOMAIN Kept : Kept[j].cpu = c /\ Kept[j].first = n}},
        {<<"dropped", d>> : d \in {e \in dropped : e.cpu = c /\ e.no = n}},
        {<<"unread", i>>  : i \in {j \in Unread(c) : speaks(rings[c][j])}},
        {<<"told", i>>    : i \in told[c] \cap {n}},
        {<<"missed", i>>  : i \in {n} \cap (produced[c] - missed[c] + 1 .. produced[c])}}

(* Every record made is in one place: copied to the caller, kept for his   *)
(* next poll, in a perf ring, counted as lost or going to be, or dropped   *)
(* with the ring as full as it gets.  The caller has got each CPU's        *)
(* records in order, and those kept go on from there.                      *)
RawAccounted ==
  /\ \A c \in Cpus : \A n \in 1 .. produced[c] : Cardinality(Places(c, n)) = 1
  /\ \A c \in Cpus : \A i, j \in DOMAIN copied[c] : i < j => copied[c][i] < copied[c][j]
  /\ \A i, j \in DOMAIN Kept : i < j /\ Kept[i].cpu = Kept[j].cpu => Kept[i].first < Kept[j].first
  /\ \A i \in DOMAIN Kept : LET c == Kept[i].cpu
                            IN  \A j \in DOMAIN copied[c] : copied[c][j] < Kept[i].first
  /\ \A d \in dropped : d.waiting = Size - 1
  /\ total_lost = SumFunction([c \in Cpus |-> Cardinality(told[c])])

=============================================================================
