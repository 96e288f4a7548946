-------------------------- MODULE PerfReaderProofs --------------------------
(***************************************************************************)
(* What PerfReader keeps to, for any number of CPUs, any ring size and any *)
(* interleaving of programs, reader, core and destruction:                 *)
(*   ReaderTyped   the types, and that the reader never reads past a ring; *)
(*   StreamKept    InSequence and NothingMissing;                          *)
(*   CoreInTurn    the core takes the events of a CPU in turn.             *)
(* The argument is about one CPU at a time: Flow says of the entries of a  *)
(* CPU, in the channel and in its ring, that they cover the records after  *)
(* `taken' and up to `top', each exactly once and in order.  Four lemmas   *)
(* say what an entry added to the ring, moved to the channel, or taken     *)
(* from it does to Flow; the rest is bookkeeping.                          *)
(***************************************************************************)
EXTENDS PerfReader, DataLemmas

(* e speaks for records of c after taken and up to top. *)
Within(e, c, taken, top) ==
  /\ e.cpu = c
  /\ e.first \in taken + 1 .. e.last
  /\ e.last <= top
  /\ e.type = "Event" => e.first = e.last

Covers(s, c, n) == \E i \in DOMAIN s : s[i].cpu = c /\ n \in s[i].first .. s[i].last

Ordered(s, c) ==
  \A i, j \in DOMAIN s : s[i].cpu = c /\ s[j].cpu = c /\ i < j => s[i].last < s[j].first

Flow(c, taken, top, queue, ring) ==
  /\ taken <= top
  /\ \A i \in DOMAIN queue : queue[i].cpu = c => Within(queue[i], c, taken, top)
  /\ \A i \in DOMAIN ring : Within(ring[i], c, taken, top)
  /\ Ordered(queue, c)
  /\ Ordered(ring, c)
  /\ \A i \in DOMAIN queue, j \in DOMAIN ring :
       queue[i].cpu = c => queue[i].last < ring[j].first
  /\ \A n \in taken + 1 .. top : Covers(queue, c, n) \/ Covers(ring, c, n)

(* A new entry that speaks for the records right above top. *)
LEMMA FlowGrows ==
  ASSUME NEW c \in Cpus, NEW taken \in Nat, NEW top \in Nat,
         NEW queue \in Seq(Entry), NEW ring \in Seq(Entry), NEW e \in Entry,
         Flow(c, taken, top, queue, ring),
         e.cpu = c, e.first = top + 1, e.last >= e.first,
         e.type = "Event" => e.first = e.last
  PROVE  Flow(c, taken, e.last, queue, Append(ring, e))
<1> DEFINE longer == Append(ring, e)
<1>1. /\ longer \in Seq(Entry)
      /\ Len(longer) = Len(ring) + 1
      /\ DOMAIN longer = 1 .. Len(ring) + 1
      /\ \A i \in 1 .. Len(ring) : longer[i] = ring[i]
      /\ longer[Len(ring) + 1] = e
      /\ DOMAIN ring = 1 .. Len(ring)
      /\ Len(ring) \in Nat
  OBVIOUS
<1>t. /\ e.first \in Nat /\ e.last \in Nat
      /\ \A i \in DOMAIN ring : ring[i].first \in Nat /\ ring[i].last \in Nat
      /\ \A i \in DOMAIN queue : queue[i].first \in Nat /\ queue[i].last \in Nat
  BY DEF Entry
<1>2. \A i \in DOMAIN queue : queue[i].cpu = c => Within(queue[i], c, taken, e.last)
  BY <1>t DEF Flow, Within
<1>3. \A i \in DOMAIN longer : Within(longer[i], c, taken, e.last)
  BY <1>1, <1>t DEF Flow, Within
<1>4. Ordered(longer, c)
  BY <1>1, <1>t DEF Flow, Ordered, Within
<1>5. \A i \in DOMAIN queue, j \in DOMAIN longer :
        queue[i].cpu = c => queue[i].last < longer[j].first
  BY <1>1, <1>t DEF Flow, Within
<1>6. ASSUME NEW n \in taken + 1 .. e.last
      PROVE  Covers(queue, c, n) \/ Covers(longer, c, n)
  <2>1. CASE n <= top
    <3>1. \A i \in DOMAIN ring : i \in DOMAIN longer /\ longer[i] = ring[i]
      BY <1>1
    <3>2. Covers(ring, c, n) => Covers(longer, c, n)
      BY <3>1 DEF Covers
    <3>3. n \in taken + 1 .. top
      BY <2>1, <1>t
    <3> QED BY <3>2, <3>3 DEF Flow
  <2>2. CASE n > top
    <3>1. Len(ring) + 1 \in DOMAIN longer /\ longer[Len(ring) + 1] = e
      BY <1>1
    <3>2. n \in e.first .. e.last
      BY <2>2, <1>t
    <3> QED BY <3>1, <3>2 DEF Covers
  <2>3. n <= top \/ n > top
    BY <1>t
  <2> HIDE DEF longer
  <2> QED BY <2>1, <2>2, <2>3
<1>7. taken <= e.last /\ Ordered(queue, c)
  BY <1>t DEF Flow
<1> HIDE DEF longer
<1>8. Flow(c, taken, e.last, queue, longer)
  BY <1>2, <1>3, <1>4, <1>5, <1>6, <1>7 DEF Flow
<1> QED BY <1>8 DEF longer

(* The oldest entry of the ring of c, moved to the end of the channel. *)
LEMMA FlowMoves ==
  ASSUME NEW c \in Cpus, NEW taken \in Nat, NEW top \in Nat,
         NEW queue \in Seq(Entry), NEW ring \in Seq(Entry), ring # <<>>,
         Flow(c, taken, top, queue, ring)
  PROVE  Flow(c, taken, top, Append(queue, Head(ring)), Tail(ring))
<1> DEFINE e == Head(ring)
           longer == Append(queue, e)
           rest == Tail(ring)
<1>1. /\ longer \in Seq(Entry)
      /\ DOMAIN longer = 1 .. Len(queue) + 1
      /\ \A i \in 1 .. Len(queue) : longer[i] = queue[i]
      /\ longer[Len(queue) + 1] = e
      /\ DOMAIN queue = 1 .. Len(queue)
      /\ Len(queue) \in Nat
  OBVIOUS
<1>2. /\ DOMAIN ring = 1 .. Len(ring)
      /\ Len(ring) \in Nat \ {0}
      /\ e = ring[1]
      /\ DOMAIN rest = 1 .. Len(ring) - 1
      /\ \A i \in 1 .. Len(ring) - 1 : rest[i] = ring[i + 1]
  OBVIOUS
<1>t. /\ \A i \in DOMAIN ring : ring[i].first \in Nat /\ ring[i].last \in Nat
      /\ \A i \in DOMAIN queue : queue[i].first \in Nat /\ queue[i].last \in Nat
  BY SMTT(20) DEF Entry
<1> HIDE DEF e, longer, rest
<1>3. \A i \in DOMAIN longer : longer[i].cpu = c => Within(longer[i], c, taken, top)
  BY <1>1, <1>2 DEF Flow
<1>4. \A i \in DOMAIN rest : Within(rest[i], c, taken, top)
  BY <1>2, SMTT(20) DEF Flow
<1>r. \A i \in DOMAIN rest : i + 1 \in DOMAIN ring /\ rest[i] = ring[i + 1]
  BY <1>2
<1>5. Ordered(longer, c)
  <2>1. \A i \in DOMAIN queue : queue[i].cpu = c => queue[i].last < e.first
    BY <1>2 DEF Flow
  <2>2. \A i, j \in DOMAIN longer : i < j => /\ i \in DOMAIN queue
                                             /\ longer[i] = queue[i]
                                             /\ j \in DOMAIN queue => longer[j] = queue[j]
                                             /\ j \notin DOMAIN queue => longer[j] = e
    BY <1>1
  <2> QED BY <2>1, <2>2 DEF Flow, Ordered
<1>6. Ordered(rest, c)
  <2>1. \A i, j \in DOMAIN rest : i < j => i + 1 < j + 1
    BY <1>2
  <2> QED BY <2>1, <1>r DEF Flow, Ordered
<1>7. \A i \in DOMAIN longer, j \in DOMAIN rest :
        longer[i].cpu = c => longer[i].last < rest[j].first
  <2>1. \A i \in DOMAIN ring : ring[i].cpu = c
    BY DEF Flow, Within
  <2>2. \A j \in DOMAIN rest : 1 \in DOMAIN ring /\ 1 < j + 1
    BY <1>2
  <2>3. \A j \in DOMAIN rest : e.last < rest[j].first
    BY <2>1, <2>2, <1>2, <1>r DEF Flow, Ordered
  <2>4. \A i \in DOMAIN longer : \/ /\ i \in DOMAIN queue
                                     /\ longer[i] = queue[i]
                                  \/ longer[i] = e
    BY <1>1
  <2> QED BY <2>3, <2>4, <1>r DEF Flow
<1>8. ASSUME NEW n \in taken + 1 .. top
      PROVE  Covers(longer, c, n) \/ Covers(rest, c, n)
  <2>1. CASE Covers(queue, c, n)
    BY <2>1, <1>1 DEF Covers
  <2>2. CASE Covers(ring, c, n)
    <3>1. PICK i \in DOMAIN ring : ring[i].cpu = c /\ n \in ring[i].first .. ring[i].last
      BY <2>2 DEF Covers
    <3>2. CASE i = 1
      BY <3>1, <3>2, <1>1, <1>2 DEF Covers
    <3>3. CASE i > 1
      <4>1. i - 1 \in DOMAIN rest /\ rest[i - 1] = ring[i]
        BY <3>3, <1>2
      <4> QED BY <4>1, <3>1 DEF Covers
    <3> QED BY <3>2, <3>3, <1>2
  <2> QED BY <2>1, <2>2 DEF Flow
<1>9. Flow(c, taken, top, longer, rest)
  BY <1>3, <1>4, <1>5, <1>6, <1>7, <1>8 DEF Flow
<1> QED BY <1>9 DEF longer, rest, e

(* An entry of another CPU, added to the channel or taken from it. *)
LEMMA FlowApart ==
  ASSUME NEW c \in Cpus, NEW taken \in Nat, NEW top \in Nat,
         NEW queue \in Seq(Entry), NEW ring \in Seq(Entry),
         Flow(c, taken, top, queue, ring)
  PROVE  /\ \A e \in Entry : e.cpu # c => Flow(c, taken, top, Append(queue, e), ring)
         /\ queue # <<>> /\ Head(queue).cpu # c => Flow(c, taken, top, Tail(queue), ring)
<1>0. /\ DOMAIN queue = 1 .. Len(queue)
      /\ Len(queue) \in Nat
  OBVIOUS
<1>1. ASSUME NEW e \in Entry, e.cpu # c
      PROVE  Flow(c, taken, top, Append(queue, e), ring)
  <2> DEFINE longer == Append(queue, e)
  <2>1. /\ DOMAIN longer = 1 .. Len(queue) + 1
        /\ \A i \in 1 .. Len(queue) : longer[i] = queue[i]
        /\ longer[Len(queue) + 1] = e
    OBVIOUS
  <2>2. \A i \in DOMAIN longer : longer[i].cpu = c => i \in DOMAIN queue /\ longer[i] = queue[i]
    BY <2>1, <1>0, <1>1
  <2>3. \A n \in taken + 1 .. top : Covers(queue, c, n) => Covers(longer, c, n)
    BY <2>1, <1>0 DEF Covers
  <2> HIDE DEF longer
  <2>4. Flow(c, taken, top, longer, ring)
    BY <2>2, <2>3 DEF Flow, Ordered
  <2> QED BY <2>4 DEF longer
<1>2. ASSUME queue # <<>>, Head(queue).cpu # c
      PROVE  Flow(c, taken, top, Tail(queue), ring)
  <2> DEFINE rest == Tail(queue)
  <2>1. /\ DOMAIN rest = 1 .. Len(queue) - 1
        /\ \A i \in 1 .. Len(queue) - 1 : rest[i] = queue[i + 1]
        /\ Head(queue) = queue[1]
        /\ Len(queue) > 0
    BY <1>2
  <2>2. \A i \in DOMAIN rest : i + 1 \in DOMAIN queue /\ rest[i] = queue[i + 1]
    BY <2>1, <1>0
  <2>3. ASSUME NEW n \in taken + 1 .. top, Covers(queue, c, n)
        PROVE  Covers(rest, c, n)
    <3>1. PICK i \in DOMAIN queue : queue[i].cpu = c /\ n \in queue[i].first .. queue[i].last
      BY <2>3 DEF Covers
    <3>2. i - 1 \in DOMAIN rest /\ rest[i - 1] = queue[i]
      BY <3>1, <2>1, <1>0, <1>2
    <3> QED BY <3>1, <3>2 DEF Covers
  <2>4. \A i, j \in DOMAIN rest : i < j => i + 1 < j + 1
    BY <2>1, <1>0
  <2> HIDE DEF rest
  <2>5. Ordered(rest, c)
    BY <2>2, <2>4 DEF Flow, Ordered
  <2>6. Flow(c, taken, top, rest, ring)
    BY <2>2, <2>3, <2>5 DEF Flow
  <2> QED BY <2>6 DEF rest
<1> QED BY <1>1, <1>2

(* The head of the channel is the next in turn, and taking it leaves the   *)
(* rest in order.                                                          *)
LEMMA FlowShrinks ==
  ASSUME NEW c \in Cpus, NEW taken \in Nat, NEW top \in Nat,
         NEW queue \in Seq(Entry), NEW ring \in Seq(Entry),
         Flow(c, taken, top, queue, ring),
         queue # <<>>, Head(queue).cpu = c
  PROVE  /\ Head(queue).first = taken + 1
         /\ Head(queue).last \in Nat
         /\ Head(queue).last > taken
         /\ Head(queue).type = "Event" => Head(queue).last = taken + 1
         /\ Flow(c, Head(queue).last, top, Tail(queue), ring)
<1> DEFINE e == Head(queue)
           rest == Tail(queue)
<1>1. /\ DOMAIN queue = 1 .. Len(queue)
      /\ Len(queue) \in Nat \ {0}
      /\ e = queue[1]
      /\ DOMAIN rest = 1 .. Len(queue) - 1
      /\ \A i \in 1 .. Len(queue) - 1 : rest[i] = queue[i + 1]
  OBVIOUS
<1>t. /\ \A i \in DOMAIN ring : ring[i].first \in Nat /\ ring[i].last \in Nat
      /\ \A i \in DOMAIN queue : queue[i].first \in Nat /\ queue[i].last \in Nat
  BY DEF Entry
<1>c. queue[1].cpu = c /\ e.cpu = c
  BY <1>1
<1> HIDE DEF e, rest
<1>2. Within(e, c, taken, top)
  BY <1>1, <1>c DEF Flow
<1>3. /\ \A i \in DOMAIN queue : queue[i].cpu = c /\ i # 1 => e.last < queue[i].first
      /\ \A i \in DOMAIN ring : e.last < ring[i].first
  BY <1>1, <1>t, <1>c, SMTT(20) DEF Flow, Ordered
<1>4. e.first = taken + 1
  <2>1. taken + 1 \in taken + 1 .. top
    BY <1>1, <1>t, <1>2 DEF Within
  <2>2. Covers(queue, c, taken + 1) \/ Covers(ring, c, taken + 1)
    BY <2>1 DEF Flow
  <2>3. ~ Covers(ring, c, taken + 1)
    <3>1. e.last \in Nat /\ e.last >= taken + 1
      BY <1>1, <1>2, <1>t DEF Within
    <3>2. \A i \in DOMAIN ring : ring[i].first > taken + 1
      BY <3>1, <1>3, <1>t
    <3>3. \A i \in DOMAIN ring : taken + 1 \notin ring[i].first .. ring[i].last
      BY <3>2, <1>t
    <3> QED BY <3>3 DEF Covers
  <2>4. PICK i \in DOMAIN queue : queue[i].cpu = c /\ taken + 1 \in queue[i].first .. queue[i].last
    BY <2>2, <2>3 DEF Covers
  <2>5. i = 1
    BY <2>4, <1>1, <1>2, <1>3, <1>t DEF Within
  <2> QED BY <2>4, <2>5, <1>1, <1>2, <1>t DEF Within
<1>5. e.last \in Nat /\ e.last > taken /\ e.last <= top
  BY <1>1, <1>2, <1>t DEF Within
<1>6. \A i \in DOMAIN rest : /\ i + 1 \in DOMAIN queue
                             /\ i + 1 # 1
                             /\ rest[i] = queue[i + 1]
  BY <1>1
<1>7. \A i \in DOMAIN rest : rest[i].cpu = c => Within(rest[i], c, e.last, top)
  BY <1>3, <1>5, <1>6, <1>t DEF Flow, Within
<1>8. \A i \in DOMAIN ring : Within(ring[i], c, e.last, top)
  BY <1>3, <1>5, <1>t DEF Flow, Within
<1>9. Ordered(rest, c)
  <2>1. \A i, j \in DOMAIN rest : i < j => i + 1 < j + 1
    BY <1>1
  <2> QED BY <2>1, <1>6 DEF Flow, Ordered
<1>10. \A i \in DOMAIN rest, j \in DOMAIN ring :
         rest[i].cpu = c => rest[i].last < ring[j].first
  BY <1>6 DEF Flow
<1>11. ASSUME NEW n \in e.last + 1 .. top
       PROVE  Covers(rest, c, n) \/ Covers(ring, c, n)
  <2>1. n \in taken + 1 .. top
    BY <1>5
  <2>2. CASE Covers(queue, c, n)
    <3>1. PICK i \in DOMAIN queue : queue[i].cpu = c /\ n \in queue[i].first .. queue[i].last
      BY <2>2 DEF Covers
    <3>2. i # 1
      BY <3>1, <1>1, <1>5
    <3>3. i - 1 \in DOMAIN rest /\ rest[i - 1] = queue[i]
      BY <3>2, <1>1
    <3> QED BY <3>1, <3>3 DEF Covers
  <2> QED BY <2>1, <2>2 DEF Flow
<1>12. Flow(c, e.last, top, rest, ring)
  BY <1>5, <1>7, <1>8, <1>9, <1>10, <1>11 DEF Flow, Ordered
<1>13. Flow(c, taken, top, queue, ring) => Ordered(ring, c)
  BY DEF Flow
<1> QED BY <1>2, <1>4, <1>5, <1>12, <1>13 DEF e, rest, Within

-----------------------------------------------------------------------------

Top(c) == produced[c] - missed[c]

(* The invariant: Flow for every CPU while the monitor is open. *)
StreamInv ==
  /\ TypeOK
  /\ DrainBounded
  /\ \A c \in Cpus : missed[c] <= produced[c]
  /\ open => \A c \in Cpus : Flow(c, Taken(c), Top(c), channel, rings[c])

LEMMA InitInv == Init => StreamInv
<1> SUFFICES ASSUME Init PROVE StreamInv
  OBVIOUS
<1>1. TypeOK /\ DrainBounded
  BY CpuAssumption DEF Init, PerfInit, TypeOK, DrainBounded, Reader, Cpus
<1>2. \A c \in Cpus : missed[c] <= produced[c]
  BY DEF Init, PerfInit
<1>3. ASSUME NEW c \in Cpus
      PROVE  Flow(c, Taken(c), Top(c), channel, rings[c])
  <2>1. Taken(c) = 0 /\ Top(c) = 0 /\ channel = <<>> /\ rings[c] = <<>>
    BY DEF Init, PerfInit, Taken, Top
  <2> QED BY <2>1 DEF Flow, Ordered, Covers
<1> QED BY <1>1, <1>2, <1>3 DEF StreamInv

LEMMA ConcatIsAppend ==
  ASSUME NEW s \in Seq(Entry), NEW x \in Entry, NEW y \in Entry
  PROVE  /\ s \o <<x>> = Append(s, x)
         /\ s \o <<x, y>> = Append(Append(s, x), y)
         /\ Append(s, x) \in Seq(Entry)
         /\ Len(Append(s, x)) = Len(s) + 1
         /\ Len(s) \in Nat
  OBVIOUS

LEMMA EmitInv ==
  ASSUME StreamInv, NEW c \in Cpus, NEW b \in Bodies, Emit(c, b)
  PROVE  StreamInv'
<1> DEFINE p == produced[c]
           m == missed[c]
           sample == Sample(c, p + 1, b)
           told == Lost(c, p - m + 1, p)
           ring == rings[c] \o Entries(c, b)
           fits == Len(ring) <= RingCap
<1>1. /\ p \in Nat /\ m \in Nat /\ m <= p
      /\ rings[c] \in Seq(Entry) /\ channel \in Seq(Entry)
      /\ received[c] \in Seq(Entry) /\ reported[c] \in Nat
      /\ open
  BY DEF StreamInv, TypeOK, Emit, Put
<1>2. sample \in Entry /\ (m > 0 => told \in Entry)
  BY <1>1 DEF Entry, Sample, Lost
<1>3. /\ m > 0 => ring = Append(Append(rings[c], told), sample)
      /\ m = 0 => ring = Append(rings[c], sample)
  <2>1. /\ m > 0 => Entries(c, b) = <<told, sample>>
        /\ m = 0 => Entries(c, b) = <<sample>>
    BY DEF Entries
  <2> HIDE DEF sample, told, m
  <2>2. CASE m > 0
    <3>1. rings[c] \o <<told, sample>> = Append(Append(rings[c], told), sample)
      BY <2>2, <1>1, <1>2, ConcatIsAppend
    <3>2. ring = rings[c] \o <<told, sample>>
      BY <2>1, <2>2
    <3> QED BY <3>1, <3>2, <2>2, SMTT(20)
  <2>3. CASE m = 0
    <3>1. rings[c] \o <<sample>> = Append(rings[c], sample)
      BY <1>1, <1>2, ConcatIsAppend
    <3>2. ring = rings[c] \o <<sample>>
      BY <2>1, <2>3
    <3> QED BY <3>1, <3>2, <2>3
  <2> QED BY <2>2, <2>3, <1>1
<1>4. ring \in Seq(Entry) /\ Len(ring) >= Len(rings[c]) /\ Len(rings[c]) \in Nat
  <2> HIDE DEF sample, told, ring, m
  <2>1. CASE m > 0
    <3>1. /\ Append(rings[c], told) \in Seq(Entry)
          /\ Len(Append(rings[c], told)) = Len(rings[c]) + 1
          /\ Len(rings[c]) \in Nat
      BY <2>1, <1>1, <1>2, ConcatIsAppend
    <3>2. /\ ring \in Seq(Entry)
          /\ Len(ring) = Len(Append(rings[c], told)) + 1
      BY <3>1, <2>1, <1>2, <1>3, ConcatIsAppend
    <3> QED BY <3>1, <3>2
  <2>2. CASE m = 0
    <3>1. /\ Append(rings[c], sample) \in Seq(Entry)
          /\ Len(Append(rings[c], sample)) = Len(rings[c]) + 1
          /\ Len(rings[c]) \in Nat
      BY <1>1, <1>2, ConcatIsAppend
    <3>2. ring = Append(rings[c], sample)
      BY <2>2, <1>3
    <3> QED BY <3>1, <3>2
  <2> QED BY <2>1, <2>2, <1>1
<1>5. Flow(c, Taken(c), p - m, channel, rings[c])
  BY <1>1 DEF StreamInv, Top
<1>6. Taken(c) \in Nat
  BY <1>1 DEF Taken
<1>7. Flow(c, Taken(c), p + 1, channel, ring)
  <2>0. /\ sample.cpu = c /\ sample.first = p + 1 /\ sample.last = p + 1
        /\ told.cpu = c /\ told.first = p - m + 1 /\ told.last = p /\ told.type # "Event"
    BY DEF Sample, Lost
  <2> HIDE DEF sample, told, ring, p, m
  <2>1. CASE m > 0
    <3> DEFINE longer == Append(rings[c], told)
    <3>1. Flow(c, Taken(c), told.last, channel, longer)
      BY <2>0, <2>1, <1>1, <1>2, <1>5, <1>6, FlowGrows
    <3>2. longer \in Seq(Entry) /\ ring = Append(longer, sample)
      BY <2>1, <1>1, <1>2, <1>3
    <3> HIDE DEF longer
    <3>3. Flow(c, Taken(c), p, channel, longer)
      BY <3>1, <2>0
    <3>4. Flow(c, Taken(c), sample.last, channel, Append(longer, sample))
      BY <3>2, <3>3, <2>0, <1>1, <1>2, <1>6, FlowGrows
    <3> QED BY <3>2, <3>4, <2>0
  <2>2. CASE m = 0
    <3>1. Flow(c, Taken(c), sample.last, channel, Append(rings[c], sample))
      BY <2>0, <2>2, <1>1, <1>2, <1>5, <1>6, FlowGrows
    <3> QED BY <3>1, <2>0, <2>2, <1>3
  <2> QED BY <2>1, <2>2, <1>1
<1> HIDE DEF ring, sample, told
<1>8. /\ produced' = [produced EXCEPT ![c] = p + 1]
      /\ rings' = IF fits THEN [rings EXCEPT ![c] = ring] ELSE rings
      /\ missed' = [missed EXCEPT ![c] = IF fits THEN 0 ELSE m + 1]
      /\ UNCHANGED <<open, reader, channel, beats, received, reported>>
  BY DEF Emit, Put, ring
<1>9. TypeOK'
  <2>1. produced' \in [Cpus -> Nat]
    BY <1>1, <1>8 DEF StreamInv, TypeOK
  <2>2. rings' \in [Cpus -> Seq(Entry)]
    BY <1>4, <1>8 DEF StreamInv, TypeOK
  <2>3. missed' \in [Cpus -> Nat]
    <3>1. (IF fits THEN 0 ELSE m + 1) \in Nat
      BY <1>1
    <3> QED BY <3>1, <1>8 DEF StreamInv, TypeOK
  <2> QED BY <2>1, <2>2, <2>3, <1>8 DEF StreamInv, TypeOK
<1>10. DrainBounded'
  <2>1. ASSUME NEW d \in Cpus
        PROVE  Len(rings'[d]) >= Len(rings[d]) /\ Len(rings[d]) \in Nat /\ Len(rings'[d]) \in Nat
    BY <1>4, <1>8, <1>9 DEF StreamInv, TypeOK
  <2>2. reader.cpu \in Cpus /\ reader.todo \in Nat
    BY DEF StreamInv, TypeOK, Reader
  <2> QED BY <2>1, <2>2, <1>8 DEF StreamInv, DrainBounded
<1>11. \A d \in Cpus : (missed[d] <= produced[d])'
  <2>1. CASE fits
    BY <2>1, <1>1, <1>8 DEF StreamInv, TypeOK
  <2>2. CASE ~ fits
    BY <2>2, <1>1, <1>8 DEF StreamInv, TypeOK
  <2> QED BY <2>1, <2>2
<1>12. ASSUME NEW d \in Cpus
       PROVE  Flow(d, Taken(d)', Top(d)', channel', rings'[d])
  <2>1. Taken(d)' = Taken(d) /\ channel' = channel
    BY <1>8 DEF Taken
  <2>2. Flow(d, Taken(d), Top(d), channel, rings[d])
    BY <1>1 DEF StreamInv
  <2>3. CASE d # c
    <3>1. rings'[d] = rings[d] /\ Top(d)' = Top(d)
      BY <2>3, <1>8 DEF StreamInv, TypeOK, Top
    <3> QED BY <3>1, <2>1, <2>2
  <2>4. CASE d = c /\ fits
    <3>1. rings'[d] = ring /\ Top(d)' = p + 1
      BY <2>4, <1>1, <1>8 DEF StreamInv, TypeOK, Top
    <3> QED BY <3>1, <2>1, <2>4, <1>7
  <2>5. CASE d = c /\ ~ fits
    <3>1. rings'[d] = rings[d] /\ Top(d)' = Top(d)
      BY <2>5, <1>1, <1>8 DEF StreamInv, TypeOK, Top
    <3> QED BY <3>1, <2>1, <2>2
  <2> QED BY <2>3, <2>4, <2>5
<1> QED BY <1>9, <1>10, <1>11, <1>12 DEF StreamInv

(* ReadRecord moves an entry of the ring to the channel, or, once the      *)
(* monitor is gone, only out of the ring.                                  *)
LEMMA ReadInv ==
  ASSUME StreamInv, ReadRecord
  PROVE  StreamInv'
<1> DEFINE c == reader.cpu
           e == Head(rings[c])
<1>1. /\ c \in Cpus /\ reader.at = "drain" /\ reader.todo \in Nat /\ reader.todo > 0
      /\ reader.todo <= Len(rings[c])
      /\ rings[c] \in Seq(Entry) /\ channel \in Seq(Entry)
  BY DEF StreamInv, TypeOK, Reader, DrainBounded, ReadRecord
<1>2. /\ rings[c] # <<>> /\ Len(rings[c]) \in Nat
      /\ e \in Entry
      /\ Tail(rings[c]) \in Seq(Entry)
      /\ Len(Tail(rings[c])) = Len(rings[c]) - 1
  BY <1>1
<1>3. /\ rings' = [rings EXCEPT ![c] = Tail(rings[c])]
      /\ channel' = IF open THEN Append(channel, e) ELSE channel
      /\ reader' = [reader EXCEPT !.todo = reader.todo - 1, !.idle = FALSE]
      /\ UNCHANGED <<open, produced, missed, beats, received, reported>>
  BY DEF ReadRecord, AfterRead
<1> HIDE DEF e
<1>4. reader' \in Reader /\ reader'.todo = reader.todo - 1 /\ reader'.cpu = c
  <2> DEFINE left == reader.todo - 1
  <2>1. left \in Nat /\ reader \in Reader
    BY <1>1 DEF StreamInv, TypeOK
  <2>2. reader' = [reader EXCEPT !.todo = left, !.idle = FALSE]
    BY <1>3
  <2> HIDE DEF left
  <2>3. reader' \in Reader /\ reader'.todo = left /\ reader'.cpu = c
    BY <2>1, <2>2 DEF Reader
  <2> QED BY <2>3 DEF left
<1>5. TypeOK'
  <2>1. rings' \in [Cpus -> Seq(Entry)]
    BY <1>2, <1>3 DEF StreamInv, TypeOK
  <2>2. channel' \in Seq(Entry)
    BY <1>1, <1>2, <1>3
  <2> QED BY <2>1, <2>2, <1>3, <1>4 DEF StreamInv, TypeOK
<1>6. DrainBounded'
  <2>1. rings'[reader'.cpu] = Tail(rings[c])
    BY <1>1, <1>3, <1>4 DEF StreamInv, TypeOK
  <2> QED BY <2>1, <1>1, <1>2, <1>4 DEF DrainBounded
<1>7. ASSUME NEW d \in Cpus, open
      PROVE  Flow(d, Taken(d)', Top(d)', channel', rings'[d])
  <2>1. Taken(d)' = Taken(d) /\ Top(d)' = Top(d) /\ channel' = Append(channel, e)
    BY <1>3, <1>7 DEF Taken, Top
  <2>2. Flow(d, Taken(d), Top(d), channel, rings[d])
    BY <1>7 DEF StreamInv
  <2>3. Taken(d) \in Nat /\ Top(d) \in Nat /\ rings[d] \in Seq(Entry)
    BY DEF StreamInv, TypeOK, Taken, Top
  <2>4. CASE d = c
    <3>1. rings'[d] = Tail(rings[d])
      BY <2>4, <1>3 DEF StreamInv, TypeOK
    <3>2. Flow(d, Taken(d), Top(d), Append(channel, Head(rings[d])), Tail(rings[d]))
      BY <2>2, <2>3, <2>4, <1>1, <1>2, FlowMoves
    <3> QED BY <3>1, <3>2, <2>1, <2>4 DEF e
  <2>5. CASE d # c
    <3>1. rings'[d] = rings[d]
      BY <2>5, <1>3 DEF StreamInv, TypeOK
    <3>2. e.cpu = c
      <4>1. Flow(c, Taken(c), Top(c), channel, rings[c])
        BY <1>1, <1>7 DEF StreamInv
      <4>2. 1 \in DOMAIN rings[c] /\ e = rings[c][1]
        BY <1>1, <1>2 DEF e
      <4> QED BY <4>1, <4>2 DEF Flow, Within
    <3>3. Flow(d, Taken(d), Top(d), Append(channel, e), rings[d])
      BY <3>2, <2>2, <2>3, <2>5, <1>1, <1>2, FlowApart
    <3> QED BY <3>1, <3>3, <2>1
  <2> QED BY <2>4, <2>5
<1> QED BY <1>3, <1>5, <1>6, <1>7 DEF StreamInv

(* ReceiveAs takes the head of the channel. *)
LEMMA ReceiveInv ==
  ASSUME StreamInv, NEW msg, ReceiveAs(msg)
  PROVE  /\ StreamInv'
         /\ \A c \in Cpus : received'[c] # received[c] =>
              LET latest == received'[c][Len(received'[c])]
              IN  latest.cpu = c /\ latest.first = Taken(c) + 1
<1>1. /\ open /\ channel # <<>> /\ msg = Head(channel) /\ channel' = Tail(channel)
      /\ UNCHANGED <<open, produced, rings, missed, reader, beats>>
  BY DEF ReceiveAs
<1>2. channel \in Seq(Entry) /\ msg \in Entry /\ Tail(channel) \in Seq(Entry)
  BY <1>1 DEF StreamInv, TypeOK
<1> DEFINE c == msg.cpu
<1>3. c \in Cpus /\ msg.first \in Nat
  BY <1>2 DEF Entry
<1>4. /\ received[c] \in Seq(Entry) /\ reported[c] \in Nat
      /\ Len(received[c]) \in Nat
      /\ Taken(c) \in Nat /\ Top(c) \in Nat /\ rings[c] \in Seq(Entry)
  BY <1>3 DEF StreamInv, TypeOK, Taken, Top
<1>5. Flow(c, Taken(c), Top(c), channel, rings[c])
  BY <1>1, <1>3 DEF StreamInv
<1>6. /\ msg.first = Taken(c) + 1
      /\ msg.last \in Nat
      /\ msg.last > Taken(c)
      /\ msg.type = "Event" => msg.last = Taken(c) + 1
      /\ Flow(c, msg.last, Top(c), Tail(channel), rings[c])
  BY <1>1, <1>2, <1>3, <1>4, <1>5, FlowShrinks
<1> HIDE DEF c
<1>7. /\ received' \in [Cpus -> Seq(Entry)]
      /\ reported' \in [Cpus -> Nat]
      /\ Taken(c)' = msg.last
      /\ \A d \in Cpus \ {c} : Taken(d)' = Taken(d) /\ received'[d] = received[d]
      /\ received'[c] # received[c] => received'[c] = Append(received[c], msg)
  <2>1. CASE msg.type = "Event"
    <3>1. /\ received' = [received EXCEPT ![c] = Append(received[c], msg)]
          /\ reported' = reported
      BY <2>1 DEF ReceiveAs, c
    <3>2. Append(received[c], msg) \in Seq(Entry) /\ Len(Append(received[c], msg)) = Len(received[c]) + 1
      BY <1>2, <1>4
    <3>3. received'[c] = Append(received[c], msg) /\ \A d \in Cpus \ {c} : received'[d] = received[d]
      BY <3>1, <1>3 DEF StreamInv, TypeOK, c
    <3>4. received' \in [Cpus -> Seq(Entry)]
      BY <3>1, <3>2 DEF StreamInv, TypeOK
    <3>5. reported' \in [Cpus -> Nat]
      BY <3>1 DEF StreamInv, TypeOK
    <3>6. Taken(c)' = msg.last
      <4>1. Taken(c)' = Len(received'[c]) + reported'[c]
        BY DEF Taken
      <4>2. Taken(c) = Len(received[c]) + reported[c]
        BY DEF Taken
      <4>3. Len(received'[c]) = Len(received[c]) + 1 /\ reported'[c] = reported[c]
        BY <3>1, <3>2, <3>3
      <4> QED BY <4>1, <4>2, <4>3, <2>1, <1>4, <1>6
    <3>7. \A d \in Cpus \ {c} : Taken(d)' = Taken(d)
      BY <3>1, <3>3 DEF Taken
    <3> QED BY <3>3, <3>4, <3>5, <3>6, <3>7
  <2>2. CASE msg.type # "Event"
    <3> DEFINE more == reported[c] + (msg.last - msg.first + 1)
    <3>1. /\ reported' = [reported EXCEPT ![c] = more]
          /\ received' = received
      BY <2>2 DEF ReceiveAs, LossOf, c
    <3>2. more \in Nat /\ Len(received[c]) + more = msg.last
      <4>1. Taken(c) = Len(received[c]) + reported[c]
        BY DEF Taken
      <4>2. more = reported[c] + (msg.last - Taken(c))
        BY <4>1, <1>4, <1>6
      <4>3. msg.last - Taken(c) \in Nat
        BY <1>4, <1>6
      <4> HIDE DEF more
      <4>4. more \in Nat
        BY <4>2, <4>3, <1>4
      <4>5. /\ Len(received[c]) \in Nat /\ reported[c] \in Nat
            /\ Taken(c) \in Nat /\ msg.last \in Nat
        BY <1>4, <1>6
      <4>6. Len(received[c]) + more = msg.last
        BY <4>1, <4>2, <4>5
      <4> QED BY <4>4, <4>6
    <3> HIDE DEF more
    <3>3. reported'[c] = more /\ \A d \in Cpus \ {c} : reported'[d] = reported[d]
      BY <3>1, <1>3 DEF StreamInv, TypeOK, c
    <3>4. reported' \in [Cpus -> Nat]
      BY <3>1, <3>2 DEF StreamInv, TypeOK
    <3>5. received' \in [Cpus -> Seq(Entry)]
      BY <3>1 DEF StreamInv, TypeOK
    <3>6. Taken(c)' = msg.last
      BY <3>1, <3>2, <3>3 DEF Taken
    <3>7. \A d \in Cpus \ {c} : Taken(d)' = Taken(d)
      BY <3>1, <3>3 DEF Taken
    <3> QED BY <3>1, <3>4, <3>5, <3>6, <3>7
  <2> QED BY <2>1, <2>2
<1>8. TypeOK' /\ DrainBounded'
  BY <1>1, <1>2, <1>7 DEF StreamInv, TypeOK, DrainBounded
<1>9. ASSUME NEW d \in Cpus
      PROVE  Flow(d, Taken(d)', Top(d)', channel', rings'[d])
  <2>1. rings'[d] = rings[d] /\ Top(d)' = Top(d)
    BY <1>1 DEF Top
  <2>2. CASE d = c
    BY <2>1, <2>2, <1>1, <1>6, <1>7 DEF c
  <2>3. CASE d # c
    <3>1. Flow(d, Taken(d), Top(d), channel, rings[d])
      BY <1>1 DEF StreamInv
    <3>2. Taken(d) \in Nat /\ Top(d) \in Nat /\ rings[d] \in Seq(Entry)
      BY DEF StreamInv, TypeOK, Taken, Top
    <3>3. Flow(d, Taken(d), Top(d), Tail(channel), rings[d])
      BY <3>1, <3>2, <2>3, <1>1, <1>2, FlowApart DEF c
    <3> QED BY <3>3, <2>1, <2>3, <1>1, <1>7
  <2> QED BY <2>2, <2>3
<1>10. StreamInv'
  BY <1>1, <1>8, <1>9 DEF StreamInv
<1>11. ASSUME NEW d \in Cpus, received'[d] # received[d]
       PROVE  LET latest == received'[d][Len(received'[d])]
              IN  latest.cpu = d /\ latest.first = Taken(d) + 1
  <2>1. d = c /\ received'[c] = Append(received[c], msg)
    BY <1>7, <1>11
  <2>2. Append(received[c], msg)[Len(Append(received[c], msg))] = msg
    BY <1>2, <1>4 DEF c
  <2> QED BY <2>1, <2>2, <1>6 DEF c
<1> QED BY <1>10, <1>11

(* Every other step moves no entry while the monitor stays open. *)
LEMMA OtherInv ==
  ASSUME StreamInv, EnterRing \/ LeaveRing \/ EndRound \/ Destroy \/ UNCHANGED vars
  PROVE  StreamInv'
<1>1. CASE Destroy
  <2>1. /\ open' = FALSE /\ channel' = <<>>
        /\ UNCHANGED <<produced, rings, missed, reader, beats, received, reported>>
    BY <1>1 DEF Destroy
  <2>2. <<>> \in Seq(Entry)
    OBVIOUS
  <2>3. TypeOK'
    BY <2>1, <2>2 DEF StreamInv, TypeOK
  <2>4. DrainBounded'
    BY <2>1 DEF StreamInv, DrainBounded
  <2> QED BY <2>1, <2>3, <2>4 DEF StreamInv
<1>2. ASSUME EnterRing \/ LeaveRing \/ EndRound \/ UNCHANGED vars
      PROVE  StreamInv'
  <2>1. UNCHANGED <<open, produced, rings, missed, channel, received, reported>>
    BY <1>2 DEF EnterRing, LeaveRing, EndRound, vars
  <2>2. beats' \in Nat
    BY <1>2 DEF StreamInv, TypeOK, EnterRing, LeaveRing, EndRound, vars
  <2>3. reader' \in Reader /\ DrainBounded'
    <3>0. reader \in Reader /\ NumCpus \in Nat \ {0} /\ rings \in [Cpus -> Seq(Entry)]
      BY CpuAssumption DEF StreamInv, TypeOK
    <3>1. CASE EnterRing
      <4> DEFINE length == Len(rings[reader.cpu])
      <4>1. length \in Nat
        BY <3>0 DEF Reader
      <4>2. reader' = [reader EXCEPT !.at = "drain", !.todo = length]
        BY <3>1 DEF EnterRing, HeadNow
      <4>3. rings'[reader.cpu] = rings[reader.cpu]
        BY <2>1
      <4> HIDE DEF length
      <4>4. reader' \in Reader /\ reader'.cpu = reader.cpu /\ reader'.todo = length
        BY <3>0, <4>1, <4>2 DEF Reader
      <4> QED BY <4>1, <4>3, <4>4 DEF DrainBounded, length
    <3>2. CASE LeaveRing
      <4> DEFINE next == reader.cpu + 1
      <4>1. /\ reader.cpu \in 1 .. NumCpus
            /\ ~ LastRing => next \in Cpus
        BY <3>0 DEF LastRing, Reader, Cpus
      <4>2. reader' = IF LastRing
                      THEN [reader EXCEPT !.at = "rest"]
                      ELSE [reader EXCEPT !.at = "enter", !.cpu = next]
        BY <3>2 DEF LeaveRing
      <4> HIDE DEF next
      <4>3. reader' \in Reader /\ reader'.at # "drain"
        BY <3>0, <4>1, <4>2 DEF Reader
      <4> QED BY <4>3 DEF DrainBounded
    <3>3. CASE EndRound
      BY <3>0, <3>3 DEF EndRound, NewRound, Reader, DrainBounded, Cpus
    <3>4. CASE UNCHANGED vars
      BY <3>0, <3>4 DEF vars, StreamInv, DrainBounded
    <3> QED BY <1>2, <3>1, <3>2, <3>3, <3>4
  <2>4. TypeOK'
    BY <2>1, <2>2, <2>3 DEF StreamInv, TypeOK
  <2>5. \A c \in Cpus : Taken(c)' = Taken(c) /\ Top(c)' = Top(c)
    BY <2>1 DEF Taken, Top
  <2> QED BY <2>1, <2>3, <2>4, <2>5 DEF StreamInv
<1> QED BY <1>1, <1>2

LEMMA NextInv == StreamInv /\ [Next]_vars => StreamInv'
<1> SUFFICES ASSUME StreamInv, [Next]_vars PROVE StreamInv'
  OBVIOUS
<1>1. ASSUME NEW c \in Cpus, NEW b \in Bodies, Emit(c, b) PROVE StreamInv'
  BY <1>1, EmitInv
<1>2. CASE ReadRecord
  BY <1>2, ReadInv
<1>3. CASE Receive
  BY <1>3, ReceiveInv DEF Receive
<1>4. CASE EnterRing \/ LeaveRing \/ EndRound \/ Destroy \/ UNCHANGED vars
  BY <1>4, OtherInv
<1> QED BY <1>1, <1>2, <1>3, <1>4 DEF Next, ReaderStep

LEMMA SafeInv == Safe => []StreamInv
  BY InitInv, NextInv, PTL DEF Safe

-----------------------------------------------------------------------------

(* The types of the reader, the rings and the channel, and that the reader *)
(* never takes from a ring more than it holds (spawn_reader, for_each).    *)
THEOREM ReaderTyped == Safe => [](TypeOK /\ DrainBounded)
<1>1. StreamInv => TypeOK /\ DrainBounded
  BY DEF StreamInv
<1> QED BY <1>1, SafeInv, PTL

LEMMA FlowMeans ==
  ASSUME NEW c \in Cpus, StreamInv, open
  PROVE  /\ LET ring == rings[c]
            IN  /\ Taken(c) + missed[c] <= produced[c]
                /\ \A i \in Queued(c) : Sound(channel[i], c)
                /\ \A i \in DOMAIN ring : Sound(ring[i], c)
                /\ \A i, j \in Queued(c) : i < j => channel[i].last < channel[j].first
                /\ \A i, j \in DOMAIN ring : i < j => ring[i].last < ring[j].first
                /\ \A i \in Queued(c), j \in DOMAIN ring : channel[i].last < ring[j].first
         /\ \A n \in Taken(c) + 1 .. produced[c] - missed[c] :
              \/ \E i \in Queued(c) : n \in channel[i].first .. channel[i].last
              \/ \E i \in DOMAIN rings[c] : n \in rings[c][i].first .. rings[c][i].last
<1>1. Flow(c, Taken(c), produced[c] - missed[c], channel, rings[c])
  BY DEF StreamInv, Top
<1>2. Taken(c) + missed[c] <= produced[c]
  BY <1>1 DEF Flow, StreamInv, TypeOK, Taken
<1>3. /\ \A i \in Queued(c) : Sound(channel[i], c)
      /\ \A i \in DOMAIN rings[c] : Sound(rings[c][i], c)
  BY <1>1 DEF Flow, Within, Sound, Queued
<1>4. /\ \A i, j \in Queued(c) : i < j => channel[i].last < channel[j].first
      /\ \A i, j \in DOMAIN rings[c] : i < j => rings[c][i].last < rings[c][j].first
      /\ \A i \in Queued(c), j \in DOMAIN rings[c] : channel[i].last < rings[c][j].first
  BY <1>1 DEF Flow, Within, Ordered, Queued
<1>5. \A n \in Taken(c) + 1 .. produced[c] - missed[c] :
        \/ \E i \in Queued(c) : n \in channel[i].first .. channel[i].last
        \/ \E i \in DOMAIN rings[c] : n \in rings[c][i].first .. rings[c][i].last
  BY <1>1 DEF Flow, Covers, Queued
<1> QED BY <1>2, <1>3, <1>4, <1>5

(* Between the programs and the core no record is lost unseen, repeated or *)
(* overtaken by a later one of its CPU.                                    *)
THEOREM StreamKept == Safe => [](InSequence /\ NothingMissing)
<1>1. StreamInv => InSequence /\ NothingMissing
  BY FlowMeans DEF InSequence, NothingMissing
<1> QED BY <1>1, SafeInv, PTL

(* The core takes the events of a CPU in turn, having been told of every   *)
(* loss before them.                                                       *)
THEOREM CoreInTurn == Safe => TakenInTurn
<1>1. ASSUME StreamInv, [Next]_vars
      PROVE  [\A c \in Cpus : received'[c] # received[c] =>
                LET latest == received'[c][Len(received'[c])]
                IN  latest.cpu = c /\ latest.first = Taken(c) + 1]_vars
  <2>1. CASE Receive
    BY <1>1, <2>1, ReceiveInv DEF Receive
  <2>2. CASE ~ Receive
    <3>1. received' = received
      BY <1>1, <2>2 DEF Next, ReaderStep, Emit, Put, EnterRing, ReadRecord, LeaveRing,
                        EndRound, Destroy, vars
    <3> QED BY <3>1
  <2> QED BY <2>1, <2>2
<1> QED BY <1>1, SafeInv, PTL DEF Safe, TakenInTurn

-----------------------------------------------------------------------------

(* A greatest member more goes to the end of the ascending order. *)
LEMMA AscendingAppend ==
  ASSUME NEW S \in SUBSET Nat, IsFiniteSet(S), NEW x \in Nat, \A n \in S : n < x
  PROVE  /\ Ascending(S \cup {x}) = Append(Ascending(S), x)
         /\ Cardinality(S \cup {x}) = Cardinality(S) + 1
         /\ IsFiniteSet(S \cup {x})
<1>0. \A m \in S : m \in Nat /\ m < x
  OBVIOUS
<1> DEFINE T == S \cup {x}
           k == Cardinality(S)
<1>1. k \in Nat /\ Cardinality(T) = k + 1 /\ IsFiniteSet(T)
  BY FS_CardinalityType, FS_AddElement
<1>2. ASSUME NEW n \in S
      PROVE  /\ {m \in T : m <= n} = {m \in S : m <= n}
             /\ Cardinality({m \in T : m <= n}) \in 0 .. k
  <2>0. ~ (x <= n)
    <3>1. n \in Nat /\ n < x
      BY <1>0
    <3> QED BY <3>1
  <2>1. {m \in T : m <= n} = {m \in S : m <= n}
    BY <2>0
  <2>2. {m \in S : m <= n} \in SUBSET S
    OBVIOUS
  <2> QED BY <1>1, <2>1, <2>2, FS_Subset, FS_CardinalityType
<1>3. Cardinality({m \in T : m <= x}) = k + 1
  <2>1. \A m \in T : m <= x
    BY <1>0
  <2>2. {m \in T : m <= x} = T
    BY <2>1
  <2> QED BY <1>1, <2>2
<1>4. ASSUME NEW i \in 1 .. k PROVE Ranked(T, i) = Ranked(S, i)
  <2>1. k + 1 # i
    BY <1>1
  <2> QED BY <1>2, <1>3, <2>1 DEF Ranked
<1>5. Ranked(T, k + 1) = {x}
  <2>1. \A n \in S : Cardinality({m \in T : m <= n}) # k + 1
    BY <1>1, <1>2
  <2> QED BY <1>3, <2>1 DEF Ranked
<1> HIDE DEF T, k
<1>6. /\ DOMAIN Ascending(S) = 1 .. k /\ Len(Ascending(S)) = k
      /\ DOMAIN Ascending(T) = 1 .. k + 1
      /\ \A i \in 1 .. k : Ascending(T)[i] = Ascending(S)[i]
      /\ Ascending(T)[k + 1] = x
  <2>1. /\ Ascending(S) = [i \in 1 .. k |-> CHOOSE n \in Ranked(S, i) : TRUE]
        /\ Ascending(T) = [i \in 1 .. k + 1 |-> CHOOSE n \in Ranked(T, i) : TRUE]
    BY <1>1 DEF Ascending, k
  <2>2. \A i \in 1 .. k : i \in 1 .. k + 1 /\ Ascending(T)[i] = Ascending(S)[i]
    BY <1>1, <1>4, <2>1
  <2>3. Ascending(T)[k + 1] = x
    BY <1>1, <1>5, <2>1
  <2>4. Len(Ascending(S)) = k
    BY <1>1, <2>1
  <2> QED BY <2>1, <2>2, <2>3, <2>4
<1>7. Ascending(T) = Append(Ascending(S), x)
  <2> DEFINE s == Ascending(S)
             t == Ascending(T)
             V == {s[i] : i \in 1 .. k} \cup {x}
  <2>1. s = [i \in 1 .. k |-> s[i]] /\ t = [i \in 1 .. k + 1 |-> t[i]]
    BY <1>1, <1>6 DEF Ascending
  <2>2. /\ \A i \in 1 .. k : s[i] \in V
        /\ \A i \in 1 .. k + 1 : t[i] \in V
    BY <1>1, <1>6
  <2>3. /\ DOMAIN s = 1 .. k /\ Len(s) = k /\ DOMAIN t = 1 .. k + 1 /\ t[k + 1] = x
        /\ \A i \in 1 .. k : t[i] = s[i]
        /\ x \in V
    BY <1>6
  <2> HIDE DEF s, t, V
  <2>4. s \in Seq(V) /\ t \in Seq(V) /\ Len(t) = k + 1
    BY <1>1, <2>1, <2>2, <2>3, ElementOfSeq
  <2>5. /\ Append(s, x) \in Seq(V) /\ Len(Append(s, x)) = k + 1
        /\ \A i \in 1 .. k : Append(s, x)[i] = s[i]
        /\ Append(s, x)[k + 1] = x
    BY <2>3, <2>4, AppendProperties
  <2>6. \A i \in 1 .. k + 1 : t[i] = Append(s, x)[i]
    <3>1. \A i \in 1 .. k + 1 : i \in 1 .. k \/ i = k + 1
      BY <1>1
    <3> QED BY <2>3, <2>5, <3>1
  <2>7. t = Append(s, x)
    BY <2>4, <2>5, <2>6, SeqEqual
  <2> QED BY <2>7 DEF s, t
<1> QED BY <1>1, <1>7 DEF T, k

(* The least member comes first, and the rest follows without it. *)
LEMMA AscendingTail ==
  ASSUME NEW S \in SUBSET Nat, IsFiniteSet(S), NEW x \in S, \A n \in S \ {x} : x < n
  PROVE  /\ Ascending(S) # <<>> /\ Head(Ascending(S)) = x
         /\ Tail(Ascending(S)) = Ascending(S \ {x})
         /\ Cardinality(S) = Cardinality(S \ {x}) + 1
<1> DEFINE T == S \ {x}
           k == Cardinality(T)
<1>1. k \in Nat /\ Cardinality(S) = k + 1 /\ IsFiniteSet(T)
  <2>1. IsFiniteSet(T) /\ Cardinality(T) = Cardinality(S) - 1
    BY FS_RemoveElement
  <2>2. Cardinality(S) \in Nat /\ Cardinality(T) \in Nat
    BY <2>1, FS_CardinalityType
  <2> QED BY <2>1, <2>2
<1>2. ASSUME NEW n \in T
      PROVE  /\ Cardinality({m \in T : m <= n}) \in Nat \ {0}
             /\ Cardinality({m \in S : m <= n}) = Cardinality({m \in T : m <= n}) + 1
  <2> DEFINE A == {m \in T : m <= n}
  <2>1. {m \in S : m <= n} = A \cup {x} /\ x \notin A /\ n \in A
    OBVIOUS
  <2>2. A \subseteq T
    OBVIOUS
  <2>3. IsFiniteSet(A)
    BY <1>1, <2>2, FS_Subset
  <2> HIDE DEF A
  <2>4. Cardinality(A \cup {x}) = Cardinality(A) + 1 /\ Cardinality(A) \in Nat
    BY <2>1, <2>3, FS_AddElement, FS_CardinalityType
  <2>5. Cardinality(A) # 0
    BY <2>1, <2>3, FS_EmptySet
  <2> QED BY <2>1, <2>4, <2>5 DEF A
<1>3. Cardinality({m \in S : m <= x}) = 1
  <2>1. ASSUME NEW m \in S \ {x} PROVE ~ (m <= x)
    <3>1. m \in Nat /\ x \in Nat /\ x < m
      OBVIOUS
    <3> QED BY <3>1
  <2>2. {m \in S : m <= x} = {x}
    <3>1. x <= x
      OBVIOUS
    <3> QED BY <2>1, <3>1
  <2> QED BY <2>2, FS_Singleton
<1>4. ASSUME NEW i \in 1 .. k PROVE Ranked(S, i + 1) = Ranked(T, i)
  <2>1. i \in Nat /\ i + 1 # 1
    OBVIOUS
  <2>2. \A n \in T : Cardinality({m \in S : m <= n}) = i + 1
                     <=> Cardinality({m \in T : m <= n}) = i
    <3> SUFFICES ASSUME NEW n \in T
                 PROVE  Cardinality({m \in S : m <= n}) = i + 1
                          <=> Cardinality({m \in T : m <= n}) = i
      OBVIOUS
    <3> DEFINE a == Cardinality({m \in T : m <= n})
               b == Cardinality({m \in S : m <= n})
    <3>1. a \in Nat /\ b = a + 1
      BY <1>2
    <3> HIDE DEF a, b
    <3>2. b = i + 1 <=> a = i
      BY <2>1, <3>1
    <3> QED BY <3>2 DEF a, b
  <2>3. Cardinality({m \in S : m <= x}) # i + 1
    BY <1>3, <2>1
  <2> QED BY <2>2, <2>3 DEF Ranked
<1>5. Ranked(S, 1) = {x}
  <2>1. ASSUME NEW n \in T PROVE Cardinality({m \in S : m <= n}) # 1
    <3> DEFINE a == Cardinality({m \in T : m <= n})
               b == Cardinality({m \in S : m <= n})
    <3>1. a \in Nat \ {0} /\ b = a + 1
      BY <1>2
    <3> HIDE DEF a, b
    <3>2. b # 1
      BY <3>1
    <3> QED BY <3>2 DEF b
  <2> QED BY <1>3, <2>1 DEF Ranked
<1> HIDE DEF T, k
<1>6. /\ Ascending(T) = [i \in 1 .. k |-> CHOOSE n \in Ranked(T, i) : TRUE]
      /\ Ascending(S) = [i \in 1 .. k + 1 |-> CHOOSE n \in Ranked(S, i) : TRUE]
  BY <1>1 DEF Ascending, k
<1>7. Ascending(S)[1] = x /\ Len(Ascending(S)) = k + 1
  BY <1>1, <1>5, <1>6
<1>8. Ascending(S) # <<>> /\ Head(Ascending(S)) = x
  BY <1>1, <1>6, <1>7
<1>9. Tail(Ascending(S)) = [i \in 1 .. k |-> Ascending(S)[i + 1]]
  BY <1>1, <1>6, <1>7
<1>10. \A i \in 1 .. k : Ascending(S)[i + 1] = CHOOSE n \in Ranked(T, i) : TRUE
  BY <1>1, <1>4, <1>6
<1>11. Tail(Ascending(S)) = Ascending(T)
  BY <1>6, <1>9, <1>10
<1> QED BY <1>1, <1>8, <1>11 DEF T, k

LEMMA AscendingEmpty == Ascending({}) = <<>> /\ Cardinality({}) = 0
<1>1. Cardinality({}) = 0
  BY FS_EmptySet
<1>2. 1 .. 0 = {}
  OBVIOUS
<1> QED BY <1>1, <1>2 DEF Ascending

LEMMA EventsEmpty == \A c : EventsOf(<<>>, c) = {}
BY DEF EventsOf

LEMMA EventsAppend ==
  ASSUME NEW s \in Seq(Entry), NEW e \in Entry, NEW c
  PROVE  EventsOf(Append(s, e), c) =
           EventsOf(s, c) \cup IF e.cpu = c /\ e.type = "Event" THEN {e.first} ELSE {}
<1> DEFINE t == Append(s, e)
           k == Len(s)
<1>1. /\ k \in Nat /\ DOMAIN s = 1 .. k /\ DOMAIN t = 1 .. k + 1
      /\ \A i \in 1 .. k : t[i] = s[i]
      /\ t[k + 1] = e
  OBVIOUS
<1>2. /\ \A i \in 1 .. k : i \in 1 .. k + 1
      /\ k + 1 \in 1 .. k + 1
      /\ \A i \in 1 .. k + 1 : i \in 1 .. k \/ i = k + 1
  BY <1>1
<1> HIDE DEF t, k
<1>3. \A n : n \in EventsOf(s, c) <=>
        \E i \in 1 .. k : s[i].cpu = c /\ s[i].type = "Event" /\ n = s[i].first
  BY <1>1 DEF EventsOf
<1>4. \A n : n \in EventsOf(t, c) <=>
        \E i \in 1 .. k + 1 : t[i].cpu = c /\ t[i].type = "Event" /\ n = t[i].first
  BY <1>1 DEF EventsOf
<1>5. \A n : n \in EventsOf(t, c) <=>
        n \in EventsOf(s, c) \/ (e.cpu = c /\ e.type = "Event" /\ n = e.first)
  BY <1>1, <1>2, <1>3, <1>4
<1> QED BY <1>5 DEF t

LEMMA EventsTail ==
  ASSUME NEW s \in Seq(Entry), s # <<>>, NEW c
  PROVE  EventsOf(s, c) =
           EventsOf(Tail(s), c)
             \cup IF Head(s).cpu = c /\ Head(s).type = "Event" THEN {Head(s).first} ELSE {}
<1> DEFINE t == Tail(s)
           e == Head(s)
           k == Len(s)
<1>1. /\ k \in Nat \ {0} /\ DOMAIN s = 1 .. k /\ DOMAIN t = 1 .. k - 1
      /\ \A i \in 1 .. k - 1 : t[i] = s[i + 1]
      /\ e = s[1]
  OBVIOUS
<1>2. /\ \A i \in 1 .. k - 1 : i + 1 \in 1 .. k
      /\ 1 \in 1 .. k
      /\ \A i \in 1 .. k : i = 1 \/ (i - 1 \in 1 .. k - 1 /\ (i - 1) + 1 = i)
  BY <1>1
<1> HIDE DEF t, e, k
<1>3. \A n : n \in EventsOf(s, c) <=>
        \E i \in 1 .. k : s[i].cpu = c /\ s[i].type = "Event" /\ n = s[i].first
  BY <1>1 DEF EventsOf
<1>4. \A n : n \in EventsOf(t, c) <=>
        \E i \in 1 .. k - 1 : t[i].cpu = c /\ t[i].type = "Event" /\ n = t[i].first
  BY <1>1 DEF EventsOf
<1>5. \A n : n \in EventsOf(s, c) <=>
        n \in EventsOf(t, c) \/ (e.cpu = c /\ e.type = "Event" /\ n = e.first)
  <2>1. ASSUME NEW n \in EventsOf(s, c)
        PROVE  n \in EventsOf(t, c) \/ (e.cpu = c /\ e.type = "Event" /\ n = e.first)
    <3>1. PICK i \in 1 .. k : s[i].cpu = c /\ s[i].type = "Event" /\ n = s[i].first
      BY <1>3
    <3>2. CASE i = 1
      BY <1>1, <3>1, <3>2
    <3>3. CASE i # 1
      <4>1. i - 1 \in 1 .. k - 1 /\ t[i - 1] = s[i]
        BY <1>1, <1>2, <3>3
      <4> QED BY <1>4, <3>1, <4>1
    <3> QED BY <3>2, <3>3
  <2>2. ASSUME NEW n \in EventsOf(t, c) PROVE n \in EventsOf(s, c)
    BY <1>1, <1>2, <1>3, <1>4
  <2>3. ASSUME e.cpu = c, e.type = "Event" PROVE e.first \in EventsOf(s, c)
    BY <1>1, <1>2, <1>3, <2>3
  <2> QED BY <2>1, <2>2, <2>3
<1> QED BY <1>5 DEF t, e

(* What is on its way is numbered above what was taken. *)
LEMMA FlowEvents ==
  ASSUME NEW c \in Cpus, NEW taken \in Nat, NEW top \in Nat,
         NEW queue \in Seq(Entry), NEW ring \in Seq(Entry),
         Flow(c, taken, top, queue, ring)
  PROVE  LET S == EventsOf(queue, c) \cup EventsOf(ring, c)
         IN  /\ S \in SUBSET Nat /\ IsFiniteSet(S)
             /\ \A n \in S : n > taken /\ n <= top
             /\ Cardinality(S) \in Nat /\ Cardinality(S) <= top - taken
<1> DEFINE S == EventsOf(queue, c) \cup EventsOf(ring, c)
<1>1. /\ \A i \in DOMAIN ring : ring[i].first \in Nat /\ ring[i].last \in Nat
      /\ \A i \in DOMAIN queue : queue[i].first \in Nat /\ queue[i].last \in Nat
  BY DEF Entry
<1>2. ASSUME NEW n \in S PROVE n \in Nat /\ n > taken /\ n <= top
  <2>1. CASE n \in EventsOf(queue, c)
    <3>1. PICK i \in DOMAIN queue : queue[i].cpu = c /\ queue[i].type = "Event"
                                      /\ n = queue[i].first
      BY <2>1 DEF EventsOf
    <3>2. Within(queue[i], c, taken, top)
      BY <3>1 DEF Flow
    <3> QED BY <1>1, <3>1, <3>2 DEF Within
  <2>2. CASE n \in EventsOf(ring, c)
    <3>1. PICK i \in DOMAIN ring : ring[i].type = "Event" /\ n = ring[i].first
      BY <2>2 DEF EventsOf
    <3>2. Within(ring[i], c, taken, top)
      BY DEF Flow
    <3> QED BY <1>1, <3>1, <3>2 DEF Within
  <2> QED BY <2>1, <2>2
<1> HIDE DEF S
<1>3. S \in SUBSET (taken + 1 .. top)
  BY <1>2
<1>4. /\ IsFiniteSet(taken + 1 .. top)
      /\ Cardinality(taken + 1 .. top) = top - taken
  <2>1. taken <= top
    BY DEF Flow
  <2>2. /\ IsFiniteSet(taken + 1 .. top)
        /\ Cardinality(taken + 1 .. top) = IF taken + 1 > top THEN 0 ELSE top - (taken + 1) + 1
    BY FS_Interval
  <2> QED BY <2>1, <2>2
<1>5. IsFiniteSet(S) /\ Cardinality(S) <= top - taken /\ Cardinality(S) \in Nat
  BY <1>3, <1>4, FS_Subset, FS_CardinalityType
<1> QED BY <1>2, <1>5 DEF S

LEMMA AscendingLen ==
  ASSUME NEW S, IsFiniteSet(S)
  PROVE  Len(Ascending(S)) = Cardinality(S) /\ Cardinality(S) \in Nat
<1>1. Cardinality(S) \in Nat
  BY FS_CardinalityType
<1> QED BY <1>1 DEF Ascending

LEMMA InFlightFacts ==
  ASSUME StreamInv, open, NEW c \in Cpus
  PROVE  /\ InFlight(c) \in SUBSET Nat /\ IsFiniteSet(InFlight(c))
         /\ \A n \in InFlight(c) : n > Taken(c) /\ n <= Top(c)
         /\ Cardinality(InFlight(c)) \in Nat
         /\ Cardinality(InFlight(c)) <= Top(c) - Taken(c)
         /\ Pending[c] = Ascending(InFlight(c))
         /\ Len(Pending[c]) = Cardinality(InFlight(c))
         /\ Dropped[c] = produced[c] - Len(received[c]) - Cardinality(InFlight(c))
<1>1. Flow(c, Taken(c), Top(c), channel, rings[c])
  BY DEF StreamInv
<1>2. /\ Taken(c) \in Nat /\ Top(c) \in Nat
      /\ channel \in Seq(Entry) /\ rings[c] \in Seq(Entry)
  BY DEF StreamInv, TypeOK, Taken, Top
<1>3. /\ InFlight(c) \in SUBSET Nat /\ IsFiniteSet(InFlight(c))
      /\ \A n \in InFlight(c) : n > Taken(c) /\ n <= Top(c)
      /\ Cardinality(InFlight(c)) \in Nat
      /\ Cardinality(InFlight(c)) <= Top(c) - Taken(c)
  BY <1>1, <1>2, FlowEvents DEF InFlight
<1>4. Pending[c] = Ascending(InFlight(c))
  BY DEF Pending
<1>5. Len(Pending[c]) = Cardinality(InFlight(c))
  BY <1>3, <1>4, AscendingLen
<1>6. Dropped[c] = produced[c] - Len(received[c]) - Cardinality(InFlight(c))
  BY <1>5 DEF Dropped
<1> QED BY <1>3, <1>4, <1>5, <1>6

(* The same of the next state. *)
LEMMA NextInFlight ==
  ASSUME StreamInv', open', NEW c \in Cpus
  PROVE  /\ Pending'[c] = Ascending(InFlight(c)')
         /\ Dropped'[c] = produced'[c] - Len(received'[c]) - Cardinality(InFlight(c)')
<1>1. Flow(c, Taken(c)', Top(c)', channel', rings'[c])
  BY DEF StreamInv
<1>2. /\ received' \in [Cpus -> Seq(Entry)] /\ reported' \in [Cpus -> Nat]
      /\ produced'[c] \in Nat /\ missed'[c] \in Nat /\ missed'[c] <= produced'[c]
      /\ channel' \in Seq(Entry) /\ rings'[c] \in Seq(Entry)
  BY DEF StreamInv, TypeOK
<1>3. Taken(c)' \in Nat /\ Top(c)' \in Nat
  BY <1>2 DEF Taken, Top
<1>4. IsFiniteSet(InFlight(c)')
  BY <1>1, <1>2, <1>3, FlowEvents DEF InFlight
<1>5. Pending'[c] = Ascending(InFlight(c)')
  BY DEF Pending
<1>6. Len(Pending'[c]) = Cardinality(InFlight(c)')
  BY <1>4, <1>5, AscendingLen
<1> QED BY <1>5, <1>6 DEF Dropped

LEMMA MappedAre ==
  /\ Pending = [d \in Cpus |-> Pending[d]] /\ Pending' = [d \in Cpus |-> Pending'[d]]
  /\ Dropped = [d \in Cpus |-> Dropped[d]] /\ Dropped' = [d \in Cpus |-> Dropped'[d]]
  /\ Delivered = [d \in Cpus |-> Delivered[d]] /\ Delivered' = [d \in Cpus |-> Delivered'[d]]
BY DEF Pending, Dropped, Delivered

LEMMA StreamInit == Init => Stream!Init
<1> SUFFICES ASSUME Init PROVE Stream!Init
  OBVIOUS
<1>1. \A c \in Cpus : InFlight(c) = {}
  BY EventsEmpty DEF Init, PerfInit, InFlight
<1>2. Pending = [c \in Cpus |-> <<>>]
  BY <1>1, AscendingEmpty DEF Pending, Init
<1>3. Delivered = [c \in Cpus |-> <<>>]
  BY DEF Delivered, Init
<1>4. Dropped = [c \in Cpus |-> 0]
  BY <1>2 DEF Dropped, Init, PerfInit
<1> QED BY <1>2, <1>3, <1>4 DEF Stream!Init, Init

(* A record that fits is accepted, one that does not is dropped.           *)
LEMMA OneMore ==
  ASSUME NEW a \in Nat, NEW x \in Nat, NEW y \in Nat
  PROVE  /\ (a + 1) - x - (y + 1) = a - x - y
         /\ (a + 1) - x - y = (a - x - y) + 1
         /\ a - (x + 1) - y = a - x - (y + 1)
OBVIOUS

LEMMA EmitStreams ==
  ASSUME StreamInv, StreamInv', NEW c \in Cpus, NEW b \in Bodies, Emit(c, b)
  PROVE  Stream!Next
<1> DEFINE p == produced[c]
           m == missed[c]
           sample == Sample(c, p + 1, b)
           told == Lost(c, p - m + 1, p)
           ring == rings[c] \o Entries(c, b)
           fits == Len(ring) <= RingCap
<1>1. /\ p \in Nat /\ m \in Nat /\ m <= p
      /\ rings[c] \in Seq(Entry) /\ open /\ open'
      /\ \A d \in Cpus : Len(received[d]) \in Nat /\ produced[d] \in Nat
  BY DEF StreamInv, TypeOK, Emit, Put
<1>2. sample \in Entry /\ (m > 0 => told \in Entry)
  BY <1>1 DEF Entry, Sample, Lost
<1>3. /\ produced' = [produced EXCEPT ![c] = p + 1]
      /\ rings' = IF fits THEN [rings EXCEPT ![c] = ring] ELSE rings
      /\ UNCHANGED <<open, channel, received, reported>>
      /\ SumFunction(produced) < MaxRecords
  BY DEF Emit, Put
<1>4. EventsOf(ring, c) = EventsOf(rings[c], c) \cup {p + 1}
  <2>1. /\ m > 0 => Entries(c, b) = <<told, sample>>
        /\ m = 0 => Entries(c, b) = <<sample>>
    BY DEF Entries
  <2>2. /\ sample.cpu = c /\ sample.first = p + 1 /\ sample.type = "Event"
        /\ told.type # "Event"
    BY DEF Sample, Lost
  <2> HIDE DEF sample, told, p, m
  <2>3. CASE m > 0
    <3>1. /\ Append(rings[c], told) \in Seq(Entry)
          /\ rings[c] \o <<told, sample>> = Append(Append(rings[c], told), sample)
      BY <1>1, <1>2, <2>3, ConcatIsAppend
    <3>2. ring = Append(Append(rings[c], told), sample)
      BY <2>1, <2>3, <3>1
    <3>3. EventsOf(Append(rings[c], told), c) = EventsOf(rings[c], c) \cup {}
      <4>1. told \in Entry /\ ~ (told.cpu = c /\ told.type = "Event") /\ rings[c] \in Seq(Entry)
        BY <1>1, <1>2, <2>2, <2>3
      <4> QED BY <4>1, EventsAppend
    <3> HIDE DEF ring
    <3>4. EventsOf(ring, c) = EventsOf(Append(rings[c], told), c) \cup {p + 1}
      BY <1>2, <2>2, <3>1, <3>2, EventsAppend
    <3> QED BY <3>3, <3>4
  <2>4. CASE m = 0
    <3>1. rings[c] \o <<sample>> = Append(rings[c], sample)
      BY <1>1, <1>2, ConcatIsAppend
    <3>2. ring = Append(rings[c], sample)
      BY <2>1, <2>4, <3>1
    <3> HIDE DEF ring
    <3> QED BY <1>1, <1>2, <2>2, <3>2, EventsAppend
  <2> QED BY <1>1, <2>3, <2>4
<1>5. p + 1 \in 1 .. MaxRecords
  <2>1. produced \in [Cpus -> Nat] /\ IsFiniteSet(Cpus)
    <3>1. IsFiniteSet(1 .. NumCpus)
      BY CpuAssumption, FS_Interval
    <3> QED BY <3>1 DEF StreamInv, TypeOK, Cpus
  <2>2. p <= SumFunction(produced) /\ SumFunction(produced) \in Nat
    BY <2>1, SumBound, SumType
  <2> HIDE DEF p
  <2> QED BY <1>1, <1>3, <2>2, RingAssumption
<1> HIDE DEF sample, told, ring, m
<1>6. Delivered' = Delivered
  BY <1>3 DEF Delivered
<1>7. \A d \in Cpus : /\ produced'[d] = IF d = c THEN p + 1 ELSE produced[d]
                      /\ received'[d] = received[d]
  BY <1>3 DEF StreamInv, TypeOK
<1>8. \A d \in Cpus : /\ Pending[d] = Ascending(InFlight(d))
                      /\ Pending'[d] = Ascending(InFlight(d)')
                      /\ Dropped[d] = produced[d] - Len(received[d]) - Cardinality(InFlight(d))
                      /\ Dropped'[d] = produced'[d] - Len(received[d]) - Cardinality(InFlight(d)')
                      /\ Cardinality(InFlight(d)) \in Nat
  <2> SUFFICES ASSUME NEW d \in Cpus
               PROVE  /\ Pending[d] = Ascending(InFlight(d))
                      /\ Pending'[d] = Ascending(InFlight(d)')
                      /\ Dropped[d] = produced[d] - Len(received[d]) - Cardinality(InFlight(d))
                      /\ Dropped'[d] = produced'[d] - Len(received[d]) - Cardinality(InFlight(d)')
                      /\ Cardinality(InFlight(d)) \in Nat
    OBVIOUS
  <2>1. /\ Pending[d] = Ascending(InFlight(d))
        /\ Dropped[d] = produced[d] - Len(received[d]) - Cardinality(InFlight(d))
        /\ Cardinality(InFlight(d)) \in Nat
    BY <1>1, InFlightFacts
  <2>2. /\ Pending'[d] = Ascending(InFlight(d)')
        /\ Dropped'[d] = produced'[d] - Len(received'[d]) - Cardinality(InFlight(d)')
    BY <1>1, NextInFlight
  <2> QED BY <1>7, <2>1, <2>2
<1>p. produced'[c] = p + 1
  BY <1>7
<1>9. CASE fits
  <2>1. \A d \in Cpus \ {c} : InFlight(d)' = InFlight(d)
    BY <1>3, <1>9 DEF InFlight, StreamInv, TypeOK
  <2>2. InFlight(c)' = InFlight(c) \cup {p + 1}
    <3>1. rings'[c] = ring /\ channel' = channel
      BY <1>3, <1>9 DEF StreamInv, TypeOK
    <3> QED BY <1>4, <3>1 DEF InFlight
  <2>3. /\ Ascending(InFlight(c) \cup {p + 1}) = Append(Ascending(InFlight(c)), p + 1)
        /\ Cardinality(InFlight(c) \cup {p + 1}) = Cardinality(InFlight(c)) + 1
    <3>1. /\ InFlight(c) \in SUBSET Nat /\ IsFiniteSet(InFlight(c))
          /\ \A n \in InFlight(c) : n <= Top(c)
      BY <1>1, InFlightFacts
    <3>2. Top(c) = p - m
      BY DEF Top, m
    <3>3. \A n \in InFlight(c) : n < p + 1
      BY <1>1, <3>1, <3>2
    <3>4. p + 1 \in Nat
      BY <1>1
    <3> HIDE DEF p
    <3> QED BY <3>1, <3>3, <3>4, AscendingAppend
  <2>4. Pending' = [Pending EXCEPT ![c] = Append(@, p + 1)]
    <3>1. Pending'[c] = Append(Pending[c], p + 1)
      BY <1>8, <2>2, <2>3
    <3>2. \A d \in Cpus \ {c} : Pending'[d] = Pending[d]
      BY <1>8, <2>1
    <3> HIDE DEF p
    <3> QED BY MappedAre, <3>1, <3>2
  <2>5. Dropped' = Dropped
    <3>1. ASSUME NEW d \in Cpus PROVE Dropped'[d] = Dropped[d]
      <4>1. CASE d = c
        <5>1. /\ Dropped[c] = p - Len(received[c]) - Cardinality(InFlight(c))
              /\ Dropped'[c] = produced'[c] - Len(received[c]) - Cardinality(InFlight(c)')
          BY <1>8
        <5>3. Cardinality(InFlight(c)') = Cardinality(InFlight(c)) + 1
          BY <2>2, <2>3
        <5>2. p \in Nat /\ Len(received[c]) \in Nat /\ Cardinality(InFlight(c)) \in Nat
          BY <1>1, <1>8
        <5> HIDE DEF p
        <5>4. (p + 1) - Len(received[c]) - (Cardinality(InFlight(c)) + 1)
                = p - Len(received[c]) - Cardinality(InFlight(c))
          BY <5>2, OneMore
        <5> QED BY <1>p, <4>1, <5>1, <5>3, <5>4
      <4>2. CASE d # c
        BY <1>7, <1>8, <2>1, <4>2
      <4> QED BY <4>1, <4>2
    <3> QED BY MappedAre, <3>1
  <2>6. Stream!Accept(c, p + 1)
    BY <1>1, <1>3, <1>6, <2>4, <2>5 DEF Stream!Accept
  <2> QED BY <1>5, <2>6 DEF Stream!Next
<1>10. CASE ~ fits
  <2>1. \A d \in Cpus : InFlight(d)' = InFlight(d)
    BY <1>3, <1>10 DEF InFlight
  <2>2. Pending' = Pending
    BY MappedAre, <1>8, <2>1
  <2>3. Dropped' = [Dropped EXCEPT ![c] = @ + 1]
    <3>1. Dropped'[c] = Dropped[c] + 1
      <4>1. /\ Dropped[c] = p - Len(received[c]) - Cardinality(InFlight(c))
            /\ Dropped'[c] = produced'[c] - Len(received[c]) - Cardinality(InFlight(c)')
        BY <1>8
      <4>3. InFlight(c)' = InFlight(c)
        BY <2>1
      <4>2. p \in Nat /\ Len(received[c]) \in Nat /\ Cardinality(InFlight(c)) \in Nat
        BY <1>1, <1>8
      <4> HIDE DEF p
      <4>4. Dropped'[c] = (p + 1) - Len(received[c]) - Cardinality(InFlight(c))
        BY <1>p, <4>1, <4>3
      <4>5. (p + 1) - Len(received[c]) - Cardinality(InFlight(c))
              = (p - Len(received[c]) - Cardinality(InFlight(c))) + 1
        BY <4>2, OneMore
      <4> QED BY <4>1, <4>4, <4>5
    <3>2. \A d \in Cpus \ {c} : Dropped'[d] = Dropped[d]
      BY <1>7, <1>8, <2>1
    <3> QED BY MappedAre, <3>1, <3>2
  <2>4. Stream!Drop(c)
    BY <1>1, <1>3, <1>6, <2>2, <2>3 DEF Stream!Drop
  <2> QED BY <2>4 DEF Stream!Next
<1> QED BY <1>9, <1>10

LEMMA FirstsAppend ==
  ASSUME NEW s \in Seq(Entry), NEW e \in Entry
  PROVE  [i \in DOMAIN Append(s, e) |-> Append(s, e)[i].first]
           = Append([i \in DOMAIN s |-> s[i].first], e.first)
<1> DEFINE t == Append(s, e)
           k == Len(s)
           f == [i \in 1 .. k |-> s[i].first]
           g == [i \in 1 .. k + 1 |-> t[i].first]
<1>1. /\ k \in Nat /\ DOMAIN s = 1 .. k /\ DOMAIN t = 1 .. k + 1
      /\ \A i \in 1 .. k : t[i] = s[i] /\ s[i] \in Entry
      /\ t[k + 1] = e
  OBVIOUS
<1>2. e.first \in Nat /\ \A i \in 1 .. k : s[i].first \in Nat
  BY <1>1 DEF Entry
<1>3. \A i \in 1 .. k + 1 : i \in 1 .. k \/ i = k + 1
  BY <1>1
<1> HIDE DEF t, k
<1>4. f \in Seq(Nat) /\ Len(f) = k
  BY <1>1, <1>2, ElementOfSeq
<1>5. g \in Seq(Nat) /\ Len(g) = k + 1
  BY <1>1, <1>2, <1>3, ElementOfSeq
<1>6. /\ \A i \in 1 .. k : f[i] = s[i].first /\ g[i] = s[i].first
      /\ g[k + 1] = e.first
  BY <1>1
<1> HIDE DEF f, g
<1>7. /\ Append(f, e.first) \in Seq(Nat) /\ Len(Append(f, e.first)) = k + 1
      /\ \A i \in 1 .. k : Append(f, e.first)[i] = f[i]
      /\ Append(f, e.first)[k + 1] = e.first
  BY <1>2, <1>4, AppendProperties
<1>8. \A i \in 1 .. k + 1 : g[i] = Append(f, e.first)[i]
  BY <1>3, <1>6, <1>7
<1>9. g = Append(f, e.first)
  BY <1>5, <1>7, <1>8, SeqEqual
<1> QED BY <1>1, <1>9 DEF f, g, t

(* Taking a sample delivers it, taking a Lost reports it. *)
LEMMA ReceiveStreams ==
  ASSUME StreamInv, StreamInv', NEW msg, ReceiveAs(msg)
  PROVE  Stream!Next
<1>1. /\ open /\ channel # <<>> /\ msg = Head(channel) /\ channel' = Tail(channel)
      /\ UNCHANGED <<open, produced, rings, missed>>
  BY DEF ReceiveAs
<1>2. channel \in Seq(Entry) /\ msg \in Entry /\ Tail(channel) \in Seq(Entry)
  BY <1>1 DEF StreamInv, TypeOK
<1> DEFINE c == msg.cpu
<1>3. c \in Cpus /\ msg.first \in Nat
  BY <1>2 DEF Entry
<1>4. /\ received[c] \in Seq(Entry) /\ reported[c] \in Nat /\ produced[c] \in Nat
      /\ Taken(c) \in Nat /\ Top(c) \in Nat /\ rings[c] \in Seq(Entry)
      /\ missed[c] \in Nat
  <2>1. /\ received[c] \in Seq(Entry) /\ reported[c] \in Nat /\ produced[c] \in Nat
        /\ rings[c] \in Seq(Entry) /\ missed[c] \in Nat /\ missed[c] <= produced[c]
    BY <1>3 DEF StreamInv, TypeOK
  <2> QED BY <2>1 DEF Taken, Top
<1>5. Flow(c, Taken(c), Top(c), channel, rings[c])
  BY <1>1, <1>3 DEF StreamInv
<1>6. /\ msg.first = Taken(c) + 1
      /\ msg.last \in Nat
      /\ msg.last > Taken(c)
      /\ msg.type = "Event" => msg.last = Taken(c) + 1
      /\ Flow(c, msg.last, Top(c), Tail(channel), rings[c])
  BY <1>1, <1>2, <1>3, <1>4, <1>5, FlowShrinks
<1>7. \A d \in Cpus :
        InFlight(d) = InFlight(d)' \cup IF d = c /\ msg.type = "Event" THEN {msg.first} ELSE {}
  <2> SUFFICES ASSUME NEW d \in Cpus
               PROVE  InFlight(d) = InFlight(d)' \cup IF d = c /\ msg.type = "Event"
                                                      THEN {msg.first} ELSE {}
    OBVIOUS
  <2>1. EventsOf(channel, d) = EventsOf(Tail(channel), d)
          \cup IF msg.cpu = d /\ msg.type = "Event" THEN {msg.first} ELSE {}
    BY <1>1, <1>2, EventsTail
  <2>2. InFlight(d)' = EventsOf(Tail(channel), d) \cup EventsOf(rings[d], d)
    BY <1>1 DEF InFlight
  <2>3. InFlight(d) = EventsOf(channel, d) \cup EventsOf(rings[d], d)
    BY DEF InFlight
  <2> QED BY <2>1, <2>2, <2>3
<1>8. /\ InFlight(c)' \in SUBSET Nat /\ IsFiniteSet(InFlight(c)')
      /\ \A n \in InFlight(c)' : n > msg.last
      /\ Cardinality(InFlight(c)') \in Nat
      /\ Cardinality(InFlight(c)') <= Top(c) - msg.last
  <2>1. InFlight(c)' = EventsOf(Tail(channel), c) \cup EventsOf(rings[c], c)
    BY <1>1 DEF InFlight
  <2> DEFINE S == EventsOf(Tail(channel), c) \cup EventsOf(rings[c], c)
  <2>2. /\ S \in SUBSET Nat /\ IsFiniteSet(S)
        /\ \A n \in S : n > msg.last /\ n <= Top(c)
        /\ Cardinality(S) \in Nat /\ Cardinality(S) <= Top(c) - msg.last
    <3> HIDE DEF c
    <3> QED BY <1>2, <1>3, <1>4, <1>6, FlowEvents
  <2> HIDE DEF c, S
  <2>3. InFlight(c)' = S
    BY <2>1 DEF S
  <2> QED BY <2>2, <2>3
<1>9. \A d \in Cpus : /\ Pending[d] = Ascending(InFlight(d))
                      /\ Pending'[d] = Ascending(InFlight(d)')
                      /\ Dropped[d] = produced[d] - Len(received[d]) - Cardinality(InFlight(d))
                      /\ Dropped'[d] = produced[d] - Len(received'[d]) - Cardinality(InFlight(d)')
  BY <1>1, InFlightFacts, NextInFlight
<1> HIDE DEF c
<1>10. CASE msg.type = "Event"
  <2>1. received' = [received EXCEPT ![c] = Append(received[c], msg)] /\ reported' = reported
    BY <1>10 DEF ReceiveAs, c
  <2>2. /\ received'[c] = Append(received[c], msg)
        /\ Len(received'[c]) = Len(received[c]) + 1
        /\ \A d \in Cpus \ {c} : received'[d] = received[d]
    BY <1>2, <1>3, <1>4, <2>1 DEF StreamInv, TypeOK
  <2>3. InFlight(c)' = InFlight(c) \ {msg.first}
    <3>1. msg.first \notin InFlight(c)'
      BY <1>6, <1>8, <1>10
    <3>2. InFlight(c) = InFlight(c)' \cup {msg.first}
      BY <1>3, <1>7, <1>10
    <3> QED BY <3>1, <3>2
  <2>4. /\ Ascending(InFlight(c)) # <<>>
        /\ Head(Ascending(InFlight(c))) = msg.first
        /\ Tail(Ascending(InFlight(c))) = Ascending(InFlight(c)')
        /\ Cardinality(InFlight(c)) = Cardinality(InFlight(c)') + 1
    <3>1. msg.first \in InFlight(c)
      BY <1>3, <1>7, <1>10
    <3>2. InFlight(c) \in SUBSET Nat /\ IsFiniteSet(InFlight(c))
      BY <1>1, <1>3, InFlightFacts
    <3>3. \A n \in InFlight(c) \ {msg.first} : msg.first < n
      BY <1>3, <1>6, <1>8, <1>10, <2>3
    <3> QED BY <2>3, <3>1, <3>2, <3>3, AscendingTail
  <2>5. \A d \in Cpus \ {c} : InFlight(d)' = InFlight(d)
    BY <1>7
  <2>6. Pending' = [Pending EXCEPT ![c] = Tail(@)]
    <3>1. Pending'[c] = Tail(Pending[c])
      BY <1>3, <1>9, <2>4
    <3>2. \A d \in Cpus \ {c} : Pending'[d] = Pending[d]
      BY <1>9, <2>5
    <3> QED BY MappedAre, <3>1, <3>2
  <2>7. Delivered' = [Delivered EXCEPT ![c] = Append(@, Head(Pending[c]))]
    <3>1. Delivered'[c] = Append(Delivered[c], msg.first)
      <4> DEFINE s == received[c]
                 t == received'[c]
      <4>1. /\ Delivered[c] = [i \in DOMAIN s |-> s[i].first]
            /\ Delivered'[c] = [i \in DOMAIN t |-> t[i].first]
        BY <1>3 DEF Delivered
      <4>2. t = Append(s, msg) /\ s \in Seq(Entry)
        BY <1>4, <2>2
      <4> HIDE DEF s, t
      <4> QED BY <1>2, <4>1, <4>2, FirstsAppend
    <3>2. \A d \in Cpus \ {c} : Delivered'[d] = Delivered[d]
      BY <2>2 DEF Delivered
    <3>3. Head(Pending[c]) = msg.first
      BY <1>3, <1>9, <2>4
    <3> QED BY MappedAre, <3>1, <3>2, <3>3
  <2>8. Dropped' = Dropped
    <3>1. ASSUME NEW d \in Cpus PROVE Dropped'[d] = Dropped[d]
      <4>1. CASE d = c
        <5>1. /\ Dropped[c] = produced[c] - Len(received[c]) - Cardinality(InFlight(c))
              /\ Dropped'[c] = produced[c] - Len(received'[c]) - Cardinality(InFlight(c)')
          BY <1>3, <1>9
        <5>2. /\ Len(received[c]) \in Nat /\ produced[c] \in Nat
              /\ Cardinality(InFlight(c)') \in Nat
          BY <1>4, <1>8
        <5>3. produced[c] - (Len(received[c]) + 1) - Cardinality(InFlight(c)')
                = produced[c] - Len(received[c]) - (Cardinality(InFlight(c)') + 1)
          BY <5>2, OneMore
        <5> QED BY <2>2, <2>4, <4>1, <5>1, <5>3
      <4>2. CASE d # c
        BY <1>9, <2>2, <2>5, <4>2
      <4> QED BY <4>1, <4>2
    <3> QED BY MappedAre, <3>1
  <2>9. Pending[c] # <<>>
    BY <1>3, <1>9, <2>4
  <2>10. Stream!Deliver(c)
    BY <1>1, <2>1, <2>6, <2>7, <2>8, <2>9 DEF Stream!Deliver
  <2> QED BY <1>3, <2>10 DEF Stream!Next
<1>11. CASE msg.type # "Event"
  <2> DEFINE k == msg.last - msg.first + 1
  <2>1. reported' = [reported EXCEPT ![c] = @ + k] /\ received' = received
    BY <1>11 DEF ReceiveAs, LossOf, c
  <2>2. \A d \in Cpus : InFlight(d)' = InFlight(d)
    BY <1>7, <1>11
  <2>3. Pending' = Pending /\ Dropped' = Dropped /\ Delivered' = Delivered
    <3>1. \A d \in Cpus : Pending'[d] = Pending[d] /\ Dropped'[d] = Dropped[d]
      BY <1>9, <2>1, <2>2
    <3>2. Delivered' = Delivered
      BY <2>1 DEF Delivered
    <3> QED BY MappedAre, <3>1, <3>2
  <2>4. k \in 1 .. Dropped[c] - reported[c]
    <3> DEFINE x == Len(received[c])
               y == Cardinality(InFlight(c)')
               r == reported[c]
               p == produced[c]
               m == missed[c]
               l == msg.last
    <3>1. /\ Dropped[c] = p - x - y /\ y <= Top(c) - l /\ Top(c) = p - m
          /\ Taken(c) = x + r /\ k = l - (Taken(c) + 1) + 1
      BY <1>3, <1>6, <1>8, <1>9, <2>2 DEF Top, Taken
    <3>2. /\ x \in Nat /\ y \in Nat /\ r \in Nat /\ p \in Nat /\ m \in Nat
          /\ l \in Nat /\ l > Taken(c)
      BY <1>4, <1>6, <1>8
    <3> HIDE DEF x, y, r, p, m, l, k
    <3>3. k = l - (x + r) /\ l > x + r
      BY <3>1, <3>2
    <3>4. /\ Dropped[c] = p - x - y /\ y <= (p - m) - l
      BY <3>1
    <3>5. k \in 1 .. Dropped[c] - r
      BY <3>2, <3>3, <3>4
    <3> QED BY <3>5 DEF r
  <2> HIDE DEF k
  <2>5. Stream!Report(c)
    BY <1>1, <2>1, <2>3, <2>4 DEF Stream!Report
  <2> QED BY <1>3, <2>5 DEF Stream!Next
<1> QED BY <1>10, <1>11

(* The reader only moves what is on its way, and once the monitor is gone  *)
(* there is nothing on its way.                                            *)
LEMMA ReadStreams ==
  ASSUME StreamInv, ReadRecord
  PROVE  UNCHANGED Stream!vars
<1>1. UNCHANGED <<open, produced, received, reported>>
  BY DEF ReadRecord
<1>2. ASSUME open, NEW d \in Cpus PROVE InFlight(d)' = InFlight(d)
  <2> DEFINE c == reader.cpu
             e == Head(rings[c])
  <2>1. /\ c \in Cpus /\ rings[c] \in Seq(Entry) /\ rings[c] # <<>> /\ channel \in Seq(Entry)
    BY DEF StreamInv, TypeOK, Reader, DrainBounded, ReadRecord
  <2>2. /\ rings' = [rings EXCEPT ![c] = Tail(rings[c])]
        /\ channel' = Append(channel, e)
    BY <1>2 DEF ReadRecord
  <2>3. e \in Entry /\ e.cpu = c
    <3>1. Flow(c, Taken(c), Top(c), channel, rings[c])
      BY <1>2, <2>1 DEF StreamInv
    <3>2. 1 \in DOMAIN rings[c] /\ e = rings[c][1] /\ e \in Entry
      BY <2>1
    <3> QED BY <3>1, <3>2 DEF Flow, Within
  <2>4. EventsOf(channel', d) =
          EventsOf(channel, d) \cup IF e.cpu = d /\ e.type = "Event" THEN {e.first} ELSE {}
    BY <2>1, <2>2, <2>3, EventsAppend
  <2>5. CASE d = c
    <3>1. rings'[d] = Tail(rings[c])
      BY <2>1, <2>2, <2>5 DEF StreamInv, TypeOK
    <3>2. EventsOf(rings[c], c) =
            EventsOf(Tail(rings[c]), c)
              \cup IF e.cpu = c /\ e.type = "Event" THEN {e.first} ELSE {}
      BY <2>1, EventsTail
    <3> HIDE DEF c, e
    <3> QED BY <2>4, <2>5, <3>1, <3>2 DEF InFlight
  <2>6. CASE d # c
    <3>1. rings'[d] = rings[d]
      BY <2>2, <2>6 DEF StreamInv, TypeOK
    <3>2. EventsOf(channel', d) = EventsOf(channel, d)
      BY <2>3, <2>4, <2>6
    <3> QED BY <3>1, <3>2 DEF InFlight
  <2> QED BY <2>5, <2>6
<1>3. Pending' = Pending
  <2>1. CASE open
    BY <1>1, <1>2, <2>1 DEF Pending
  <2>2. CASE ~ open
    BY <1>1, <2>2 DEF Pending
  <2> QED BY <2>1, <2>2
<1>4. Delivered' = Delivered /\ Dropped' = Dropped
  BY <1>1, <1>3 DEF Delivered, Dropped
<1> QED BY <1>1, <1>3, <1>4 DEF Stream!vars

(* What is on its way when the monitor goes is dropped. *)
LEMMA DestroyStreams ==
  ASSUME StreamInv, Destroy
  PROVE  Stream!Next
<1>1. open /\ open' = FALSE /\ UNCHANGED <<produced, received, reported>>
  BY DEF Destroy
<1>2. Pending' = [c \in Cpus |-> <<>>]
  BY <1>1 DEF Pending
<1>3. Delivered' = Delivered
  BY <1>1 DEF Delivered
<1>4. ASSUME NEW c \in Cpus PROVE Dropped'[c] = Dropped[c] + Len(Pending[c])
  <2> DEFINE p == produced[c]
             x == Len(received[c])
             y == Len(Pending[c])
  <2>1. y = Cardinality(InFlight(c)) /\ y \in Nat
    BY <1>1, InFlightFacts
  <2>2. p \in Nat /\ x \in Nat
    BY DEF StreamInv, TypeOK
  <2>3. Dropped[c] = p - x - y
    BY DEF Dropped
  <2>4. Dropped'[c] = p - x
    <3>1. Dropped'[c] = produced'[c] - Len(received'[c]) - Len(Pending'[c])
      BY DEF Dropped
    <3>2. Len(Pending'[c]) = 0
      BY <1>2
    <3>3. Dropped'[c] = p - x - 0
      BY <1>1, <3>1, <3>2
    <3> HIDE DEF p, x
    <3> QED BY <2>2, <3>3
  <2> HIDE DEF p, x, y
  <2>5. p - x = (p - x - y) + y
    BY <2>1, <2>2
  <2> QED BY <2>3, <2>4, <2>5 DEF y
<1>5. Dropped' = [c \in Cpus |-> Dropped[c] + Len(Pending[c])]
  BY MappedAre, <1>4
<1>6. Stream!Close
  BY <1>1, <1>2, <1>3, <1>5 DEF Stream!Close
<1> QED BY <1>6 DEF Stream!Next

LEMMA StreamStep == StreamInv /\ StreamInv' /\ [Next]_vars => [Stream!Next]_Stream!vars
<1> SUFFICES ASSUME StreamInv, StreamInv', [Next]_vars PROVE [Stream!Next]_Stream!vars
  OBVIOUS
<1>1. ASSUME NEW c \in Cpus, NEW b \in Bodies, Emit(c, b) PROVE Stream!Next
  BY <1>1, EmitStreams
<1>2. CASE ReadRecord
  BY <1>2, ReadStreams
<1>3. CASE Receive
  BY <1>3, ReceiveStreams DEF Receive
<1>4. CASE Destroy
  BY <1>4, DestroyStreams
<1>5. CASE EnterRing \/ LeaveRing \/ EndRound \/ UNCHANGED vars
  <2>1. UNCHANGED <<open, produced, rings, channel, received, reported>>
    BY <1>5 DEF EnterRing, LeaveRing, EndRound, vars
  <2>2. \A c \in Cpus : InFlight(c)' = InFlight(c)
    BY <2>1 DEF InFlight
  <2>3. Pending' = Pending
    BY <2>1, <2>2 DEF Pending
  <2>4. Delivered' = Delivered /\ Dropped' = Dropped
    BY <2>1, <2>3 DEF Delivered, Dropped
  <2> QED BY <2>1, <2>3, <2>4 DEF Stream!vars
<1> QED BY <1>1, <1>2, <1>3, <1>4, <1>5 DEF Next, ReaderStep

(* The path from the tracepoints to the core keeps what LossyStream        *)
(* promises, safety only: each CPU's records delivered one by one in the   *)
(* order they were made, a record dropped only as it is made or with the   *)
(* monitor, no more losses reported than there were.                       *)
THEOREM StreamImplemented == Safe => Stream!Safe
<1> QED BY StreamInit, StreamStep, SafeInv, PTL DEF Safe, Stream!Safe

=============================================================================
