--------------------------- MODULE DetectorProofs ---------------------------
(***************************************************************************)
(* Theorems about Detector, for every set of pids, files, extensions and   *)
(* thresholds, every window length and every bound; and about Agent, for   *)
(* any number of CPUs and processes, any size of the rings, and agents     *)
(* that keep up and that do not.  What is proved of PerfReader comes in    *)
(* through an instance; the argument about the bursts follows an open from *)
(* the record to the window: PromptInv says that an agent that keeps up    *)
(* handles it at the instant it was recorded, and that as many opens are   *)
(* in the windows as were recorded.                                        *)
(***************************************************************************)
EXTENDS Agent, DataLemmas, SequenceTheorems, TLAPS

-----------------------------------------------------------------------------
(* Facts about the operators.                                              *)

(* The eviction loop stops, and where: everything before the cut is older  *)
(* than the cutoff, the entry at the cut is not.                           *)
LEMMA FirstKeptProperties ==
  ASSUME NEW w \in Seq(Nat), NEW cutoff \in Int
  PROVE  LET k == FirstKept(w, cutoff) IN
         /\ k \in 1 .. Len(w) + 1
         /\ \A i \in 1 .. k - 1 : w[i] < cutoff
         /\ k \in 1 .. Len(w) => w[k] >= cutoff
<1> DEFINE T == {k \in 1 .. Len(w) + 1 : k \in 1 .. Len(w) => w[k] >= cutoff}
<1>1. Len(w) \in Nat /\ \A i \in 1 .. Len(w) : w[i] \in Nat
  BY LenProperties, ElementOfSeq
<1>2. T \subseteq Nat /\ T # {}
  <2>1. Len(w) + 1 \in T
    BY <1>1
  <2> QED BY <2>1, <1>1
<1>3. PICK k \in T : \A j \in T : k <= j
  <2> HIDE DEF T
  <2> QED BY <1>2, LeastNatural
<1>4. \A i \in 1 .. k - 1 : w[i] < cutoff
  BY <1>1, <1>3
<1>5. \E j \in 1 .. Len(w) + 1 :
        /\ \A i \in 1 .. j - 1 : w[i] < cutoff
        /\ j \in 1 .. Len(w) => w[j] >= cutoff
  BY <1>3, <1>4
<1> QED BY <1>5 DEF FirstKept

(* Evict keeps a suffix. *)
LEMMA EvictProperties ==
  ASSUME NEW w \in Seq(Nat), NEW cutoff \in Int
  PROVE  LET k == FirstKept(w, cutoff)
             e == Evict(w, cutoff)
         IN  /\ e \in Seq(Nat)
             /\ Len(e) = Len(w) - k + 1
             /\ \A i \in 1 .. Len(e) : e[i] = w[i + k - 1]
<1> DEFINE k == FirstKept(w, cutoff)
<1>1. k \in 1 .. Len(w) + 1
  BY FirstKeptProperties
<1>2. Len(w) \in Nat /\ \A i \in k .. Len(w) : w[i] \in Nat
  BY <1>1, LenProperties, ElementOfSeq
<1> HIDE DEF k
<1>3. /\ SubSeq(w, k, Len(w)) \in Seq(Nat)
      /\ Len(SubSeq(w, k, Len(w))) = IF k <= Len(w) THEN Len(w) - k + 1 ELSE 0
      /\ \A i \in 1 .. Len(w) - k + 1 : SubSeq(w, k, Len(w))[i] = w[k + i - 1]
  BY <1>1, <1>2, SubSeqProperties
<1>4. Evict(w, cutoff) = SubSeq(w, k, Len(w))
  BY DEF Evict, k
<1> QED BY <1>1, <1>2, <1>3, <1>4 DEF k

LEMMA CountOutputsType ==
  ASSUME outputs \in Seq([type : OutputTypes, pid : Pids]), NEW t, NEW p
  PROVE  CountOutputs(t, p) \in Nat
<1> DEFINE S == {i \in DOMAIN outputs : outputs[i] = Output(t, p)}
<1>1. IsFiniteSet(DOMAIN outputs)
  BY FS_Interval, LenProperties
<1>2. IsFiniteSet(S)
  BY <1>1, FS_Subset
<1> QED BY <1>2, FS_CardinalityType DEF CountOutputs

LEMMA EmitType ==
  ASSUME NEW ev \in Event, NEW raised \in BOOLEAN
  PROVE  Emit(ev, raised) \in Seq([type : OutputTypes, pid : Pids])
<1> DEFINE Out == [type : OutputTypes, pid : Pids]
           one(t) == <<Output(t, ev.pid)>>
<1>1. \A t \in OutputTypes : one(t) \in Seq(Out)
  BY DEF Output, Event
<1>2. <<>> \in Seq(Out)
  OBVIOUS
<1>3. one("Alert") \in Seq(Out) /\ one("Action") \in Seq(Out) /\ one("Event") \in Seq(Out)
  BY <1>1 DEF OutputTypes
<1> HIDE DEF Out
<1>4. Emit(ev, raised) =
        ((IF raised THEN one("Alert") ELSE <<>>)
          \o (IF raised /\ auto_kill THEN one("Action") ELSE <<>>)) \o one("Event")
  BY DEF Emit
<1> HIDE DEF one
<1>5. Emit(ev, raised) \in Seq(Out)
  BY <1>2, <1>3, <1>4
<1> QED BY <1>5 DEF Out

(* The parent is all that the lookup changes. *)
LEMMA ResolvedType ==
  ASSUME TypeOK, NEW ev \in Event, NEW read \in PpidReads
  PROVE  LET s == stats[ev.pid]
             t == Resolved(ev, read)
         IN  /\ s \in ProcStats /\ t \in ProcStats
             /\ t.total_execs = s.total_execs /\ t.total_opens = s.total_opens
             /\ t.window_opens = s.window_opens /\ t.alerts = s.alerts
             /\ t.extensions = s.extensions
<1> DEFINE s == stats[ev.pid]
           known == [s EXCEPT !.ppid = read]
           same(t) == /\ t \in ProcStats
                      /\ t.total_execs = s.total_execs /\ t.total_opens = s.total_opens
                      /\ t.window_opens = s.window_opens /\ t.alerts = s.alerts
                      /\ t.extensions = s.extensions
<1>1. s \in ProcStats
  BY DEF TypeOK, Event
<1>2. Resolved(ev, read) = s \/ Resolved(ev, read) = known
  BY DEF Resolved
<1> HIDE DEF s
<1>3. same(known) /\ same(s)
  BY <1>1 DEF ProcStats
<1> HIDE DEF known
<1>4. same(Resolved(ev, read))
  BY <1>2, <1>3
<1> QED BY <1>1, <1>4 DEF s

(* The window of an open: the recent suffix of the old one, and now. *)
LEMMA WindowAfterOpen ==
  ASSUME TypeOK, NEW p \in Pids
  PROVE  LET k == FirstKept(windows[p], now - Second)
             e == Evict(windows[p], now - Second)
             w == Append(e, now)
         IN  /\ k \in 1 .. Len(windows[p]) + 1
             /\ w \in Seq(Nat)
             /\ Len(w) = Len(windows[p]) - k + 2
             /\ \A i \in 1 .. Len(w) - 1 : w[i] = windows[p][i + k - 1]
             /\ w[Len(w)] = now
             /\ \A i \in 1 .. k - 1 : windows[p][i] < now - Second
             /\ k \in 1 .. Len(windows[p]) => windows[p][k] >= now - Second
<1> DEFINE k == FirstKept(windows[p], now - Second)
           e == Evict(windows[p], now - Second)
<1>1. windows[p] \in Seq(Nat) /\ now \in Nat /\ now - Second \in Int
  BY NumberAssumption DEF TypeOK
<1>2. Len(windows[p]) \in Nat
  BY <1>1, LenProperties
<1>3. /\ k \in 1 .. Len(windows[p]) + 1
      /\ \A i \in 1 .. k - 1 : windows[p][i] < now - Second
      /\ k \in 1 .. Len(windows[p]) => windows[p][k] >= now - Second
  BY <1>1, FirstKeptProperties
<1>4. /\ e \in Seq(Nat)
      /\ Len(e) = Len(windows[p]) - k + 1
      /\ \A i \in 1 .. Len(e) : e[i] = windows[p][i + k - 1]
  BY <1>1, EvictProperties
<1> HIDE DEF k, e
<1>5. /\ Append(e, now) \in Seq(Nat)
      /\ Len(Append(e, now)) = Len(e) + 1
      /\ \A i \in 1 .. Len(e) : Append(e, now)[i] = e[i]
      /\ Append(e, now)[Len(e) + 1] = now
  BY <1>1, <1>4, AppendProperties
<1>6. /\ Append(e, now) \in Seq(Nat)
      /\ Len(Append(e, now)) = Len(windows[p]) - k + 2
      /\ \A i \in 1 .. Len(Append(e, now)) - 1 : Append(e, now)[i] = windows[p][i + k - 1]
      /\ Append(e, now)[Len(Append(e, now))] = now
  BY <1>2, <1>3, <1>4, <1>5
<1> QED BY <1>3, <1>6 DEF k, e

-----------------------------------------------------------------------------
(* Type correctness.                                                       *)

LEMMA SampleType ==
  /\ ZeroSample \in Sample
  /\ \A a, b \in Sample : AddSamples(a, b) \in Sample
  /\ \A t \in Sample : [t EXCEPT !.execs = @ + 1] \in Sample
  /\ \A t \in Sample : [t EXCEPT !.opens = @ + 1] \in Sample
BY DEF Sample, ZeroSample, AddSamples

LEMMA TotalType ==
  ASSUME NEW t \in [events : Nat, lost : Nat], NEW n \in Nat
  PROVE  /\ [t EXCEPT !.events = @ + 1] \in [events : Nat, lost : Nat]
         /\ [t EXCEPT !.lost = @ + n] \in [events : Nat, lost : Nat]
OBVIOUS

LEMMA TypeOpen ==
  ASSUME TypeOK, NEW ev \in Event, NEW read \in PpidReads, CountOpen(ev, read)
  PROVE  /\ windows' \in [Pids -> Seq(Nat)]
         /\ stats' \in [Pids -> ProcStats]
         /\ opened' \in [Pids -> Seq(Nat)]
         /\ alerted' \in [Pids -> BOOLEAN]
         /\ outputs' \in Seq([type : OutputTypes, pid : Pids])
         /\ file_counts' \in [Files -> Nat]
         /\ ext_counts' \in [Exts -> Nat]
         /\ tick' \in Sample
<1> DEFINE p == ev.pid
           w == Append(Evict(windows[p], now - Second), now)
           Out == [type : OutputTypes, pid : Pids]
<1>1. p \in Pids /\ ev.file \in Files /\ now \in Nat
  BY DEF Event, CountOpen, ExecKinds, TypeOK
<1>2. w \in Seq(Nat) /\ Len(w) \in Nat
  BY <1>1, WindowAfterOpen, LenProperties
<1>3. Raises(Len(w)) \in BOOLEAN
  BY DEF Raises
<1>4. Emit(ev, Raises(Len(w))) \in Seq(Out)
  BY <1>3, EmitType
<1>5. windows' \in [Pids -> Seq(Nat)]
  BY <1>1, <1>2 DEF CountOpen, TypeOK
<1>6. stats' \in [Pids -> ProcStats]
  <2> HIDE DEF w
  <2> DEFINE s == Resolved(ev, read)
             x == [s EXCEPT
                    !.total_opens  = @ + 1,
                    !.window_opens = Len(w),
                    !.alerts       = @ + (IF Raises(Len(w)) THEN 1 ELSE 0),
                    !.extensions   = [y \in Exts |-> @[y] + (IF y = ExtOf[ev.file] THEN 1 ELSE 0)]]
  <2>1. s \in ProcStats
    BY ResolvedType
  <2> HIDE DEF s
  <2>2. x \in ProcStats
    <3> DEFINE opens == s.total_opens + 1
               window == Len(w)
               more == s.alerts + (IF Raises(Len(w)) THEN 1 ELSE 0)
               exts == [y \in Exts |-> s.extensions[y] + (IF y = ExtOf[ev.file] THEN 1 ELSE 0)]
    <3>1. opens \in Nat /\ window \in Nat /\ more \in Nat /\ exts \in [Exts -> Nat]
      BY <2>1, <1>2 DEF ProcStats
    <3>2. x = [s EXCEPT !.total_opens = opens, !.window_opens = window,
                        !.alerts = more, !.extensions = exts]
      BY <2>1 DEF ProcStats
    <3> HIDE DEF opens, window, more, exts, x
    <3> QED BY <2>1, <3>1, <3>2, <1>2 DEF ProcStats
  <2>3. stats' = [stats EXCEPT ![p] = x]
    BY DEF CountOpen, x, s, w
  <2> HIDE DEF x
  <2> QED BY <2>2, <2>3, <1>1 DEF TypeOK
<1>7. opened' \in [Pids -> Seq(Nat)]
  <2>1. opened' = [opened EXCEPT ![p] = Append(opened[p], now)]
    BY DEF CountOpen
  <2>2. opened \in [Pids -> Seq(Nat)]
    BY DEF TypeOK
  <2> HIDE DEF p, w, Out
  <2>3. Append(opened[p], now) \in Seq(Nat)
    BY <2>2, <1>1
  <2> QED BY <2>1, <2>2, <2>3, <1>1
<1>8. alerted' \in [Pids -> BOOLEAN]
  <2>1. alerted' = [alerted EXCEPT ![p] = Raises(Len(w)) \/ (@ /\ Len(w) >= threshold)]
    BY DEF CountOpen
  <2> HIDE DEF w
  <2> QED BY <2>1 DEF TypeOK
<1>9. outputs' \in Seq(Out)
  <2>1. outputs' = outputs \o Emit(ev, Raises(Len(w))) /\ outputs \in Seq(Out)
    BY DEF CountOpen, TypeOK
  <2> HIDE DEF w, Out
  <2> QED BY <2>1, <1>4, ConcatProperties
<1>10. file_counts' \in [Files -> Nat]
  <2>1. file_counts' = [file_counts EXCEPT ![ev.file] = file_counts[ev.file] + 1]
    BY DEF CountOpen
  <2>2. file_counts \in [Files -> Nat]
    BY DEF TypeOK
  <2> HIDE DEF p, w, Out
  <2> QED BY <2>1, <2>2, <1>1
<1>11. ext_counts' \in [Exts -> Nat]
  <2>1. ext_counts' = [x \in Exts |-> ext_counts[x] + (IF x = ExtOf[ev.file] THEN 1 ELSE 0)]
    BY DEF CountOpen
  <2>2. ext_counts \in [Exts -> Nat]
    BY DEF TypeOK
  <2> HIDE DEF p, w, Out
  <2> QED BY <2>1, <2>2
<1>12. tick' \in Sample
  <2> DEFINE opens == tick.opens + 1
             more == tick.alerts + (IF Raises(Len(w)) THEN 1 ELSE 0)
  <2>1. tick' = [tick EXCEPT !.opens = opens, !.alerts = more]
    BY DEF CountOpen, TypeOK, Sample
  <2>2. opens \in Nat /\ more \in Nat /\ tick \in Sample
    BY DEF TypeOK, Sample
  <2> HIDE DEF opens, more
  <2> QED BY <2>1, <2>2 DEF Sample
<1> QED BY <1>5, <1>6, <1>7, <1>8, <1>9, <1>10, <1>11, <1>12

LEMMA TypeExec ==
  ASSUME TypeOK, NEW ev \in Event, NEW read \in PpidReads,
         CountExec(ev, read) \/ CountFs(ev, read)
  PROVE  /\ stats' \in [Pids -> ProcStats]
         /\ outputs' \in Seq([type : OutputTypes, pid : Pids])
         /\ file_counts' \in [Files -> Nat]
         /\ tick' \in Sample
         /\ UNCHANGED <<windows, ext_counts, opened, alerted>>
<1> DEFINE s == Resolved(ev, read)
           Out == [type : OutputTypes, pid : Pids]
<1>1. s \in ProcStats /\ ev.pid \in Pids
  BY ResolvedType DEF Event
<1>2. outputs' \in Seq(Out)
  <2>1. /\ outputs' = outputs \o Emit(ev, FALSE)
        /\ outputs \in Seq(Out)
        /\ Emit(ev, FALSE) \in Seq(Out)
    BY EmitType DEF CountExec, CountFs, TypeOK
  <2> HIDE DEF Out
  <2> QED BY <2>1, ConcatProperties
<1>3. CASE CountExec(ev, read)
  <2>1. [s EXCEPT !.total_execs = @ + 1] \in ProcStats
    BY <1>1 DEF ProcStats
  <2>2. stats' \in [Pids -> ProcStats]
    BY <1>1, <1>3, <2>1 DEF CountExec, TypeOK
  <2>3. tick' \in Sample
    BY <1>3, SampleType DEF CountExec, TypeOK
  <2> QED BY <1>2, <1>3, <2>2, <2>3 DEF CountExec, TypeOK
<1>4. CASE CountFs(ev, read)
  <2>1. stats' \in [Pids -> ProcStats]
    BY <1>1, <1>4 DEF CountFs, TypeOK
  <2>2. tick' \in Sample
    BY <1>4, SampleType DEF CountFs, TypeOK
  <2>3. file_counts' \in [Files -> Nat]
    BY <1>4 DEF CountFs, TypeOK, Event
  <2> QED BY <1>2, <1>4, <2>1, <2>2, <2>3 DEF CountFs
<1> QED BY <1>3, <1>4

LEMMA TypeEvent ==
  ASSUME TypeOK, NEW ev \in Event, NEW read \in PpidReads, HandleEvent(ev, read)
  PROVE  TypeOK'
<1>1. /\ tracked' \subseteq Pids
      /\ pid_to_ppid' \in [Pids -> PpidReads]
      /\ total' \in [events : Nat, lost : Nat]
      /\ UNCHANGED <<now, polling, threshold, auto_kill, rate_history,
                     tick_start, delivered, rotated>>
  BY TotalType DEF HandleEvent, TypeOK, Event
<1>2. CASE CountOpen(ev, read)
  BY <1>1, <1>2, TypeOpen DEF TypeOK
<1>3. CASE CountExec(ev, read) \/ CountFs(ev, read)
  BY <1>1, <1>3, TypeExec DEF TypeOK
<1> QED BY <1>2, <1>3 DEF HandleEvent

LEMMA TypeEndPoll ==
  ASSUME TypeOK, EndPoll
  PROVE  TypeOK'
<1>1. delivered' \in [OutputTypes -> [Pids -> Nat]]
  <2>1. \A t \in OutputTypes, p \in Pids : delivered[t][p] + CountOutputs(t, p) \in Nat
    BY CountOutputsType DEF TypeOK
  <2> QED BY <2>1 DEF EndPoll
<1>2. outputs' \in Seq([type : OutputTypes, pid : Pids])
  BY DEF EndPoll
<1>3. CASE PushSample
  <2> DEFINE h == Append(rate_history, tick)
  <2>1. rate_history \in Seq(Sample) /\ tick \in Sample /\ HistoryCap \in Nat
        /\ Len(rate_history) \in Nat /\ Len(rate_history) <= HistoryCap
    BY NumberAssumption, LenProperties DEF TypeOK
  <2>2. h \in Seq(Sample) /\ h # <<>> /\ Len(h) = Len(rate_history) + 1
    BY <2>1, AppendProperties
  <2> HIDE DEF h
  <2>3. Head(h) \in Sample /\ Tail(h) \in Seq(Sample) /\ Len(Tail(h)) = Len(h) - 1
    BY <2>2, HeadTailProperties
  <2>4. /\ rate_history' = IF Len(h) > HistoryCap THEN Tail(h) ELSE h
        /\ rotated' = IF Len(h) > HistoryCap THEN AddSamples(rotated, Head(h)) ELSE rotated
        /\ tick' = ZeroSample
        /\ tick_start' = now
    BY <1>3 DEF PushSample, h
  <2>5. rate_history' \in Seq(Sample) /\ Len(rate_history') <= HistoryCap
    BY <2>1, <2>2, <2>3, <2>4
  <2>6. rotated' \in Sample /\ tick' \in Sample
    BY <2>3, <2>4, SampleType DEF TypeOK
  <2>7. tick_start' \in 0 .. now' /\ now' \in Nat
    BY <2>4 DEF EndPoll, TypeOK
  <2>8. UNCHANGED <<now, threshold, auto_kill, core, total, opened, alerted>> /\ polling' = FALSE
    BY DEF EndPoll
  <2> QED BY <1>1, <1>2, <2>5, <2>6, <2>7, <2>8 DEF TypeOK, core
<1>4. CASE UNCHANGED rates
  BY <1>1, <1>2, <1>4 DEF EndPoll, TypeOK, rates, core
<1> QED BY <1>3, <1>4 DEF EndPoll

(* A step with no bound on the events and the losses, and one of them that *)
(* leaves the threshold alone.  The bounds take no part in what follows.   *)
UnboundedFixed ==
  \/ \E ev \in Event, read \in PpidReads : HandleEvent(ev, read)
  \/ \E n \in Nat : HandleLost(n)
  \/ BeginPoll \/ EndPoll \/ Tick

Unbounded == UnboundedFixed \/ \E t \in Thresholds : SetThreshold(t)

LEMMA BoundsDropped ==
  /\ TypeOK /\ [Next]_vars => [Unbounded]_vars
  /\ TypeOK /\ [NextFixed]_vars => [UnboundedFixed]_vars
<1>1. TypeOK => 1 .. MaxLost - total.lost \subseteq Nat
  BY NumberAssumption DEF TypeOK
<1> QED BY <1>1 DEF Next, NextFixed, Poll, ReceiveEvent, ReceiveLost, Unbounded, UnboundedFixed

LEMMA TypeStep == TypeOK /\ [Unbounded]_vars => TypeOK'
<1> SUFFICES ASSUME TypeOK, [Unbounded]_vars PROVE TypeOK'
  OBVIOUS
<1>1. ASSUME NEW ev \in Event, NEW read \in PpidReads, HandleEvent(ev, read)
      PROVE  TypeOK'
  BY <1>1, TypeEvent
<1>2. ASSUME NEW n \in Nat, HandleLost(n) PROVE TypeOK'
  <2>1. total' \in [events : Nat, lost : Nat]
    BY <1>2, TotalType DEF HandleLost, TypeOK
  <2> QED BY <1>2, <2>1 DEF HandleLost, TypeOK, core, rates
<1>3. CASE BeginPoll
  BY <1>3 DEF BeginPoll, TypeOK, core, rates
<1>4. CASE EndPoll
  BY <1>4, TypeEndPoll
<1>5. CASE Tick
  BY <1>5 DEF Tick, TypeOK, core, rates
<1>6. ASSUME NEW t \in Thresholds, SetThreshold(t) PROVE TypeOK'
  BY <1>6 DEF SetThreshold, TypeOK, core, rates
<1>7. CASE UNCHANGED vars
  BY <1>7 DEF vars, TypeOK, core, rates
<1> QED BY <1>1, <1>2, <1>3, <1>4, <1>5, <1>6, <1>7
        DEF Unbounded, UnboundedFixed

LEMMA TypeInit == Init => TypeOK
<1> SUFFICES ASSUME Init PROVE TypeOK
  OBVIOUS
<1>1. stats \in [Pids -> ProcStats]
  BY PidAssumption DEF Init, ProcStats, DefaultStats
<1>2. /\ rate_history \in Seq(Sample) /\ Len(rate_history) <= HistoryCap
      /\ tick \in Sample /\ rotated \in Sample
  BY NumberAssumption, SampleType DEF Init
<1>3. delivered \in [OutputTypes -> [Pids -> Nat]]
  BY DEF Init
<1>4. /\ total \in [events : Nat, lost : Nat]
      /\ outputs \in Seq([type : OutputTypes, pid : Pids])
      /\ opened \in [Pids -> Seq(Nat)] /\ windows \in [Pids -> Seq(Nat)]
      /\ now \in Nat /\ tick_start \in 0 .. now
  BY DEF Init
<1> QED BY <1>1, <1>2, <1>3, <1>4, PidAssumption DEF Init, TypeOK

(* The state of the monitor keeps its types, the rate history its cap. *)
THEOREM TypeCorrect == Spec => []TypeOK
BY TypeInit, TypeStep, BoundsDropped, PTL DEF Spec

-----------------------------------------------------------------------------
(* The windows.                                                            *)

(* What makes WindowExact inductive: opens are recorded in time order,     *)
(* none in the future.                                                     *)
Chronological ==
  \A p \in Pids : \A i \in 1 .. Len(opened[p]) :
    /\ opened[p][i] <= now
    /\ \A j \in i .. Len(opened[p]) : opened[p][i] <= opened[p][j]

WindowInv == TypeOK /\ Chronological /\ WindowExact

(* WindowExact for one pid, of the opens all and the window win. *)
IsWindow(all, win) ==
  LET last == all[Len(all)]
      old  == Len(all) - Len(win)
  IN  /\ old >= 0
      /\ \A i \in 1 .. Len(all) :
           IF i <= old
           THEN all[i] < last - Second
           ELSE all[i] >= last - Second /\ win[i - old] = all[i]

(* The times s are in order and none is after t. *)
Ordered(s, t) ==
  \A i \in 1 .. Len(s) : s[i] <= t /\ \A j \in i .. Len(s) : s[i] <= s[j]

(* w is win without its entries before k, which are older than a second at *)
(* time t, followed by t.                                                  *)
Slid(win, w, k, t) ==
  /\ k \in 1 .. Len(win) + 1
  /\ Len(w) = Len(win) - k + 2
  /\ \A i \in 1 .. Len(w) - 1 : w[i] = win[i + k - 1]
  /\ w[Len(w)] = t
  /\ \A i \in 1 .. k - 1 : win[i] < t - Second
  /\ k \in 1 .. Len(win) => win[k] >= t - Second

(* One open, whatever number of entries the eviction loop removed. *)
LEMMA IsWindowAppend ==
  ASSUME NEW all \in Seq(Nat), NEW win \in Seq(Nat), NEW w \in Seq(Nat),
         NEW t \in Nat, NEW k \in Nat,
         Ordered(all, t), IsWindow(all, win), Slid(win, w, k, t)
  PROVE  IsWindow(Append(all, t), w)
<1> DEFINE n == Len(all)
           m == Len(win)
           old == n - m
           cut == old + k - 1
           new == Append(all, t)
<1>1. /\ n \in Nat /\ m \in Nat /\ Second \in Nat
      /\ \A i \in 1 .. n : all[i] \in Nat
  BY LenProperties, ElementOfSeq, NumberAssumption
<1>2. /\ Len(new) = n + 1
      /\ \A i \in 1 .. n : new[i] = all[i]
      /\ new[n + 1] = t
  BY AppendProperties
<1>3. /\ old >= 0
      /\ \A i \in 1 .. n : IF i <= old THEN all[i] < all[n] - Second
                                        ELSE win[i - old] = all[i]
  BY DEF IsWindow
<1>4. /\ Len(w) = m - k + 2 /\ k \in 1 .. m + 1
      /\ \A i \in 1 .. Len(w) - 1 : w[i] = win[i + k - 1]
      /\ \A i \in 1 .. k - 1 : win[i] < t - Second
      /\ k \in 1 .. m => win[k] >= t - Second
      /\ \A i \in 1 .. n : all[i] <= t
      /\ \A i \in 1 .. n : \A j \in i .. n : all[i] <= all[j]
      /\ w[Len(w)] = t
  BY DEF Slid, Ordered
<1>5. old = n - m /\ cut = old + k - 1
  OBVIOUS
<1> HIDE DEF n, m, old, cut, new
<1>6. /\ k \in Nat /\ old \in Nat /\ cut \in Nat /\ cut <= n /\ Len(w) = n + 1 - cut
      /\ k >= 1
  BY <1>1, <1>3, <1>4, <1>5
<1>7. ASSUME NEW i \in 1 .. n + 1, i <= cut
      PROVE  new[i] < t - Second
  <2>1. i \in 1 .. n /\ n \in 1 .. n /\ i \in Nat
    BY <1>1, <1>6, <1>7
  <2>2. CASE i <= old
    <3>1. all[i] < all[n] - Second /\ all[n] <= t
      BY <2>1, <2>2, <1>3, <1>4
    <3>2. all[i] \in Nat /\ all[n] \in Nat
      BY <2>1, <1>1
    <3>3. new[i] = all[i]
      BY <2>1, <1>2
    <3>4. t \in Nat /\ Second \in Nat
      BY <1>1
    <3> QED BY <3>1, <3>2, <3>3, <3>4, SMTT(20)
  <2>3. CASE ~ (i <= old)
    <3>1. i - old \in 1 .. k - 1
      BY <2>1, <2>3, <1>1, <1>5, <1>6, <1>7
    <3>2. all[i] = win[i - old]
      BY <2>1, <2>3, <1>3
    <3>3. win[i - old] < t - Second
      BY <3>1, <1>4
    <3>4. new[i] = all[i]
      BY <2>1, <1>2
    <3> QED BY <3>2, <3>3, <3>4
  <2> QED BY <2>2, <2>3
<1>8. ASSUME NEW i \in 1 .. n + 1, i > cut
      PROVE  new[i] >= t - Second /\ w[i - cut] = new[i]
  <2>1. CASE i = n + 1
    <3>1. i - cut = Len(w)
      BY <1>1, <1>6, <2>1
    <3>2. t >= t - Second
      BY <1>1
    <3> QED BY <3>1, <3>2, <2>1, <1>2, <1>4
  <2>2. CASE i # n + 1
    <3>1. /\ i \in 1 .. n /\ ~ (i <= old)
          /\ i - cut \in 1 .. Len(w) - 1
          /\ k \in 1 .. m
          /\ old + k \in 1 .. n /\ i \in old + k .. n /\ ~ (old + k <= old)
      BY <2>2, <1>1, <1>4, <1>5, <1>6, <1>8
    <3>2. (i - cut) + k - 1 = i - old /\ (old + k) - old = k
      BY <3>1, <1>1, <1>5, <1>6
    <3>3. w[i - cut] = win[i - old] /\ win[i - old] = all[i]
      BY <3>1, <3>2, <1>3, <1>4
    <3>4. win[k] = all[old + k]
      BY <3>1, <3>2, <1>3
    <3>5. all[old + k] <= all[i] /\ all[old + k] \in Nat /\ all[i] \in Nat
      BY <3>1, <1>1, <1>4
    <3>6. all[i] >= t - Second
      <4>1. win[k] >= t - Second
        BY <3>1, <1>4
      <4>2. all[old + k] >= t - Second
        BY <4>1, <3>4
      <4>3. \A x, y, z \in Int : x <= y /\ x >= z => y >= z
        OBVIOUS
      <4>4. t - Second \in Int
        BY <1>1
      <4> QED BY <4>2, <4>3, <4>4, <3>5
    <3> QED BY <3>1, <3>3, <3>6, <1>2
  <2> QED BY <2>1, <2>2
<1>9. Len(new) - Len(w) = cut
  BY <1>1, <1>2, <1>6
<1>10. \A i \in 1 .. n + 1 :
         IF i <= cut THEN new[i] < new[n + 1] - Second
                     ELSE new[i] >= new[n + 1] - Second /\ w[i - cut] = new[i]
  BY <1>1, <1>2, <1>6, <1>7, <1>8
<1>11. IsWindow(new, w)
  BY <1>2, <1>6, <1>9, <1>10 DEF IsWindow
<1> QED BY <1>11 DEF new

LEMMA WindowExactForm ==
  WindowExact <=> \A p \in Pids : /\ stats[p].window_opens = Len(windows[p])
                                  /\ stats[p].total_opens = Len(opened[p])
                                  /\ IsWindow(opened[p], windows[p])
BY DEF WindowExact, IsWindow

LEMMA ChronologicalForm ==
  Chronological <=> \A p \in Pids : Ordered(opened[p], now)
BY DEF Chronological, Ordered

LEMMA OrderedAppend ==
  ASSUME NEW s \in Seq(Nat), NEW t \in Nat, Ordered(s, t)
  PROVE  Ordered(Append(s, t), t)
<1> DEFINE new == Append(s, t)
<1>1. /\ Len(s) \in Nat /\ Len(new) = Len(s) + 1 /\ new[Len(s) + 1] = t
      /\ \A i \in 1 .. Len(s) : new[i] = s[i]
  BY LenProperties, AppendProperties
<1> HIDE DEF new
<1>2. Ordered(new, t)
  BY <1>1 DEF Ordered
<1> QED BY <1>2 DEF new

(* What CountOpen does to the windows and the statistics. *)
LEMMA OpenEffect ==
  ASSUME TypeOK, NEW ev \in Event, NEW read \in PpidReads, CountOpen(ev, read)
  PROVE  \E w \in Seq(Nat), k \in Nat :
           /\ ev.pid \in Pids
           /\ Slid(windows[ev.pid], w, k, now)
           /\ windows' = [windows EXCEPT ![ev.pid] = w]
           /\ opened' = [opened EXCEPT ![ev.pid] = Append(@, now)]
           /\ alerted' = [alerted EXCEPT ![ev.pid] =
                            Raises(Len(w)) \/ (@ /\ Len(w) >= threshold)]
           /\ stats'[ev.pid].window_opens = Len(w)
           /\ stats'[ev.pid].total_opens = stats[ev.pid].total_opens + 1
           /\ stats'[ev.pid].alerts = stats[ev.pid].alerts + (IF Raises(Len(w)) THEN 1 ELSE 0)
           /\ stats[ev.pid].alerts \in Nat
           /\ \A q \in Pids \ {ev.pid} : stats'[q] = stats[q]
<1> DEFINE p == ev.pid
           w == Append(Evict(windows[p], now - Second), now)
           k == FirstKept(windows[p], now - Second)
<1>1. p \in Pids
  BY DEF Event
<1>2. w \in Seq(Nat) /\ k \in 1 .. Len(windows[p]) + 1 /\ Slid(windows[p], w, k, now)
  BY <1>1, WindowAfterOpen DEF Slid
<1>3. Len(windows[p]) \in Nat /\ k \in Nat
  <2>1. Len(windows[p]) \in Nat
    BY <1>1, LenProperties DEF TypeOK
  <2> HIDE DEF k
  <2> QED BY <2>1, <1>2
<1>4. /\ windows' = [windows EXCEPT ![p] = w]
      /\ opened' = [opened EXCEPT ![p] = Append(@, now)]
      /\ alerted' = [alerted EXCEPT ![p] = Raises(Len(w)) \/ (@ /\ Len(w) >= threshold)]
  BY DEF CountOpen
<1>5. /\ stats'[p].window_opens = Len(w)
      /\ stats'[p].total_opens = stats[p].total_opens + 1
      /\ stats'[p].alerts = stats[p].alerts + (IF Raises(Len(w)) THEN 1 ELSE 0)
      /\ stats[p].alerts \in Nat
      /\ \A q \in Pids \ {p} : stats'[q] = stats[q]
  <2> DEFINE s == Resolved(ev, read)
             opens == s.total_opens + 1
             n == Len(w)
             more == s.alerts + (IF Raises(n) THEN 1 ELSE 0)
             exts == [y \in Exts |-> s.extensions[y] + (IF y = ExtOf[ev.file] THEN 1 ELSE 0)]
  <2>1. /\ s \in ProcStats /\ s.total_opens = stats[p].total_opens
        /\ s.alerts = stats[p].alerts /\ s.alerts \in Nat
    BY ResolvedType DEF ProcStats
  <2>3. more = stats[p].alerts + (IF Raises(Len(w)) THEN 1 ELSE 0)
    BY <2>1
  <2>2. stats' = [stats EXCEPT ![p] = [s EXCEPT !.total_opens = opens, !.window_opens = n,
                                                !.alerts = more, !.extensions = exts]]
    BY DEF CountOpen
  <2> HIDE DEF s, n, more, exts
  <2> QED BY <2>1, <2>2, <2>3, <1>1 DEF TypeOK, ProcStats, n
<1> HIDE DEF w, k
<1> QED BY <1>1, <1>2, <1>3, <1>4, <1>5

(* The other events touch neither window nor open count. *)
LEMMA OtherEffect ==
  ASSUME TypeOK, NEW ev \in Event, NEW read \in PpidReads,
         CountExec(ev, read) \/ CountFs(ev, read)
  PROVE  /\ UNCHANGED <<windows, opened, alerted>>
         /\ \A q \in Pids : /\ stats'[q].window_opens = stats[q].window_opens
                            /\ stats'[q].total_opens = stats[q].total_opens
                            /\ stats'[q].alerts = stats[q].alerts
<1> DEFINE s == Resolved(ev, read)
<1>1. /\ s \in ProcStats /\ ev.pid \in Pids
      /\ s.window_opens = stats[ev.pid].window_opens
      /\ s.total_opens = stats[ev.pid].total_opens
      /\ s.alerts = stats[ev.pid].alerts
  BY ResolvedType DEF Event
<1>2. \/ stats' = [stats EXCEPT ![ev.pid] = [s EXCEPT !.total_execs = @ + 1]]
      \/ stats' = [stats EXCEPT ![ev.pid] = s]
  BY DEF CountExec, CountFs
<1>3. UNCHANGED <<windows, opened, alerted>>
  BY DEF CountExec, CountFs
<1>4. stats \in [Pids -> ProcStats]
  BY DEF TypeOK
<1> HIDE DEF s
<1>5. ASSUME NEW q \in Pids
      PROVE  /\ stats'[q].window_opens = stats[q].window_opens
             /\ stats'[q].total_opens = stats[q].total_opens
             /\ stats'[q].alerts = stats[q].alerts
  <2>1. CASE stats' = [stats EXCEPT ![ev.pid] = [s EXCEPT !.total_execs = @ + 1]]
    <3>1. [s EXCEPT !.total_execs = @ + 1] \in ProcStats
      BY <1>1 DEF ProcStats
    <3> QED BY <1>1, <1>4, <2>1, <3>1 DEF ProcStats
  <2>2. CASE stats' = [stats EXCEPT ![ev.pid] = s]
    BY <1>1, <1>4, <2>2
  <2> QED BY <1>2, <2>1, <2>2
<1> QED BY <1>3, <1>5

LEMMA WindowInit == Init => WindowInv
<1> SUFFICES ASSUME Init PROVE Chronological /\ WindowExact
  BY TypeInit DEF WindowInv
<1> QED BY NumberAssumption DEF Init, Chronological, WindowExact, DefaultStats

LEMMA WindowEvent ==
  ASSUME WindowInv, NEW ev \in Event, NEW read \in PpidReads, HandleEvent(ev, read)
  PROVE  Chronological' /\ WindowExact'
<1>1. TypeOK /\ now' = now /\ now \in Nat
  BY DEF WindowInv, TypeOK, HandleEvent
<1>2. \A p \in Pids : /\ stats[p].window_opens = Len(windows[p])
                     /\ stats[p].total_opens = Len(opened[p])
                     /\ IsWindow(opened[p], windows[p])
                     /\ Ordered(opened[p], now)
                     /\ opened[p] \in Seq(Nat) /\ windows[p] \in Seq(Nat)
  BY WindowExactForm, ChronologicalForm DEF WindowInv, TypeOK
<1>3. SUFFICES \A p \in Pids : /\ stats'[p].window_opens = Len(windows'[p])
                              /\ stats'[p].total_opens = Len(opened'[p])
                              /\ IsWindow(opened'[p], windows'[p])
                              /\ Ordered(opened'[p], now')
  BY DEF WindowExact, IsWindow, Chronological, Ordered
<1>4. CASE CountOpen(ev, read)
  <2>1. PICK w \in Seq(Nat), k \in Nat :
          /\ ev.pid \in Pids
          /\ Slid(windows[ev.pid], w, k, now)
          /\ windows' = [windows EXCEPT ![ev.pid] = w]
          /\ opened' = [opened EXCEPT ![ev.pid] = Append(@, now)]
          /\ stats'[ev.pid].window_opens = Len(w)
          /\ stats'[ev.pid].total_opens = stats[ev.pid].total_opens + 1
          /\ \A q \in Pids \ {ev.pid} : stats'[q] = stats[q]
    BY <1>1, <1>4, OpenEffect
  <2>2. /\ windows'[ev.pid] = w /\ opened'[ev.pid] = Append(opened[ev.pid], now)
        /\ \A q \in Pids \ {ev.pid} : windows'[q] = windows[q] /\ opened'[q] = opened[q]
    BY <1>1, <2>1 DEF TypeOK
  <2>3. /\ IsWindow(opened'[ev.pid], windows'[ev.pid])
        /\ Ordered(opened'[ev.pid], now)
        /\ Len(opened'[ev.pid]) = Len(opened[ev.pid]) + 1
    BY <1>1, <1>2, <2>1, <2>2, IsWindowAppend, OrderedAppend, AppendProperties
  <2> QED BY <1>1, <1>2, <2>1, <2>2, <2>3
<1>5. CASE CountExec(ev, read) \/ CountFs(ev, read)
  BY <1>1, <1>2, <1>5, OtherEffect
<1> QED BY <1>4, <1>5 DEF HandleEvent

LEMMA WindowStep == WindowInv /\ [Unbounded]_vars => WindowInv'
<1> SUFFICES ASSUME WindowInv, [Unbounded]_vars PROVE Chronological' /\ WindowExact'
  BY TypeStep DEF WindowInv
<1>1. ASSUME NEW ev \in Event, NEW read \in PpidReads, HandleEvent(ev, read)
      PROVE  Chronological' /\ WindowExact'
  BY <1>1, WindowEvent
<1>2. CASE UNCHANGED <<now, stats, windows, opened>>
  BY <1>2 DEF WindowInv, Chronological, WindowExact
<1>3. CASE Tick
  <2>1. now \in Nat /\ now' = now + 1 /\ UNCHANGED <<stats, windows, opened>>
    BY <1>3 DEF WindowInv, TypeOK, Tick, core
  <2>2. \A p \in Pids : \A i \in 1 .. Len(opened[p]) : opened[p][i] \in Nat
    BY ElementOfSeq DEF WindowInv, TypeOK
  <2>3. Chronological'
    BY <2>1, <2>2 DEF WindowInv, Chronological
  <2> QED BY <2>1, <2>3 DEF WindowInv, WindowExact
<1>4. \/ \E ev \in Event, read \in PpidReads : HandleEvent(ev, read)
      \/ UNCHANGED <<now, stats, windows, opened>>
      \/ Tick
  BY DEF Unbounded, UnboundedFixed, HandleLost, BeginPoll, EndPoll, SetThreshold, vars, core
<1> QED BY <1>1, <1>2, <1>3, <1>4

(* The window of every pid is exactly the opens of its last second. *)
THEOREM WindowsAreExact == Spec => []WindowExact
<1>1. WindowInv => TypeOK /\ WindowExact
  BY DEF WindowInv
<1> QED BY <1>1, WindowInit, WindowStep, BoundsDropped, PTL DEF Spec

-----------------------------------------------------------------------------
(* Alerts, when nobody changes the threshold.                              *)

BurstInv == WindowInv /\ EveryBurstAlerted

LEMMA BurstStep == BurstInv /\ [UnboundedFixed]_vars => BurstInv'
<1> SUFFICES ASSUME BurstInv, [UnboundedFixed]_vars PROVE EveryBurstAlerted'
  BY WindowStep DEF BurstInv, Unbounded
<1> USE DEF BurstInv, WindowInv
<1>1. /\ TypeOK /\ threshold' = threshold /\ threshold \in Nat
  BY NumberAssumption
     DEF TypeOK, UnboundedFixed, HandleEvent, HandleLost, BeginPoll, EndPoll, Tick, vars
<1>2. ASSUME NEW ev \in Event, NEW read \in PpidReads, CountOpen(ev, read)
      PROVE  EveryBurstAlerted'
  <2>1. PICK w \in Seq(Nat), k \in Nat :
          /\ ev.pid \in Pids
          /\ Slid(windows[ev.pid], w, k, now)
          /\ alerted' = [alerted EXCEPT ![ev.pid] =
                           Raises(Len(w)) \/ (@ /\ Len(w) >= threshold)]
          /\ stats'[ev.pid].window_opens = Len(w)
          /\ \A q \in Pids \ {ev.pid} : stats'[q] = stats[q]
    BY <1>1, <1>2, OpenEffect
  <2>2. /\ Len(w) \in Nat /\ stats[ev.pid].window_opens \in Nat
        /\ Len(w) <= stats[ev.pid].window_opens + 1
    <3>1. stats[ev.pid].window_opens = Len(windows[ev.pid])
      BY <2>1 DEF WindowExact
    <3>2. Len(windows[ev.pid]) \in Nat /\ Len(w) \in Nat
      BY <1>1, <2>1, LenProperties DEF TypeOK
    <3> QED BY <2>1, <3>1, <3>2 DEF Slid
  <2>3. ASSUME threshold > 0, Len(w) >= threshold, ~ Raises(Len(w))
        PROVE  alerted[ev.pid]
    <3>1. stats[ev.pid].window_opens >= threshold
      BY <1>1, <2>2, <2>3 DEF Raises
    <3> QED BY <2>1, <2>3, <3>1 DEF EveryBurstAlerted
  <2>4. threshold > 0 /\ Len(w) >= threshold => alerted'[ev.pid]
    BY <1>1, <2>1, <2>3 DEF TypeOK
  <2>5. \A q \in Pids \ {ev.pid} : alerted'[q] = alerted[q]
    BY <1>1, <2>1 DEF TypeOK
  <2> QED BY <1>1, <2>1, <2>4, <2>5 DEF EveryBurstAlerted
<1>3. ASSUME NEW ev \in Event, NEW read \in PpidReads,
             CountExec(ev, read) \/ CountFs(ev, read)
      PROVE  EveryBurstAlerted'
  BY <1>1, <1>3, OtherEffect DEF EveryBurstAlerted
<1>4. CASE UNCHANGED <<threshold, stats, alerted>>
  BY <1>4 DEF EveryBurstAlerted
<1>5. \/ \E ev \in Event, read \in PpidReads :
           CountOpen(ev, read) \/ CountExec(ev, read) \/ CountFs(ev, read)
      \/ UNCHANGED <<threshold, stats, alerted>>
  BY DEF UnboundedFixed, HandleEvent, HandleLost, BeginPoll, EndPoll, Tick, vars, core
<1> QED BY <1>2, <1>3, <1>4, <1>5

(* With a threshold nobody changes, no pid sits at or above the threshold  *)
(* without having been reported.                                           *)
THEOREM BurstsAreAlerted == SpecFixed => []EveryBurstAlerted
<1>1. Init => BurstInv
  <2>1. Init => EveryBurstAlerted
    BY NumberAssumption DEF Init, EveryBurstAlerted, DefaultStats
  <2> QED BY <2>1, WindowInit DEF BurstInv
<1>2. BurstInv => TypeOK /\ EveryBurstAlerted
  BY DEF BurstInv, WindowInv
<1> QED BY <1>1, <1>2, BurstStep, BoundsDropped, PTL DEF SpecFixed

-----------------------------------------------------------------------------
(* Alerts, however the threshold is changed.                               *)

(* The opens that the window of an open holds, and those the window held   *)
(* just before it.                                                         *)
LEMMA InWindowCounts ==
  ASSUME NEW all \in Seq(Nat), NEW w \in Seq(Nat), NEW t \in Nat,
         IsWindow(Append(all, t), w)
  PROVE  /\ InWindow(Append(all, t), t) = Len(w)
         /\ InWindow(all, t) = Len(w) - 1
<1> DEFINE n == Len(all)
           new == Append(all, t)
           old == n + 1 - Len(w)
<1>1. /\ n \in Nat /\ Len(w) \in Nat /\ Second \in Nat
      /\ DOMAIN all = 1 .. n /\ DOMAIN new = 1 .. n + 1
      /\ Len(new) = n + 1 /\ new[n + 1] = t
      /\ \A i \in 1 .. n : new[i] = all[i] /\ all[i] \in Nat
  BY NumberAssumption
<1>2. /\ old >= 0
      /\ \A i \in 1 .. n + 1 : IF i <= old THEN new[i] < t - Second ELSE new[i] >= t - Second
  <2>1. IsWindow(new, w) /\ Len(new) - Len(w) = old /\ Len(new) = n + 1 /\ new[Len(new)] = t
    BY <1>1
  <2> HIDE DEF new, n, old
  <2> QED BY <2>1 DEF IsWindow
<1>3. old = n + 1 - Len(w) /\ old \in Nat
  BY <1>1, <1>2
<1> HIDE DEF n, new, old
<1>4. ~ (n + 1 <= old)
  <2>1. ~ (t < t - Second)
    BY <1>1
  <2> QED BY <1>1, <1>2, <2>1
<1>5. {i \in DOMAIN new : new[i] >= t - Second} = old + 1 .. n + 1
  <2> SUFFICES ASSUME NEW i \in 1 .. n + 1
               PROVE  new[i] >= t - Second <=> i \in old + 1 .. n + 1
    BY <1>1, <1>3
  <2>1. new[i] \in Nat
    BY <1>1, SMTT(20)
  <2> QED BY <1>1, <1>2, <1>3, <2>1, SMTT(20)
<1>6. {i \in DOMAIN all : all[i] >= t - Second} = old + 1 .. n
  <2> SUFFICES ASSUME NEW i \in 1 .. n
               PROVE  all[i] >= t - Second <=> i \in old + 1 .. n
    BY <1>1, <1>3
  <2>1. all[i] \in Nat /\ new[i] = all[i] /\ i \in 1 .. n + 1
    BY <1>1
  <2> QED BY <1>1, <1>2, <1>3, <2>1, SMTT(20)
<1>7. Cardinality(old + 1 .. n + 1) = Len(w) /\ Cardinality(old + 1 .. n) = Len(w) - 1
  <2>1. /\ Cardinality(old + 1 .. n + 1) = IF old + 1 > n + 1 THEN 0 ELSE (n + 1) - (old + 1) + 1
        /\ Cardinality(old + 1 .. n) = IF old + 1 > n THEN 0 ELSE n - (old + 1) + 1
    <3>1. old + 1 \in Int /\ n + 1 \in Int /\ n \in Int
      BY <1>1, <1>3
    <3> QED BY <3>1, FS_Interval
  <2> QED BY <1>1, <1>3, <1>4, <2>1
<1> QED BY <1>5, <1>6, <1>7 DEF InWindow, new

LEMMA CrossingStep ==
  WindowInv /\ [Unbounded]_vars =>
    \A p \in Pids : opened'[p] # opened[p] =>
      ( stats'[p].alerts = stats[p].alerts + 1
          <=> /\ threshold > 0
              /\ InWindow(opened[p], now) < threshold
              /\ InWindow(opened'[p], now) >= threshold )
<1> SUFFICES ASSUME WindowInv, [Unbounded]_vars, NEW p \in Pids, opened'[p] # opened[p]
             PROVE  stats'[p].alerts = stats[p].alerts + 1
                      <=> /\ threshold > 0
                          /\ InWindow(opened[p], now) < threshold
                          /\ InWindow(opened'[p], now) >= threshold
  OBVIOUS
<1>1. TypeOK /\ threshold \in Nat /\ now \in Nat
  BY NumberAssumption DEF WindowInv, TypeOK
<1>2. PICK ev \in Event, read \in PpidReads : CountOpen(ev, read)
  BY <1>1, OtherEffect
     DEF Unbounded, UnboundedFixed, HandleEvent, HandleLost, BeginPoll, EndPoll, SetThreshold,
         Tick, vars
<1>3. PICK w \in Seq(Nat), k \in Nat :
        /\ ev.pid \in Pids
        /\ Slid(windows[ev.pid], w, k, now)
        /\ opened' = [opened EXCEPT ![ev.pid] = Append(@, now)]
        /\ stats'[ev.pid].alerts = stats[ev.pid].alerts + (IF Raises(Len(w)) THEN 1 ELSE 0)
        /\ stats[ev.pid].alerts \in Nat
  BY <1>1, <1>2, OpenEffect
<1>4. p = ev.pid /\ opened'[p] = Append(opened[p], now)
  BY <1>1, <1>3 DEF TypeOK
<1>5. /\ opened[p] \in Seq(Nat) /\ windows[p] \in Seq(Nat) /\ Len(w) \in Nat
      /\ Ordered(opened[p], now) /\ IsWindow(opened[p], windows[p])
  BY <1>1, WindowExactForm, ChronologicalForm DEF WindowInv, TypeOK
<1>6. IsWindow(Append(opened[p], now), w)
  BY <1>1, <1>3, <1>4, <1>5, IsWindowAppend
<1>7. InWindow(opened'[p], now) = Len(w) /\ InWindow(opened[p], now) = Len(w) - 1
  BY <1>1, <1>4, <1>5, <1>6, InWindowCounts
<1>8. stats'[p].alerts = stats[p].alerts + 1 <=> Raises(Len(w))
  BY <1>3, <1>4
<1> QED BY <1>1, <1>5, <1>7, <1>8 DEF Raises

(* An open raises an alert exactly when it takes the true window of its    *)
(* pid from below the threshold to the threshold, whatever expired between *)
(* two opens and however the threshold was changed.                        *)
THEOREM AlertsAreCrossings == Spec => AlertIffCrossing
<1>1. WindowInv => TypeOK
  BY DEF WindowInv
<1> QED BY <1>1, WindowInit, WindowStep, CrossingStep, BoundsDropped, PTL DEF Spec, AlertIffCrossing

-----------------------------------------------------------------------------
(* The counters.                                                           *)

Fields == {"execs", "opens", "alerts"}

LEMMA SampleFields ==
  /\ \A s \in Sample : \A x \in Fields : s[x] \in Nat
  /\ \A x \in Fields : ZeroSample[x] = 0
  /\ \A a, b \in Sample : \A x \in Fields : AddSamples(a, b)[x] = a[x] + b[x]
<1>1. \A s \in Sample : s["execs"] \in Nat /\ s["opens"] \in Nat /\ s["alerts"] \in Nat
  BY DEF Sample
<1>2. ZeroSample["execs"] = 0 /\ ZeroSample["opens"] = 0 /\ ZeroSample["alerts"] = 0
  BY DEF ZeroSample
<1>3. \A a, b \in Sample : /\ AddSamples(a, b)["execs"] = a["execs"] + b["execs"]
                          /\ AddSamples(a, b)["opens"] = a["opens"] + b["opens"]
                          /\ AddSamples(a, b)["alerts"] = a["alerts"] + b["alerts"]
  BY DEF AddSamples
<1> QED BY <1>1, <1>2, <1>3 DEF Fields

(* The sum of a field over the samples of a history. *)
HistorySum(h, x) == SumFunction([i \in DOMAIN h |-> h[i][x]])

LEMMA HistorySumType ==
  ASSUME NEW h \in Seq(Sample), NEW x \in Fields
  PROVE  HistorySum(h, x) \in Nat
<1> DEFINE f == [i \in DOMAIN h |-> h[i][x]]
<1>1. IsFiniteSet(DOMAIN h)
  BY FS_Interval, LenProperties
<1>2. f \in [DOMAIN h -> Nat]
  BY SampleFields, ElementOfSeq, LenProperties
<1> HIDE DEF f
<1>3. SumFunction(f) \in Nat
  BY <1>1, <1>2, SumType
<1> QED BY <1>3 DEF HistorySum, f

LEMMA HistorySumAppend ==
  ASSUME NEW h \in Seq(Sample), NEW s \in Sample, NEW x \in Fields
  PROVE  HistorySum(Append(h, s), x) = HistorySum(h, x) + s[x]
<1> DEFINE n == Len(h)
           a == Append(h, s)
           f == [i \in 1 .. n |-> h[i][x]]
           g == [i \in 1 .. n + 1 |-> a[i][x]]
<1>1. /\ n \in Nat /\ DOMAIN h = 1 .. n /\ DOMAIN a = 1 .. n + 1
      /\ \A i \in 1 .. n : a[i] = h[i] /\ h[i] \in Sample
      /\ a[n + 1] = s
  BY AppendProperties, LenProperties, ElementOfSeq
<1> HIDE DEF n, a
<1>2. \A i \in 1 .. n + 1 : a[i] \in Sample
  BY <1>1
<1>3. /\ f \in [1 .. n -> Nat] /\ g \in [1 .. n + 1 -> Nat]
      /\ \A i \in 1 .. n : g[i] = f[i]
      /\ g[n + 1] = s[x]
  BY <1>1, <1>2, SampleFields
<1>4. HistorySum(h, x) = SumFunction(f) /\ HistorySum(a, x) = SumFunction(g)
  BY <1>1 DEF HistorySum
<1> HIDE DEF f, g
<1>5. SumFunction(g) = SumFunction(f) + g[n + 1]
  BY <1>1, <1>3, SumLast
<1> QED BY <1>3, <1>4, <1>5 DEF a

LEMMA HistorySumTail ==
  ASSUME NEW h \in Seq(Sample), h # <<>>, NEW x \in Fields
  PROVE  HistorySum(h, x) = Head(h)[x] + HistorySum(Tail(h), x)
<1> DEFINE n == Len(h) - 1
           t == Tail(h)
           f == [i \in 1 .. n + 1 |-> h[i][x]]
           g == [i \in 1 .. n |-> t[i][x]]
<1>1. /\ n \in Nat /\ Len(h) = n + 1 /\ DOMAIN h = 1 .. n + 1 /\ DOMAIN t = 1 .. n
      /\ \A i \in 1 .. n : t[i] = h[i + 1]
      /\ \A i \in 1 .. n + 1 : h[i] \in Sample
      /\ Head(h) = h[1]
  <2>1. Len(h) \in Nat \ {0} /\ DOMAIN h = 1 .. Len(h) /\ \A i \in 1 .. Len(h) : h[i] \in Sample
    BY EmptySeq, LenProperties, ElementOfSeq
  <2>2. /\ t \in Seq(Sample) /\ Len(t) = Len(h) - 1 /\ Head(h) = h[1]
        /\ \A i \in 1 .. Len(t) : t[i] = h[i + 1]
    BY HeadTailProperties
  <2>3. DOMAIN t = 1 .. Len(t)
    BY <2>2, LenProperties
  <2> HIDE DEF t
  <2> QED BY <2>1, <2>2, <2>3
<1> HIDE DEF n, t
<1>2. /\ f \in [1 .. n + 1 -> Nat] /\ g \in [1 .. n -> Nat]
      /\ \A i \in 1 .. n : g[i] = f[i + 1]
      /\ f[1] = Head(h)[x]
  <2>1. \A i \in 1 .. n : i + 1 \in 1 .. n + 1
    BY <1>1
  <2>2. 1 \in 1 .. n + 1
    BY <1>1
  <2> QED BY <1>1, <2>1, <2>2, SampleFields
<1>3. HistorySum(h, x) = SumFunction(f) /\ HistorySum(t, x) = SumFunction(g)
  BY <1>1 DEF HistorySum
<1> HIDE DEF f, g
<1>4. SumFunction(f) = f[1] + SumFunction(g)
  BY <1>1, <1>2, SumFirst
<1> QED BY <1>2, <1>3, <1>4 DEF t

(* Closing a rate sample moves counts, it neither adds nor loses any. *)
LEMMA PushKeepsSums ==
  ASSUME TypeOK, PushSample, NEW x \in Fields
  PROVE  Sampled(x)' = Sampled(x)
<1> DEFINE h == Append(rate_history, tick)
<1>1. /\ rate_history \in Seq(Sample) /\ tick \in Sample /\ rotated \in Sample
      /\ h \in Seq(Sample) /\ h # <<>>
  <2>1. rate_history \in Seq(Sample) /\ tick \in Sample /\ rotated \in Sample
    BY DEF TypeOK
  <2>2. h \in Seq(Sample) /\ h # <<>>
    BY <2>1, AppendProperties
  <2> QED BY <2>1, <2>2
<1>2. HistorySum(h, x) = HistorySum(rate_history, x) + tick[x]
  BY <1>1, HistorySumAppend
<1>3. /\ rate_history' = IF Len(h) > HistoryCap THEN Tail(h) ELSE h
      /\ rotated' = IF Len(h) > HistoryCap THEN AddSamples(rotated, Head(h)) ELSE rotated
      /\ tick' = ZeroSample
  BY DEF PushSample
<1> HIDE DEF h
<1>4. HistorySum(h, x) = Head(h)[x] + HistorySum(Tail(h), x)
  BY <1>1, HistorySumTail
<1>5. /\ Sampled(x) = rotated[x] + tick[x] + HistorySum(rate_history, x)
      /\ Sampled(x)' = rotated'[x] + tick'[x] + HistorySum(rate_history', x)
  BY DEF Sampled, HistorySum
<1>6. Head(h) \in Sample /\ Tail(h) \in Seq(Sample)
  BY <1>1, HeadTailProperties
<1>7. /\ rotated[x] \in Nat /\ tick[x] \in Nat /\ Head(h)[x] \in Nat
      /\ HistorySum(rate_history, x) \in Nat /\ HistorySum(Tail(h), x) \in Nat
      /\ HistorySum(h, x) \in Nat
  BY <1>1, <1>6, SampleFields, HistorySumType
<1>8. CASE Len(h) > HistoryCap
  <2>1. rotated'[x] = rotated[x] + Head(h)[x] /\ tick'[x] = 0 /\ rate_history' = Tail(h)
    BY <1>1, <1>3, <1>6, <1>8, SampleFields
  <2>2. HistorySum(rate_history', x) = HistorySum(Tail(h), x)
    BY <2>1
  <2>3. HistorySum(rate_history, x) + tick[x] = Head(h)[x] + HistorySum(Tail(h), x)
    BY <1>2, <1>4
  <2>4. Sampled(x)' = rotated[x] + Head(h)[x] + HistorySum(Tail(h), x)
    BY <1>5, <1>7, <2>1, <2>2
  <2>5. Sampled(x) = rotated[x] + (HistorySum(rate_history, x) + tick[x])
    BY <1>5, <1>7
  <2> QED BY <1>7, <2>3, <2>4, <2>5
<1>9. CASE ~ (Len(h) > HistoryCap)
  <2>1. rotated' = rotated /\ tick'[x] = 0 /\ rate_history' = h
    BY <1>3, <1>9, SampleFields
  <2> QED BY <1>2, <1>5, <1>7, <2>1
<1> QED BY <1>8, <1>9

(* What a consumer has been told, or is about to be. *)
Told(t, p) == delivered[t][p] + CountOutputs(t, p)

LEMMA CountOutputsIsCount ==
  ASSUME NEW t, NEW p
  PROVE  CountOutputs(t, p) = Count(outputs, {Output(t, p)})
<1>1. {i \in DOMAIN outputs : outputs[i] = Output(t, p)}
        = {i \in DOMAIN outputs : outputs[i] \in {Output(t, p)}}
  OBVIOUS
<1> QED BY <1>1 DEF CountOutputs, Count

LEMMA OutputsDiffer ==
  ASSUME NEW t, NEW p, NEW u, NEW q
  PROVE  Output(t, p) \in {Output(u, q)} <=> t = u /\ p = q
BY DEF Output

LEMMA EmitCounts ==
  ASSUME auto_kill \in BOOLEAN, NEW ev \in Event, NEW raised \in BOOLEAN,
         NEW t \in OutputTypes, NEW p \in Pids
  PROVE  Count(Emit(ev, raised), {Output(t, p)}) =
           IF p = ev.pid /\ ( \/ t = "Event"
                              \/ t = "Alert" /\ raised
                              \/ t = "Action" /\ raised /\ auto_kill )
           THEN 1 ELSE 0
<1> DEFINE Out == [type : OutputTypes, pid : Pids]
           al == IF raised THEN <<Output("Alert", ev.pid)>> ELSE <<>>
           ac == IF raised /\ auto_kill THEN <<Output("Action", ev.pid)>> ELSE <<>>
           e == <<Output("Event", ev.pid)>>
           kind == {Output(t, p)}
           N(s) == Count(s, kind)
<1>1. \A u \in OutputTypes : Output(u, ev.pid) \in Out
  BY DEF Output, Event
<1>2. al \in Seq(Out) /\ ac \in Seq(Out) /\ e \in Seq(Out)
  <2>1. /\ Output("Alert", ev.pid) \in Out /\ Output("Action", ev.pid) \in Out
        /\ Output("Event", ev.pid) \in Out
    BY <1>1 DEF OutputTypes
  <2> HIDE DEF Out
  <2> QED BY <2>1
<1>3. Emit(ev, raised) = (al \o ac) \o e
  BY DEF Emit
<1>4. \A u : N(<<Output(u, ev.pid)>>) = IF u = t /\ ev.pid = p THEN 1 ELSE 0
  BY CountSingle, OutputsDiffer
<1>5. /\ N(al) = IF raised /\ t = "Alert" /\ p = ev.pid THEN 1 ELSE 0
      /\ N(ac) = IF raised /\ auto_kill /\ t = "Action" /\ p = ev.pid THEN 1 ELSE 0
      /\ N(e) = IF t = "Event" /\ p = ev.pid THEN 1 ELSE 0
  <2>1. N(<<>>) = 0
    BY CountEmpty
  <2> HIDE DEF N
  <2>2. N(al) = IF raised /\ t = "Alert" /\ p = ev.pid THEN 1 ELSE 0
    BY <2>1, <1>4
  <2>3. N(ac) = IF raised /\ auto_kill /\ t = "Action" /\ p = ev.pid THEN 1 ELSE 0
    BY <2>1, <1>4
  <2>4. N(e) = IF t = "Event" /\ p = ev.pid THEN 1 ELSE 0
    BY <1>4
  <2> QED BY <2>2, <2>3, <2>4
<1> HIDE DEF Out, al, ac, e, kind
<1>6. al \o ac \in Seq(Out)
  BY <1>2, ConcatProperties
<1>7. /\ N(al \o ac) = N(al) + N(ac)
      /\ N((al \o ac) \o e) = N(al \o ac) + N(e)
  BY <1>2, <1>6, CountConcat
<1>8. N(Emit(ev, raised)) = N(al) + N(ac) + N(e)
  BY <1>3, <1>7
<1> HIDE DEF N
<1>9. t = "Alert" \/ t = "Action" \/ t = "Event"
  BY DEF OutputTypes
<1>10. N(Emit(ev, raised)) =
           IF p = ev.pid /\ ( \/ t = "Event"
                              \/ t = "Alert" /\ raised
                              \/ t = "Action" /\ raised /\ auto_kill )
           THEN 1 ELSE 0
  BY <1>5, <1>8, <1>9
<1> QED BY <1>10 DEF N, kind

(* An alert comes first, then the response to it, then the open. *)
InOrder(out, k) ==
  \A i \in DOMAIN out : out[i].type = "Alert" =>
    /\ i + k + 1 \in DOMAIN out
    /\ out[i + k + 1] = Output("Event", out[i].pid)
    /\ k = 1 => out[i + 1] = Output("Action", out[i].pid)

Responses == IF auto_kill THEN 1 ELSE 0

LEMMA EmitInOrder ==
  ASSUME auto_kill \in BOOLEAN, NEW ev \in Event, NEW raised \in BOOLEAN
  PROVE  InOrder(Emit(ev, raised), Responses)
<1> DEFINE al == Output("Alert", ev.pid)
           ac == Output("Action", ev.pid)
           e == Output("Event", ev.pid)
<1>1. /\ al.type = "Alert" /\ ac.type = "Action" /\ e.type = "Event"
      /\ al.pid = ev.pid
  BY DEF Output
<1> HIDE DEF al, ac, e
<1>2. Emit(ev, raised) = (IF raised THEN <<al>> ELSE <<>>)
        \o (IF raised /\ auto_kill THEN <<ac>> ELSE <<>>) \o <<e>>
  BY DEF Emit, al, ac, e
<1>3. CASE ~ raised
  <2>1. Emit(ev, raised) = <<e>>
    BY <1>2, <1>3
  <2> QED BY <1>1, <2>1 DEF InOrder
<1>4. CASE raised /\ auto_kill
  <2>1. Emit(ev, raised) = <<al, ac, e>> /\ Responses = 1
    <3>1. Emit(ev, raised) = <<al>> \o <<ac>> \o <<e>>
      BY <1>2, <1>4
    <3>2. <<al>> \o <<ac>> = <<al, ac>>
      BY SmallConcats
    <3>3. <<al, ac>> \o <<e>> = <<al, ac, e>>
      BY SmallConcats
    <3> QED BY <1>4, <3>1, <3>2, <3>3 DEF Responses
  <2> QED BY <1>1, <2>1 DEF InOrder, ac, e
<1>5. CASE raised /\ ~ auto_kill
  <2>1. Emit(ev, raised) = <<al, e>> /\ Responses = 0
    <3>1. Emit(ev, raised) = <<al>> \o <<>> \o <<e>>
      BY <1>2, <1>5
    <3>2. <<al>> \o <<>> = <<al>>
      OBVIOUS
    <3>3. <<al>> \o <<e>> = <<al, e>>
      BY SmallConcats
    <3> QED BY <1>5, <3>1, <3>2, <3>3 DEF Responses
  <2> QED BY <1>1, <2>1 DEF InOrder, e
<1> QED BY <1>3, <1>4, <1>5

LEMMA InOrderConcat ==
  ASSUME NEW S, NEW s \in Seq(S), NEW t \in Seq(S), NEW k \in Nat,
         InOrder(s, k), InOrder(t, k)
  PROVE  InOrder(s \o t, k)
<1> DEFINE u == s \o t
           n == Len(s)
           m == Len(t)
<1>1. /\ n \in Nat /\ m \in Nat /\ DOMAIN s = 1 .. n /\ DOMAIN t = 1 .. m
      /\ DOMAIN u = 1 .. n + m
      /\ \A i \in 1 .. n + m : u[i] = IF i <= n THEN s[i] ELSE t[i - n]
  BY ConcatProperties, LenProperties
<1> HIDE DEF u, n, m
<1>2. ASSUME NEW i \in 1 .. n + m, u[i].type = "Alert"
      PROVE  /\ i + k + 1 \in 1 .. n + m
             /\ u[i + k + 1] = Output("Event", u[i].pid)
             /\ k = 1 => u[i + 1] = Output("Action", u[i].pid)
  <2>1. CASE i <= n
    <3>1. i \in 1 .. n /\ u[i] = s[i]
      BY <1>1, <2>1
    <3>2. /\ i + k + 1 \in 1 .. n
          /\ s[i + k + 1] = Output("Event", s[i].pid)
          /\ k = 1 => s[i + 1] = Output("Action", s[i].pid)
      BY <1>1, <1>2, <3>1 DEF InOrder
    <3>3. i + k + 1 \in 1 .. n + m /\ i + 1 \in 1 .. n
      BY <1>1, <3>1, <3>2
    <3>4. u[i + k + 1] = s[i + k + 1] /\ u[i + 1] = s[i + 1]
      BY <1>1, <3>2, <3>3
    <3> QED BY <3>1, <3>2, <3>3, <3>4
  <2>2. CASE ~ (i <= n)
    <3> DEFINE j == i - n
    <3>1. j \in 1 .. m /\ u[i] = t[j] /\ j = i - n
      BY <1>1, <2>2
    <3> HIDE DEF j
    <3>2. /\ j + k + 1 \in 1 .. m
          /\ t[j + k + 1] = Output("Event", t[j].pid)
          /\ k = 1 => t[j + 1] = Output("Action", t[j].pid)
      BY <1>1, <1>2, <3>1, ZenonT(40) DEF InOrder
    <3>3. /\ i + k + 1 \in 1 .. n + m /\ ~ (i + k + 1 <= n) /\ (i + k + 1) - n = j + k + 1
          /\ i + 1 \in 1 .. n + m /\ ~ (i + 1 <= n) /\ (i + 1) - n = j + 1
      BY <1>1, <3>1, <3>2, SMTT(20)
    <3>4. u[i + k + 1] = t[j + k + 1] /\ u[i + 1] = t[j + 1]
      BY <1>1, <3>3
    <3> QED BY <3>1, <3>2, <3>3, <3>4
  <2> QED BY <2>1, <2>2
<1>3. InOrder(u, k)
  BY <1>1, <1>2 DEF InOrder
<1> QED BY <1>3 DEF u

-----------------------------------------------------------------------------

(* The parts of CountersAgree. *)
SamplesAgree ==
  /\ Sampled("execs") = SumStats("total_execs")
  /\ Sampled("alerts") = SumStats("alerts")
  /\ Sampled("execs") + Sampled("opens") = total.events
ExtsAgree ==
  \A x \in Exts : ext_counts[x] = SumFunction([p \in Pids |-> stats[p].extensions[x]])
EventsTold == total.events = SumFunction([p \in Pids |-> Told("Event", p)])
AlertsTold ==
  \A p \in Pids : /\ Told("Alert", p) = stats[p].alerts
                  /\ Told("Action", p) = Responses * stats[p].alerts

LEMMA CountersForm ==
  ASSUME auto_kill \in BOOLEAN
  PROVE  CountersAgree <=> /\ SamplesAgree /\ ExtsAgree /\ EventsTold /\ AlertsTold
                           /\ InOrder(outputs, Responses)
<1>1. Responses = 1 <=> auto_kill
  BY DEF Responses
<1> QED BY <1>1 DEF CountersAgree, SamplesAgree, ExtsAgree, EventsTold, AlertsTold, InOrder,
                    Told, Responses

(* What one event counts: exec is 1 for an execution, alert is 1 when an   *)
(* alert is raised, and ext is 1 at the extension of an opened file.       *)
Counts(ev, exec, alert, ext) ==
  /\ ev.pid \in Pids
  /\ tick'["execs"] = tick["execs"] + exec
  /\ tick'["opens"] = tick["opens"] + 1 - exec
  /\ tick'["alerts"] = tick["alerts"] + alert
  /\ stats'[ev.pid].total_execs = stats[ev.pid].total_execs + exec
  /\ stats'[ev.pid].alerts = stats[ev.pid].alerts + alert
  /\ \A x \in Exts : /\ stats'[ev.pid].extensions[x] = stats[ev.pid].extensions[x] + ext[x]
                     /\ ext_counts'[x] = ext_counts[x] + ext[x]
  /\ \A q \in Pids \ {ev.pid} : stats'[q] = stats[q]
  /\ outputs' = outputs \o Emit(ev, alert = 1)

LEMMA OpenCounts ==
  ASSUME TypeOK, NEW ev \in Event, NEW read \in PpidReads, CountOpen(ev, read)
  PROVE  \E alert \in {0, 1}, ext \in [Exts -> {0, 1}] : Counts(ev, 0, alert, ext)
<1> DEFINE p == ev.pid
           n == Len(Append(Evict(windows[p], now - Second), now))
           alert == IF Raises(n) THEN 1 ELSE 0
           ext == [x \in Exts |-> IF x = ExtOf[ev.file] THEN 1 ELSE 0]
           s == Resolved(ev, read)
           opens == s.total_opens + 1
           more == s.alerts + alert
           exts == [x \in Exts |-> s.extensions[x] + ext[x]]
<1>1. /\ p \in Pids /\ s \in ProcStats /\ stats \in [Pids -> ProcStats]
      /\ s.total_execs = stats[p].total_execs /\ s.alerts = stats[p].alerts
      /\ s.extensions = stats[p].extensions
      /\ tick \in Sample /\ ext_counts \in [Exts -> Nat]
  BY ResolvedType DEF Event, TypeOK
<1>2. Raises(n) \in BOOLEAN /\ (alert = 1 <=> Raises(n)) /\ alert \in {0, 1}
      /\ ext \in [Exts -> {0, 1}]
  BY DEF Raises
<1>3. stats' = [stats EXCEPT ![p] = [s EXCEPT !.total_opens = opens, !.window_opens = n,
                                              !.alerts = more, !.extensions = exts]]
  BY DEF CountOpen
<1>4. /\ tick' = [tick EXCEPT !.opens = @ + 1, !.alerts = @ + alert]
      /\ ext_counts' = [x \in Exts |-> ext_counts[x] + ext[x]]
      /\ outputs' = outputs \o Emit(ev, Raises(n))
  BY DEF CountOpen
<1>5. /\ tick'["execs"] = tick["execs"] + 0
      /\ tick'["opens"] = tick["opens"] + 1 - 0
      /\ tick'["alerts"] = tick["alerts"] + alert
  <2> HIDE DEF alert
  <2> QED BY <1>1, <1>4, SampleFields DEF Sample, Fields
<1>6. /\ stats'[p].total_execs = stats[p].total_execs + 0
      /\ stats'[p].alerts = more /\ stats'[p].extensions = exts
      /\ \A q \in Pids \ {p} : stats'[q] = stats[q]
  <2> HIDE DEF s, n, opens, more, exts
  <2> QED BY <1>1, <1>3 DEF ProcStats
<1>7. /\ more = stats[p].alerts + alert
      /\ \A x \in Exts : /\ exts[x] = stats[p].extensions[x] + ext[x]
                         /\ ext_counts'[x] = ext_counts[x] + ext[x]
  <2> HIDE DEF s, alert, ext
  <2> QED BY <1>1, <1>4
<1>8. outputs' = outputs \o Emit(ev, alert = 1)
  <2>1. (alert = 1) = Raises(n)
    <3> HIDE DEF alert, n
    <3> QED BY <1>2
  <2> HIDE DEF alert, n
  <2> QED BY <1>4, <2>1
<1> HIDE DEF alert, ext, more, exts, s, n
<1>9. Counts(ev, 0, alert, ext)
  BY <1>1, <1>5, <1>6, <1>7, <1>8 DEF Counts
<1> QED BY <1>2, <1>9

LEMMA OtherCounts ==
  ASSUME TypeOK, NEW ev \in Event, NEW read \in PpidReads,
         CountExec(ev, read) \/ CountFs(ev, read)
  PROVE  \E exec \in {0, 1}, ext \in [Exts -> {0, 1}] : Counts(ev, exec, 0, ext)
<1> DEFINE p == ev.pid
           s == Resolved(ev, read)
           ext == [x \in Exts |-> 0]
<1>1. /\ p \in Pids /\ s \in ProcStats /\ stats \in [Pids -> ProcStats]
      /\ s.total_execs = stats[p].total_execs /\ s.alerts = stats[p].alerts
      /\ s.extensions = stats[p].extensions
      /\ tick \in Sample /\ ext_counts \in [Exts -> Nat]
  BY ResolvedType DEF Event, TypeOK
<1>2. ext_counts' = ext_counts /\ outputs' = outputs \o Emit(ev, FALSE)
  BY DEF CountExec, CountFs
<1>3. \/ /\ stats' = [stats EXCEPT ![p] = [s EXCEPT !.total_execs = @ + 1]]
         /\ tick' = [tick EXCEPT !.execs = @ + 1]
      \/ /\ stats' = [stats EXCEPT ![p] = s]
         /\ tick' = [tick EXCEPT !.opens = @ + 1]
  BY DEF CountExec, CountFs
<1> HIDE DEF s
<1>4. ASSUME NEW exec \in {0, 1},
             /\ tick'["execs"] = tick["execs"] + exec
             /\ tick'["opens"] = tick["opens"] + 1 - exec
             /\ tick'["alerts"] = tick["alerts"]
             /\ stats'[p].total_execs = stats[p].total_execs + exec
             /\ stats'[p].alerts = stats[p].alerts
             /\ stats'[p].extensions = stats[p].extensions
             /\ \A q \in Pids \ {p} : stats'[q] = stats[q]
      PROVE  Counts(ev, exec, 0, ext)
  <2>1. /\ tick["alerts"] \in Nat /\ stats[p].alerts \in Nat
        /\ \A x \in Exts : stats[p].extensions[x] \in Nat /\ ext_counts[x] \in Nat /\ ext[x] = 0
    BY <1>1 DEF Sample, ProcStats
  <2>2. outputs' = outputs \o Emit(ev, 0 = 1)
    <3>1. (0 = 1) = FALSE
      OBVIOUS
    <3> QED BY <1>2, <3>1
  <2>3. tick'["alerts"] = tick["alerts"] + 0 /\ stats'[p].alerts = stats[p].alerts + 0
    BY <1>4, <2>1
  <2>4. \A x \in Exts : /\ stats'[p].extensions[x] = stats[p].extensions[x] + ext[x]
                        /\ ext_counts'[x] = ext_counts[x] + ext[x]
    BY <1>2, <1>4, <2>1
  <2> HIDE DEF ext
  <2> QED BY <1>1, <1>4, <2>2, <2>3, <2>4 DEF Counts
<1>5. CASE /\ stats' = [stats EXCEPT ![p] = [s EXCEPT !.total_execs = @ + 1]]
           /\ tick' = [tick EXCEPT !.execs = @ + 1]
  <2>1. /\ tick'["execs"] = tick["execs"] + 1
        /\ tick'["opens"] = tick["opens"] + 1 - 1
        /\ tick'["alerts"] = tick["alerts"]
    BY <1>1, <1>5 DEF Sample
  <2>2. /\ stats'[p].total_execs = stats[p].total_execs + 1
        /\ stats'[p].alerts = stats[p].alerts
        /\ stats'[p].extensions = stats[p].extensions
        /\ \A q \in Pids \ {p} : stats'[q] = stats[q]
    BY <1>1, <1>5 DEF ProcStats
  <2>3. Counts(ev, 1, 0, ext)
    <3> HIDE DEF p, ext
    <3> QED BY <1>4, <2>1, <2>2
  <2> QED BY <2>3
<1>6. CASE /\ stats' = [stats EXCEPT ![p] = s]
           /\ tick' = [tick EXCEPT !.opens = @ + 1]
  <2>1. /\ tick'["execs"] = tick["execs"] + 0
        /\ tick'["opens"] = tick["opens"] + 1 - 0
        /\ tick'["alerts"] = tick["alerts"]
    BY <1>1, <1>6 DEF Sample
  <2>2. /\ stats'[p].total_execs = stats[p].total_execs + 0
        /\ stats'[p].alerts = stats[p].alerts
        /\ stats'[p].extensions = stats[p].extensions
        /\ \A q \in Pids \ {p} : stats'[q] = stats[q]
    BY <1>1, <1>6 DEF ProcStats
  <2>3. Counts(ev, 0, 0, ext)
    <3> HIDE DEF p, ext
    <3> QED BY <1>4, <2>1, <2>2
  <2> QED BY <2>3
<1> QED BY <1>3, <1>5, <1>6

-----------------------------------------------------------------------------

CountersInv == TypeOK /\ CountersAgree

(* A sum over the pids, when the value of one of them changes. *)
LEMMA SumOverPids ==
  ASSUME NEW f \in [Pids -> Nat], NEW g \in [Pids -> Nat], NEW p \in Pids, NEW d \in Nat,
         g[p] = f[p] + d, \A q \in Pids \ {p} : g[q] = f[q]
  PROVE  SumFunction(g) = SumFunction(f) + d
<1>1. SumFunction(g) + f[p] = SumFunction(f) + g[p]
  BY SumChange, PidAssumption
<1>2. SumFunction(f) \in Nat /\ SumFunction(g) \in Nat /\ f[p] \in Nat /\ g[p] \in Nat
  BY SumType, PidAssumption
<1> QED BY <1>1, <1>2

(* One event, of any kind. *)
LEMMA EventKeepsCounters ==
  ASSUME CountersInv, TypeOK', NEW ev \in Event, NEW exec \in {0, 1}, NEW alert \in {0, 1},
         NEW ext \in [Exts -> {0, 1}], Counts(ev, exec, alert, ext),
         total' = [total EXCEPT !.events = @ + 1],
         UNCHANGED <<auto_kill, rate_history, delivered, rotated>>
  PROVE  CountersAgree'
<1> DEFINE p == ev.pid
<1>1. /\ TypeOK /\ p \in Pids /\ auto_kill \in BOOLEAN /\ auto_kill' = auto_kill
      /\ Responses' = Responses /\ Responses \in Nat
      /\ exec \in Nat /\ alert \in Nat /\ \A x \in Exts : ext[x] \in Nat
      /\ stats \in [Pids -> ProcStats] /\ stats' \in [Pids -> ProcStats]
  <2>1. /\ TypeOK /\ p \in Pids /\ auto_kill \in BOOLEAN /\ auto_kill' = auto_kill
        /\ stats \in [Pids -> ProcStats] /\ stats' \in [Pids -> ProcStats]
    BY DEF CountersInv, TypeOK, Counts
  <2>2. Responses' = Responses /\ Responses \in Nat
    BY <2>1 DEF Responses
  <2>3. exec \in Nat /\ alert \in Nat /\ \A x \in Exts : ext[x] \in Nat
    OBVIOUS
  <2> QED BY <2>1, <2>2, <2>3
<1>2. SamplesAgree /\ ExtsAgree /\ EventsTold /\ AlertsTold /\ InOrder(outputs, Responses)
  BY <1>1, CountersForm DEF CountersInv
<1>3. /\ total.events \in Nat /\ total'.events = total.events + 1
  BY DEF CountersInv, TypeOK
<1>4. SamplesAgree'
  <2>1. \A x \in Fields : /\ Sampled(x) = rotated[x] + tick[x] + HistorySum(rate_history, x)
                          /\ Sampled(x)' = rotated[x] + tick'[x] + HistorySum(rate_history, x)
                          /\ rotated[x] \in Nat /\ tick[x] \in Nat
                          /\ HistorySum(rate_history, x) \in Nat
    BY <1>1, SampleFields, HistorySumType DEF TypeOK, Sampled, HistorySum
  <2>2. /\ Sampled("execs")' = Sampled("execs") + exec
        /\ Sampled("opens")' = Sampled("opens") + 1 - exec
        /\ Sampled("alerts")' = Sampled("alerts") + alert
    <3>1. "execs" \in Fields /\ "opens" \in Fields /\ "alerts" \in Fields
      BY DEF Fields
    <3>2. /\ tick'["execs"] = tick["execs"] + exec
          /\ tick'["opens"] = tick["opens"] + 1 - exec
          /\ tick'["alerts"] = tick["alerts"] + alert
      BY DEF Counts
    <3>3. Sampled("execs")' = Sampled("execs") + exec
      BY <1>1, <2>1, <3>1, <3>2
    <3>4. Sampled("opens")' = Sampled("opens") + 1 - exec
      BY <1>1, <2>1, <3>1, <3>2
    <3>5. Sampled("alerts")' = Sampled("alerts") + alert
      BY <1>1, <2>1, <3>1, <3>2
    <3> QED BY <3>3, <3>4, <3>5
  <2>3. SumStats("total_execs")' = SumStats("total_execs") + exec
    <3> DEFINE f == [q \in Pids |-> stats[q]["total_execs"]]
               g == [q \in Pids |-> stats'[q]["total_execs"]]
    <3>1. /\ f \in [Pids -> Nat] /\ g \in [Pids -> Nat] /\ g[p] = f[p] + exec
          /\ \A q \in Pids \ {p} : g[q] = f[q]
      BY <1>1 DEF ProcStats, Counts
    <3> HIDE DEF f, g, p
    <3>2. SumFunction(g) = SumFunction(f) + exec
      BY <1>1, <3>1, SumOverPids
    <3> QED BY <3>2 DEF SumStats, f, g
  <2>4. SumStats("alerts")' = SumStats("alerts") + alert
    <3> DEFINE f == [q \in Pids |-> stats[q]["alerts"]]
               g == [q \in Pids |-> stats'[q]["alerts"]]
    <3>1. /\ f \in [Pids -> Nat] /\ g \in [Pids -> Nat] /\ g[p] = f[p] + alert
          /\ \A q \in Pids \ {p} : g[q] = f[q]
      BY <1>1 DEF ProcStats, Counts
    <3> HIDE DEF f, g, p
    <3>2. SumFunction(g) = SumFunction(f) + alert
      BY <1>1, <3>1, SumOverPids
    <3> QED BY <3>2 DEF SumStats, f, g
  <2>5. Sampled("execs") \in Nat /\ Sampled("opens") \in Nat
    BY <2>1 DEF Fields
  <2> QED BY <1>1, <1>2, <1>3, <2>2, <2>3, <2>4, <2>5 DEF SamplesAgree
<1>5. ExtsAgree'
  <2> SUFFICES ASSUME NEW x \in Exts
               PROVE  ext_counts'[x] = SumFunction([q \in Pids |-> stats'[q].extensions[x]])
    BY DEF ExtsAgree
  <2> DEFINE f == [q \in Pids |-> stats[q].extensions[x]]
             g == [q \in Pids |-> stats'[q].extensions[x]]
  <2>1. /\ f \in [Pids -> Nat] /\ g \in [Pids -> Nat] /\ g[p] = f[p] + ext[x]
        /\ \A q \in Pids \ {p} : g[q] = f[q]
    BY <1>1 DEF ProcStats, Counts
  <2>2. ext_counts[x] = SumFunction(f) /\ ext_counts'[x] = ext_counts[x] + ext[x]
    BY <1>2 DEF ExtsAgree, Counts
  <2> HIDE DEF f, g, p
  <2>3. SumFunction(g) = SumFunction(f) + ext[x]
    BY <1>1, <2>1, SumOverPids
  <2>4. ext_counts'[x] = SumFunction(g)
    BY <2>2, <2>3
  <2> QED BY <2>4 DEF g
<1> DEFINE
      more(t, q) ==
        IF /\ q = p
           /\ \/ t = "Event"
              \/ t = "Alert" /\ alert = 1
              \/ t = "Action" /\ alert = 1 /\ auto_kill
        THEN 1 ELSE 0
<1>6. ASSUME NEW t \in OutputTypes, NEW q \in Pids
      PROVE  Told(t, q) \in Nat /\ Told(t, q)' = Told(t, q) + more(t, q)
  <2> DEFINE Out == [type : OutputTypes, pid : Pids]
             e == Emit(ev, alert = 1)
             kind == {Output(t, q)}
  <2>1. outputs \in Seq(Out) /\ e \in Seq(Out) /\ outputs' = outputs \o e
    BY <1>1, EmitType DEF TypeOK, Counts
  <2>2. Count(e, kind) = more(t, q) /\ more(t, q) \in Nat
    <3>1. Count(e, kind) = more(t, q)
      <4>1. (alert = 1) \in BOOLEAN /\ ev \in Event
        OBVIOUS
      <4>2. Count(Emit(ev, alert = 1), {Output(t, q)}) =
              IF q = ev.pid /\ ( \/ t = "Event"
                                 \/ t = "Alert" /\ alert = 1
                                 \/ t = "Action" /\ alert = 1 /\ auto_kill )
              THEN 1 ELSE 0
        BY <1>1, <4>1, EmitCounts, ZenonT(40)
      <4> QED BY <4>2
    <3>2. more(t, q) \in Nat
      OBVIOUS
    <3> QED BY <3>1, <3>2
  <2>3. CountOutputs(t, q) = Count(outputs, kind) /\ CountOutputs(t, q)' = Count(outputs', kind)
    BY CountOutputsIsCount DEF CountOutputs, Count
  <2> HIDE DEF Out, e, kind, more
  <2>4. Count(outputs', kind) = Count(outputs, kind) + Count(e, kind) /\ Count(outputs, kind) \in Nat
    BY <2>1, CountConcat
  <2>5. delivered' = delivered /\ delivered[t][q] \in Nat
    BY <1>1 DEF TypeOK
  <2>6. Told(t, q) = delivered[t][q] + Count(outputs, kind)
        /\ Told(t, q)' = delivered[t][q] + Count(outputs', kind)
    BY <2>3, <2>5 DEF Told
  <2> QED BY <2>2, <2>4, <2>5, <2>6
<1>7. EventsTold'
  <2> DEFINE f == [q \in Pids |-> Told("Event", q)]
             g == [q \in Pids |-> Told("Event", q)']
  <2>1. ASSUME NEW q \in Pids
        PROVE  /\ Told("Event", q) \in Nat
               /\ Told("Event", q)' = Told("Event", q) + IF q = p THEN 1 ELSE 0
    <3>1. more("Event", q) = IF q = p THEN 1 ELSE 0
      <4>1. CASE q = p
        BY <1>1, <4>1
      <4>2. CASE q # p
        BY <1>1, <4>2
      <4> QED BY <4>1, <4>2
    <3>2. "Event" \in OutputTypes
      BY DEF OutputTypes
    <3> HIDE DEF more
    <3>3. Told("Event", q) \in Nat /\ Told("Event", q)' = Told("Event", q) + more("Event", q)
      BY <1>6, <3>2
    <3> QED BY <3>1, <3>3
  <2>2. /\ f \in [Pids -> Nat] /\ g \in [Pids -> Nat] /\ g[p] = f[p] + 1
        /\ \A q \in Pids \ {p} : g[q] = f[q]
    BY <1>1, <2>1
  <2>3. EventsTold' <=> total'.events = SumFunction(g)
    BY DEF EventsTold
  <2>4. total.events = SumFunction(f)
    BY <1>2 DEF EventsTold
  <2> HIDE DEF f, g, p
  <2>5. SumFunction(g) = SumFunction(f) + 1
    BY <1>1, <2>2, SumOverPids
  <2> QED BY <1>3, <2>3, <2>4, <2>5
<1>8. AlertsTold'
  <2> SUFFICES ASSUME NEW q \in Pids
               PROVE  /\ Told("Alert", q)' = stats'[q].alerts
                      /\ Told("Action", q)' = Responses * stats'[q].alerts
    BY <1>1 DEF AlertsTold
  <2>1. /\ Told("Alert", q) = stats[q].alerts
        /\ Told("Action", q) = Responses * stats[q].alerts
        /\ stats[q].alerts \in Nat
    BY <1>1, <1>2 DEF AlertsTold, ProcStats
  <2>2. /\ Told("Alert", q)' = Told("Alert", q) + IF q = p /\ alert = 1 THEN 1 ELSE 0
        /\ Told("Action", q)' = Told("Action", q) + IF q = p /\ alert = 1 /\ auto_kill THEN 1 ELSE 0
    <3>1. /\ more("Alert", q) = IF q = p /\ alert = 1 THEN 1 ELSE 0
          /\ more("Action", q) = IF q = p /\ alert = 1 /\ auto_kill THEN 1 ELSE 0
      <4>1. "Alert" # "Event" /\ "Action" # "Event" /\ "Alert" # "Action"
        OBVIOUS
      <4>2. CASE q = p /\ alert = 1
        BY <1>1, <4>1, <4>2
      <4>3. CASE ~ (q = p /\ alert = 1)
        BY <1>1, <4>1, <4>3
      <4> QED BY <4>2, <4>3
    <3>2. "Alert" \in OutputTypes /\ "Action" \in OutputTypes
      BY DEF OutputTypes
    <3> HIDE DEF more
    <3>3. Told("Alert", q)' = Told("Alert", q) + more("Alert", q)
      BY <1>6, <3>2
    <3>4. Told("Action", q)' = Told("Action", q) + more("Action", q)
      BY <1>6, <3>2
    <3> QED BY <3>1, <3>3, <3>4
  <2>3. stats'[q].alerts = stats[q].alerts + IF q = p THEN alert ELSE 0
    BY <1>1, <2>1 DEF Counts
  <2> HIDE DEF p
  <2>4. CASE auto_kill
    BY <2>1, <2>2, <2>3, <2>4 DEF Responses
  <2>5. CASE ~ auto_kill
    BY <2>1, <2>2, <2>3, <2>5 DEF Responses
  <2> QED BY <1>1, <2>4, <2>5
<1>9. InOrder(outputs, Responses)'
  <2> DEFINE Out == [type : OutputTypes, pid : Pids]
             e == Emit(ev, alert = 1)
  <2>1. outputs \in Seq(Out) /\ e \in Seq(Out) /\ outputs' = outputs \o e
    BY <1>1, EmitType DEF TypeOK, Counts
  <2>2. InOrder(e, Responses)
    BY <1>1, EmitInOrder
  <2> HIDE DEF Out, e
  <2>3. InOrder(outputs', Responses)
    BY <1>1, <1>2, <2>1, <2>2, InOrderConcat
  <2> QED BY <1>1, <2>3 DEF InOrder
<1>10. auto_kill' \in BOOLEAN
  BY <1>1
<1>11. (CountersAgree <=> /\ SamplesAgree /\ ExtsAgree /\ EventsTold /\ AlertsTold
                          /\ InOrder(outputs, Responses))'
  <2>1. Responses' = 1 <=> auto_kill'
    BY DEF Responses
  <2> QED BY <2>1 DEF CountersAgree, SamplesAgree, ExtsAgree, EventsTold, AlertsTold, InOrder,
                      Told, Responses
<1> QED BY <1>4, <1>5, <1>7, <1>8, <1>9, <1>11

(* A batch delivered: what was about to be told has been told. *)
LEMMA EndPollKeepsCounters ==
  ASSUME CountersInv, EndPoll
  PROVE  CountersAgree'
<1>1. /\ TypeOK /\ auto_kill \in BOOLEAN /\ auto_kill' = auto_kill /\ total' = total
      /\ stats' = stats /\ ext_counts' = ext_counts /\ outputs' = <<>>
  BY DEF CountersInv, TypeOK, EndPoll, core
<1>2. SamplesAgree /\ ExtsAgree /\ EventsTold /\ AlertsTold
  BY <1>1, CountersForm DEF CountersInv
<1>3. \A x \in Fields : Sampled(x)' = Sampled(x)
  <2>1. CASE PushSample
    BY <1>1, <2>1, PushKeepsSums
  <2>2. CASE UNCHANGED rates
    BY <2>2 DEF rates, Sampled
  <2> QED BY <2>1, <2>2 DEF EndPoll
<1>4. SamplesAgree'
  BY <1>1, <1>2, <1>3 DEF SamplesAgree, SumStats, Fields
<1>5. ExtsAgree'
  BY <1>1, <1>2 DEF ExtsAgree
<1>6. \A t \in OutputTypes, p \in Pids : Told(t, p)' = Told(t, p)
  <2> SUFFICES ASSUME NEW t \in OutputTypes, NEW p \in Pids PROVE Told(t, p)' = Told(t, p)
    OBVIOUS
  <2>1. delivered'[t][p] = Told(t, p)
    BY DEF EndPoll, Told
  <2>2. CountOutputs(t, p)' = 0
    <3>1. {i \in DOMAIN outputs' : outputs'[i] = Output(t, p)} = {}
      BY <1>1
    <3> QED BY <3>1, FS_EmptySet DEF CountOutputs
  <2>3. Told(t, p) \in Nat
    BY <1>1, CountOutputsType DEF TypeOK, Told
  <2> QED BY <2>1, <2>2, <2>3 DEF Told
<1>7. EventsTold'
  <2>1. [p \in Pids |-> Told("Event", p)'] = [p \in Pids |-> Told("Event", p)]
    BY <1>6 DEF OutputTypes
  <2>2. EventsTold' <=> total'.events = SumFunction([p \in Pids |-> Told("Event", p)'])
    BY DEF EventsTold
  <2> QED BY <1>1, <1>2, <2>1, <2>2 DEF EventsTold
<1>8. AlertsTold'
  <2>1. \A p \in Pids : Told("Alert", p)' = Told("Alert", p) /\ Told("Action", p)' = Told("Action", p)
    BY <1>6 DEF OutputTypes
  <2>2. Responses' = Responses
    BY <1>1 DEF Responses
  <2> QED BY <1>1, <1>2, <2>1, <2>2 DEF AlertsTold
<1>9. InOrder(outputs, Responses)'
  BY <1>1 DEF InOrder
<1>10. (CountersAgree <=> /\ SamplesAgree /\ ExtsAgree /\ EventsTold /\ AlertsTold
                          /\ InOrder(outputs, Responses))'
  <2>1. Responses' = 1 <=> auto_kill'
    BY <1>1 DEF Responses
  <2> QED BY <2>1 DEF CountersAgree, SamplesAgree, ExtsAgree, EventsTold, AlertsTold, InOrder,
                      Told, Responses
<1> QED BY <1>4, <1>5, <1>7, <1>8, <1>9, <1>10

LEMMA CountersInit == Init => CountersInv
<1> SUFFICES ASSUME Init PROVE CountersAgree
  BY TypeInit DEF CountersInv
<1>1. /\ TypeOK /\ auto_kill \in BOOLEAN /\ outputs = <<>> /\ rate_history = <<>>
      /\ tick = ZeroSample /\ rotated = ZeroSample /\ total.events = 0
      /\ stats = [p \in Pids |-> DefaultStats] /\ ext_counts = [x \in Exts |-> 0]
      /\ delivered = [t \in OutputTypes |-> [p \in Pids |-> 0]]
  BY TypeInit DEF Init
<1>2. SumFunction([p \in Pids |-> 0]) = 0
  BY SumZero, PidAssumption
<1>3. \A x \in Fields : Sampled(x) = 0
  <2>1. DOMAIN rate_history = {}
    BY <1>1
  <2>2. \A x : [i \in DOMAIN rate_history |-> rate_history[i][x]] = [i \in {} |-> 0]
    BY <2>1
  <2>3. SumFunction([i \in {} |-> 0]) = 0
    BY SumZero, FS_EmptySet
  <2> QED BY <1>1, <2>2, <2>3, SampleFields DEF Sampled
<1>4. SumStats("total_execs") = 0 /\ SumStats("alerts") = 0
  <2>1. /\ [p \in Pids |-> stats[p]["total_execs"]] = [p \in Pids |-> 0]
        /\ [p \in Pids |-> stats[p]["alerts"]] = [p \in Pids |-> 0]
    BY <1>1 DEF DefaultStats
  <2> QED BY <1>2, <2>1 DEF SumStats
<1>5. SamplesAgree
  BY <1>1, <1>3, <1>4 DEF SamplesAgree, Fields
<1>6. ExtsAgree
  <2> SUFFICES ASSUME NEW x \in Exts
               PROVE  ext_counts[x] = SumFunction([p \in Pids |-> stats[p].extensions[x]])
    BY DEF ExtsAgree
  <2>1. [p \in Pids |-> stats[p].extensions[x]] = [p \in Pids |-> 0]
    BY <1>1 DEF DefaultStats
  <2> QED BY <1>1, <1>2, <2>1
<1>7. \A t \in OutputTypes, p \in Pids : Told(t, p) = 0
  <2>1. \A t, p : CountOutputs(t, p) = 0
    <3>1. \A t, p : {i \in DOMAIN outputs : outputs[i] = Output(t, p)} = {}
      BY <1>1
    <3> QED BY <3>1, FS_EmptySet DEF CountOutputs
  <2> QED BY <1>1, <2>1 DEF Told
<1>8. EventsTold
  <2>1. [p \in Pids |-> Told("Event", p)] = [p \in Pids |-> 0]
    BY <1>7 DEF OutputTypes
  <2> QED BY <1>1, <1>2, <2>1 DEF EventsTold
<1>9. AlertsTold
  <2>1. \A p \in Pids : Told("Alert", p) = 0 /\ Told("Action", p) = 0 /\ stats[p].alerts = 0
    BY <1>1, <1>7 DEF OutputTypes, DefaultStats
  <2> QED BY <2>1 DEF AlertsTold, Responses
<1>10. InOrder(outputs, Responses)
  BY <1>1 DEF InOrder
<1> QED BY <1>1, <1>5, <1>6, <1>8, <1>9, <1>10, CountersForm

LEMMA CountersStep == CountersInv /\ [Unbounded]_vars => CountersInv'
<1> SUFFICES ASSUME CountersInv, [Unbounded]_vars PROVE CountersAgree'
  BY TypeStep DEF CountersInv
<1>1. TypeOK /\ TypeOK'
  BY TypeStep DEF CountersInv
<1>2. ASSUME NEW ev \in Event, NEW read \in PpidReads, HandleEvent(ev, read)
      PROVE  CountersAgree'
  <2>1. /\ total' = [total EXCEPT !.events = @ + 1]
        /\ UNCHANGED <<auto_kill, rate_history, delivered, rotated>>
    BY <1>2 DEF HandleEvent
  <2>2. CASE CountOpen(ev, read)
    <3>1. PICK alert \in {0, 1}, ext \in [Exts -> {0, 1}] : Counts(ev, 0, alert, ext)
      BY <1>1, <2>2, OpenCounts
    <3>2. 0 \in {0, 1}
      OBVIOUS
    <3> QED BY <1>1, <2>1, <3>1, <3>2, EventKeepsCounters
  <2>3. CASE CountExec(ev, read) \/ CountFs(ev, read)
    <3>1. PICK exec \in {0, 1}, ext \in [Exts -> {0, 1}] : Counts(ev, exec, 0, ext)
      BY <1>1, <2>3, OtherCounts
    <3>2. 0 \in {0, 1}
      OBVIOUS
    <3> QED BY <1>1, <2>1, <3>1, <3>2, EventKeepsCounters
  <2> QED BY <1>2, <2>2, <2>3 DEF HandleEvent
<1>3. CASE EndPoll
  BY <1>3, EndPollKeepsCounters
<1>4. CASE /\ UNCHANGED <<auto_kill, stats, ext_counts, rate_history, tick, rotated,
                          outputs, delivered>>
           /\ total'.events = total.events
  <2>1. /\ \A x : Sampled(x)' = Sampled(x) /\ SumStats(x)' = SumStats(x)
        /\ \A t, p : CountOutputs(t, p)' = CountOutputs(t, p)
    BY <1>4 DEF Sampled, SumStats, CountOutputs
  <2> QED BY <1>4, <2>1 DEF CountersInv, CountersAgree
<1>5. \/ \E ev \in Event, read \in PpidReads : HandleEvent(ev, read)
      \/ EndPoll
      \/ /\ UNCHANGED <<auto_kill, stats, ext_counts, rate_history, tick, rotated,
                        outputs, delivered>>
         /\ total'.events = total.events
  BY <1>1 DEF TypeOK, Unbounded, UnboundedFixed, HandleLost, BeginPoll, SetThreshold, Tick,
              vars, core, rates
<1> QED BY <1>2, <1>3, <1>4, <1>5

(* The statistics, the rate samples, the extension table and what the      *)
(* consumers were told never drift apart, however many samples were closed *)
(* and rotated out, and every batch tells an alert before its cause.       *)
THEOREM CountersNeverDrift == Spec => []CountersAgree
<1>1. CountersInv => TypeOK /\ CountersAgree
  BY DEF CountersInv
<1> QED BY <1>1, CountersInit, CountersStep, BoundsDropped, PTL DEF Spec

-----------------------------------------------------------------------------
(* The agent end to end.                                                   *)

(* PerfReader again, now with what is proved of it: what the programs, the *)
(* reader and the channel do in the agent is what they do in PerfReader.   *)
Reading == INSTANCE PerfReaderProofs WITH Bodies <- Captures

CPUs == Reading!Cpus

(* The monitor is never dropped here, and what it needs of the types. *)
WorldInv ==
  /\ now \in 0 .. MaxTime
  /\ open = TRUE
  /\ life \in [Pids -> 1 .. MaxLives]
  /\ alive \in [Pids -> BOOLEAN]
  /\ keeps_up \in BOOLEAN

(* What is proved of PerfReader, as it is used here. *)
StreamOK == Reading!TypeOK /\ Reading!DrainBounded /\ Reading!InSequence /\ Reading!NothingMissing

LEMMA StreamInit == AgentInit => Reading!Init
BY DEF AgentInit, Perf!Init, Perf!PerfInit, Reading!Init, Reading!PerfInit, Perf!Cpus, Reading!Cpus

(* The two instances have a sum each. *)
LEMMA SameSum == \A f : Perf!SumFunction(f) = Reading!SumFunction(f)
BY DEF Perf!SumFunction, Reading!SumFunction, Perf!SumFunctionOnSet, Reading!SumFunctionOnSet,
       Perf!FoldFunctionOnSet, Reading!FoldFunctionOnSet, Perf!MapThenFoldSet, Reading!MapThenFoldSet

(* Each operation of the agent on the stream is one of PerfReader. *)
LEMMA CaptureStep ==
  ASSUME WorldInv, NEW c \in CPUs, NEW ev \in Event, Capture(c, ev)
  PROVE  \E b \in Captures : Reading!Emit(c, b) /\ b.at = now /\ b.ev = ev
<1> DEFINE b == [ev |-> ev, at |-> now, life |-> life[ev.pid]]
<1>1. b \in Captures /\ b.at = now /\ b.ev = ev
  BY DEF WorldInv, Captures, Event
<1>2. Perf!Emit(c, b)
  BY DEF Capture
<1> HIDE DEF b
<1>3. Reading!Emit(c, b)
  BY <1>2, SameSum DEF Perf!Emit, Reading!Emit, Perf!Put, Reading!Put, Perf!Entries, Reading!Entries,
     Perf!Sample, Reading!Sample, Perf!Lost, Reading!Lost
<1> QED BY <1>1, <1>3

LEMMA ReadStep == Read => Reading!ReaderStep
BY DEF Read, Perf!ReaderStep, Perf!EnterRing, Perf!ReadRecord, Perf!LeaveRing, Perf!EndRound,
   Reading!ReaderStep, Reading!EnterRing, Reading!ReadRecord, Reading!LeaveRing, Reading!EndRound,
   Perf!HeadNow, Perf!AfterRead, Perf!LastRing, Perf!NewRound,
   Reading!HeadNow, Reading!AfterRead, Reading!LastRing, Reading!NewRound

LEMMA HandleStep ==
  ASSUME NEW msg, Handle(msg)
  PROVE  Reading!ReceiveAs(msg)
BY DEF Handle, Perf!ReceiveAs, Reading!ReceiveAs, Perf!LossOf, Reading!LossOf

(* The steps that leave the rings, the channel and the reader alone. *)
LEMMA OtherSteps ==
  ASSUME Begin \/ End \/ Passing \/ UNCHANGED agent_vars
  PROVE  UNCHANGED stream_vars
BY DEF Begin, End, Passing, Wait, Exit, Reuse, agent_vars

LEMMA AgentStreamStep == WorldInv /\ [AgentNext]_agent_vars => [Reading!Next]_stream_vars
<1> SUFFICES ASSUME WorldInv, [AgentNext]_agent_vars PROVE [Reading!Next]_stream_vars
  OBVIOUS
<1>1. ASSUME NEW c \in CPUs, NEW ev \in Event, Capture(c, ev) PROVE Reading!Next
  BY <1>1, CaptureStep DEF Reading!Next, CPUs
<1>2. CASE Read
  BY <1>2, ReadStep DEF Reading!Next
<1>3. CASE HandleNext
  BY <1>3, HandleStep DEF HandleNext, Reading!Next, Reading!Receive
<1>4. CASE Begin \/ End \/ Passing \/ UNCHANGED agent_vars
  BY <1>4, OtherSteps
<1>5. Perf!Cpus = CPUs
  BY DEF Perf!Cpus, CPUs, Reading!Cpus
<1> QED BY <1>1, <1>2, <1>3, <1>4, <1>5 DEF AgentNext, Core

LEMMA WorldInit == AgentInit => WorldInv
BY AgentAssumption, NumberAssumption DEF AgentInit, Init, Perf!Init, WorldInv

(* A message of the channel that carries an event carries one of Event. *)
LEMMA MessageType ==
  ASSUME StreamOK, WorldInv, NEW msg, Reading!ReceiveAs(msg)
  PROVE  /\ msg \in Reading!Entry /\ msg = channel[1] /\ 1 \in DOMAIN channel
         /\ channel \in Seq(Reading!Entry) /\ channel # <<>>
         /\ msg.cpu \in CPUs
         /\ msg.type \in {"Event", "Lost"}
         /\ msg.type = "Event" => msg.body \in Captures /\ msg.body.ev \in Event
         /\ Reading!LossOf(msg) \in Nat
<1>1. channel \in Seq(Reading!Entry) /\ channel # <<>> /\ msg = Head(channel)
  BY DEF Reading!ReceiveAs, StreamOK, Reading!TypeOK
<1>2. Len(channel) \in Nat /\ Len(channel) # 0
  BY <1>1, EmptySeq, LenProperties
<1>3. 1 \in DOMAIN channel /\ msg = channel[1] /\ msg \in Reading!Entry
  BY <1>1, <1>2
<1>4. /\ msg.cpu \in CPUs /\ msg.type \in {"Event", "Lost"}
      /\ msg.type = "Event" => msg.body \in Captures
      /\ msg.first \in Nat /\ msg.last \in Nat
  BY <1>3 DEF Reading!Entry, CPUs
<1>5. Reading!Sound(msg, msg.cpu)
  BY <1>3, <1>4 DEF StreamOK, WorldInv, Reading!InSequence, Reading!Queued, CPUs
<1>6. msg.first <= msg.last
  BY <1>4, <1>5 DEF Reading!Sound
<1>7. Reading!LossOf(msg) \in Nat
  BY <1>4, <1>6 DEF Reading!LossOf
<1> QED BY <1>1, <1>3, <1>4, <1>7 DEF Captures

LEMMA WorldStep == WorldInv /\ [AgentNext]_agent_vars => WorldInv'
<1> SUFFICES ASSUME WorldInv, [AgentNext]_agent_vars PROVE WorldInv'
  OBVIOUS
<1>1. open' = TRUE
  <2>1. ASSUME NEW c, NEW ev, Capture(c, ev) PROVE open' = open
    BY <2>1 DEF Capture, Perf!Emit
  <2>2. Read => open' = open
    BY DEF Read, Perf!ReaderStep, Perf!EnterRing, Perf!ReadRecord, Perf!LeaveRing, Perf!EndRound
  <2>3. HandleNext => open' = open
    BY DEF HandleNext, Handle, Perf!ReceiveAs
  <2>4. Begin \/ End \/ Passing \/ UNCHANGED agent_vars => open' = open
    BY OtherSteps DEF stream_vars
  <2> QED BY <2>1, <2>2, <2>3, <2>4 DEF AgentNext, Core, WorldInv
<1>2. now' \in 0 .. MaxTime
  <2>1. now' = now \/ (Wait /\ now' = now + 1 /\ now < MaxTime)
    BY DEF AgentNext, Core, Capture, Read, HandleNext, Handle, HandleEvent, HandleLost, Begin, End,
       BeginPoll, EndPoll, Passing, Wait, Tick, Exit, Reuse, agent_vars, vars
  <2> QED BY <2>1, NumberAssumption DEF WorldInv
<1>3. life' \in [Pids -> 1 .. MaxLives] /\ keeps_up' \in BOOLEAN
  <2>1. \/ life' = life
        \/ \E p \in Pids : life[p] < MaxLives /\ life' = [life EXCEPT ![p] = @ + 1]
    BY DEF AgentNext, Core, Capture, Read, HandleNext, Handle, Begin, End,
       Passing, Wait, Exit, Reuse, agent_vars, world_vars
  <2>2. keeps_up' = keeps_up
    BY DEF AgentNext, Core, Capture, Read, HandleNext, Handle, Begin, End,
       Passing, Wait, Exit, Reuse, agent_vars, world_vars
  <2>3. life' \in [Pids -> 1 .. MaxLives]
    <3>1. CASE life' = life
      BY <3>1 DEF WorldInv
    <3>2. ASSUME NEW p \in Pids, life[p] < MaxLives, life' = [life EXCEPT ![p] = @ + 1]
          PROVE  life' \in [Pids -> 1 .. MaxLives]
      BY <3>2, AgentAssumption DEF WorldInv
    <3> QED BY <2>1, <3>1, <3>2
  <2> QED BY <2>2, <2>3 DEF WorldInv
<1>4. alive' \in [Pids -> BOOLEAN]
  <2>1. ASSUME NEW msg, Handle(msg)
        PROVE  alive' = alive \/ alive' = [alive EXCEPT ![msg.body.ev.pid] = FALSE]
    BY <2>1 DEF Handle, KillProcess, world_vars
  <2>2. ASSUME NEW p, Exit(p) \/ Reuse(p) PROVE alive' \in [Pids -> BOOLEAN]
    BY <2>2 DEF Exit, Reuse, WorldInv
  <2>3. CASE HandleNext
    BY <2>1, <2>3 DEF HandleNext, WorldInv
  <2>4. (~ HandleNext /\ \A p \in Pids : ~ (Exit(p) \/ Reuse(p))) => alive' = alive
    BY DEF AgentNext, Core, Capture, Read, Begin, End, Passing, Wait, agent_vars, world_vars
  <2> QED BY <2>2, <2>3, <2>4 DEF WorldInv
<1> QED BY <1>1, <1>2, <1>3, <1>4 DEF WorldInv

(* The agent implements PerfReader, and so inherits what is proved of it. *)
LEMMA AgentStreams == AgentSpec => [](WorldInv /\ StreamOK)
<1>2. WorldInv /\ [AgentNext]_agent_vars => [Reading!Next]_Reading!vars
  BY AgentStreamStep DEF Reading!vars, stream_vars
<1>3. AgentSpec => []WorldInv
  BY WorldInit, WorldStep, PTL DEF AgentSpec
<1>4. AgentSpec => Reading!Safe
  BY <1>2, <1>3, StreamInit, PTL DEF AgentSpec, Reading!Safe
<1>5. Reading!Safe => [](Reading!TypeOK /\ Reading!DrainBounded)
  BY AgentAssumption, Reading!ReaderTyped DEF Reading!ReaderTyped
<1>6. Reading!Safe => [](Reading!InSequence /\ Reading!NothingMissing)
  BY AgentAssumption, Reading!StreamKept DEF Reading!StreamKept
<1> QED BY <1>3, <1>4, <1>5, <1>6, PTL DEF StreamOK

-----------------------------------------------------------------------------

(* The counters of the status bar are sums over the CPUs of what the core *)
(* was given and of the losses it was told.                                *)
AgentTotals ==
  /\ total \in [events : Nat, lost : Nat]
  /\ total.events = SumFunction([c \in CPUs |-> Len(received[c])])
  /\ total.lost = SumFunction(reported)

LEMMA FiniteCpus == IsFiniteSet(CPUs)
BY AgentAssumption, FS_Interval DEF CPUs, Reading!Cpus

LEMMA TotalsInit == AgentInit => AgentTotals
<1> SUFFICES ASSUME AgentInit PROVE AgentTotals
  OBVIOUS
<1>1. total = [events |-> 0, lost |-> 0]
  BY DEF AgentInit, Init
<1>2. received = [c \in CPUs |-> <<>>] /\ reported = [c \in CPUs |-> 0]
  BY DEF AgentInit, Perf!Init, CPUs, Perf!Cpus, Reading!Cpus
<1>3. [c \in CPUs |-> Len(received[c])] = [c \in CPUs |-> 0]
  BY <1>2
<1> QED BY <1>1, <1>2, <1>3, FiniteCpus, SumZero DEF AgentTotals

LEMMA TotalsHandle ==
  ASSUME AgentTotals, WorldInv, StreamOK, NEW msg, Handle(msg)
  PROVE  AgentTotals'
<1> DEFINE old == [c \in CPUs |-> Len(received[c])]
           new == [c \in CPUs |-> Len(received'[c])]
<1>1. Reading!ReceiveAs(msg)
  BY HandleStep
<1>2. /\ msg \in Reading!Entry /\ msg.cpu \in CPUs /\ msg.type \in {"Event", "Lost"}
      /\ Reading!LossOf(msg) \in Nat
  BY <1>1, MessageType
<1>3. /\ received \in [CPUs -> Seq(Reading!Entry)] /\ reported \in [CPUs -> Nat]
  BY DEF StreamOK, Reading!TypeOK, CPUs
<1>4. old \in [CPUs -> Nat]
  BY <1>3, LenProperties
<1>5. CASE msg.type = "Lost"
  <2> DEFINE c == msg.cpu
             n == Reading!LossOf(msg)
             next == [reported EXCEPT ![c] = @ + n]
  <2>1. reported' = next /\ received' = received
    BY <1>1, <1>5 DEF Reading!ReceiveAs
  <2>2. total' = [total EXCEPT !.lost = @ + n]
    BY <1>5 DEF Handle, HandleLost, Perf!LossOf, Reading!LossOf
  <2>3. c \in CPUs /\ n \in Nat
    BY <1>2
  <2> HIDE DEF c, n
  <2>4. next \in [CPUs -> Nat] /\ next[c] = reported[c] + n
        /\ \A d \in CPUs \ {c} : next[d] = reported[d]
    BY <1>3, <2>3
  <2> HIDE DEF next
  <2>5. SumFunction(next) + reported[c] = SumFunction(reported) + next[c]
    BY <1>3, <2>3, <2>4, FiniteCpus, SumChange, ZenonT(40)
  <2>6. SumFunction(next) \in Nat /\ SumFunction(reported) \in Nat /\ reported[c] \in Nat
    <3>1. SumFunction(next) \in Nat
      BY <2>4, FiniteCpus, SumType
    <3>2. SumFunction(reported) \in Nat
      BY <1>3, FiniteCpus, SumType
    <3> QED BY <1>3, <2>3, <3>1, <3>2
  <2>7. SumFunction(next) = SumFunction(reported) + n
    BY <2>3, <2>4, <2>5, <2>6
  <2>8. total'.lost = SumFunction(next) /\ total'.events = total.events
        /\ total' \in [events : Nat, lost : Nat]
    BY <2>2, <2>3, <2>7 DEF AgentTotals
  <2> QED BY <2>1, <2>8 DEF AgentTotals
<1>6. CASE msg.type = "Event"
  <2>1. received' = [received EXCEPT ![msg.cpu] = Append(@, msg)] /\ reported' = reported
    BY <1>1, <1>6 DEF Reading!ReceiveAs
  <2>2. total' = [total EXCEPT !.events = @ + 1]
    BY <1>6 DEF Handle, HandleEvent
  <2>3. Len(received'[msg.cpu]) = Len(received[msg.cpu]) + 1
        /\ \A c \in CPUs \ {msg.cpu} : received'[c] = received[c]
    BY <1>2, <1>3, <2>1, AppendProperties
  <2>4. new \in [CPUs -> Nat] /\ new[msg.cpu] = old[msg.cpu] + 1
        /\ \A c \in CPUs \ {msg.cpu} : new[c] = old[c]
    <3>1. \A c \in CPUs : Len(received[c]) \in Nat
      BY <1>3, LenProperties
    <3> QED BY <1>2, <2>3, <3>1
  <2> HIDE DEF old, new
  <2>5. SumFunction(new) + old[msg.cpu] = SumFunction(old) + new[msg.cpu]
    BY <1>2, <1>4, <2>4, FiniteCpus, SumChange
  <2>6. SumFunction(new) \in Nat /\ SumFunction(old) \in Nat /\ old[msg.cpu] \in Nat
    BY <1>2, <1>4, <2>4, FiniteCpus, SumType
  <2>7. SumFunction(new) = SumFunction(old) + 1
    BY <2>4, <2>5, <2>6
  <2>8. total.events = SumFunction(old) /\ total \in [events : Nat, lost : Nat]
    BY DEF AgentTotals, old
  <2>9. total'.events = SumFunction(new) /\ total'.lost = total.lost
        /\ total' \in [events : Nat, lost : Nat]
    BY <2>2, <2>7, <2>8
  <2> QED BY <2>1, <2>9 DEF AgentTotals, new
<1> QED BY <1>2, <1>5, <1>6

LEMMA TotalsStep == AgentTotals /\ WorldInv /\ StreamOK /\ [AgentNext]_agent_vars => AgentTotals'
<1> SUFFICES ASSUME AgentTotals, WorldInv, StreamOK, [AgentNext]_agent_vars PROVE AgentTotals'
  OBVIOUS
<1>1. CASE HandleNext
  BY <1>1, TotalsHandle DEF HandleNext
<1>2. CASE ~ HandleNext
  <2>1. UNCHANGED total
    BY <1>2 DEF AgentNext, Core, Capture, Read, Begin, End, BeginPoll, EndPoll, Passing, Wait, Tick,
       Exit, Reuse, agent_vars, vars
  <2>2. UNCHANGED <<received, reported>>
    <3>1. ASSUME NEW c, NEW ev, Capture(c, ev) PROVE UNCHANGED <<received, reported>>
      BY <3>1 DEF Capture, Perf!Emit
    <3>2. Read => UNCHANGED <<received, reported>>
      BY DEF Read, Perf!ReaderStep, Perf!EnterRing, Perf!ReadRecord, Perf!LeaveRing, Perf!EndRound
    <3>3. Begin \/ End \/ Passing \/ UNCHANGED agent_vars => UNCHANGED <<received, reported>>
      BY OtherSteps DEF stream_vars
    <3> QED BY <1>2, <3>1, <3>2, <3>3 DEF AgentNext, Core
  <2> QED BY <2>1, <2>2 DEF AgentTotals
<1> QED BY <1>1, <1>2

(* With nothing on its way, what a CPU made is what was taken of it and    *)
(* what no later record has told of.                                       *)
LEMMA TotalsMean == AgentTotals /\ WorldInv /\ StreamOK => CountsEndToEnd
<1> SUFFICES ASSUME AgentTotals, WorldInv, StreamOK, Quiet
             PROVE  total.events + total.lost
                      = SumFunction([c \in CPUs |-> produced[c] - missed[c]])
  BY DEF CountsEndToEnd, CPUs, Perf!Cpus, Reading!Cpus
<1> DEFINE given == [c \in CPUs |-> Len(received[c])]
<1>1. /\ received \in [CPUs -> Seq(Reading!Entry)] /\ reported \in [CPUs -> Nat]
      /\ produced \in [CPUs -> Nat] /\ missed \in [CPUs -> Nat]
  BY DEF StreamOK, Reading!TypeOK, CPUs
<1>2. given \in [CPUs -> Nat]
  BY <1>1, LenProperties
<1>3. ASSUME NEW c \in CPUs
      PROVE  given[c] + reported[c] = produced[c] - missed[c]
  <2>1. DOMAIN channel = {} /\ DOMAIN rings[c] = {}
    BY DEF Quiet, CPUs, Perf!Cpus, Reading!Cpus
  <2>2. \A n \in Reading!Taken(c) + 1 .. produced[c] - missed[c] : FALSE
    BY <2>1 DEF StreamOK, WorldInv, Reading!NothingMissing, Reading!Queued, CPUs
  <2>3. Reading!Taken(c) + missed[c] <= produced[c]
    BY DEF StreamOK, WorldInv, Reading!InSequence, CPUs
  <2>4. Reading!Taken(c) = given[c] + reported[c]
    BY DEF Reading!Taken
  <2>5. given[c] \in Nat /\ reported[c] \in Nat /\ produced[c] \in Nat /\ missed[c] \in Nat
    BY <1>1, <1>2
  <2> HIDE DEF given
  <2> DEFINE taken == Reading!Taken(c)
  <2>6. taken \in Nat /\ taken + missed[c] <= produced[c]
        /\ \A n \in taken + 1 .. produced[c] - missed[c] : FALSE
    BY <2>2, <2>3, <2>4, <2>5
  <2> HIDE DEF taken
  <2>7. taken = produced[c] - missed[c]
    BY <2>5, <2>6
  <2> QED BY <2>4, <2>7 DEF taken
<1>4. [c \in CPUs |-> given[c] + reported[c]] = [c \in CPUs |-> produced[c] - missed[c]]
  BY <1>3, Zenon
<1>5. SumFunction([c \in CPUs |-> given[c] + reported[c]]) = SumFunction(given) + SumFunction(reported)
  BY <1>1, <1>2, FiniteCpus, SumPlus
<1> QED BY <1>4, <1>5 DEF AgentTotals

(* With nothing on its way from the programs to the core, total_events and *)
(* total_lost account for every record made, except the losses no later    *)
(* record has told of (poll of monitor.rs).                                *)
THEOREM EveryRecordCounted == AgentSpec => []CountsEndToEnd
<1> QED BY AgentStreams, TotalsInit, TotalsStep, TotalsMean, PTL DEF AgentSpec

-----------------------------------------------------------------------------

(* What the agent does to the core is what a monitor does whose events and *)
(* losses have no bound.                                                   *)
LEMMA CoreStep == WorldInv /\ StreamOK /\ [AgentNext]_agent_vars => [UnboundedFixed]_vars
<1> SUFFICES ASSUME WorldInv, StreamOK, [AgentNext]_agent_vars PROVE [UnboundedFixed]_vars
  OBVIOUS
<1>1. ASSUME NEW msg, Handle(msg) PROVE UnboundedFixed
  <2>1. /\ Reading!LossOf(msg) \in Nat /\ msg.type \in {"Event", "Lost"}
        /\ msg.type = "Event" => msg.body.ev \in Event
    BY <1>1, HandleStep, MessageType
  <2>2. CASE msg.type = "Lost"
    BY <1>1, <2>1, <2>2 DEF Handle, UnboundedFixed, Perf!LossOf, Reading!LossOf
  <2>3. CASE msg.type = "Event"
    BY <1>1, <2>1, <2>3 DEF Handle, UnboundedFixed
  <2> QED BY <2>1, <2>2, <2>3
<1>2. CASE ~ HandleNext
  BY <1>2 DEF AgentNext, Core, Capture, Read, Begin, End, Passing, Wait, Exit, Reuse, agent_vars,
              UnboundedFixed
<1> QED BY <1>1, <1>2 DEF HandleNext

(* An agent that keeps up handles a record at the time it was made. *)
InTime(s) == \A i \in DOMAIN s : s[i].type = "Event" => s[i].body.at = now
Punctual  == keeps_up => InTime(channel) /\ \A c \in CPUs : InTime(rings[c])

LEMMA PunctualCapture ==
  ASSUME Punctual, WorldInv, StreamOK, NEW c \in CPUs, NEW ev \in Event, Capture(c, ev)
  PROVE  Punctual'
<1>1. PICK b \in Captures : Reading!Emit(c, b) /\ b.at = now
  BY CaptureStep
<1> DEFINE more == Reading!Entries(c, b)
           ring == rings[c] \o more
<1>2. /\ channel' = channel /\ now' = now /\ keeps_up' = keeps_up
      /\ rings' = rings \/ rings' = [rings EXCEPT ![c] = ring]
  BY <1>1 DEF Reading!Emit, Reading!Put, Capture, vars, world_vars
<1>3. rings \in [CPUs -> Seq(Reading!Entry)]
  BY DEF StreamOK, Reading!TypeOK, CPUs
<1>4. more \in Seq(Reading!Entry) /\ \A i \in DOMAIN more : more[i].type = "Event" => more[i].body.at = now
  <2> DEFINE sample == Reading!Sample(c, produced[c] + 1, b)
             told == Reading!Lost(c, produced[c] - missed[c] + 1, produced[c])
  <2>1. more = <<told, sample>> \/ more = <<sample>>
    BY DEF Reading!Entries
  <2>2. /\ sample \in Reading!Entry /\ sample.body.at = now
        /\ missed[c] > 0 => told \in Reading!Entry /\ told.type = "Lost"
    <3>1. produced[c] \in Nat /\ missed[c] \in Nat /\ missed[c] <= produced[c]
      BY DEF StreamOK, Reading!TypeOK, Reading!InSequence, WorldInv, CPUs, Reading!Taken
    <3> QED BY <1>1, <3>1 DEF Reading!Sample, Reading!Lost, Reading!Entry, CPUs
  <2>3. more = IF missed[c] > 0 THEN <<told, sample>> ELSE <<sample>>
    BY DEF Reading!Entries
  <2> HIDE DEF sample, told, more
  <2> QED BY <2>2, <2>3
<1> HIDE DEF more
<1>5. keeps_up => InTime(ring)
  <2> SUFFICES ASSUME keeps_up, NEW i \in DOMAIN ring, ring[i].type = "Event"
               PROVE  ring[i].body.at = now
    BY DEF InTime
  <2>1. /\ rings[c] \in Seq(Reading!Entry)
        /\ DOMAIN ring = 1 .. Len(rings[c]) + Len(more)
        /\ \A j \in 1 .. Len(rings[c]) + Len(more) :
             ring[j] = IF j <= Len(rings[c]) THEN rings[c][j] ELSE more[j - Len(rings[c])]
        /\ Len(rings[c]) \in Nat /\ Len(more) \in Nat
    BY <1>3, <1>4, ConcatProperties, LenProperties
  <2>2. CASE i <= Len(rings[c])
    BY <2>1, <2>2 DEF Punctual, InTime
  <2>3. CASE ~ (i <= Len(rings[c]))
    BY <1>4, <2>1, <2>3
  <2> QED BY <2>2, <2>3
<1> HIDE DEF ring
<1> QED BY <1>2, <1>3, <1>5 DEF Punctual, InTime

LEMMA InTimeTail ==
  ASSUME NEW s \in Seq(Reading!Entry), s # <<>>, InTime(s)
  PROVE  InTime(Tail(s)) /\ (s[1].type = "Event" => s[1].body.at = now)
<1>1. /\ Len(s) \in Nat \ {0} /\ Len(Tail(s)) = Len(s) - 1 /\ DOMAIN s = 1 .. Len(s)
      /\ DOMAIN Tail(s) = 1 .. Len(s) - 1
      /\ \A i \in 1 .. Len(s) - 1 : Tail(s)[i] = s[i + 1]
  BY HeadTailProperties, EmptySeq, LenProperties
<1> QED BY <1>1 DEF InTime

LEMMA PunctualRead ==
  ASSUME Punctual, WorldInv, StreamOK, Read
  PROVE  Punctual'
<1>1. now' = now /\ keeps_up' = keeps_up
  BY DEF Read, vars, world_vars
<1>2. rings \in [CPUs -> Seq(Reading!Entry)] /\ channel \in Seq(Reading!Entry)
  BY DEF StreamOK, Reading!TypeOK, CPUs
<1>3. CASE Reading!ReadRecord
  <2> DEFINE c == reader.cpu
             ring == rings[c]
             e == Head(ring)
  <2>1. c \in CPUs /\ ring \in Seq(Reading!Entry) /\ ring # <<>>
    BY <1>2, <1>3 DEF StreamOK, Reading!TypeOK, Reading!Reader, Reading!ReadRecord,
                      Reading!DrainBounded, CPUs
  <2>2. rings' = [rings EXCEPT ![c] = Tail(ring)] /\ channel' = Append(channel, e)
    BY <1>3 DEF Reading!ReadRecord, WorldInv
  <2>3. e = ring[1] /\ e \in Reading!Entry
    BY <2>1, HeadTailProperties
  <2> HIDE DEF e
  <2>4. ASSUME keeps_up PROVE InTime(Tail(ring)) /\ InTime(Append(channel, e))
    <3>1. InTime(ring) /\ InTime(channel)
      BY <2>1, <2>4 DEF Punctual
    <3>2. InTime(Tail(ring)) /\ (e.type = "Event" => e.body.at = now)
      BY <2>1, <2>3, <3>1, InTimeTail
    <3>3. /\ DOMAIN Append(channel, e) = 1 .. Len(channel) + 1 /\ Len(channel) \in Nat
          /\ \A i \in 1 .. Len(channel) : Append(channel, e)[i] = channel[i]
          /\ Append(channel, e)[Len(channel) + 1] = e
      BY <1>2, <2>3, AppendProperties, LenProperties
    <3> QED BY <3>1, <3>2, <3>3 DEF InTime
  <2> HIDE DEF c
  <2> QED BY <1>1, <1>2, <2>1, <2>2, <2>4 DEF Punctual, InTime
<1>4. CASE ~ Reading!ReadRecord
  <2>1. UNCHANGED <<rings, channel>>
    BY <1>4, ReadStep DEF Reading!ReaderStep, Reading!EnterRing, Reading!LeaveRing, Reading!EndRound
  <2> QED BY <1>1, <2>1 DEF Punctual, InTime
<1> QED BY <1>3, <1>4

LEMMA PunctualHandle ==
  ASSUME Punctual, WorldInv, StreamOK, NEW msg, Handle(msg)
  PROVE  Punctual' /\ (keeps_up /\ msg.type = "Event" => msg.body.at = now)
<1>1. now' = now /\ keeps_up' = keeps_up
  BY DEF Handle, HandleEvent, HandleLost, world_vars
<1>2. channel' = Tail(channel) /\ rings' = rings
  BY HandleStep DEF Reading!ReceiveAs
<1>3. channel \in Seq(Reading!Entry) /\ channel # <<>> /\ msg = channel[1]
  BY HandleStep, MessageType
<1> QED BY <1>1, <1>2, <1>3, InTimeTail DEF Punctual, InTime

LEMMA PunctualStep == Punctual /\ WorldInv /\ StreamOK /\ [AgentNext]_agent_vars => Punctual'
<1> SUFFICES ASSUME Punctual, WorldInv, StreamOK, [AgentNext]_agent_vars PROVE Punctual'
  OBVIOUS
<1>1. ASSUME NEW c \in CPUs, NEW ev \in Event, Capture(c, ev) PROVE Punctual'
  BY <1>1, PunctualCapture
<1>2. CASE Read
  BY <1>2, PunctualRead
<1>3. CASE HandleNext
  BY <1>3, PunctualHandle DEF HandleNext
<1>4. CASE Begin \/ End \/ UNCHANGED agent_vars
  BY <1>4 DEF Begin, End, BeginPoll, EndPoll, agent_vars, vars, stream_vars, world_vars, Punctual, InTime
<1>5. CASE (keeps_up => Quiet) /\ Passing
  <2>1. UNCHANGED <<channel, rings, keeps_up>>
    BY <1>5, OtherSteps DEF stream_vars, Passing, Wait, Exit, Reuse, world_vars
  <2>2. keeps_up => DOMAIN channel = {} /\ \A c \in CPUs : DOMAIN rings[c] = {}
    BY <1>5 DEF Quiet, CPUs, Perf!Cpus, Reading!Cpus
  <2> QED BY <2>1, <2>2 DEF Punctual, InTime
<1>6. Perf!Cpus = CPUs
  BY DEF Perf!Cpus, CPUs, Reading!Cpus
<1> QED BY <1>1, <1>2, <1>3, <1>4, <1>5, <1>6 DEF AgentNext, Core

-----------------------------------------------------------------------------

(* The opens recorded from t to a second after t. *)
OpensFrom(t) == {b \in Captures : b.ev.kind = "Open" /\ b.at \in t .. t + Second}

(* If the agent keeps up, the opens it recorded are the opens it handled,  *)
(* in every second.                                                        *)
SeenAgrees ==
  keeps_up => \A p \in Pids, t \in 0 .. MaxTime :
                Count(seen[p], OpensFrom(t)) = Count(opened[p], t .. t + Second)

AlertsKept == \A p \in Pids : alerted[p] => stats[p].alerts > 0

(* A second with that many opens has had its alert, and still has it when  *)
(* the window has moved on.                                                *)
BurstsKept ==
  threshold > 0 =>
    \A p \in Pids, t \in 0 .. MaxTime :
      Count(opened[p], t .. t + Second) >= threshold => stats[p].alerts > 0

PromptInv ==
  /\ BurstInv
  /\ Punctual
  /\ seen \in [Pids -> Seq(Captures)]
  /\ SeenAgrees
  /\ AlertsKept
  /\ BurstsKept

(* Opens from t to a second after t, and those of the last second. *)
LEMMA WindowCounts ==
  ASSUME NEW all \in Seq(Nat), NEW n \in Nat, Ordered(all, n), NEW t \in Nat
  PROVE  /\ Count(all, t .. t + Second) \in Nat /\ InWindow(all, n) \in Nat
         /\ n <= t + Second => Count(all, t .. t + Second) <= InWindow(all, n)
         /\ t = (IF n >= Second THEN n - Second ELSE 0) =>
              InWindow(all, n) <= Count(all, t .. t + Second)
<1> DEFINE A == {i \in DOMAIN all : all[i] \in t .. t + Second}
           B == {i \in DOMAIN all : all[i] >= n - Second}
<1>1. /\ IsFiniteSet(DOMAIN all) /\ Second \in Nat
      /\ \A i \in DOMAIN all : all[i] \in Nat /\ all[i] <= n
  <2>1. DOMAIN all = 1 .. Len(all) /\ Len(all) \in Nat /\ \A i \in DOMAIN all : all[i] \in Nat
    BY LenProperties, ElementOfSeq
  <2> QED BY <2>1, FS_Interval, NumberAssumption DEF Ordered
<1>2. IsFiniteSet(A) /\ IsFiniteSet(B)
  BY <1>1, FS_Subset
<1>3. n <= t + Second => A \subseteq B
  BY <1>1
<1>4. t = (IF n >= Second THEN n - Second ELSE 0) => B \subseteq A
  BY <1>1
<1>5. Count(all, t .. t + Second) = Cardinality(A) /\ InWindow(all, n) = Cardinality(B)
  BY DEF Count, InWindow
<1> HIDE DEF A, B
<1>6. /\ Cardinality(A) \in Nat /\ Cardinality(B) \in Nat
      /\ A \subseteq B => Cardinality(A) <= Cardinality(B)
      /\ B \subseteq A => Cardinality(B) <= Cardinality(A)
  BY <1>2, FS_CardinalityType, FS_Subset
<1> QED BY <1>3, <1>4, <1>5, <1>6

LEMMA BurstIsCount ==
  ASSUME NEW s \in Seq(Captures)
  PROVE  BurstOfPid(s) <=> \E t \in 0 .. MaxTime : Count(s, OpensFrom(t)) >= threshold
<1>1. ASSUME NEW t
      PROVE  {i \in DOMAIN s : s[i] \in OpensFrom(t)}
               = {i \in DOMAIN s : s[i].ev.kind = "Open" /\ s[i].at \in t .. t + Second}
  <2>1. \A i \in DOMAIN s : s[i] \in Captures
    BY LenProperties, ElementOfSeq
  <2> QED BY <2>1 DEF OpensFrom
<1> QED BY <1>1 DEF BurstOfPid, Count

(* What handling an open does, n being the length of the window then. *)
Handled(p, n) ==
  /\ opened' = [opened EXCEPT ![p] = Append(@, now)]
  /\ alerted' = [alerted EXCEPT ![p] = Raises(n) \/ (@ /\ n >= threshold)]
  /\ stats'[p].window_opens = n
  /\ stats'[p].alerts = stats[p].alerts + (IF Raises(n) THEN 1 ELSE 0)
  /\ \A q \in Pids \ {p} : stats'[q] = stats[q]
  /\ Ordered(opened'[p], now)
  /\ InWindow(opened'[p], now) = n

LEMMA OpenHandled ==
  ASSUME BurstInv, BurstInv', NEW ev \in Event, NEW read \in PpidReads, CountOpen(ev, read),
         now' = now
  PROVE  \E n \in Nat : Handled(ev.pid, n)
<1> DEFINE p == ev.pid
<1>1. TypeOK /\ TypeOK' /\ now \in Nat /\ p \in Pids
  BY DEF BurstInv, WindowInv, TypeOK, Event
<1>2. PICK w \in Seq(Nat), k \in Nat :
           /\ windows' = [windows EXCEPT ![p] = w]
           /\ opened' = [opened EXCEPT ![p] = Append(@, now)]
           /\ alerted' = [alerted EXCEPT ![p] = Raises(Len(w)) \/ (@ /\ Len(w) >= threshold)]
           /\ stats'[p].window_opens = Len(w)
           /\ stats'[p].alerts = stats[p].alerts + (IF Raises(Len(w)) THEN 1 ELSE 0)
           /\ \A q \in Pids \ {p} : stats'[q] = stats[q]
  BY <1>1, OpenEffect
<1>3. windows'[p] = w /\ opened'[p] = Append(opened[p], now) /\ opened[p] \in Seq(Nat)
  BY <1>1, <1>2 DEF TypeOK
<1>4. Ordered(opened'[p], now')
  BY <1>1 DEF BurstInv, WindowInv, Chronological, Ordered
<1>5. IsWindow(opened'[p], windows'[p])
  BY <1>1 DEF BurstInv, WindowInv, WindowExact, IsWindow
<1>6. InWindow(opened'[p], now) = Len(w)
  BY <1>1, <1>3, <1>5, InWindowCounts
<1>7. Len(w) \in Nat
  BY <1>2, LenProperties
<1> HIDE DEF p
<1> QED BY <1>2, <1>4, <1>6, <1>7 DEF Handled, p

LEMMA HandledKeepsBursts ==
  ASSUME BurstInv, BurstInv', AlertsKept, BurstsKept, threshold' = threshold,
         NEW p \in Pids, NEW n \in Nat, Handled(p, n)
  PROVE  AlertsKept' /\ BurstsKept'
<1>1. /\ TypeOK /\ TypeOK' /\ EveryBurstAlerted'
      /\ threshold \in Nat /\ now \in Nat
      /\ opened[p] \in Seq(Nat) /\ opened'[p] = Append(opened[p], now) /\ opened'[p] \in Seq(Nat)
  BY NumberAssumption DEF BurstInv, WindowInv, TypeOK, Handled
<1>2. \A q \in Pids : stats[q].alerts \in Nat
  BY <1>1 DEF TypeOK, ProcStats
<1>3. AlertsKept'
  <2>1. \A q \in Pids \ {p} : alerted'[q] = alerted[q] /\ stats'[q] = stats[q]
    BY <1>1 DEF Handled, TypeOK
  <2>2. alerted'[p] => Raises(n) \/ alerted[p]
    BY <1>1 DEF Handled, TypeOK
  <2>3. stats'[p].alerts = stats[p].alerts + (IF Raises(n) THEN 1 ELSE 0) /\ stats[p].alerts \in Nat
    BY <1>2 DEF Handled
  <2>4. alerted'[p] => stats'[p].alerts > 0
    BY <2>2, <2>3 DEF AlertsKept
  <2> QED BY <2>1, <2>4 DEF AlertsKept
<1>4. ASSUME NEW q \in Pids, NEW t \in 0 .. MaxTime, threshold > 0,
             Count(opened'[q], t .. t + Second) >= threshold
      PROVE  stats'[q].alerts > 0
  <2>1. CASE q # p
    BY <1>1, <1>4, <2>1 DEF BurstsKept, Handled, TypeOK
  <2>2. CASE q = p /\ now \notin t .. t + Second
    <3> DEFINE S == t .. t + Second
    <3>1. now \notin S /\ Count(opened'[q], S) >= threshold
      BY <1>4, <2>2
    <3> HIDE DEF S
    <3>2. /\ Count(Append(opened[p], now), S) = Count(opened[p], S) + (IF now \in S THEN 1 ELSE 0)
          /\ Count(opened[p], S) \in Nat
      <4> DEFINE all == opened[p]
      <4>1. all \in Seq(Nat) /\ now \in Nat
        BY <1>1
      <4> HIDE DEF all
      <4>2. Count(Append(all, now), S) = Count(all, S) + (IF now \in S THEN 1 ELSE 0)
        BY <4>1, CountAppend
      <4>3. Count(all, S) \in Nat
        BY <4>1, CountConcat
      <4> QED BY <4>2, <4>3 DEF all
    <3>3. Count(opened[p], S) >= threshold
      <4> DEFINE c == Count(opened[p], S)
                 d == Count(Append(opened[p], now), S)
      <4>1. d = c + (IF now \in S THEN 1 ELSE 0) /\ c \in Nat
        BY <3>2
      <4>2. d >= threshold
        BY <1>1, <2>2, <3>1
      <4> HIDE DEF c, d
      <4>3. c >= threshold
        BY <3>1, <4>1, <4>2
      <4> QED BY <4>3 DEF c
    <3>4. stats[p].alerts > 0
      BY <1>4, <3>3 DEF BurstsKept, S
    <3> QED BY <1>2, <2>2, <3>4 DEF Handled
  <2>3. CASE q = p /\ now \in t .. t + Second
    <3>1. t \in Nat /\ now <= t + Second
      BY <2>3, NumberAssumption
    <3>2. /\ Count(opened'[p], t .. t + Second) <= n
          /\ Count(opened'[p], t .. t + Second) \in Nat
      <4> DEFINE all == opened'[p]
      <4>1. all \in Seq(Nat) /\ now \in Nat /\ Ordered(all, now) /\ InWindow(all, now) = n
        BY <1>1 DEF Handled
      <4> HIDE DEF all
      <4>2. Count(all, t .. t + Second) <= n /\ Count(all, t .. t + Second) \in Nat
        BY <3>1, <4>1, WindowCounts
      <4> QED BY <4>2 DEF all
    <3> DEFINE m == Count(opened'[p], t .. t + Second)
    <3>m. m >= threshold /\ m <= n /\ m \in Nat
      BY <1>4, <2>3, <3>2
    <3> HIDE DEF m
    <3>4. n >= threshold
      BY <1>1, <3>m
    <3>5. alerted'[p]
      BY <1>1, <1>4, <3>4 DEF EveryBurstAlerted, Handled
    <3> QED BY <1>3, <2>3, <3>5 DEF AlertsKept
  <2> QED BY <2>1, <2>2, <2>3
<1> QED BY <1>3, <1>4 DEF BurstsKept

(* The alert of an agent that keeps up is for a burst among what it saw. *)
LEMMA HandledIsReal ==
  ASSUME BurstInv, BurstInv', WorldInv, SeenAgrees', seen' \in [Pids -> Seq(Captures)], keeps_up',
         NEW p \in Pids, NEW n \in Nat, Handled(p, n), stats'[p].alerts # stats[p].alerts
  PROVE  BurstOfPid(seen'[p])
<1> DEFINE t == IF now >= Second THEN now - Second ELSE 0
<1>1. /\ now \in Nat /\ Second \in Nat /\ threshold \in Nat /\ t \in 0 .. MaxTime /\ t \in Nat
      /\ opened'[p] \in Seq(Nat) /\ stats[p].alerts \in Nat
  BY NumberAssumption DEF WorldInv, BurstInv, WindowInv, TypeOK, ProcStats
<1>2. n = threshold
  BY <1>1 DEF Handled, Raises
<1>3. t = IF now >= Second THEN now - Second ELSE 0
  OBVIOUS
<1> HIDE DEF t
<1>6. Ordered(opened'[p], now) /\ InWindow(opened'[p], now) = n
  BY DEF Handled
<1>4. n <= Count(opened'[p], t .. t + Second)
  BY <1>1, <1>3, <1>6, WindowCounts
<1>5. Count(seen'[p], OpensFrom(t)) = Count(opened'[p], t .. t + Second)
  BY <1>1 DEF SeenAgrees
<1> QED BY <1>1, <1>2, <1>4, <1>5, BurstIsCount

LEMMA PromptHandle ==
  ASSUME PromptInv, BurstInv', WorldInv, StreamOK, NEW msg, Handle(msg)
  PROVE  /\ seen' \in [Pids -> Seq(Captures)] /\ SeenAgrees' /\ AlertsKept' /\ BurstsKept'
         /\ \A p \in Pids : keeps_up /\ stats'[p].alerts # stats[p].alerts => BurstOfPid(seen'[p])
<1> DEFINE ev == msg.body.ev
           p == ev.pid
<1>1. /\ keeps_up' = keeps_up /\ threshold' = threshold /\ now' = now
  BY DEF Handle, HandleEvent, HandleLost, world_vars
<1>2. /\ msg.type \in {"Event", "Lost"}
      /\ msg.type = "Event" => msg.body \in Captures /\ ev \in Event
      /\ keeps_up /\ msg.type = "Event" => msg.body.at = now
  BY HandleStep, MessageType, PunctualHandle DEF PromptInv
<1>3. /\ BurstInv /\ TypeOK /\ opened \in [Pids -> Seq(Nat)] /\ now \in Nat
      /\ seen \in [Pids -> Seq(Captures)]
  BY DEF PromptInv, BurstInv, WindowInv, TypeOK
<1>4. CASE msg.type = "Lost"
  <2>1. UNCHANGED <<seen, opened, alerted, stats>>
    BY <1>4 DEF Handle, HandleLost, core
  <2> QED BY <1>1, <2>1 DEF PromptInv, SeenAgrees, AlertsKept, BurstsKept
<1>5. CASE msg.type = "Event"
  <2>1. PICK read \in PpidReads : HandleEvent(ev, read)
    BY <1>5 DEF Handle
  <2>2. seen' = [seen EXCEPT ![p] = Append(@, msg.body)]
    BY <1>5 DEF Handle
  <2>3. p \in Pids /\ msg.body \in Captures /\ msg.body.ev = ev
    BY <1>2, <1>5 DEF Event
  <2>4. /\ seen' \in [Pids -> Seq(Captures)] /\ seen'[p] = Append(seen[p], msg.body)
        /\ \A q \in Pids \ {p} : seen'[q] = seen[q]
    BY <1>3, <2>2, <2>3
  <2>5. \A t : /\ Count(seen'[p], OpensFrom(t))
                    = Count(seen[p], OpensFrom(t)) + (IF msg.body \in OpensFrom(t) THEN 1 ELSE 0)
               /\ Count(seen[p], OpensFrom(t)) \in Nat
    BY <1>3, <2>3, <2>4, CountAppend, CountConcat
  <2>6. CASE CountOpen(ev, read)
    <3>1. PICK n \in Nat : Handled(p, n)
      BY <1>1, <1>2, <1>3, <1>5, <2>6, OpenHandled
    <3>2. AlertsKept' /\ BurstsKept'
      BY <1>1, <1>3, <2>3, <3>1, HandledKeepsBursts DEF PromptInv
    <3>3. /\ opened'[p] = Append(opened[p], now)
          /\ \A q \in Pids \ {p} : opened'[q] = opened[q]
      BY <1>3, <2>3, <3>1 DEF Handled
    <3>4. ASSUME NEW S
          PROVE  Count(opened'[p], S) = Count(opened[p], S) + (IF now \in S THEN 1 ELSE 0)
      <4> DEFINE all == opened[p]
      <4>1. all \in Seq(Nat) /\ now \in Nat
        BY <1>3, <2>3
      <4> HIDE DEF all
      <4>2. Count(Append(all, now), S) = Count(all, S) + (IF now \in S THEN 1 ELSE 0)
        BY <4>1, CountAppend
      <4> QED BY <3>3, <4>2 DEF all
    <3>5. ASSUME keeps_up, NEW t \in 0 .. MaxTime
          PROVE  Count(seen'[p], OpensFrom(t)) = Count(opened'[p], t .. t + Second)
      <4>1. msg.body \in OpensFrom(t) <=> now \in t .. t + Second
        BY <1>2, <1>5, <2>3, <2>6, <3>5 DEF OpensFrom, CountOpen
      <4>2. Count(seen[p], OpensFrom(t)) = Count(opened[p], t .. t + Second)
        BY <2>3, <3>5 DEF PromptInv, SeenAgrees
      <4> QED BY <2>5, <3>4, <4>1, <4>2
    <3>6. SeenAgrees'
      <4> SUFFICES ASSUME keeps_up, NEW q \in Pids, NEW t \in 0 .. MaxTime
                   PROVE  Count(seen'[q], OpensFrom(t)) = Count(opened'[q], t .. t + Second)
        BY <1>1 DEF SeenAgrees
      <4> QED BY <2>4, <3>3, <3>5 DEF PromptInv, SeenAgrees
    <3>7. ASSUME keeps_up, NEW q \in Pids, stats'[q].alerts # stats[q].alerts
          PROVE  BurstOfPid(seen'[q])
      <4>1. q = p
        BY <3>1, <3>7 DEF Handled
      <4> QED BY <1>1, <1>3, <2>3, <2>4, <3>1, <3>6, <3>7, <4>1, HandledIsReal
    <3> QED BY <2>4, <3>2, <3>6, <3>7
  <2>7. CASE CountExec(ev, read) \/ CountFs(ev, read)
    <3>1. UNCHANGED <<opened, alerted>> /\ \A q \in Pids : stats'[q].alerts = stats[q].alerts
      BY <1>2, <1>3, <1>5, <2>7, OtherEffect
    <3>2. \A t : msg.body \notin OpensFrom(t)
      BY <2>3, <2>7 DEF OpensFrom, CountExec, CountFs, ExecKinds, FsKinds
    <3>3. ASSUME NEW q \in Pids, NEW t \in 0 .. MaxTime
          PROVE  Count(seen'[q], OpensFrom(t)) = Count(seen[q], OpensFrom(t))
      <4> DEFINE c == Count(seen[p], OpensFrom(t))
                 d == Count(seen'[p], OpensFrom(t))
      <4>1. d = c + 0 /\ c \in Nat
        BY <2>5, <3>2
      <4> HIDE DEF c, d
      <4>2. d = c
        BY <4>1
      <4> QED BY <2>4, <4>2 DEF c, d
    <3> QED BY <1>1, <2>4, <3>1, <3>3 DEF PromptInv, SeenAgrees, AlertsKept, BurstsKept
  <2> QED BY <2>1, <2>6, <2>7 DEF HandleEvent
<1> QED BY <1>2, <1>4, <1>5

LEMMA PromptStep ==
  PromptInv /\ WorldInv /\ StreamOK /\ [AgentNext]_agent_vars =>
    /\ PromptInv'
    /\ [\A p \in Pids : keeps_up /\ stats'[p].alerts # stats[p].alerts =>
          BurstOfPid(seen'[p])]_agent_vars
<1> SUFFICES ASSUME PromptInv, WorldInv, StreamOK, [AgentNext]_agent_vars
             PROVE  /\ seen' \in [Pids -> Seq(Captures)] /\ SeenAgrees' /\ AlertsKept' /\ BurstsKept'
                    /\ \A p \in Pids : keeps_up /\ stats'[p].alerts # stats[p].alerts =>
                         BurstOfPid(seen'[p])
  BY CoreStep, BurstStep, PunctualStep DEF PromptInv
<1>1. BurstInv'
  BY CoreStep, BurstStep DEF PromptInv
<1>2. CASE HandleNext
  BY <1>1, <1>2, PromptHandle DEF HandleNext
<1>3. CASE ~ HandleNext
  <2>1. UNCHANGED <<seen, opened, alerted, stats, threshold, keeps_up>>
    BY <1>3 DEF AgentNext, Core, Capture, Read, Begin, End, BeginPoll, EndPoll, Passing, Wait, Tick,
       Exit, Reuse, agent_vars, vars, core, world_vars
  <2> QED BY <2>1 DEF PromptInv, SeenAgrees, AlertsKept, BurstsKept
<1> QED BY <1>2, <1>3

LEMMA PromptInit == AgentInit => PromptInv
<1> SUFFICES ASSUME AgentInit PROVE PromptInv
  OBVIOUS
<1>1. Init /\ seen = [p \in Pids |-> <<>>] /\ opened = [p \in Pids |-> <<>>]
      /\ alerted = [p \in Pids |-> FALSE] /\ threshold \in Nat
  BY NumberAssumption DEF AgentInit, Init
<1>2. BurstInv
  <2>1. EveryBurstAlerted
    BY NumberAssumption DEF AgentInit, Init, EveryBurstAlerted, DefaultStats
  <2> QED BY <1>1, <2>1, WindowInit DEF BurstInv
<1>3. Punctual
  <2>1. DOMAIN channel = {} /\ \A c \in CPUs : DOMAIN rings[c] = {}
    BY DEF AgentInit, Perf!Init, Perf!PerfInit, CPUs, Perf!Cpus, Reading!Cpus
  <2> QED BY <2>1 DEF Punctual, InTime
<1>4. seen \in [Pids -> Seq(Captures)]
  BY <1>1
<1>5. \A p \in Pids : \A S : Count(seen[p], S) = 0 /\ Count(opened[p], S) = 0
  BY <1>1, CountEmpty
<1>6. SeenAgrees /\ AlertsKept /\ BurstsKept
  BY <1>1, <1>5 DEF SeenAgrees, AlertsKept, BurstsKept
<1> QED BY <1>2, <1>3, <1>4, <1>6 DEF PromptInv

LEMMA PromptMeans == PromptInv /\ WorldInv => BurstsAlerted /\ EveryBurstAlerted
<1> SUFFICES ASSUME PromptInv, WorldInv PROVE BurstsAlerted
  BY DEF PromptInv, BurstInv
<1> SUFFICES ASSUME keeps_up, threshold > 0, NEW p \in Pids, BurstOfPid(seen[p])
             PROVE  stats[p].alerts > 0
  BY DEF BurstsAlerted
<1>1. seen[p] \in Seq(Captures)
  BY DEF PromptInv
<1>2. PICK t \in 0 .. MaxTime : Count(seen[p], OpensFrom(t)) >= threshold
  BY <1>1, BurstIsCount
<1> QED BY <1>2 DEF PromptInv, SeenAgrees, BurstsKept

LEMMA AgentPrompt == AgentSpec => []PromptInv
BY AgentStreams, PromptInit, PromptStep, PTL DEF AgentSpec

(* A pid that opened as many files within a second as the threshold says   *)
(* is alerted on, if the agent keeps up; and a window that full has had    *)
(* its alert, whether the agent keeps up or not.                           *)
THEOREM NoBurstMissed == AgentSpec => [](BurstsAlerted /\ EveryBurstAlerted)
BY AgentStreams, AgentPrompt, PromptMeans, PTL

(* An agent that keeps up raises an alert only for a pid that really       *)
(* opened that many files within one second, by the times of the records.  *)
THEOREM AlertsForBursts == AgentSpec => AlertsReal
BY AgentStreams, AgentPrompt, PromptStep, PTL DEF AgentSpec, AlertsReal

=============================================================================
