------------------------------ MODULE Detector ------------------------------
(***************************************************************************)
(* The monitor core: struct Monitor of process-monitor/src/monitor.rs and  *)
(* the two functions that change it, poll and handle_event, together with  *)
(* the setters that change the threshold of a running monitor.             *)
(*                                                                         *)
(* poll drains the channel, handles one message at a time, closes a rate   *)
(* sample when a second has passed and returns the outputs of the batch.   *)
(* Nothing else touches the monitor while it runs (poll takes &mut self),  *)
(* but time passes between two messages of a batch: Instant::now() is read *)
(* for every open.  The channel itself is the business of PerfReader; here *)
(* the next message is any message.                                        *)
(*                                                                         *)
(* HashMaps are total functions with a default value; the keys that matter *)
(* (those of stats) are the set tracked.  comm, uid, ts and argv label     *)
(* records and take part in no decision: they are left out.                *)
(***************************************************************************)
EXTENDS Integers, Sequences, FiniteSets, Functions

CONSTANTS
  Pids,         (* process ids seen in events                              *)
  NoPpid,       (* read_ppid_from_proc could not read /proc/<pid>/status   *)
  PpidReads,    (* what read_ppid_from_proc may return, NoPpid included    *)
  Files,        (* paths carried by events                                 *)
  Exts,         (* non-empty file extensions                               *)
  NoExt,        (* extract_extension returned the empty string             *)
  ExtOf,        (* extract_extension, as a function of the path            *)
  NoFile,       (* the event carries no path                               *)
  Kinds,        (* the event kinds of the instance                         *)
  Thresholds,   (* values of the alert threshold                           *)
  Second,       (* clock ticks in WINDOW_SECS = 1 s, also the rate period  *)
  HistoryCap,   (* samples kept in rate_history (120 in the code)          *)
  MaxTime,      (* bound on the clock                                      *)
  MaxEvents,    (* bound on the events handled                             *)
  MaxLost       (* bound on the lost-event count                           *)

ExecKinds == {"Exec", "Connect", "Accept", "SendTo", "RecvFrom"}
FsKinds   == {"Mkdir", "Unlink", "Chmod", "Kill"}

ASSUME PidAssumption == /\ IsFiniteSet(Pids)
                        /\ NoPpid \in PpidReads
ASSUME DataAssumption == /\ ExtOf \in [Files -> Exts \cup {NoExt}]
                         /\ NoExt \notin Exts
                         /\ NoFile \notin Files
                         /\ Kinds \subseteq ExecKinds \cup FsKinds \cup {"Open"}
ASSUME NumberAssumption == /\ Thresholds \subseteq Nat
                           /\ Second \in Nat \ {0}
                           /\ HistoryCap \in Nat \ {0}
                           /\ MaxTime \in Nat
                           /\ MaxEvents \in Nat
                           /\ MaxLost \in Nat

VARIABLES
  now,          (* Instant::now()                                          *)
  polling,      (* poll is draining the channel                            *)
  threshold,    (* Monitor.threshold                                       *)
  auto_kill,    (* Monitor.auto_kill, set by start                         *)
  tracked,      (* keys of Monitor.stats                                   *)
  stats,        (* Monitor.stats                                           *)
  windows,      (* Monitor.windows: times of the recent opens of a pid     *)
  pid_to_ppid,  (* Monitor.pid_to_ppid, NoPpid when vacant                 *)
  file_counts,  (* Monitor.file_counts                                     *)
  ext_counts,   (* Monitor.ext_counts                                      *)
  rate_history, (* Monitor.rate_history                                    *)
  tick,         (* tick_execs, tick_opens, tick_alerts                     *)
  tick_start,   (* Monitor.tick_start                                      *)
  total,        (* total_events, total_lost                                *)
  outputs       (* the Vec<Output> poll is building                        *)

(* History variables: what the properties are stated against. *)
VARIABLES
  opened,       (* every open of a pid, by the time it was handled         *)
  alerted,      (* an alert was raised since the pid was last below        *)
  delivered,    (* outputs already returned, by type and pid               *)
  rotated       (* sum of the samples dropped from rate_history            *)

core  == <<tracked, stats, windows, pid_to_ppid, file_counts, ext_counts>>
rates == <<rate_history, tick, tick_start, rotated>>
vars  == <<now, polling, threshold, auto_kill, tracked, stats, windows,
           pid_to_ppid, file_counts, ext_counts, rate_history, tick,
           tick_start, total, outputs, opened, alerted, delivered, rotated>>

-----------------------------------------------------------------------------

(* RecordedEvent, as to_recorded builds it: an open and the path-changing  *)
(* calls carry a path, execve and kill none; the address of a network call *)
(* is never looked at by handle_event.                                     *)
Event == { e \in [kind : Kinds, pid : Pids, file : Files \cup {NoFile}] :
             (e.file = NoFile) <=> (e.kind \in ExecKinds \cup {"Kill"}) }

OutputTypes == {"Alert", "Action", "Event"}
Output(type, pid) == [type |-> type, pid |-> pid]

ProcStats == [ppid : PpidReads, total_execs : Nat, total_opens : Nat,
              window_opens : Nat, alerts : Nat, extensions : [Exts -> Nat]]

DefaultStats == [ppid |-> NoPpid, total_execs |-> 0, total_opens |-> 0,
                 window_opens |-> 0, alerts |-> 0,
                 extensions |-> [x \in Exts |-> 0]]

Sample     == [execs : Nat, opens : Nat, alerts : Nat]
ZeroSample == [execs |-> 0, opens |-> 0, alerts |-> 0]
AddSamples(a, b) == [execs  |-> a.execs + b.execs,
                     opens  |-> a.opens + b.opens,
                     alerts |-> a.alerts + b.alerts]

(* The entries left by: while front < cutoff { pop_front }. *)
FirstKept(w, cutoff) ==
  CHOOSE k \in 1 .. Len(w) + 1 :
    /\ \A i \in 1 .. k - 1 : w[i] < cutoff
    /\ k \in 1 .. Len(w) => w[k] >= cutoff

EvictLate(w, cutoff) == SubSeq(w, FirstKept(w, cutoff - 1), Len(w))
EvictOne(w, cutoff) ==
  IF w # <<>> /\ w[1] < cutoff THEN Tail(w) ELSE w
Evict(w, cutoff) == SubSeq(w, FirstKept(w, cutoff), Len(w))

(* The alert trigger: the window has just reached the threshold. *)
RaisesAtOrAbove(n) == threshold > 0 /\ n >= threshold
RaisesAbove(n) == threshold > 0 /\ n = threshold + 1
Raises(n) == threshold > 0 /\ n = threshold

-----------------------------------------------------------------------------

(* What one event adds to outputs: the alert, the response, then always    *)
(* the event.                                                              *)
Emit(ev, raised) ==
  (IF raised THEN <<Output("Alert", ev.pid)>> ELSE <<>>)
    \o (IF raised /\ auto_kill THEN <<Output("Action", ev.pid)>> ELSE <<>>)
    \o <<Output("Event", ev.pid)>>

(* The statistics of ev.pid once its parent has been looked up: the lookup *)
(* is made on every event until it succeeds once, then never again.        *)
Resolved(ev, read) ==
  LET s == stats[ev.pid]
  IN  IF pid_to_ppid[ev.pid] = NoPpid /\ read # NoPpid
      THEN [s EXCEPT !.ppid = read]
      ELSE s

(* Kind::Exec and the network kinds. *)
CountExec(ev, read) ==
  /\ ev.kind \in ExecKinds
  /\ stats' = [stats EXCEPT ![ev.pid] = [Resolved(ev, read) EXCEPT !.total_execs = @ + 1]]
  /\ tick' = [tick EXCEPT !.execs = @ + 1]
  /\ outputs' = outputs \o Emit(ev, FALSE)
  /\ UNCHANGED <<windows, file_counts, ext_counts, opened, alerted>>

(* Kind::Open: extension and path counters, the window of the pid, and the *)
(* verdict.  The process is killed at once (kill_process); whether the     *)
(* signal was delivered only shows in the Action's success flag.           *)
CountOpen(ev, read) ==
  LET p      == ev.pid
      ext    == ExtOf[ev.file]
      window == Append(Evict(windows[p], now - Second), now)
      n      == Len(window)
      raised == Raises(n)
      s      == Resolved(ev, read)
  IN
  /\ ev.kind = "Open"
  /\ windows' = [windows EXCEPT ![p] = window]
  /\ stats' = [stats EXCEPT ![p] =
       [s EXCEPT !.total_opens  = @ + 1,
                 !.window_opens = n,
                 !.alerts       = @ + (IF raised THEN 1 ELSE 0),
                 !.extensions   = [x \in Exts |-> @[x] + (IF x = ext THEN 1 ELSE 0)]]]
  /\ file_counts' = [file_counts EXCEPT ![ev.file] = @ + 1]
  /\ ext_counts' = [x \in Exts |-> ext_counts[x] + (IF x = ext THEN 1 ELSE 0)]
  /\ tick' = [tick EXCEPT !.opens  = @ + 1,
                          !.alerts = @ + (IF raised THEN 1 ELSE 0)]
  /\ outputs' = outputs \o Emit(ev, raised)
  /\ opened' = [opened EXCEPT ![p] = Append(@, now)]
  /\ alerted' = [alerted EXCEPT ![p] = raised \/ (@ /\ n >= threshold)]

(* Kind::Mkdir, Unlink, Kill and Chmod: only the path and the open rate. *)
CountFs(ev, read) ==
  /\ ev.kind \in FsKinds
  /\ stats' = [stats EXCEPT ![ev.pid] = Resolved(ev, read)]
  /\ file_counts' = IF ev.file = NoFile
                    THEN file_counts
                    ELSE [file_counts EXCEPT ![ev.file] = @ + 1]
  /\ tick' = [tick EXCEPT !.opens = @ + 1]
  /\ outputs' = outputs \o Emit(ev, FALSE)
  /\ UNCHANGED <<windows, ext_counts, opened, alerted>>

(* Msg::Event in poll, with handle_event. *)
HandleEvent(ev, read) ==
  /\ polling
  /\ total' = [total EXCEPT !.events = @ + 1]
  /\ tracked' = tracked \cup {ev.pid}
  /\ pid_to_ppid' = [pid_to_ppid EXCEPT ![ev.pid] = IF @ = NoPpid THEN read ELSE @]
  /\ CountExec(ev, read) \/ CountOpen(ev, read) \/ CountFs(ev, read)
  /\ UNCHANGED <<now, polling, threshold, auto_kill, rate_history,
                 tick_start, delivered, rotated>>

HandleLostIgnored(n) ==
  /\ polling /\ n \in Nat
  /\ UNCHANGED <<now, polling, threshold, auto_kill, core, rates, total, outputs,
                 opened, alerted, delivered>>

(* Msg::Lost(n) in poll. *)
HandleLost(n) ==
  /\ polling
  /\ total' = [total EXCEPT !.lost = @ + n]
  /\ UNCHANGED <<now, polling, threshold, auto_kill, core, rates, outputs,
                 opened, alerted, delivered>>

BeginPoll ==
  /\ ~ polling
  /\ polling' = TRUE
  /\ UNCHANGED <<now, threshold, auto_kill, core, rates, total, outputs,
                 opened, alerted, delivered>>

PushSampleKeepTick ==
  LET history == Append(rate_history, tick)
      full    == Len(history) > HistoryCap
  IN
  /\ rate_history' = IF full THEN Tail(history) ELSE history
  /\ rotated' = IF full THEN AddSamples(rotated, Head(history)) ELSE rotated
  /\ tick' = [ZeroSample EXCEPT !.alerts = tick.alerts]
  /\ tick_start' = now

(* The rate sample at the end of poll: pushed, and the oldest one popped   *)
(* when there are more than HistoryCap; the tick counters restart.         *)
PushSample ==
  LET history == Append(rate_history, tick)
      full    == Len(history) > HistoryCap
  IN
  /\ rate_history' = IF full THEN Tail(history) ELSE history
  /\ rotated' = IF full THEN AddSamples(rotated, Head(history)) ELSE rotated
  /\ tick' = ZeroSample
  /\ tick_start' = now

CountOutputs(type, pid) ==
  Cardinality({i \in DOMAIN outputs : outputs[i] = Output(type, pid)})

(* The channel is found empty: poll closes the sample if a second has      *)
(* passed and returns the batch.                                           *)
EndPoll ==
  /\ polling
  /\ polling' = FALSE
  /\ IF now - tick_start >= Second THEN PushSample ELSE UNCHANGED rates
  /\ outputs' = <<>>
  /\ delivered' = [t \in OutputTypes |-> [p \in Pids |->
                     delivered[t][p] + CountOutputs(t, p)]]
  /\ UNCHANGED <<now, threshold, auto_kill, core, total, opened, alerted>>

(* talus_monitor_set_threshold and POST /api/v1/threshold: between two     *)
(* polls, since both need the monitor exclusively.                         *)
SetThreshold(t) ==
  /\ ~ polling
  /\ threshold' = t
  /\ UNCHANGED <<now, polling, auto_kill, core, rates, total, outputs,
                 opened, alerted, delivered>>

(* Time passes at any moment, within a batch too. *)
Tick ==
  /\ now < MaxTime
  /\ now' = now + 1
  /\ UNCHANGED <<polling, threshold, auto_kill, core, rates, total, outputs,
                 opened, alerted, delivered>>

-----------------------------------------------------------------------------

(* Monitor::start; the threshold and auto_kill come from the command line. *)
Init ==
  /\ now = 0
  /\ polling = FALSE
  /\ threshold \in Thresholds
  /\ auto_kill \in BOOLEAN
  /\ tracked = {}
  /\ stats = [p \in Pids |-> DefaultStats]
  /\ windows = [p \in Pids |-> <<>>]
  /\ pid_to_ppid = [p \in Pids |-> NoPpid]
  /\ file_counts = [f \in Files |-> 0]
  /\ ext_counts = [x \in Exts |-> 0]
  /\ rate_history = <<>>
  /\ tick = ZeroSample
  /\ tick_start = 0
  /\ total = [events |-> 0, lost |-> 0]
  /\ outputs = <<>>
  /\ opened = [p \in Pids |-> <<>>]
  /\ alerted = [p \in Pids |-> FALSE]
  /\ delivered = [t \in OutputTypes |-> [p \in Pids |-> 0]]
  /\ rotated = ZeroSample

ReceiveEvent ==
  /\ total.events < MaxEvents
  /\ \E ev \in Event, read \in PpidReads : HandleEvent(ev, read)

ReceiveLost == \E n \in 1 .. MaxLost - total.lost : HandleLost(n)

Poll == BeginPoll \/ ReceiveEvent \/ ReceiveLost \/ EndPoll

(* A monitor whose threshold is the one it was started with. *)
NextFixed == Poll \/ Tick

Next == NextFixed \/ \E t \in Thresholds : SetThreshold(t)

SpecFixed == Init /\ [][NextFixed]_vars
Spec      == Init /\ [][Next]_vars

-----------------------------------------------------------------------------

TypeOK ==
  /\ now \in Nat
  /\ polling \in BOOLEAN
  /\ threshold \in Thresholds
  /\ auto_kill \in BOOLEAN
  /\ tracked \subseteq Pids
  /\ stats \in [Pids -> ProcStats]
  /\ windows \in [Pids -> Seq(Nat)]
  /\ pid_to_ppid \in [Pids -> PpidReads]
  /\ file_counts \in [Files -> Nat]
  /\ ext_counts \in [Exts -> Nat]
  /\ rate_history \in Seq(Sample)
  /\ Len(rate_history) <= HistoryCap
  /\ tick \in Sample
  /\ tick_start \in 0 .. now
  /\ total \in [events : Nat, lost : Nat]
  /\ outputs \in Seq([type : OutputTypes, pid : Pids])
  /\ opened \in [Pids -> Seq(Nat)]
  /\ alerted \in [Pids -> BOOLEAN]
  /\ delivered \in [OutputTypes -> [Pids -> Nat]]
  /\ rotated \in Sample

(* The window of a pid is exactly the opens of the last second, as seen    *)
(* from the pid's latest open: nothing younger was evicted, nothing older  *)
(* was kept, and stats.window_opens counts it (the eviction loop and       *)
(* push_back of handle_event, which stops at the first recent entry).      *)
WindowExact ==
  \A p \in Pids :
    LET all  == opened[p]
        last == all[Len(all)]
        old  == Len(all) - Len(windows[p])
    IN  /\ stats[p].window_opens = Len(windows[p])
        /\ stats[p].total_opens = Len(all)
        /\ old >= 0
        /\ \A i \in 1 .. Len(all) :
             IF i <= old
             THEN all[i] < last - Second
             ELSE all[i] >= last - Second /\ windows[p][i - old] = all[i]

(* The opens of s still in the one-second window that ends at time t. *)
InWindow(s, t) == Cardinality({i \in DOMAIN s : s[i] >= t - Second})

(* An open raises an alert exactly when it takes the pid's true one-second *)
(* window from below the threshold to the threshold or above: once per     *)
(* crossing, never while the rate stays above, whatever expired between    *)
(* two opens and however the threshold was changed at run time.            *)
AlertIffCrossing ==
  [][\A p \in Pids : opened'[p] # opened[p] =>
       ( stats'[p].alerts = stats[p].alerts + 1
           <=> /\ threshold > 0
               /\ InWindow(opened[p], now) < threshold
               /\ InWindow(opened'[p], now) >= threshold )]_vars

(* With a threshold nobody changes, a pid whose window holds the threshold *)
(* or more has had its alert: the equality test cannot be jumped over, for *)
(* a window grows by one entry at a time however many it loses.            *)
EveryBurstAlerted ==
  \A p \in Pids :
    threshold > 0 /\ stats[p].window_opens >= threshold => alerted[p]

(* Everything counted in a field of the samples: those still in            *)
(* rate_history, those rotated out, and the running tick.                  *)
Sampled(field) ==
  rotated[field] + tick[field]
    + SumFunction([i \in DOMAIN rate_history |-> rate_history[i][field]])

SumStats(field) == SumFunction([p \in Pids |-> stats[p][field]])

(* The incremental counters never drift apart: the rate samples add up to  *)
(* the per-process statistics and to total_events (each event is counted   *)
(* in one tick exactly once), and the global extension table is the sum of *)
(* the per-process ones.  And what consumers are told agrees: one Alert    *)
(* per counted alert, one Action per alert when auto_kill is on, one Event *)
(* per event; and in a batch an alert comes first, then the response to    *)
(* it, then the open that caused it.                                       *)
CountersAgree ==
  LET told(t, p) == delivered[t][p] + CountOutputs(t, p)
      k == IF auto_kill THEN 1 ELSE 0
  IN
  /\ Sampled("execs") = SumStats("total_execs")
  /\ Sampled("alerts") = SumStats("alerts")
  /\ Sampled("execs") + Sampled("opens") = total.events
  /\ \A x \in Exts :
       ext_counts[x] = SumFunction([p \in Pids |-> stats[p].extensions[x]])
  /\ total.events = SumFunction([p \in Pids |-> told("Event", p)])
  /\ \A p \in Pids : /\ told("Alert", p) = stats[p].alerts
                      /\ told("Action", p) = k * stats[p].alerts
  /\ \A i \in DOMAIN outputs : outputs[i].type = "Alert" =>
       /\ i + k + 1 \in DOMAIN outputs
       /\ outputs[i + k + 1] = Output("Event", outputs[i].pid)
       /\ auto_kill => outputs[i + 1] = Output("Action", outputs[i].pid)

=============================================================================
