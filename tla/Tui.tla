--------------------------------- MODULE Tui ---------------------------------
(***************************************************************************)
(* The terminal dashboard (process-monitor/src/tui.rs).  A thread owns the *)
(* monitor: it polls and sends a snapshot over an unbounded channel when   *)
(* there was something, and at every sixth poll anyway.  The application   *)
(* takes every snapshot waiting at each tick of its clock, unless it is    *)
(* paused, and adds the events to the log, so many a second of each        *)
(* program.  A key or a click is handled between two ticks.                *)
(*                                                                         *)
(* The panels other than the log show the latest snapshot and are left out *)
(* with the drawing, focus, scrolling, collapsing and copying.  So is the  *)
(* arm of update for typing in search mode, which the arm for any key      *)
(* above it shadows: "/" sets search_mode and nothing resets it.  The log  *)
(* itself keeps the last 5000 lines.                                       *)
(***************************************************************************)
EXTENDS Integers, Sequences, FiniteSets, SequencesExt

CONSTANTS
  Comms,
  Noisy,        (* NOISY_COMMS: programs that are not logged               *)
  Limits,       (* rate_limit goes round these (15, 5, 50)                 *)
  Window,       (* rate_window (1 s)                                       *)
  Every,        (* polls between snapshots without events (6)              *)
  Samples,      (* the outputs of the instance                             *)
  MaxOutputs,   (* bound on the outputs of the core                        *)
  MaxBatch,     (* bound on the outputs of one poll                        *)
  MaxChannel,   (* bound on the snapshots waiting                          *)
  MaxTime       (* bound on the clock                                      *)

ASSUME TuiAssumption ==
  /\ Noisy \subseteq Comms
  /\ Limits \in Seq(Nat \ {0}) /\ Limits # <<>>
  /\ {Window, Every} \subseteq Nat \ {0}
  /\ Samples \subseteq [comm : Comms, is_alert : BOOLEAN]
  /\ {MaxOutputs, MaxBatch, MaxChannel, MaxTime} \subseteq Nat

VARIABLES
  clock,
  evts,          (* every output the core gave, Actions left out            *)
  poll_thread,   (* the poll thread runs                                    *)
  tick,          (* its polls, modulo Every                                 *)
  channel,       (* snapshots sent and not received: how far each reaches   *)
  app,           (* "idle", "draining" (in update, at a tick) or "quit"     *)
  snapshot,      (* the last event of the snapshot that is applied          *)
  applied,       (* events applied so far                                   *)
  paused, help,
  rate,          (* index of rate_limit in Limits                           *)
  rate_counters, (* per program: events in the window, and its start        *)
  log,           (* lines logged: event and time                            *)
  suppressed,    (* history: events suppressed, and when                    *)
  alert_count

poll_vars == <<evts, poll_thread, tick>>
ui_vars   == <<paused, help, rate>>
log_vars  == <<rate_counters, log, suppressed, alert_count>>
tui_vars  == <<clock, poll_vars, channel, app, snapshot, applied, ui_vars, log_vars>>

-----------------------------------------------------------------------------

(* Is a snapshot due after a poll that gave n outputs? *)
DueWithEvents(n) == n > 0
Due(n) == n > 0 \/ (tick + 1) % Every = 0

(* The poll thread's loop.  Sending fails once the application has gone.   *)
Poll ==
  /\ poll_thread
  /\ Len(channel) < MaxChannel \/ app = "quit"
  /\ \E n \in 0 .. MaxBatch :
       /\ Len(evts) + n <= MaxOutputs
       /\ \E new \in [1 .. n -> Samples] : evts' = evts \o new
       /\ poll_thread' = ~ (Due(n) /\ app = "quit")
       /\ channel' = IF Due(n) /\ poll_thread' THEN Append(channel, Len(evts')) ELSE channel
  /\ tick' = (tick + 1) % Every
  /\ UNCHANGED <<clock, app, snapshot, applied, ui_vars, log_vars>>

-----------------------------------------------------------------------------

TickDiscarding ==
  /\ app = "idle"
  /\ IF paused THEN channel' = <<>> /\ app' = app
               ELSE channel' = channel /\ app' = "draining"
  /\ UNCHANGED <<clock, poll_vars, snapshot, applied, ui_vars, log_vars>>

(* Msg::Tick *)
Tick ==
  /\ app = "idle" /\ ~ paused
  /\ app' = "draining"
  /\ UNCHANGED <<clock, poll_vars, channel, snapshot, applied, ui_vars, log_vars>>

(* try_recv: the next snapshot, or back to the event loop. *)
Receive ==
  /\ app = "draining" /\ applied = snapshot
  /\ IF channel = <<>>
     THEN app' = "idle" /\ UNCHANGED <<channel, snapshot>>
     ELSE snapshot' = Head(channel) /\ channel' = Tail(channel) /\ app' = app
  /\ UNCHANGED <<clock, poll_vars, applied, ui_vars, log_vars>>

NewWindowOnce(counter) == counter.n = 0
NewWindow(counter)     == counter.n = 0 \/ clock - counter.start >= Window

(* The counter of a program after one more event. *)
CountOne(counter) ==
  IF NewWindow(counter) THEN [n |-> 1, start |-> clock]
                        ELSE [counter EXCEPT !.n = @ + 1]

OverLimit(e, counter) == ~ e.is_alert /\ counter.n > Limits[rate]

(* apply_snapshot, the next event of it.                                   *)
Apply ==
  LET i       == applied + 1
      e       == evts[i]
      counter == IF e.is_alert THEN rate_counters[e.comm] ELSE CountOne(rate_counters[e.comm])
      over    == OverLimit(e, counter)
  IN
  /\ app = "draining" /\ applied < snapshot
  /\ applied' = i
  /\ rate_counters' = [rate_counters EXCEPT ![e.comm] = counter]
  /\ suppressed' = IF over THEN suppressed \cup {[ev |-> i, at |-> clock]} ELSE suppressed
  /\ log' = IF over \/ e.comm \in Noisy THEN log ELSE Append(log, [ev |-> i, at |-> clock])
  /\ alert_count' = alert_count + (IF e.is_alert /\ ~ over THEN 1 ELSE 0)
  /\ UNCHANGED <<clock, poll_vars, channel, app, snapshot, ui_vars>>

-----------------------------------------------------------------------------

(* Msg::Key: while the help is shown, any key only puts it away.           *)
CloseHelp ==
  /\ app = "idle" /\ help
  /\ help' = FALSE
  /\ UNCHANGED <<clock, poll_vars, channel, app, snapshot, applied, paused, rate, log_vars>>

Press == app = "idle" /\ ~ help

(* Ctrl-C, and in the first panel "q" and Escape. *)
Quit ==
  /\ Press
  /\ app' = "quit"
  /\ UNCHANGED <<clock, poll_vars, channel, snapshot, applied, ui_vars, log_vars>>

ShowHelp ==
  /\ Press
  /\ help' = TRUE
  /\ UNCHANGED <<clock, poll_vars, channel, app, snapshot, applied, paused, rate, log_vars>>

Pause ==
  /\ Press
  /\ paused' = ~ paused
  /\ UNCHANGED <<clock, poll_vars, channel, app, snapshot, applied, help, rate, log_vars>>

NextLimit ==
  /\ Press
  /\ rate' = (rate % Len(Limits)) + 1
  /\ UNCHANGED <<clock, poll_vars, channel, app, snapshot, applied, paused, help, log_vars>>

Key == CloseHelp \/ Quit \/ ShowHelp \/ Pause \/ NextLimit

Advance ==
  /\ clock < MaxTime
  /\ clock' = clock + 1
  /\ UNCHANGED <<poll_vars, channel, app, snapshot, applied, ui_vars, log_vars>>

TuiInit ==
  /\ clock = 0
  /\ evts = <<>> /\ poll_thread = TRUE /\ tick = 0
  /\ channel = <<>>
  /\ app = "idle" /\ snapshot = 0 /\ applied = 0
  /\ paused = FALSE /\ help = FALSE /\ rate = 1
  /\ rate_counters = [c \in Comms |-> [n |-> 0, start |-> 0]]
  /\ log = <<>> /\ suppressed = {} /\ alert_count = 0

TuiNext == Poll \/ Tick \/ Receive \/ Apply \/ Key \/ Advance

(* The thread polls every 16 ms; update runs to its end. *)
TuiSpec ==
  /\ TuiInit
  /\ [][TuiNext]_tui_vars
  /\ WF_tui_vars(Poll)
  /\ WF_tui_vars(Tick) /\ WF_tui_vars(Receive \/ Apply)

-----------------------------------------------------------------------------

Lines(c) == {l \in Range(log) : evts[l.ev].comm = c /\ ~ evts[l.ev].is_alert}

(* An event is suppressed only when the log had, within the window before, *)
(* at least the smallest limit of lines of that program.                   *)
SuppressedForCause ==
  \A s \in suppressed :
    LET c    == evts[s.ev].comm
        near == {l \in Lines(c) : s.at - Window < l.at /\ l.at <= s.at /\ l.ev < s.ev}
    IN  c \notin Noisy => \E j \in DOMAIN Limits : Cardinality(near) >= Limits[j]

(* A pause takes nothing away: the snapshots waiting go on where the one   *)
(* being applied ends and reach to the last event, and every event applied *)
(* is a line of the log, in order, or suppressed, or of a noisy program.   *)
(* Alerts are counted, and the limit never suppresses one.                 *)
NothingLost ==
  /\ app # "quit" => LET ends == <<snapshot>> \o channel
                     IN  Last(ends) = Len(evts) /\ \A j \in 1 .. Len(ends) - 1 : ends[j] <= ends[j + 1]
  /\ \A j \in 1 .. Len(log) - 1 : log[j].ev < log[j + 1].ev
  /\ \A i \in 1 .. applied : \/ \E l \in Range(log) : l.ev = i
                             \/ \E s \in suppressed : s.ev = i /\ ~ evts[i].is_alert
                             \/ evts[i].comm \in Noisy
  /\ alert_count = Cardinality({i \in 1 .. applied : evts[i].is_alert})

(* run returns after the user quits: the thread it waits for ends, though  *)
(* nothing more may happen on the machine.                                 *)
QuitReturns == app = "quit" ~> ~ poll_thread

=============================================================================
