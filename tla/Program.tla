------------------------------ MODULE Program -------------------------------
(***************************************************************************)
(* The runtime under the terminal dashboard: Program::run of the vendored  *)
(* ftui-runtime with the TerminalSession of ftui-core.  The main thread    *)
(* turns the event loop, completes the lifecycle and drops the program; a  *)
(* thread takes the termination signals, records the first one, restores   *)
(* the terminal and waits for the main thread to acknowledge, or ends the  *)
(* process itself.  Both write to the terminal under one lock.             *)
(*                                                                         *)
(* What the application's updates and commands do to its own state is left *)
(* out (Tui): they go on, quit or fail.  So are ticks, resizing, tracing   *)
(* and the persistence of widgets, and the process's other threads: tui.rs *)
(* joins the poll thread before it returns (Tui's QuitReturns).            *)
(***************************************************************************)
EXTENDS Naturals, Sequences, SequencesExt

CONSTANTS
  Signals,        (* SIGINT, SIGTERM, SIGHUP, SIGQUIT                      *)
  NoSignal,
  MaxSignals      (* bound on the signals sent                             *)

ASSUME SignalAssumption == NoSignal \notin Signals /\ MaxSignals \in Nat

VARIABLES
  main,           (* where the main thread is                              *)
  seen,           (* termination_signal                                    *)
  failed,         (* an error was met: primary, of a hook, or of shutdown  *)
  sig,            (* where the signal thread is: "forever", "cleanup",     *)
                  (* "emit", "latch", "grace" or "ended"                   *)
  handled,        (* the signal it handles                                 *)
  flagged, closed,(* signal_hook: signals it will yield; Handle::close     *)
  pending,        (* PENDING_TERMINATION_SIGNAL                            *)
  teardown,       (* EXPLICIT_TEARDOWN_STARTED                             *)
  output,         (* who holds TERMINAL_OUTPUT_LOCK                        *)
  screen,         (* "ui", or "restored" by the last thread that wrote     *)
  exit,           (* how the process ended, and of which signal            *)
  sent,           (* signals sent so far                                   *)
  recorded        (* history: recordings, late if after the last look      *)

main_vars   == <<main, seen, failed>>
thread_vars == <<sig, handled>>
hook_vars   == <<flagged, closed>>
program_vars ==
  <<main_vars, thread_vars, hook_vars, pending, teardown, output, screen, exit, sent, recorded>>

Alive == exit.how = "none"

-----------------------------------------------------------------------------

(* run_event_loop: the places where the signal is looked for, and where    *)
(* the loop goes on without one.  If poll_event found no input the signal  *)
(* is looked for again at once.  A turn whose tick quits is finished, and  *)
(* its frame drawn.                                                        *)
After == [started |-> {"subscribe"}, top |-> {"poll"}, polled |-> {"drain", "drained"},
          drained |-> {"work"}, worked |-> {"tick"}, ticked |-> {"render"},
          quit |-> {"last render"}]

Look ==
  /\ main \in DOMAIN After
  /\ IF pending # NoSignal
     THEN seen' = pending /\ main' = "complete"
     ELSE seen' = seen /\ main' \in After[main]
  /\ UNCHANGED <<failed, thread_vars, hook_vars, pending, teardown, output, screen,
                 exit, sent, recorded>>

(* The work between two looks goes on, quits, or fails: the first command, *)
(* the first subscriptions, before the frame; poll_event; one event of     *)
(* drain_ready_events, which takes events for as long as there are any;    *)
(* messages, results and resizes; the update of a tick.                    *)
Following == [start |-> {"started", "complete"}, subscribe |-> {"render", "complete"},
              poll |-> {"polled"},
              drain |-> {"drain", "drained", "complete"}, work |-> {"worked", "complete"},
              tick |-> {"ticked", "quit"}]

Work ==
  /\ main \in DOMAIN Following
  /\ \/ main' \in Following[main] /\ failed' = failed
     \/ main' = "complete" /\ failed' = TRUE
  /\ UNCHANGED <<seen, thread_vars, hook_vars, pending, teardown, output, screen,
                 exit, sent, recorded>>

(* render_frame, if anything changed: present_ui under the lock. *)
TurnEnds == IF main \in {"render", "present"} THEN "top" ELSE "complete"

Render ==
  /\ main \in {"render", "last render"}
  /\ \/ main' = TurnEnds /\ output' = output
     \/ /\ output = "free" /\ output' = "main"
        /\ main' = IF main = "render" THEN "present" ELSE "last present"
  /\ UNCHANGED <<seen, failed, thread_vars, hook_vars, pending, teardown, screen,
                 exit, sent, recorded>>

Present ==
  /\ main \in {"present", "last present"}
  /\ screen' = "ui"
  /\ output' = "free"
  /\ \/ main' = TurnEnds /\ failed' = failed
     \/ main' = "complete" /\ failed' = TRUE
  /\ UNCHANGED <<seen, thread_vars, hook_vars, pending, teardown, exit, sent, recorded>>

-----------------------------------------------------------------------------

CompleteWithoutLook ==
  /\ main = "complete"
  /\ main' = "shutdown"
  /\ UNCHANGED <<seen, failed, thread_vars, hook_vars, pending, teardown, output, screen,
                 exit, sent, recorded>>

(* complete_lifecycle looks for the last time. *)
Complete ==
  /\ main = "complete"
  /\ main' = "shutdown"
  /\ seen' = IF seen # NoSignal THEN seen ELSE pending
  /\ UNCHANGED <<failed, thread_vars, hook_vars, pending, teardown, output, screen,
                 exit, sent, recorded>>

(* invoke_error_hook and shutdown_once. *)
Shutdown ==
  /\ main = "shutdown"
  /\ main' = "result"
  /\ failed' \in {failed, TRUE}
  /\ UNCHANGED <<seen, thread_vars, hook_vars, pending, teardown, output, screen,
                 exit, sent, recorded>>

(* The signal is acknowledged if it was seen, whatever failed. *)
Result ==
  /\ main = "result"
  /\ main' = "drop"
  /\ pending' = IF seen # NoSignal THEN NoSignal ELSE pending
  /\ UNCHANGED <<seen, failed, thread_vars, hook_vars, teardown, output, screen,
                 exit, sent, recorded>>

(* The program is dropped, the writer first, which restores the cursor. *)
DropWriter ==
  /\ main = "drop" /\ output = "free"
  /\ main' = "cleanup"
  /\ UNCHANGED <<seen, failed, thread_vars, hook_vars, pending, teardown, output, screen,
                 exit, sent, recorded>>

(* TerminalSession::cleanup: latch, lock, SignalGuard::drop, restoration. *)
Latch ==
  /\ main = "cleanup"
  /\ main' = "lock"
  /\ teardown' = TRUE
  /\ UNCHANGED <<seen, failed, thread_vars, hook_vars, pending, output, screen,
                 exit, sent, recorded>>

LockOutput ==
  /\ main = "lock" /\ output = "free"
  /\ main' = "close"
  /\ output' = "main"
  /\ UNCHANGED <<seen, failed, thread_vars, hook_vars, pending, teardown, screen,
                 exit, sent, recorded>>

Close ==
  /\ main = "close"
  /\ main' = "join"
  /\ closed' = TRUE
  /\ UNCHANGED <<seen, failed, thread_vars, flagged, pending, teardown, output, screen,
                 exit, sent, recorded>>

JoinAndRestore ==
  /\ main = "join" /\ sig = "ended"
  /\ main' = "exit"
  /\ screen' = "restored"
  /\ output' = "free"
  /\ UNCHANGED <<seen, failed, thread_vars, hook_vars, pending, teardown,
                 exit, sent, recorded>>

Ending == IF seen # NoSignal THEN "signal" ELSE IF failed THEN "error" ELSE "ok"

(* App::run: exit(128 + signal), or back to tui::run. *)
Exit ==
  /\ main = "exit"
  /\ exit' = [how |-> Ending, signal |-> seen]
  /\ UNCHANGED <<main_vars, thread_vars, hook_vars, pending, teardown, output, screen,
                 sent, recorded>>

MainStep ==
  /\ Alive
  /\ \/ Look \/ Work \/ Render \/ Present \/ Complete \/ Shutdown \/ Result
     \/ DropWriter \/ Latch \/ LockOutput \/ Close \/ JoinAndRestore \/ Exit

-----------------------------------------------------------------------------

(* Until Handle::close a signal is flagged for the thread, once. *)
Send(s) ==
  /\ Alive /\ ~ closed
  /\ sent < MaxSignals
  /\ sent' = sent + 1
  /\ flagged' = flagged \cup {s}
  /\ UNCHANGED <<main_vars, thread_vars, closed, pending, teardown, output, screen,
                 exit, recorded>>

(* Does the main thread look once more before the process ends? *)
LastLookDone == main \in {"shutdown", "result", "drop", "cleanup", "lock", "close",
                          "join", "exit"}

(* signals.forever() yields a signal; the first one pending is recorded. *)
TakeSignal(s) ==
  /\ sig = "forever" /\ ~ closed /\ s \in flagged
  /\ sig' = "cleanup"
  /\ handled' = s
  /\ flagged' = flagged \ {s}
  /\ IF pending = NoSignal
     THEN /\ pending' = s
          /\ recorded' = Append(recorded, [signal |-> s, late |-> LastLookDone])
     ELSE UNCHANGED <<pending, recorded>>
  /\ UNCHANGED <<main_vars, closed, teardown, output, screen, exit, sent>>

(* best_effort_cleanup *)
LockCleanup ==
  /\ sig = "cleanup" /\ output = "free"
  /\ sig' = "emit"
  /\ output' = "signal"
  /\ UNCHANGED <<main_vars, handled, hook_vars, pending, teardown, screen, exit, sent, recorded>>

EmitCleanup ==
  /\ sig = "emit"
  /\ sig' = "latch"
  /\ output' = "free"
  /\ screen' = "restored"
  /\ UNCHANGED <<main_vars, handled, hook_vars, pending, teardown, exit, sent, recorded>>

(* wait_for_shutdown_ack: the latch first, then every 10 ms the signal. *)
ReadLatch ==
  /\ sig = "latch"
  /\ sig' = IF teardown THEN "forever" ELSE "grace"
  /\ UNCHANGED <<main_vars, handled, hook_vars, pending, teardown, output, screen,
                 exit, sent, recorded>>

Acknowledged ==
  /\ sig = "grace" /\ pending = NoSignal
  /\ sig' = "forever"
  /\ UNCHANGED <<main_vars, handled, hook_vars, pending, teardown, output, screen,
                 exit, sent, recorded>>

(* The grace period is over: two seconds, which the main thread spends     *)
(* only on input that does not stop, or in waiting for this thread.        *)
NeverGivesUp == FALSE
GiveUp ==
  /\ sig = "grace" /\ pending # NoSignal
  /\ main \in {"drain", "join"}
  /\ exit' = [how |-> "forced", signal |-> handled]
  /\ UNCHANGED <<main_vars, thread_vars, hook_vars, pending, teardown, output, screen,
                 sent, recorded>>

EndThread ==
  /\ sig = "forever" /\ closed
  /\ sig' = "ended"
  /\ UNCHANGED <<main_vars, handled, hook_vars, pending, teardown, output, screen,
                 exit, sent, recorded>>

SignalStep ==
  /\ Alive
  /\ \/ \E s \in Signals : TakeSignal(s)
     \/ LockCleanup \/ EmitCleanup \/ ReadLatch \/ Acknowledged \/ GiveUp \/ EndThread

ProgramInit ==
  /\ main = "start" /\ seen = NoSignal /\ failed = FALSE
  /\ sig = "forever" /\ handled = NoSignal
  /\ flagged = {} /\ closed = FALSE
  /\ pending = NoSignal /\ teardown = FALSE
  /\ output = "free" /\ screen = "ui"
  /\ exit = [how |-> "none", signal |-> NoSignal]
  /\ sent = 0 /\ recorded = <<>>

ProgramNext == MainStep \/ SignalStep \/ \E s \in Signals : Send(s)

(* Both threads run.  The lock is free while the main thread waits for     *)
(* input, so that the signal thread gets it even if frames are drawn again *)
(* and again.                                                              *)
ProgramFairness ==
  /\ WF_program_vars(MainStep) /\ WF_program_vars(SignalStep)
  /\ SF_program_vars(Alive /\ LockCleanup)

ProgramSpec == ProgramInit /\ [][ProgramNext]_program_vars /\ ProgramFairness

-----------------------------------------------------------------------------

(* However the process ends, the terminal is left restored, though a frame *)
(* may be drawn after the signal thread restored it; and the exit tells of *)
(* the first signal recorded before the last look, whatever failed, then   *)
(* of an error.  The signal thread ends it only if the main thread is held *)
(* up by input, or if the signal came after its last look.                 *)
OrderlyEnd ==
  /\ exit.how = "forced" => main = "drain" \/ Last(recorded).late
  /\ ~ Alive => screen = "restored"
  /\ exit.how \in {"signal", "error", "ok"} =>
       LET in_time == {i \in DOMAIN recorded : ~ recorded[i].late}
       IN  IF in_time # {}
           THEN \E i \in in_time : /\ \A j \in in_time : i <= j
                                   /\ exit = [how |-> "signal", signal |-> recorded[i].signal]
           ELSE exit.how = (IF failed THEN "error" ELSE "ok")

(* The main thread waits for the signal thread, and that one for the lock  *)
(* the main thread holds.                                                  *)
Deadlocked == main = "join" /\ sig = "cleanup"

(* A signal ends the process, even if input keeps the main thread from     *)
(* looking, but for the deadlock.                                          *)
SignalEndsIt == (Alive /\ flagged # {}) ~> (~ Alive \/ Deadlocked)

(* "A signal thread waiting on this lock is bounded by a single flush."    *)
LockWaitBounded == sig = "cleanup" ~> (sig # "cleanup" \/ ~ Alive)

=============================================================================
