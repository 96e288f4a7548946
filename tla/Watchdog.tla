------------------------------ MODULE Watchdog ------------------------------
(***************************************************************************)
(* The watchdog thread (process-monitor/src/watchdog.rs) and the reader    *)
(* thread it listens to.  The reader signals a heartbeat after every round *)
(* in which it found a record, so only while there is traffic; the         *)
(* watchdog wakes every WATCHDOG_TIMEOUT, compares HEARTBEAT with the      *)
(* value of last time, and sets or clears ALARM.                           *)
(*                                                                         *)
(* The two share two atomics and no lock: the reader may signal between    *)
(* the watchdog's load and its verdict.  A thread that sleeps wakes no     *)
(* earlier than asked and at most Slack later.                             *)
(***************************************************************************)
EXTENDS Integers

CONSTANTS
  Timeout,      (* WATCHDOG_TIMEOUT, in seconds                            *)
  Slack,        (* how much longer a sleep may take                        *)
  MaxTime,      (* bound on the clock                                      *)
  MaxBeats      (* bound on the heartbeats                                 *)

ASSUME TimeAssumption ==
  /\ Timeout \in Nat \ {0}
  /\ {Slack, MaxTime, MaxBeats} \subseteq Nat

VARIABLES
  now,            (* the clock, in seconds                                 *)
  up,             (* the agent process exists                              *)
  reading,        (* the reader goes round; FALSE: it is stuck in a round  *)
  traffic,        (* there are records for it to read                      *)
  HEARTBEAT,      (* heartbeats signalled                                  *)
  ALARM,          (* the alarm flag                                        *)
  at,             (* the watchdog thread: asleep, or judging               *)
  current,        (* its local variables                                   *)
  elapsed,
  last_heartbeat,
  last_check,
  due,            (* the earliest end of its sleep                         *)
  last_beat,      (* history: when the last heartbeat was                  *)
  first_beat,     (* history: the first one since a load without alarm, or -1 *)
  quiet           (* history: at the load, the time since the last one     *)

thread        == <<at, current, elapsed, last_heartbeat, last_check, due>>
watchdog_vars == <<now, up, reading, traffic, HEARTBEAT, ALARM, thread,
                   last_beat, first_beat, quiet>>

None == -1

-----------------------------------------------------------------------------

(* heartbeat(), at the end of a busy round. *)
Beat ==
  /\ up /\ reading /\ traffic
  /\ HEARTBEAT < MaxBeats
  /\ HEARTBEAT' = HEARTBEAT + 1
  /\ last_beat' = now
  /\ first_beat' = IF first_beat = None THEN now ELSE first_beat
  /\ UNCHANGED <<now, up, reading, traffic, ALARM, thread, quiet>>

(* The reader gets stuck, or goes on; records start or stop coming. *)
ReaderChanges ==
  /\ up
  /\ reading' = ~ reading
  /\ UNCHANGED <<now, up, traffic, HEARTBEAT, ALARM, thread, last_beat, first_beat, quiet>>

TrafficChanges ==
  /\ traffic' = ~ traffic
  /\ UNCHANGED <<now, up, reading, HEARTBEAT, ALARM, thread, last_beat, first_beat, quiet>>

(* The process is gone, its threads with it (panic = "abort", a kill). *)
Crash ==
  /\ up
  /\ up' = FALSE
  /\ UNCHANGED <<now, reading, traffic, HEARTBEAT, ALARM, thread, last_beat, first_beat, quiet>>

-----------------------------------------------------------------------------

(* last_check.elapsed(). *)
Elapsed == now - last_check

(* sleep(WATCHDOG_TIMEOUT) returns and HEARTBEAT is loaded. *)
Wake ==
  /\ up
  /\ at = "asleep"
  /\ now >= due
  /\ at' = "judging"
  /\ current' = HEARTBEAT
  /\ elapsed' = Elapsed
  /\ last_check' = now
  /\ first_beat' = IF ALARM THEN first_beat ELSE None
  /\ quiet' = now - last_beat
  /\ UNCHANGED <<now, up, reading, traffic, HEARTBEAT, ALARM, last_heartbeat, due, last_beat>>

SilentLonger  == current = last_heartbeat /\ elapsed > Timeout
SilentByClock == elapsed >= Timeout
Silent        == current = last_heartbeat /\ elapsed >= Timeout

(* The verdict.  The log line and the webhook, sent when the alarm goes    *)
(* from off to on, do not come back into the program.                      *)
Judge ==
  /\ up
  /\ at = "judging"
  /\ ALARM' = Silent
  /\ last_heartbeat' = IF Silent THEN last_heartbeat ELSE current
  /\ at' = "asleep"
  /\ due' = now + Timeout
  /\ UNCHANGED <<now, up, reading, traffic, HEARTBEAT, current, elapsed, last_check,
                 last_beat, first_beat, quiet>>

(* A second passes.  Until the process is gone, the watchdog has judged,   *)
(* or sleeps on within its slack, and a reader that goes round with        *)
(* records to read has ended a round in that second.                       *)
Tick ==
  /\ now < MaxTime
  /\ up => /\ at = "asleep"
           /\ now < due + Slack
           /\ reading /\ traffic => last_beat = now
  /\ now' = now + 1
  /\ UNCHANGED <<up, reading, traffic, HEARTBEAT, ALARM, thread, last_beat, first_beat, quiet>>

WatchdogInit ==
  /\ now = 0
  /\ up = TRUE
  /\ reading = TRUE
  /\ traffic \in BOOLEAN
  /\ HEARTBEAT = 0
  /\ ALARM = FALSE
  /\ at = "asleep"
  /\ current = 0
  /\ elapsed = 0
  /\ last_heartbeat = 0
  /\ last_check = 0
  /\ due = Timeout
  /\ last_beat = 0
  /\ first_beat = None
  /\ quiet = 0

WatchdogNext ==
  \/ Beat
  \/ ReaderChanges
  \/ TrafficChanges
  \/ Crash
  \/ Wake
  \/ Judge
  \/ Tick

WatchdogSpec == WatchdogInit /\ [][WatchdogNext]_watchdog_vars

-----------------------------------------------------------------------------

WatchdogTypeOK ==
  /\ now \in Nat
  /\ up \in BOOLEAN
  /\ reading \in BOOLEAN
  /\ traffic \in BOOLEAN
  /\ HEARTBEAT \in Nat
  /\ ALARM \in BOOLEAN
  /\ at \in {"asleep", "judging"}
  /\ current \in Nat
  /\ elapsed \in Nat
  /\ last_heartbeat \in Nat
  /\ last_check \in Nat
  /\ due \in Nat
  /\ last_beat \in 0 .. now
  /\ first_beat \in Nat \cup {None}
  /\ quiet \in Nat

(* A silence is not missed: the agent being up, no heartbeat for two       *)
(* rounds of the watchdog means the alarm is on.  And it goes off: the     *)
(* alarm does not outlast a heartbeat by more than one round.              *)
StallDetected ==
  up /\ now - last_beat > 2 * (Timeout + Slack) => ALARM

RecoveryNoticed ==
  up /\ ALARM /\ first_beat # None => now - first_beat <= Timeout + Slack

AlarmInTime == StallDetected /\ RecoveryNoticed

(* The alarm goes on only if nothing was heard for a whole Timeout before  *)
(* HEARTBEAT was loaded, whatever the reader does during the verdict.      *)
AlarmMeansSilence ==
  [][~ ALARM /\ ALARM' => quiet >= Timeout]_watchdog_vars

=============================================================================
