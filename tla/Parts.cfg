\* Two processes that append as they like; four pids, given out four times;
\* a watchdog that wakes every two seconds, or one later.
SPECIFICATION MCSpec
CONSTANTS
  Writers = {w1, w2}
  Bodies = {b1, b2}
  Machines = {m1, m2}
  MaxLines = 5
  MaxAppends = 4
  Pids = {1, 2, 3, 4}
  MaxForks = 4
  Timeout = 2
  Slack = 1
  MaxTime = 9
  MaxBeats = 6
INVARIANTS LinkedUnlessDisturbed VerifyExact TreeExact AlarmInTime
PROPERTIES AlarmMeansSilence
\* The calls run out, and a crashed agent does nothing more.
CHECK_DEADLOCK FALSE
