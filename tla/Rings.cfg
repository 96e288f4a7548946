\* Two clients, one of which may stop reading, and a channel of one message;
\* two CPUs, rings of two entries, and a raw ring that keeps two records,
\* polled with room for one or for more.
SPECIFICATION MCSpec
CONSTANTS
  Conns = {c1, c2}
  Readers = {c1}
  Capacity = 1
  Samples = {"Exec", "Open", "OtherEvent", "Alert", "Action"}
  MaxOutputs = 3
  MaxBatch = 2
  NumCpus = 2
  Bodies = {b1}
  RingCap = 2
  MaxRecords = 5
  Size = 3
  Rooms = {1, 3}
INVARIANTS CountsAgree RawAccounted
PROPERTIES IsFeed LockReleased ReachedOrEnded
\* The outputs of the web server run out.
CHECK_DEADLOCK FALSE
