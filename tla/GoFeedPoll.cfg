\* More outputs wait for a poll than it has room for.
SPECIFICATION Spec
CONSTANTS
  Conns = {c1, c2}
  Readers = {c1}
  ChanCap = 1
  PollMax = 2
  Samples = {"Exec", "Alert"}
  MaxOutputs = 3
  MaxBatch = 3
INVARIANT PollReturnsAll
CHECK_DEADLOCK FALSE
