\* Two clients, one of which may stop reading; channels of one and polls of two.
SPECIFICATION Spec
CONSTANTS
  Conns = {c1, c2}
  Readers = {c1}
  ChanCap = 1
  PollMax = 2
  Samples = {"Exec", "Alert"}
  MaxOutputs = 3
  MaxBatch = 3
INVARIANTS OnlySlowMiss
PROPERTIES IsFeed NeverHeldUp
CHECK_DEADLOCK FALSE
