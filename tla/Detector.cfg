\* Every kind of event on two processes, and windows of one over some time.
SPECIFICATION MCSpec
CONSTANTS
  p1 = p1
  p2 = p2
  f1 = f1
  f2 = f2
  x1 = x1
  NoPpid = NoPpid
  NoExt = NoExt
  NoFile = NoFile
  Pids = {p1, p2}
  PpidReads = {NoPpid, p1}
  Files = {f1, f2}
  Exts = {x1}
  ExtOf <- MCExtOf
  Kinds = {"Connect", "Open", "Mkdir", "Kill"}
  Thresholds = {0, 2, 3}
  Second = 1
  HistoryCap = 1
  MaxTime = 3
  MaxEvents = 5
  MaxLost = 1
INVARIANTS WindowExact CountersAgree
PROPERTIES AlertIffCrossing
