\* Agents that keep up and agents that are late, losses and reused pids.
SPECIFICATION MCSpec
CONSTANTS
  p1 = p1
  f1 = f1
  NoPpid = NoPpid
  NoExt = NoExt
  NoFile = NoFile
  Pids = {p1}
  PpidReads = {NoPpid}
  Files = {f1}
  Exts = {}
  ExtOf <- MCExtOf
  Kinds = {"Open"}
  Thresholds = {2, 3}
  Second = 1
  HistoryCap = 1
  MaxTime = 2
  MaxEvents = 9
  MaxLost = 9
  NumCpus = 1
  RingCap = 2
  MaxRecords = 4
  MaxLives = 2
INVARIANTS CountsEndToEnd BurstsAlerted EveryBurstAlerted
PROPERTIES AlertsReal EventuallyQuiet
