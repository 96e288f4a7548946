\* Two CPUs, rings of two entries: losses, their records, and destruction.
SPECIFICATION Spec
CONSTANTS
  NumCpus = 2
  Bodies = {b1}
  RingCap = 2
  MaxRecords = 5
INVARIANTS NothingMissing
PROPERTIES TakenInTurn DeliversInOrder BusyReaderBeats
