\* Signals sent at any moment while the dashboard is running or ending.
SPECIFICATION ProgramSpec
CONSTANTS
  Signals = {"INT", "TERM"}
  NoSignal = NoSignal
  MaxSignals = 3

PROPERTY LockWaitBounded
CHECK_DEADLOCK FALSE
