\* A dashboard with two programs, one of them noisy, limits of one and two
\* lines, any keys; three signals at any moment; three children of the shell.
SPECIFICATION MCSpec
CONSTANTS
  Comms = {"vim", "waybar"}
  Noisy = {"waybar"}
  Limits <- MCLimits
  Window = 2
  Every = 2
  Samples <- MCSamples
  MaxOutputs = 3
  MaxBatch = 2
  MaxChannel = 2
  MaxTime = 3
  Signals = {"INT", "TERM"}
  NoSignal = NoSignal
  MaxSignals = 3
  MaxChildren = 3
INVARIANTS SuppressedForCause NothingLost OrderlyEnd StatusTrue
PROPERTIES QuitReturns SignalEndsIt EndNoticed
\* Parts that have ended do nothing more.
CHECK_DEADLOCK FALSE
