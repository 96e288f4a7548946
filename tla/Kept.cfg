\* Two keys, two fingerprints, half days; two commands of the key tool.
SPECIFICATION MCSpec
CONSTANTS
  dated = dated
  plain = plain
  Keys = {dated, plain}
  TierOf <- MCTierOf
  ExpiryOf <- MCExpiryOf
  AllowsKill <- MCAllowsKill
  Machines = {m1, m2}
  Never = Never
  None = None
  Empty = Empty
  Day = 2
  TrialDays = 1
  GraceDays = 1
  MaxTime = 4
  MaxCommands = 3
  Runs = {r1, r2}
  Ids = {i1, i2}
  Cut = Cut
  MaxKeys = 2
  MaxLicenses = 2
  p1 = p1
  f1 = f1
  a1 = a1
  NoTarget = NoTarget
  Pids = {p1}
  Targets = {f1, a1}
  Samples <- MCSamples
  BatchSize = 2
  QueueCap = 1
  MaxOutputs = 3
  MaxBatch = 2
INVARIANTS RegistryExact KeyKept StoredOnce GraphAgrees TurnComplete
PROPERTIES LicensedMeansGranted KillMeansAllowed EventuallyStored
CHECK_DEADLOCK FALSE
