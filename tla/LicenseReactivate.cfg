\* A license activated over an earlier one.
SPECIFICATION Spec
CONSTANTS
  dated = dated
  plain = plain
  Keys = {dated, plain}
  TierOf <- MCTierOf
  ExpiryOf <- MCExpiryOf
  AllowsKill <- MCAllowsKill
  Machines = {m1, m2}
  Never = Never
  None = None
  Empty = Empty
  Day = 2
  TrialDays = 1
  GraceDays = 1
  MaxTime = 4
  MaxCommands = 4
PROPERTIES ActivationHelps
