SPECIFICATION Spec
CONSTANTS
  Users = {u1}
  ExcludedUsers = {}
  Workers = {w1, w2}
  IPs = {a, b}
  ExcludedIPs = {b}
  Countries = {}
  MinCountries = 2
  Sustain = 1
  TriggerPeriod = 3
  TriggerCount = 2
  TriggerMinInterval = 1
  BanlistThreshold = 1
  PermanentBanEnabled = TRUE
  Durations <- TwoDurations
  BanDuration = "permanent"
  Ladder <- NoLadder
  RowLimit = 1
  Faults <- BrokerFault
  PromptRedis = FALSE
  MaxTime = 6
  MaxResends = 0
  MaxRestarts = 0
INVARIANTS
  TypeOK
  TriggerDiscipline
  ViolatorIffConfirmed
  BanlistJustified
PROPERTIES
  Lifecycle
  LeavesBanlistOnlyWhenCleared
