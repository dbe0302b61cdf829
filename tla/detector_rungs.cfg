SPECIFICATION FairSpec
CONSTANTS
  Users = {u1, u2}
  ExcludedUsers = {u2}
  Workers = {w1, w2}
  IPs = {a}
  ExcludedIPs = {}
  Countries = {}
  MinCountries = 2
  Sustain = 1
  TriggerPeriod = 2
  TriggerCount = 1
  TriggerMinInterval = 1
  BanlistThreshold = 1
  PermanentBanEnabled = TRUE
  Durations <- TwoDurations
  BanDuration = "permanent"
  Ladder <- LadderTwo
  RowLimit = 1
  Faults <- BrokerAndRestart
  PromptRedis = TRUE
  MaxTime = 6
  MaxResends = 0
  MaxRestarts = 1
PROPERTIES
  RungMatchesHistory
  PendingSettles
