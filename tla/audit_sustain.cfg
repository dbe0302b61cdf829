SPECIFICATION ASpec
CONSTANTS
  Users = {u1}
  ExcludedUsers = {}
  Workers = {w1}
  IPs = {a}
  ExcludedIPs = {}
  Countries = {}
  MinCountries = 2
  Sustain = 2
  TriggerPeriod = 4
  TriggerCount = 2
  TriggerMinInterval = 1
  BanlistThreshold = 2
  PermanentBanEnabled = FALSE
  Durations <- TwoDurations
  BanDuration = "permanent"
  Ladder <- NoLadder
  RowLimit = 1
  Faults <- NoFault
  PromptRedis = TRUE
  SourceWindow = 2
  MaxTime = 6
  MaxResends = 0
  MaxRestarts = 0
PROPERTY TriggersAreSustained
