SPECIFICATION Spec
CONSTANTS
  Users = {u1}
  ExcludedUsers = {}
  Workers = {w1, w2}
  IPs = {a}
  ExcludedIPs = {}
  Countries = {}
  MinCountries = 2
  Sustain = 1
  TriggerPeriod = 2
  TriggerCount = 1
  TriggerMinInterval = 1
  BanlistThreshold = 1
  PermanentBanEnabled = TRUE
  Durations <- TwoDurations
  BanDuration = "permanent"
  Ladder <- LadderTwo
  RowLimit = 1
  Faults <- EveryFault
  PromptRedis = FALSE
  MaxTime = 4
  MaxResends = 2
  MaxRestarts = 1
INVARIANTS
  OnePublisher
  PermanentBacked
  OverstatedOnlyByResends
SYMMETRY WorkerSymmetry
