SPECIFICATION Spec
CONSTANTS
  Workers = {w1, w2}
  i1 = i1
  i2 = i2
  IPs <- Addresses
  NetOf <- Nets
  MobileNetOf <- MobileNets
  Excluded = {i2}
  Limit = 1
  TTL = 3
  Cooldown = 1
  ClearDelay = 1
  SourceWindow = 3
  HeuristicsWindow = 2
  Required = "violator"
  MaxLag = 1
  MaxFaults = 1
INVARIANTS TypeOK StaleEvidenceBounded OffenderBlockedInTime
SYMMETRY Interchangeable
