SPECIFICATION Spec
CONSTANTS
  IPs = {a, b}
  Clients = {c1}
  TTLs = {2}
  Limit = 1
  Cooldown = 2
  Housekeeping = TRUE
  MaxKeys = 3
  Clearing = FALSE
  LossyReplies = FALSE
PROPERTIES
  HousekeepingSparesMembers
