SPECIFICATION FairSpec
CONSTANTS
  IPs = {a, b}
  Clients = {c1, c2}
  TTLs = {3}
  Limit = 1
  Cooldown = 2
  Housekeeping = FALSE
  MaxKeys = 3
  Clearing = TRUE
  LossyReplies = TRUE
INVARIANTS
  SetOutlivesAddresses
PROPERTIES
  Window
  SilentUserForgotten
