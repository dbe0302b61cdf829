SPECIFICATION Spec
CONSTANTS
  IPs = {a, b}
  Clients = {c1}
  TTLs = {1, 2}
  Limit = 1
  Cooldown = 1
  Housekeeping = TRUE
  MaxKeys = 2
  Clearing = TRUE
  LossyReplies = TRUE
PROPERTIES
  Window
INVARIANTS
  TypeOK
