SPECIFICATION Spec
CONSTANTS
  u1 = u1
  u2 = u2
  k1 = k1
  r1 = r1
  r2 = r2
  default = default
  default2 = default2
  a = a
  Meta = Meta
  Lost = Lost
  None = None
  Users = {u1}
  Keys = {k1}
  Requests = {r1}
  Slugs = {default, a}
  Default = default
  Variants <- MCTwoVariants
  MaxProjects = 2
  MaxIds = 2
  MaxOrphans = 0
  AdoptionMap = {}

INVARIANT AccountDeletionComplete
CHECK_DEADLOCK FALSE
