SPECIFICATION Spec
CONSTANTS
  u1 = u1
  u2 = u2
  k1 = k1
  r1 = r1
  r2 = r2
  default = default
  default2 = default2
  a = a
  Meta = Meta
  Lost = Lost
  None = None
  Users = {u1, u2}
  Keys = {k1}
  Requests = {r1}
  Slugs <- MCSlugs
  Default = default
  Variants <- MCVariants
  MaxProjects = 2
  MaxIds = 3
  MaxOrphans = 1
  AdoptionMap = {default}
SYMMETRY Symmetry
CONSTRAINT Focus
INVARIANTS
  TypeOK
  FilesIsolated
  ProjectLimit
  LegacyKeysDieWithProject
  DataKeptWithSlug
PROPERTIES
  ProjectsStayWithOwner
  KeysDieWithProject
CHECK_DEADLOCK FALSE
