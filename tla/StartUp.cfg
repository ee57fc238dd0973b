SPECIFICATION Spec
CONSTANTS
  Meta = Meta
  Proj = Proj
  t1 = t1
  r1 = r1
  r2 = r2
  Server = Server
  Cli = Cli
  Absent = Absent
  None = None
  Last = 2
  Tables = {t1}
  Requests = {r1, r2}
INVARIANTS
  TypeOK
  ServedUpToDate
  AdoptedOnce
  MarkerMeansAdopted
PROPERTIES
  SchemaUpByOne
  ScopedDataWins
  StartEnds
CONSTRAINT Focus
