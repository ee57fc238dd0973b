SPECIFICATION Spec
CONSTANTS
  Meta = Meta
  proj = proj
  wm = wm
  wp = wp
  m1 = m1
  Scheduled = Scheduled
  Final = Final
  Absent = Absent
  Torn = Torn
  None = None
  Keep = 1
  Projects = {proj}
  Writes = {wm, wp}
  Manual = {m1}
  Dest <- MCDest
INVARIANTS
  TypeOK
  MetaCopyWhole
  SettledSurvives
  CleanStopKeepsAll
PROPERTY WritesReachBucket
CONSTRAINT Focus
