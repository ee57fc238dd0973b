SPECIFICATION Spec
CONSTANTS
  f1 = f1
  f2 = f2
  j1 = j1
  j2 = j2
  g1 = g1
  g2 = g2
  Slugs = {g1, g2}
  Absent = Absent
  None = None
  Files = {f1, f2}
  Jobs = {j1, j2}
SYMMETRY MCSymmetry
INVARIANTS
  TypeOK
  SavedReadable
  DeleteRecoverable
PROPERTY
  StorageService
