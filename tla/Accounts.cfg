SPECIFICATION Spec
CONSTANTS
  w1 = w1
  w2 = w2
  u1 = u1
  u2 = u2
  e1 = e1
  e2 = e2
  s1 = s1
  s2 = s2
  x1 = x1
  o1 = o1
  a1 = a1
  MaxRedeemed = 2
  None = None
  Gone = Gone
  Workers = {w1, w2}
  Users = {u1, u2}
  Emails = {e1, e2}
  Sessions = {s1, s2}
  Resets = {x1}
  States = {o1}
  Providers = {a1}
SYMMETRY Symmetry
CHECK_DEADLOCK FALSE
INVARIANTS
  TypeOK
  RowsHaveTheirUser
  LinkedByVerifiedEmail
  RedeemedOnce
  OldSessionsEnd
PROPERTIES
  IdentityStays
CONSTRAINT Focus
