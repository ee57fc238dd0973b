SPECIFICATION Spec
CONSTANTS
  r1 = r1
  r2 = r2
  c1 = c1
  c2 = c2
  c3 = c3
  meta = meta
  proj = proj
  w1 = w1
  w2 = w2
  w3 = w3
  None = None
  Requests <- MCRequests
  Conns <- MCConns
  Paths <- MCPaths
  Writes <- MCWrites
  Dest <- MCDest
  Scripted <- MCScripted
  MaxIdle = 2
CONSTRAINT Focus
SYMMETRY Symmetry
INVARIANTS
  TypeOK
  CheckedOutOnce
PROPERTIES
  StatementsAtomic
