-------------------------- MODULE MCConnectionPool --------------------------
(* Model-checking instance of ConnectionPool: three statements for the     *)
(* meta database, of which one is sent in a batch that commits by itself,  *)
(* and a project file next to it.                                          *)
EXTENDS ConnectionPool, FiniteSets, TLC

CONSTANTS r1, r2, c1, c2, c3, meta, proj, w1, w2, w3

MCRequests == {r1, r2}
MCConns == {c1, c2, c3}
MCPaths == {meta, proj}
MCWrites == {w1, w2, w3}
MCScripted == {w3}
MCDest == (w1 :> meta) @@ (w2 :> meta) @@ (w3 :> meta)

(* Of the other file one connection at a time is enough, and next to a     *)
(* batch that commits by itself one other connection.                      *)
Focus ==
  /\ Cardinality({c \in Conns : path[c] = proj}) <= 1
  /\ (\E c \in Conns : body[c] = "script") => Cardinality({c \in Conns : path[c] # None}) <= 2

Symmetry == Permutations(MCRequests) \cup Permutations(MCConns)

=============================================================================
