------------------------- MODULE MCPyronitesClient -------------------------
(* Model-checking instances of PyronitesClient.                            *)
EXTENDS PyronitesClient, TLC

CONSTANTS t1, t2, i1, i2, b1, b2

MCMaxCalls == ("remote" :> 2) @@ ("cache" :> 3) @@ ("local" :> 2)

(* One late request at a time, and a table that exists while there is one  *)
(* and from the third call on; the three calls are of one thread.          *)
Focus == /\ \A r, s \in late : r = s
         /\ late # {} \/ calls = 3 => exists
         /\ calls = 3 => call[t2] = None /\ result[t2] = None

=============================================================================
