------------------------- MODULE MCProjectRegistry -------------------------
(* Model-checking instances of ProjectRegistry.                            *)
EXTENDS ProjectRegistry, TLC

CONSTANTS u1, u2, k1, r1, r2, default, default2, a

MCSlugs == {default, default2, a}

MCVariants == (default :> <<default, default2>>) @@ (a :> <<a>>)
                @@ (default2 :> <<default2, a>>)

MCTwoVariants == (default :> <<default, a>>) @@ (a :> <<a>>)

(* Three rows, and the slug that only the third can take, before anything  *)
(* has been written, opened or issued.  A request, or a key, meets two rows *)
(* and one user at a time, and a key and rows of data never both.          *)
NothingUsed ==
  /\ \A r \in Requests : ctx[r] = None
  /\ \A f \in Ids \cup {Meta} : rows[f] = {}
  /\ \A k \in Keys : binding[k] = None
  /\ \A p \in Ids : file[p] # "unlinked"

TwoRows ==
  /\ next <= 2
  /\ \A p \in Ids : slug[p] # default2
  /\ \E u \in Users : account[u] = "new"
  /\ \/ \A k \in Keys : binding[k] = None
     \/ \A f \in Ids \cup {Meta} : rows[f] = {}

Focus == NothingUsed \/ TwoRows

Symmetry == Permutations(Users) \cup Permutations(Requests)

=============================================================================
