----------------------------- MODULE MCAccounts -----------------------------
(* Model-checking instance of Accounts: two handlers at a time.            *)
EXTENDS Accounts, TLC

CONSTANTS w1, w2, u1, u2, e1, e2, s1, s2, x1, o1, a1

Symmetry ==
  Permutations({w1, w2}) \cup Permutations({u1, u2}) \cup Permutations({e1, e2})
    \cup Permutations({s1, s2})

(* Two sessions at a time while no sign-in through the provider began, or  *)
(* no second user was; and with such a sign-in, a reset token and a second *)
(* user there, one handler at a time.                                      *)
Focus ==
  LET oneUser == \E u \in Users : user[u] = None
      noOAuth == \A x \in States : state[x] = None
      noReset == \A x \in Resets : reset[x] = None
  IN /\ (\E s \in Sessions : session[s] = None) \/ noOAuth \/ oneUser
     /\ noOAuth \/ noReset \/ oneUser \/ (\E w \in Workers : job[w] = Idle)

=============================================================================
