------------------------------ MODULE Accounts ------------------------------
(***************************************************************************)
(* Users, their sessions, password reset, and sign-in through a provider;  *)
(* backend/auth/{users,sessions,password_reset,oauth}.py and the handlers  *)
(* of backend/api/{auth,oauth,system}.py.                                  *)
(*                                                                         *)
(* Every db.execute commits, so a handler is a sequence of transactions,   *)
(* and it may end between any two of them: an error, the process killed.   *)
(* Workers are handlers of server processes on one meta database; a single *)
(* process runs them one after the other.                                  *)
(*                                                                         *)
(* A password is what its user knows it to be; whether a caller gives the  *)
(* right one is the caller's choice.  An expiry is a step of the clock.    *)
(* Projects are left to ProjectRegistry, the rate limit is left out.       *)
(***************************************************************************)
EXTENDS Naturals

CONSTANTS Workers,
          Users, Emails,
          Sessions,      \* rows at a time; a freed row stands for a new token
          Resets,        \* password reset tokens
          States,        \* oauth_states
          Providers,     \* accounts at a provider
          MaxRedeemed,   \* bound: redemptions of one token or state counted
          None, Gone     \* not there yet, not there any more

ASSUME AccountAssumption ==
  /\ None # Gone
  /\ MaxRedeemed \in Nat
  /\ None \notin Users \cup Emails \cup Resets \cup States
  /\ Gone \notin Users
  /\ Resets \cap States = {}

VARIABLES
  user,      \* user[u]: the row of u
  session,   \* session[s]: its user, and whether the password changed since
  reset,     \* reset[x]: a row of password_reset_tokens
  state,     \* state[x]: a row of oauth_states
  identity,  \* identity[a]: the user that provider account a signs in
  job,       \* job[w]: the handler that w runs
  proved,    \* history: proved[a]: emails the provider said a has verified
  redeemed,  \* history: by how many handlers a token or state was consumed
  raced,     \* history: tokens and states that two handlers consumed at a time
  cutOff     \* history: users with a new password and sessions never revoked

history == <<proved, redeemed, raced, cutOff>>

vars == <<user, session, reset, state, identity, job, history>>

UserRow == [email : Emails, active : BOOLEAN, known : BOOLEAN]

(* "old": the password has changed since its handler checked the caller;   *)
(* "late": so it has, and when the row was inserted no revocation was due. *)
SessionRow == [user : Users, age : {"current", "old", "late"}, expired : BOOLEAN]

Phases == {"live", "expired", "used"}

ResetRow == [user : Users, phase : Phases]

ASSUME RowAssumption ==
  {None, Gone} \cap (UserRow \cup SessionRow \cup ResetRow \cup Phases) = {}

(* The step that a handler is at.  `key' is a reset token, an email or a   *)
(* provider account, `stale' that the password changed since its checks.   *)
Idle == [op |-> "idle", at |-> "idle", user |-> None, email |-> None,
         key |-> None, stale |-> FALSE]

Jobs == [op : {"idle", "signup", "login", "callback", "forgot", "reset", "delete"},
         at : {"idle", "insert", "session", "burn", "profile", "email", "link",
               "token", "password", "revoke", "user"},
         user : Users \cup {None}, email : Emails \cup {None},
         key : Resets \cup States \cup Providers \cup {None}, stale : BOOLEAN]

(* Which user and key a handler knows at which step.                       *)
TypeOK ==
  /\ user \in [Users -> UserRow \cup {None, Gone}]
  /\ session \in [Sessions -> SessionRow \cup {None}]
  /\ reset \in [Resets -> ResetRow \cup {None, Gone}]
  /\ state \in [States -> Phases \cup {None, Gone}]
  /\ identity \in [Providers -> Users \cup {None}]
  /\ job \in [Workers -> Jobs]
  /\ proved \in [Providers -> SUBSET Emails]
  /\ redeemed \in [Resets \cup States -> 0 .. MaxRedeemed]
  /\ raced \in SUBSET (Resets \cup States)
  /\ cutOff \in SUBSET Users
  /\ \A w \in Workers :
       /\ job[w].at \in {"session", "link", "token", "password", "revoke", "user"}
            => job[w].user \in Users /\ user[job[w].user] # None
       /\ job[w].at \in {"email", "link"} => job[w].key \in Providers
       /\ job[w].at \in {"insert", "email", "link"} => job[w].email \in Emails

Init ==
  /\ user = [u \in Users |-> None]
  /\ session = [s \in Sessions |-> None]
  /\ reset = [x \in Resets |-> None]
  /\ state = [x \in States |-> None]
  /\ identity = [a \in Providers |-> None]
  /\ job = [w \in Workers |-> Idle]
  /\ proved = [a \in Providers |-> {}]
  /\ redeemed = [x \in Resets \cup States |-> 0]
  /\ raced = {}
  /\ cutOff = {}

Exists(u) == user[u] \notin {None, Gone}

Holders(e) == {u \in Users : Exists(u) /\ user[u].email = e}

Begin(w, j) == job[w] = Idle /\ job' = [job EXCEPT ![w] = j]

At(w, step) == job[w].at = step

GoTo(w, step) == job' = [job EXCEPT ![w].at = step]

End(w) == job' = [job EXCEPT ![w] = Idle]

(* Somebody is to delete the sessions of u, or was and has been cut off.   *)
Revoking(u) == \/ u \in cutOff
               \/ \E w \in Workers : At(w, "revoke") /\ job[w].user = u

(* The SELECT of a consume: w has read the row of x.                       *)
Reads(x) == raced' = IF \E v \in Workers : At(v, "burn") /\ job[v].key = x
                     THEN raced \cup {x} ELSE raced

(* Its UPDATE: the handler takes x for its own.                            *)
Redeems(x) == redeemed' = [redeemed EXCEPT ![x] = IF @ < MaxRedeemed THEN @ + 1 ELSE @]

(* The row of u is deleted, and by the foreign keys what refers to it.     *)
Cascade(u) ==
  /\ user' = [user EXCEPT ![u] = Gone]
  /\ session' = [s \in Sessions |->
                   IF session[s] # None /\ session[s].user = u THEN None ELSE session[s]]
  /\ reset' = [x \in Resets |->
                 IF reset[x] \notin {None, Gone} /\ reset[x].user = u THEN Gone ELSE reset[x]]
  /\ identity' = [a \in Providers |-> IF identity[a] = u THEN None ELSE identity[a]]

-----------------------------------------------------------------------------
(* Sign-up and login.                                                      *)

(* create_user reads first whether the email is taken.                     *)
Signup(w, e) ==
  /\ Holders(e) = {}
  /\ Begin(w, [Idle EXCEPT !.op = "signup", !.at = "insert", !.email = e])
  /\ UNCHANGED <<user, session, reset, state, identity, history>>

(* The new row.  Nobody knows the password of one made by a callback.      *)
AddUser(w) == \E u \in Users :
  /\ user[u] = None
  /\ user' = [user EXCEPT ![u] = [email |-> job[w].email, active |-> TRUE,
                                  known |-> job[w].op = "signup"]]
  /\ job' = [job EXCEPT ![w].user = u,
                        ![w].at = IF job[w].op = "signup" THEN "session" ELSE "link"]

(* Mutant: the email taken, the handler goes on.                           *)
InsertUserGoesOn(w) ==
  /\ At(w, "insert")
  /\ IF Holders(job[w].email) = {} THEN AddUser(w)
     ELSE GoTo(w, "session") /\ UNCHANGED user
  /\ UNCHANGED <<session, reset, state, identity, history>>

(* The INSERT; UserAlreadyExistsError when somebody took the email since.  *)
InsertUser(w) ==
  /\ At(w, "insert")
  /\ IF Holders(job[w].email) = {} THEN AddUser(w)
     ELSE End(w) /\ UNCHANGED user
  /\ UNCHANGED <<session, reset, state, identity, history>>

(* authenticate_user with the right password.                              *)
Login(w, u) ==
  /\ Exists(u) /\ user[u].active /\ user[u].known
  /\ Begin(w, [Idle EXCEPT !.op = "login", !.at = "session", !.user = u])
  /\ UNCHANGED <<user, session, reset, state, identity, history>>

AddSession(w) == \E s \in Sessions :
  /\ session[s] = None
  /\ session' = [session EXCEPT ![s] =
       [user |-> job[w].user, expired |-> FALSE,
        age |-> IF ~job[w].stale THEN "current"
                ELSE IF Revoking(job[w].user) THEN "old" ELSE "late"]]

(* Mutant: no foreign key.                                                 *)
OpenSessionAnyway(w) ==
  /\ At(w, "session")
  /\ AddSession(w)
  /\ End(w)
  /\ UNCHANGED <<user, reset, state, identity, history>>

(* create_session: the INSERT fails if the user was deleted meanwhile.     *)
OpenSession(w) ==
  /\ At(w, "session")
  /\ IF Exists(job[w].user) THEN AddSession(w) ELSE UNCHANGED session
  /\ End(w)
  /\ UNCHANGED <<user, reset, state, identity, history>>

(* Logout, remove_session, and validate_session of an expired one.         *)
DropSession(s) ==
  /\ session[s] # None
  /\ session' = [session EXCEPT ![s] = None]
  /\ UNCHANGED <<user, reset, state, identity, job, history>>

-----------------------------------------------------------------------------
(* Sign-in through a provider.                                             *)

(* create_oauth_state deletes the expired rows first.                      *)
StartOAuth(x) ==
  /\ state[x] = None
  /\ state' = [y \in States |-> IF y = x THEN "live"
                                ELSE IF state[y] = "expired" THEN Gone ELSE state[y]]
  /\ UNCHANGED <<user, session, reset, identity, job, history>>

(* consume_oauth_state and consume_reset_token look for a row that is      *)
(* neither used nor expired.                                               *)
Redeemable(phase) == phase = "live"

(* The SELECT of consume_oauth_state.  It commits, so the UPDATE that      *)
(* follows is a transaction of its own.                                    *)
Callback(w, x) ==
  /\ state[x] \notin {None, Gone} /\ Redeemable(state[x])
  /\ Begin(w, [Idle EXCEPT !.op = "callback", !.at = "burn", !.key = x])
  /\ Reads(x)
  /\ UNCHANGED <<user, session, reset, state, identity, proved, redeemed, cutOff>>

(* Mutant: the row is marked when the callback has gone through.           *)
BurnStateLate(w) ==
  /\ At(w, "burn") /\ job[w].op = "callback"
  /\ Redeems(job[w].key)
  /\ GoTo(w, "profile")
  /\ UNCHANGED <<user, session, reset, state, identity, proved, raced, cutOff>>

(* The number of rows it changed is not looked at.                         *)
BurnState(w) ==
  /\ At(w, "burn") /\ job[w].op = "callback"
  /\ state' = [state EXCEPT ![job[w].key] = IF @ \in {"live", "expired"} THEN "used" ELSE @]
  /\ Redeems(job[w].key)
  /\ GoTo(w, "profile")
  /\ UNCHANGED <<user, session, reset, identity, proved, raced, cutOff>>

(* Mutant: an email is taken as it comes.                                  *)
AcceptsAny(email, verified) == email # None

(* An unverified email never links.                                        *)
Accepts(email, verified) == email # None /\ verified

(* The provider answers for its account a; then get_identity.  A linked    *)
(* user signs in whatever the email, unless disabled.                      *)
Profile(w, a, email, verified) ==
  /\ At(w, "profile")
  /\ proved' = [proved EXCEPT ![a] = IF verified THEN @ \cup ({email} \ {None}) ELSE @]
  /\ \/ /\ identity[a] # None
        /\ IF user[identity[a]].active
           THEN job' = [job EXCEPT ![w].at = "session", ![w].user = identity[a], ![w].key = a]
           ELSE End(w)
     \/ /\ identity[a] = None
        /\ IF Accepts(email, verified)
           THEN job' = [job EXCEPT ![w].at = "email", ![w].email = email, ![w].key = a]
           ELSE End(w)
  /\ UNCHANGED <<user, session, reset, state, identity, redeemed, raced, cutOff>>

(* get_user_by_email: link, refuse the disabled, or create.                *)
ByEmail(w) ==
  /\ At(w, "email")
  /\ \/ /\ Holders(job[w].email) = {}
        /\ GoTo(w, "insert")
     \/ \E u \in Holders(job[w].email) :
          IF user[u].active
          THEN job' = [job EXCEPT ![w].at = "link", ![w].user = u]
          ELSE End(w)
  /\ UNCHANGED <<user, session, reset, state, identity, history>>

(* Mutant: INSERT OR REPLACE.                                              *)
LinkReplaces(w) ==
  LET a == job[w].key IN
  /\ At(w, "link")
  /\ Exists(job[w].user)
  /\ identity' = [identity EXCEPT ![a] = job[w].user]
  /\ GoTo(w, "session")
  /\ UNCHANGED <<user, session, reset, state, history>>

(* upsert_identity: a link that somebody made meanwhile is refreshed, or   *)
(* its uniqueness fails the INSERT; a deleted user fails it too.           *)
Link(w) ==
  LET a == job[w].key IN
  /\ At(w, "link")
  /\ \/ /\ identity[a] = None /\ Exists(job[w].user)
        /\ identity' = [identity EXCEPT ![a] = job[w].user]
        /\ GoTo(w, "session")
     \/ /\ identity[a] # None
        /\ GoTo(w, "session")
        /\ UNCHANGED identity
     \/ /\ identity[a] # None \/ ~Exists(job[w].user)
        /\ End(w)
        /\ UNCHANGED identity
  /\ UNCHANGED <<user, session, reset, state, history>>

-----------------------------------------------------------------------------
(* Password reset.                                                         *)

(* create_reset_token first deletes the tokens that were not used.         *)
Forgot(w, u) ==
  /\ Exists(u) /\ user[u].active
  /\ Begin(w, [Idle EXCEPT !.op = "forgot", !.at = "token", !.user = u])
  /\ reset' = [x \in Resets |->
                 IF reset[x] \notin {None, Gone} /\ reset[x].user = u /\ reset[x].phase # "used"
                 THEN Gone ELSE reset[x]]
  /\ UNCHANGED <<user, session, state, identity, history>>

IssueToken(w) ==
  /\ At(w, "token")
  /\ IF Exists(job[w].user)
     THEN \E x \in Resets :
            /\ reset[x] = None
            /\ reset' = [reset EXCEPT ![x] = [user |-> job[w].user, phase |-> "live"]]
     ELSE UNCHANGED reset
  /\ End(w)
  /\ UNCHANGED <<user, session, state, identity, history>>

(* The SELECT of consume_reset_token.                                      *)
Reset(w, x) ==
  /\ reset[x] \notin {None, Gone} /\ Redeemable(reset[x].phase)
  /\ Begin(w, [Idle EXCEPT !.op = "reset", !.at = "burn", !.user = reset[x].user, !.key = x])
  /\ Reads(x)
  /\ UNCHANGED <<user, session, reset, state, identity, proved, redeemed, cutOff>>

(* Its UPDATE, which may find the row deleted.                             *)
BurnToken(w) ==
  LET x == job[w].key IN
  /\ At(w, "burn") /\ job[w].op = "reset"
  /\ reset' = [reset EXCEPT ![x] = IF @ = Gone THEN @ ELSE [@ EXCEPT !.phase = "used"]]
  /\ Redeems(x)
  /\ GoTo(w, "password")
  /\ UNCHANGED <<user, session, state, identity, proved, raced, cutOff>>

(* What a new password makes of the user's sessions.                       *)
Aged(u) == [s \in Sessions |->
  IF session[s] # None /\ session[s].user = u
  THEN [session[s] EXCEPT !.age = "old"] ELSE session[s]]

(* Mutant: the sessions are left to expire.                                *)
SetPasswordOnly(w) ==
  LET u == job[w].user IN
  /\ At(w, "password") /\ Exists(u)
  /\ user' = [user EXCEPT ![u].known = TRUE]
  /\ session' = Aged(u)
  /\ End(w)
  /\ UNCHANGED <<reset, state, identity, history>>

(* set_user_password.                                                      *)
SetPassword(w) ==
  LET u == job[w].user IN
  /\ At(w, "password")
  /\ \/ /\ ~Exists(u)
        /\ End(w)
        /\ UNCHANGED <<user, session>>
     \/ /\ Exists(u)
        /\ user' = [user EXCEPT ![u].known = TRUE]
        /\ session' = Aged(u)
        /\ job' = [v \in Workers |->
             IF v = w THEN [job[v] EXCEPT !.at = "revoke"]
             ELSE [job[v] EXCEPT !.stale = @ \/ (job[v].user = u /\ job[v].at # "idle")]]
  /\ UNCHANGED <<reset, state, identity, history>>

(* revoke_all_sessions_for_user, of a reset or of an account's deletion.   *)
Revoke(w) ==
  LET u == job[w].user IN
  /\ At(w, "revoke")
  /\ session' = [s \in Sessions |->
                   IF session[s] # None /\ session[s].user = u THEN None ELSE session[s]]
  /\ IF job[w].op = "reset" THEN End(w) ELSE GoTo(w, "user")
  /\ cutOff' = cutOff \ {u}
  /\ UNCHANGED <<user, reset, state, identity, proved, redeemed, raced>>

-----------------------------------------------------------------------------
(* Deletion, the administrator, the clock, and errors.                     *)

(* delete_account for the holder of session s, up to its projects.         *)
DeleteAccount(w, s) ==
  /\ session[s] # None /\ ~session[s].expired
  /\ Begin(w, [Idle EXCEPT !.op = "delete", !.at = "revoke", !.user = session[s].user])
  /\ UNCHANGED <<user, session, reset, state, identity, history>>

DeleteUser(w) ==
  /\ At(w, "user")
  /\ IF Exists(job[w].user) THEN Cascade(job[w].user)
     ELSE UNCHANGED <<user, session, reset, identity>>
  /\ End(w)
  /\ UNCHANGED <<state, history>>

RemoveUser(u) ==
  /\ Exists(u)
  /\ Cascade(u)
  /\ UNCHANGED <<state, job, history>>

PatchUser(u) ==
  /\ Exists(u)
  /\ user' = [user EXCEPT ![u].active = ~@]
  /\ UNCHANGED <<session, reset, state, identity, job, history>>

Expire ==
  \/ \E s \in Sessions :
       /\ session[s] # None /\ ~session[s].expired
       /\ session' = [session EXCEPT ![s].expired = TRUE]
       /\ UNCHANGED <<user, reset, state, identity, job, history>>
  \/ \E x \in Resets :
       /\ reset[x] \notin {None, Gone} /\ reset[x].phase = "live"
       /\ reset' = [reset EXCEPT ![x].phase = "expired"]
       /\ UNCHANGED <<user, session, state, identity, job, history>>
  \/ \E x \in States :
       /\ state[x] = "live"
       /\ state' = [state EXCEPT ![x] = "expired"]
       /\ UNCHANGED <<user, session, reset, identity, job, history>>

(* A statement fails, or the process ends: what has been committed stays,  *)
(* the sessions that were to be revoked among it.                          *)
Interrupt(w) ==
  /\ job[w] # Idle
  /\ End(w)
  /\ cutOff' = IF At(w, "revoke") THEN cutOff \cup {job[w].user} ELSE cutOff
  /\ UNCHANGED <<user, session, reset, state, identity, proved, redeemed, raced>>

-----------------------------------------------------------------------------
Steps(w) ==
  \/ InsertUser(w) \/ OpenSession(w) \/ BurnState(w) \/ ByEmail(w) \/ Link(w)
  \/ IssueToken(w) \/ BurnToken(w) \/ SetPassword(w) \/ Revoke(w) \/ DeleteUser(w)
  \/ Interrupt(w)
  \/ \E a \in Providers, email \in Emails \cup {None}, verified \in BOOLEAN :
       Profile(w, a, email, verified)

Calls(w) ==
  \/ \E e \in Emails : Signup(w, e)
  \/ \E u \in Users : Login(w, u) \/ Forgot(w, u)
  \/ \E x \in States : Callback(w, x)
  \/ \E x \in Resets : Reset(w, x)
  \/ \E s \in Sessions : DeleteAccount(w, s)

Next ==
  \/ \E w \in Workers : Calls(w) \/ Steps(w)
  \/ \E s \in Sessions : DropSession(s)
  \/ \E x \in States : StartOAuth(x)
  \/ \E u \in Users : RemoveUser(u) \/ PatchUser(u)
  \/ Expire

Spec == Init /\ [][Next]_vars

-----------------------------------------------------------------------------
(* The foreign keys: no session, token or identity of a user who is gone,  *)
(* although handlers insert them for a user they read in an earlier        *)
(* transaction.                                                            *)
RowsHaveTheirUser ==
  /\ \A s \in Sessions : session[s] # None => Exists(session[s].user)
  /\ \A x \in Resets : reset[x] \notin {None, Gone} => Exists(reset[x].user)
  /\ \A a \in Providers : identity[a] # None => Exists(identity[a])

(* One account per email, although sign-up and callback look for it in one *)
(* transaction and insert it in another.                                   *)
OneUserPerEmail == \A u, v \in Users :
  Exists(u) /\ Exists(v) /\ user[u].email = user[v].email => u = v

(* resolve_oauth_user: "An unverified email never links": whom a provider  *)
(* account signs in has an email that the provider has called verified.    *)
LinkedByVerifiedEmail == \A a \in Providers :
  identity[a] # None => user[identity[a]].email \in proved[a]

(* 0011_oauth_identities.sql: a provider account cannot be re-pointed; its *)
(* link ends with its user only.                                           *)
IdentityStays ==
  [][\A a \in Providers :
       identity[a] # None /\ identity'[a] # identity[a] =>
         identity'[a] = None /\ user'[identity[a]] = Gone]_vars

(* "One-time": a reset token or a state that a handler has consumed is     *)
(* refused from then on, wherever that handler was interrupted.  A second  *)
(* one gets through only if both had read the row before either marked it: *)
(* neither consume looks at the number of rows it has marked.              *)
RedeemedOnce == \A x \in Resets \cup States :
  /\ redeemed[x] > 0 =>
       /\ x \in Resets => reset[x] = Gone \/ ~Redeemable(reset[x].phase)
       /\ x \in States => state[x] = Gone \/ ~Redeemable(state[x])
  /\ redeemed[x] > 1 => x \in raced

(* A reset ends the sessions opened before it.  reset_password leaves two  *)
(* gaps, and a session of before the change is in one of them: the reset   *)
(* has not come to the sessions yet, or was cut off before it did, which   *)
(* the next one makes up for; or a login that had checked the old password *)
(* inserted it when they had been revoked already, once per such login and *)
(* until the next reset.                                                   *)
OldSessionsEnd == \A s \in Sessions :
  session[s] # None /\ session[s].age # "current" =>
    session[s].age = "late" \/ Revoking(session[s].user)

=============================================================================
