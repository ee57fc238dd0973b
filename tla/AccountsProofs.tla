--------------------------- MODULE AccountsProofs ---------------------------
(***************************************************************************)
(* Proofs about Accounts for any number of handlers, users, emails,        *)
(* sessions, tokens and provider accounts.                                 *)
(***************************************************************************)
EXTENDS Accounts, TLAPS

USE DEF history

-----------------------------------------------------------------------------
(* The inductive invariant: the shape of the state, what each handler      *)
(* knows at its step, the foreign keys, and what became of tokens consumed. *)

Shape ==
  /\ user \in [Users -> UserRow \cup {None, Gone}]
  /\ session \in [Sessions -> SessionRow \cup {None}]
  /\ reset \in [Resets -> ResetRow \cup {None, Gone}]
  /\ state \in [States -> Phases \cup {None, Gone}]
  /\ identity \in [Providers -> Users \cup {None}]
  /\ job \in [Workers -> Jobs]
  /\ proved \in [Providers -> SUBSET Emails]
  /\ redeemed \in [Resets \cup States -> 0 .. MaxRedeemed]
  /\ raced \in SUBSET (Resets \cup States)
  /\ cutOff \in SUBSET Users

(* A token or a state that nobody can redeem any more.                     *)
UsedReset(x) == reset[x] = Gone \/ (reset[x] \in ResetRow /\ reset[x].phase = "used")
UsedState(x) == state[x] \in {Gone, "used"}

(* What a handler has read in its earlier transactions: whom it works for, *)
(* that its token is burnt once it is past "burn", that the provider has   *)
(* vouched for the email it goes on with.                                  *)
Acting == {"session", "link", "token", "password", "revoke", "user"}

Known(w) == LET j == job[w] IN
  /\ (j.at \in Acting \/ (j.at = "burn" /\ j.op = "reset"))
       => j.user \in Users /\ user[j.user] # None
  /\ j.at \in {"insert", "email", "link"} => j.email \in Emails

Tokens(w) == LET j == job[w] IN
  /\ j.at = "burn" /\ j.op = "callback" => j.key \in States /\ state[j.key] # None
  /\ j.at = "profile" => j.key \in States /\ UsedState(j.key)
  /\ j.at = "burn" /\ j.op = "reset" => j.key \in Resets /\ reset[j.key] # None
  /\ j.at = "password" => j.key \in Resets /\ UsedReset(j.key)

Vouched(w) == LET j == job[w] IN
  /\ (j.at \in {"email", "link"} \/ (j.at = "insert" /\ j.op # "signup"))
       => j.key \in Providers /\ j.email \in proved[j.key]
  /\ j.at = "link" /\ Exists(j.user) => user[j.user].email = j.email

JobOK(w) == Known(w) /\ Tokens(w) /\ Vouched(w)

RedeemedUsed ==
  /\ \A x \in Resets : redeemed[x] > 0 => UsedReset(x)
  /\ \A x \in States : redeemed[x] > 0 => UsedState(x)

IInv ==
  /\ Shape
  /\ \A w \in Workers : JobOK(w)
  /\ RowsHaveTheirUser
  /\ RedeemedUsed

LEMMA IInvTypeOK == IInv => TypeOK
BY DEF IInv, Shape, TypeOK, JobOK, Known, Acting, Vouched

(* Rows and the markers for their absence are told apart.                  *)
LEMMA RowFacts ==
  /\ None # Gone
  /\ \A r \in UserRow \cup SessionRow \cup ResetRow \cup Phases : r # None /\ r # Gone
  /\ \A u \in Users : u # None /\ u # Gone
  /\ \A e \in Emails : e # None
BY AccountAssumption, RowAssumption

LEMMA IdleOK ==
  /\ Idle \in Jobs
  /\ \A w \in Workers : job[w] = Idle => JobOK(w)
BY DEF Idle, Jobs, JobOK, Known, Acting, Tokens, Vouched

LEMMA InitIInv == Init => IInv
<1> SUFFICES ASSUME Init PROVE IInv
  OBVIOUS
<1>1. Shape
  BY IdleOK, AccountAssumption DEF Init, Shape
<1>2. \A w \in Workers : JobOK(w)
  BY IdleOK DEF Init
<1>3. RowsHaveTheirUser
  BY DEF Init, RowsHaveTheirUser
<1>4. RedeemedUsed
  BY DEF Init, RedeemedUsed
<1> QED
  BY <1>1, <1>2, <1>3, <1>4 DEF IInv

-----------------------------------------------------------------------------
(* What no step takes back: a user who was there is there with the same    *)
(* email or gone for good, a used token stays used, a vouched email stays  *)
(* vouched for.                                                            *)

UsersKept == \A u \in Users : user[u] # None =>
  /\ user'[u] # None
  /\ Exists(u)' => Exists(u) /\ user'[u].email = user[u].email

TokensKept ==
  /\ \A x \in Resets : /\ reset[x] # None => reset'[x] # None
                       /\ UsedReset(x) => UsedReset(x)'
  /\ \A x \in States : /\ state[x] # None => state'[x] # None
                       /\ UsedState(x) => UsedState(x)'

ProvedKept == \A a \in Providers : proved[a] \subseteq proved'[a]

Kept == UsersKept /\ TokensKept /\ ProvedKept

(* A handler that does not move, but for its mark that the password has    *)
(* changed.                                                                *)
Same(w) == /\ job'[w].at = job[w].at /\ job'[w].op = job[w].op
           /\ job'[w].user = job[w].user /\ job'[w].email = job[w].email
           /\ job'[w].key = job[w].key

LEMMA JobKept ==
  ASSUME Shape, Kept, NEW w \in Workers, Same(w), JobOK(w)
  PROVE  JobOK(w)'
<1>1. Known(w)'
  BY DEF JobOK, Known, Acting, Same, Kept, UsersKept
<1>2. Tokens(w)'
  BY DEF JobOK, Tokens, Same, Kept, TokensKept
<1>3. Vouched(w)'
  BY DEF JobOK, Known, Acting, Vouched, Same, Kept, UsersKept, ProvedKept, Shape
<1> QED
  BY <1>1, <1>2, <1>3 DEF JobOK

LEMMA UsersSame == UNCHANGED user => UsersKept
BY DEF UsersKept, Exists

LEMMA TokensSame == UNCHANGED <<reset, state>> => TokensKept
BY DEF TokensKept, UsedReset, UsedState

LEMMA ProvedSame == UNCHANGED proved => ProvedKept
BY DEF ProvedKept

LEMMA RowsSame ==
  ASSUME RowsHaveTheirUser, Shape, UNCHANGED <<session, reset, identity>>,
         \A u \in Users : Exists(u) => Exists(u)'
  PROVE  RowsHaveTheirUser'
BY RowFacts DEF RowsHaveTheirUser, Shape, SessionRow, ResetRow

LEMMA RedeemedSame ==
  ASSUME RedeemedUsed, TokensKept, UNCHANGED redeemed
  PROVE  RedeemedUsed'
BY DEF RedeemedUsed, TokensKept

LEMMA RedeemsType ==
  ASSUME Shape, NEW x \in Resets \cup States, Redeems(x)
  PROVE  /\ redeemed' \in [Resets \cup States -> 0 .. MaxRedeemed]
         /\ \A y \in (Resets \cup States) \ {x} : redeemed'[y] = redeemed[y]
BY AccountAssumption DEF Shape, Redeems

LEMMA ReadsType ==
  ASSUME Shape, NEW x \in Resets \cup States, Reads(x)
  PROVE  raced' \in SUBSET (Resets \cup States)
BY DEF Shape, Reads

(* A step of one handler, or of none.                                      *)
LEMMA HandlerStep ==
  ASSUME IInv, Shape', Kept, RowsHaveTheirUser', RedeemedUsed', NEW w \in Workers,
         \A v \in Workers \ {w} : Same(v), JobOK(w)'
  PROVE  IInv'
<1>1. \A v \in Workers \ {w} : JobOK(v)'
  BY JobKept DEF IInv
<1> QED
  BY <1>1 DEF IInv

LEMMA OtherStep ==
  ASSUME IInv, Shape', Kept, RowsHaveTheirUser', RedeemedUsed', \A v \in Workers : Same(v)
  PROVE  IInv'
<1>1. \A v \in Workers : JobOK(v)'
  BY JobKept DEF IInv
<1> QED
  BY <1>1 DEF IInv

(* What becomes of job when w takes a step of its handler.                 *)
LEMMA JobStep ==
  ASSUME Shape, NEW w \in Workers, NEW j \in Jobs, job' = [job EXCEPT ![w] = j]
  PROVE  /\ job' \in [Workers -> Jobs]
         /\ job'[w] = j
         /\ \A v \in Workers \ {w} : Same(v)
BY DEF Shape, Same

LEMMA GoToStep ==
  ASSUME Shape, NEW w \in Workers, NEW step \in Acting \cup {"profile", "insert"},
         GoTo(w, step)
  PROVE  /\ job' \in [Workers -> Jobs]
         /\ job'[w].at = step
         /\ job'[w].op = job[w].op /\ job'[w].user = job[w].user
         /\ job'[w].email = job[w].email /\ job'[w].key = job[w].key
         /\ \A v \in Workers \ {w} : Same(v)
BY DEF Shape, Same, GoTo, Jobs, Acting

LEMMA EndStep ==
  ASSUME Shape, NEW w \in Workers, End(w)
  PROVE  /\ job' \in [Workers -> Jobs]
         /\ JobOK(w)'
         /\ \A v \in Workers \ {w} : Same(v)
<1>1. job'[w] = Idle
  BY DEF End, Shape
<1>2. JobOK(w)'
  BY <1>1 DEF Idle, JobOK, Known, Acting, Tokens, Vouched
<1> QED
  BY <1>2, IdleOK, JobStep DEF End

(* A step of w that only reads the rows.                                   *)
LEMMA ReadStep ==
  ASSUME IInv, NEW w \in Workers, JobOK(w)', job' \in [Workers -> Jobs],
         \A v \in Workers \ {w} : Same(v),
         UNCHANGED <<user, session, reset, state, identity, proved, redeemed, cutOff>>,
         raced' \in SUBSET (Resets \cup States)
  PROVE  IInv'
<1>1. Shape'
  BY DEF IInv, Shape
<1>2. Kept
  BY UsersSame, TokensSame, ProvedSame DEF Kept
<1>3. RowsHaveTheirUser'
  BY DEF IInv, RowsHaveTheirUser, Exists
<1>4. RedeemedUsed'
  BY <1>2, RedeemedSame DEF IInv, Kept
<1> QED
  BY <1>1, <1>2, <1>3, <1>4, HandlerStep

LEMMA BeginStep ==
  ASSUME IInv, NEW w \in Workers, NEW j \in Jobs, Begin(w, j), JobOK(w)',
         UNCHANGED <<user, session, reset, state, identity, proved, redeemed, cutOff>>,
         raced' \in SUBSET (Resets \cup States)
  PROVE  IInv'
<1> job' \in [Workers -> Jobs] /\ \A v \in Workers \ {w} : Same(v)
  BY JobStep DEF Begin, IInv
<1> QED
  BY ReadStep

-----------------------------------------------------------------------------
(* The actions, one lemma each.                                            *)

LEMMA SignupIInv ==
  ASSUME IInv, NEW w \in Workers, NEW e \in Emails, Signup(w, e)
  PROVE  IInv'
<1> DEFINE j == [Idle EXCEPT !.op = "signup", !.at = "insert", !.email = e]
<1>1. j \in Jobs
  BY DEF Idle, Jobs
<1>2. job'[w] = j
  BY DEF Signup, Begin, IInv, Shape
<1>3. JobOK(w)'
  BY <1>2 DEF Idle, JobOK, Known, Acting, Tokens, Vouched
<1> QED
  BY <1>1, <1>3, BeginStep DEF Signup, IInv, Shape

LEMMA LoginIInv ==
  ASSUME IInv, NEW w \in Workers, NEW u \in Users, Login(w, u)
  PROVE  IInv'
<1> DEFINE j == [Idle EXCEPT !.op = "login", !.at = "session", !.user = u]
<1>1. j \in Jobs
  BY DEF Idle, Jobs
<1>2. job'[w] = j
  BY DEF Login, Begin, IInv, Shape
<1>3. JobOK(w)'
  BY <1>2 DEF Login, Exists, Idle, JobOK, Known, Acting, Tokens, Vouched
<1> QED
  BY <1>1, <1>3, BeginStep DEF Login, IInv, Shape

LEMMA CallbackIInv ==
  ASSUME IInv, NEW w \in Workers, NEW x \in States, Callback(w, x)
  PROVE  IInv'
<1> DEFINE j == [Idle EXCEPT !.op = "callback", !.at = "burn", !.key = x]
<1>1. j \in Jobs
  BY DEF Idle, Jobs
<1>2. job'[w] = j
  BY DEF Callback, Begin, IInv, Shape
<1>3. JobOK(w)'
  BY <1>2 DEF Callback, Idle, JobOK, Known, Acting, Tokens, Vouched
<1> QED
  BY <1>1, <1>3, BeginStep, ReadsType DEF Callback, IInv

LEMMA ResetIInv ==
  ASSUME IInv, NEW w \in Workers, NEW x \in Resets, Reset(w, x)
  PROVE  IInv'
<1> DEFINE j == [Idle EXCEPT !.op = "reset", !.at = "burn", !.user = reset[x].user, !.key = x]
<1>1. reset[x].user \in Users /\ Exists(reset[x].user)
  BY DEF Reset, IInv, Shape, ResetRow, RowsHaveTheirUser
<1>2. j \in Jobs
  BY <1>1 DEF Idle, Jobs
<1>3. job'[w] = j
  BY DEF Reset, Begin, IInv, Shape
<1>4. JobOK(w)'
  BY <1>1, <1>3 DEF Reset, Exists, Idle, JobOK, Known, Acting, Tokens, Vouched
<1> QED
  BY <1>2, <1>4, BeginStep, ReadsType DEF Reset, IInv

LEMMA DeleteAccountIInv ==
  ASSUME IInv, NEW w \in Workers, NEW s \in Sessions, DeleteAccount(w, s)
  PROVE  IInv'
<1> DEFINE j == [Idle EXCEPT !.op = "delete", !.at = "revoke", !.user = session[s].user]
<1>1. session[s].user \in Users /\ Exists(session[s].user)
  BY DEF DeleteAccount, IInv, Shape, SessionRow, RowsHaveTheirUser
<1>2. j \in Jobs
  BY <1>1 DEF Idle, Jobs
<1>3. job'[w] = j
  BY DEF DeleteAccount, Begin, IInv, Shape
<1>4. JobOK(w)'
  BY <1>1, <1>3 DEF DeleteAccount, Exists, Idle, JobOK, Known, Acting, Tokens, Vouched
<1> QED
  BY <1>2, <1>4, BeginStep DEF DeleteAccount, IInv, Shape

(* Old tokens are deleted as the handler begins.                           *)
LEMMA ForgotIInv ==
  ASSUME IInv, NEW w \in Workers, NEW u \in Users, Forgot(w, u)
  PROVE  IInv'
<1> DEFINE j == [Idle EXCEPT !.op = "forgot", !.at = "token", !.user = u]
<1> USE DEF Forgot
<1>1. j \in Jobs
  BY DEF Idle, Jobs
<1>2. /\ job' \in [Workers -> Jobs] /\ job'[w] = j
      /\ \A v \in Workers \ {w} : Same(v)
  BY <1>1, JobStep DEF Begin, IInv
<1>3. JobOK(w)'
  BY <1>2 DEF Exists, Idle, JobOK, Known, Acting, Tokens, Vouched
<1>4. Shape'
  BY <1>2 DEF IInv, Shape
<1>5. TokensKept
  BY RowFacts DEF IInv, Shape, TokensKept, UsedReset, UsedState
<1>6. Kept
  BY <1>5, UsersSame, ProvedSame DEF Kept
<1>7. RowsHaveTheirUser'
  BY RowFacts DEF IInv, Shape, RowsHaveTheirUser, Exists
<1>8. RedeemedUsed'
  BY <1>5, RedeemedSame DEF IInv
<1> QED
  BY <1>2, <1>3, <1>4, <1>6, <1>7, <1>8, HandlerStep

LEMMA EndReads ==
  ASSUME IInv, NEW w \in Workers, End(w),
         UNCHANGED <<user, session, reset, state, identity, history>>
  PROVE  IInv'
BY EndStep, ReadStep DEF IInv, Shape

LEMMA ByEmailIInv ==
  ASSUME IInv, NEW w \in Workers, ByEmail(w)
  PROVE  IInv'
<1>1. CASE GoTo(w, "insert")
  <2>1. /\ job' \in [Workers -> Jobs] /\ job'[w].at = "insert"
        /\ job'[w].email = job[w].email /\ job'[w].key = job[w].key
        /\ \A v \in Workers \ {w} : Same(v)
    BY <1>1, GoToStep DEF IInv
  <2>2. JobOK(w)'
    BY <2>1 DEF ByEmail, At, IInv, JobOK, Known, Acting, Tokens, Vouched
  <2> QED
    BY <2>1, <2>2, ReadStep DEF ByEmail, IInv, Shape
<1>2. ASSUME NEW u \in Holders(job[w].email),
             job' = [job EXCEPT ![w].at = "link", ![w].user = u]
      PROVE  IInv'
  <2>1. u \in Users /\ Exists(u) /\ user[u].email = job[w].email
    BY DEF Holders
  <2>2. /\ job' \in [Workers -> Jobs] /\ job'[w].at = "link" /\ job'[w].user = u
        /\ job'[w].email = job[w].email /\ job'[w].key = job[w].key
        /\ \A v \in Workers \ {w} : Same(v)
    BY <1>2, <2>1 DEF IInv, Shape, Jobs, Same
  <2>3. JobOK(w)'
    BY <2>1, <2>2 DEF ByEmail, At, IInv, Exists, JobOK, Known, Acting, Tokens, Vouched
  <2> QED
    BY <2>2, <2>3, ReadStep DEF ByEmail, IInv, Shape
<1>3. CASE End(w)
  BY <1>3, EndReads DEF ByEmail
<1> QED
  BY <1>1, <1>2, <1>3 DEF ByEmail

LEMMA InsertUserIInv ==
  ASSUME IInv, NEW w \in Workers, InsertUser(w)
  PROVE  IInv'
<1>1. CASE End(w) /\ UNCHANGED user
  BY <1>1, EndReads DEF InsertUser
<1>2. CASE Holders(job[w].email) = {} /\ AddUser(w)
  <2>1. PICK u \in Users :
          /\ user[u] = None
          /\ user' = [user EXCEPT ![u] = [email |-> job[w].email, active |-> TRUE,
                                          known |-> job[w].op = "signup"]]
          /\ job' = [job EXCEPT ![w].user = u,
                       ![w].at = IF job[w].op = "signup" THEN "session" ELSE "link"]
    BY <1>2 DEF AddUser
  <2>2. job[w].email \in Emails
    BY DEF InsertUser, At, IInv, JobOK, Known
  <2>3. /\ user' \in [Users -> UserRow \cup {None, Gone}]
        /\ user'[u] \in UserRow /\ user'[u].email = job[w].email
        /\ \A v \in Users \ {u} : user'[v] = user[v]
    BY <2>1, <2>2 DEF IInv, Shape, UserRow
  <2>4. /\ job' \in [Workers -> Jobs] /\ job'[w].user = u
        /\ job'[w].at \in {"session", "link"}
        /\ job'[w].at = "link" => job[w].op # "signup"
        /\ job'[w].email = job[w].email /\ job'[w].key = job[w].key
        /\ \A v \in Workers \ {w} : Same(v)
    <3> DEFINE step == IF job[w].op = "signup" THEN "session" ELSE "link"
    <3>1. step \in {"session", "link"} /\ (step = "link" => job[w].op # "signup")
      OBVIOUS
    <3>2. job' = [job EXCEPT ![w].user = u, ![w].at = step]
      BY <2>1
    <3> HIDE DEF step
    <3> QED
      BY <3>1, <3>2 DEF IInv, Shape, Jobs, Same
  <2>5. JobOK(w)'
    BY <2>2, <2>3, <2>4, RowFacts
    DEF InsertUser, At, IInv, JobOK, Known, Acting, Tokens, Vouched
  <2>6. UsersKept
    BY <2>1, <2>3 DEF UsersKept, Exists
  <2>7. Kept /\ RedeemedUsed'
    BY <2>6, TokensSame, ProvedSame, RedeemedSame DEF InsertUser, IInv, Kept
  <2>8. Shape'
    BY <2>3, <2>4 DEF InsertUser, IInv, Shape
  <2>9. RowsHaveTheirUser'
    BY <2>1, <2>3, RowsSame, RowFacts DEF InsertUser, IInv, Exists
  <2> QED
    BY <2>4, <2>5, <2>7, <2>8, <2>9, HandlerStep
<1> QED
  BY <1>1, <1>2 DEF InsertUser

LEMMA OpenSessionIInv ==
  ASSUME IInv, NEW w \in Workers, OpenSession(w)
  PROVE  IInv'
<1> USE DEF OpenSession
<1>1. CASE UNCHANGED session
  BY <1>1, EndReads
<1>2. CASE Exists(job[w].user) /\ AddSession(w)
  <2>1. PICK s \in Sessions : /\ session[s] = None
                              /\ session' = [session EXCEPT ![s] =
                                   [user |-> job[w].user, expired |-> FALSE,
                                    age |-> IF ~job[w].stale THEN "current"
                                            ELSE IF Revoking(job[w].user) THEN "old" ELSE "late"]]
    BY <1>2 DEF AddSession
  <2>2. job[w].user \in Users
    BY DEF At, IInv, JobOK, Known, Acting
  <2>3. /\ session' \in [Sessions -> SessionRow \cup {None}]
        /\ session'[s].user = job[w].user
        /\ \A t \in Sessions \ {s} : session'[t] = session[t]
    BY <2>1, <2>2 DEF IInv, Shape, SessionRow
  <2>4. Shape'
    BY <2>3, EndStep DEF IInv, Shape
  <2>5. Kept /\ RedeemedUsed'
    BY UsersSame, TokensSame, ProvedSame, RedeemedSame DEF IInv, Kept
  <2>6. RowsHaveTheirUser'
    BY <1>2, <2>3 DEF IInv, RowsHaveTheirUser, Exists
  <2> QED
    BY <2>4, <2>5, <2>6, EndStep, HandlerStep DEF IInv
<1> QED
  BY <1>1, <1>2

(* The row of u goes: nothing that was kept is lost.                       *)
LEMMA CascadeStep ==
  ASSUME IInv, NEW u \in Users, Exists(u), Cascade(u), UNCHANGED <<state, history>>,
         job' \in [Workers -> Jobs]
  PROVE  Shape' /\ Kept /\ RowsHaveTheirUser' /\ RedeemedUsed'
<1> USE DEF Cascade
<1>1. Shape'
  BY DEF IInv, Shape
<1>2. UsersKept
  BY RowFacts DEF IInv, Shape, UsersKept, Exists
<1>3. TokensKept
  BY RowFacts DEF IInv, Shape, TokensKept, UsedReset, UsedState
<1>4. Kept /\ RedeemedUsed'
  BY <1>2, <1>3, ProvedSame, RedeemedSame DEF IInv, Kept
<1>5. RowsHaveTheirUser'
  BY RowFacts DEF IInv, Shape, RowsHaveTheirUser, Exists, ResetRow, SessionRow
<1> QED
  BY <1>1, <1>4, <1>5

LEMMA DeleteUserIInv ==
  ASSUME IInv, NEW w \in Workers, DeleteUser(w)
  PROVE  IInv'
<1>1. CASE UNCHANGED <<user, session, reset, identity>>
  BY <1>1, EndReads DEF DeleteUser
<1>2. CASE Exists(job[w].user) /\ Cascade(job[w].user)
  <2>1. job[w].user \in Users
    BY DEF DeleteUser, At, IInv, JobOK, Known, Acting
  <2> QED
    BY <1>2, <2>1, CascadeStep, EndStep, HandlerStep DEF DeleteUser, IInv
<1> QED
  BY <1>1, <1>2 DEF DeleteUser

LEMMA RemoveUserIInv ==
  ASSUME IInv, NEW u \in Users, RemoveUser(u)
  PROVE  IInv'
<1>1. job' \in [Workers -> Jobs] /\ \A v \in Workers : Same(v)
  BY DEF RemoveUser, IInv, Shape, Same
<1> QED
  BY <1>1, CascadeStep, OtherStep DEF RemoveUser

(* The state is marked: this handler goes on, no other will.               *)
LEMMA BurnStateIInv ==
  ASSUME IInv, NEW w \in Workers, BurnState(w)
  PROVE  IInv'
<1> DEFINE x == job[w].key
<1> USE DEF BurnState
<1>1. x \in States /\ state[x] \in Phases \cup {Gone}
  BY DEF At, IInv, Shape, JobOK, Tokens
<1>2. /\ state' \in [States -> Phases \cup {None, Gone}]
      /\ state'[x] \in {"used", Gone}
      /\ \A y \in States \ {x} : state'[y] = state[y]
  BY <1>1 DEF IInv, Shape, Phases
<1>3. /\ job' \in [Workers -> Jobs] /\ job'[w].at = "profile" /\ job'[w].key = x
      /\ \A v \in Workers \ {w} : Same(v)
  BY GoToStep DEF IInv
<1>4. TokensKept
  BY <1>2, RowFacts DEF TokensKept, UsedReset, UsedState, Phases
<1>5. Kept
  BY <1>4, UsersSame, ProvedSame DEF Kept
<1>9. RedeemedUsed'
  BY <1>1, <1>2, <1>4, RedeemsType, AccountAssumption
  DEF IInv, RedeemedUsed, TokensKept, UsedState
<1>6. JobOK(w)'
  BY <1>1, <1>2, <1>3 DEF JobOK, Known, Acting, Tokens, Vouched, UsedState
<1>7. Shape'
  BY <1>1, <1>2, <1>3, RedeemsType DEF IInv, Shape
<1>8. RowsHaveTheirUser'
  BY RowsSame DEF IInv, Exists
<1> QED
  BY <1>3, <1>5, <1>6, <1>7, <1>8, <1>9, HandlerStep

LEMMA BurnTokenIInv ==
  ASSUME IInv, NEW w \in Workers, BurnToken(w)
  PROVE  IInv'
<1> USE DEF BurnToken
<1>0. PICK x \in Resets : x = job[w].key
  BY DEF At, IInv, JobOK, Tokens
<1>1. reset[x] \in ResetRow \cup {Gone} /\ job[w].user \in Users
  BY <1>0 DEF At, IInv, Shape, JobOK, Known, Tokens
<1>2. /\ reset' \in [Resets -> ResetRow \cup {None, Gone}]
      /\ UsedReset(x)'
      /\ reset'[x] # Gone => reset[x] # Gone /\ reset'[x].user = reset[x].user
      /\ \A y \in Resets \ {x} : reset'[y] = reset[y]
  <2>1. CASE reset[x] = Gone
    BY <1>0, <1>1, <2>1 DEF IInv, Shape, UsedReset
  <2>2. CASE reset[x] \in ResetRow
    <3>1. reset[x] # Gone
      BY <2>2, RowFacts
    <3>2. reset' = [reset EXCEPT ![x] = [reset[x] EXCEPT !.phase = "used"]]
      BY <1>0, <1>1, <3>1 DEF IInv, Shape
    <3> DEFINE r == [reset[x] EXCEPT !.phase = "used"]
    <3>3. r \in ResetRow /\ r.phase = "used" /\ r.user = reset[x].user
      BY <2>2 DEF ResetRow, Phases
    <3>4. /\ reset' \in [Resets -> ResetRow \cup {None, Gone}]
          /\ reset'[x] = r
          /\ \A y \in Resets \ {x} : reset'[y] = reset[y]
      BY <3>2, <3>3 DEF IInv, Shape
    <3> QED
      BY <3>1, <3>3, <3>4 DEF UsedReset
  <2> QED
    BY <1>1, <2>1, <2>2
<1>3. /\ job' \in [Workers -> Jobs] /\ job'[w].at = "password" /\ job'[w].key = x
      /\ job'[w].user = job[w].user
      /\ \A v \in Workers \ {w} : Same(v)
  BY <1>0, GoToStep DEF IInv, Acting
<1>4. TokensKept
  <2>1. reset'[x] # None
    BY <1>2, RowFacts DEF UsedReset
  <2>2. \A y \in Resets : UsedReset(y) => UsedReset(y)'
    BY <1>2 DEF UsedReset
  <2> QED
    BY <1>2, <2>1, <2>2 DEF TokensKept, UsedState
<1>5. Kept
  BY <1>4, UsersSame, ProvedSame DEF Kept
<1>9. RedeemedUsed'
  BY <1>0, <1>2, <1>4, RedeemsType, AccountAssumption DEF IInv, RedeemedUsed, TokensKept
<1>6. JobOK(w)'
  BY <1>0, <1>1, <1>2, <1>3 DEF At, IInv, JobOK, Known, Acting, Tokens, Vouched
<1>7. Shape'
  BY <1>0, <1>2, <1>3, RedeemsType DEF IInv, Shape
<1>8. RowsHaveTheirUser'
  BY <1>1, <1>2, RowFacts DEF IInv, Shape, RowsHaveTheirUser, Exists
<1> QED
  BY <1>3, <1>5, <1>6, <1>7, <1>8, <1>9, HandlerStep

LEMMA IssueTokenIInv ==
  ASSUME IInv, NEW w \in Workers, IssueToken(w)
  PROVE  IInv'
<1> USE DEF IssueToken
<1>1. CASE UNCHANGED reset
  BY <1>1, EndReads
<1>2. ASSUME Exists(job[w].user), NEW x \in Resets, reset[x] = None,
             reset' = [reset EXCEPT ![x] = [user |-> job[w].user, phase |-> "live"]]
      PROVE  IInv'
  <2>1. job[w].user \in Users
    BY DEF At, IInv, JobOK, Known, Acting
  <2>2. /\ reset' \in [Resets -> ResetRow \cup {None, Gone}]
        /\ reset'[x] \in ResetRow /\ reset'[x].user = job[w].user
        /\ \A y \in Resets \ {x} : reset'[y] = reset[y]
    BY <1>2, <2>1 DEF IInv, Shape, ResetRow, Phases
  <2>3. Shape'
    BY <2>2, EndStep DEF IInv, Shape
  <2>4. TokensKept
    BY <1>2, <2>2, RowFacts DEF TokensKept, UsedReset, UsedState
  <2>5. Kept /\ RedeemedUsed'
    BY <2>4, UsersSame, ProvedSame, RedeemedSame DEF IInv, Kept
  <2>6. RowsHaveTheirUser'
    BY <1>2, <2>2 DEF IInv, RowsHaveTheirUser, Exists
  <2> QED
    BY <2>3, <2>5, <2>6, EndStep, HandlerStep DEF IInv
<1> QED
  BY <1>1, <1>2

(* The provider's answer.                                                  *)
LEMMA ProfileIInv ==
  ASSUME IInv, NEW w \in Workers, NEW a \in Providers, NEW email \in Emails \cup {None},
         NEW verified \in BOOLEAN, Profile(w, a, email, verified)
  PROVE  IInv'
<1> USE DEF Profile
<1>2. /\ proved' \in [Providers -> SUBSET Emails]
      /\ ProvedKept
      /\ Accepts(email, verified) => email \in Emails /\ email \in proved'[a]
  BY DEF IInv, Shape, ProvedKept, Accepts
<1>3. Kept
  BY <1>2, UsersSame, TokensSame DEF Kept
<1>4. RedeemedUsed'
  BY TokensSame, RedeemedSame DEF IInv
<1>5. RowsHaveTheirUser'
  BY DEF IInv, RowsHaveTheirUser, Exists
<1>6. ASSUME job' \in [Workers -> Jobs] PROVE Shape'
  BY <1>2, <1>6 DEF IInv, Shape
<1>7. CASE identity[a] # None /\
           job' = [job EXCEPT ![w].at = "session", ![w].user = identity[a], ![w].key = a]
  <2>1. identity[a] \in Users /\ Exists(identity[a])
    BY <1>7 DEF IInv, Shape, RowsHaveTheirUser
  <2>2. /\ job' \in [Workers -> Jobs] /\ job'[w].at = "session"
        /\ job'[w].user = identity[a]
        /\ \A v \in Workers \ {w} : Same(v)
    BY <1>7, <2>1 DEF IInv, Shape, Jobs, Same
  <2>3. JobOK(w)'
    BY <2>1, <2>2 DEF Exists, JobOK, Known, Acting, Tokens, Vouched
  <2> QED
    BY <1>3, <1>4, <1>5, <1>6, <2>2, <2>3, HandlerStep
<1>8. CASE Accepts(email, verified) /\
           job' = [job EXCEPT ![w].at = "email", ![w].email = email, ![w].key = a]
  <2>0. email \in Emails /\ email \in proved'[a]
    BY <1>2, <1>8
  <2>1. /\ job' \in [Workers -> Jobs] /\ job'[w].at = "email"
        /\ job'[w].email = email /\ job'[w].key = a
        /\ \A v \in Workers \ {w} : Same(v)
    BY <2>0, <1>8 DEF IInv, Shape, Jobs, Same
  <2>2. JobOK(w)'
    BY <2>0, <2>1 DEF JobOK, Known, Acting, Tokens, Vouched
  <2> QED
    BY <1>3, <1>4, <1>5, <1>6, <2>1, <2>2, HandlerStep
<1>9. CASE End(w)
  BY <1>3, <1>4, <1>5, <1>6, <1>9, EndStep, HandlerStep DEF IInv
<1> QED
  BY <1>7, <1>8, <1>9

LEMMA LinkIInv ==
  ASSUME IInv, NEW w \in Workers, Link(w)
  PROVE  IInv'
<1> USE DEF Link
<1>1. job[w].key \in Providers /\ job[w].user \in Users
  BY DEF At, IInv, JobOK, Known, Acting, Vouched
<1>2. CASE End(w) /\ UNCHANGED identity
  BY <1>2, EndReads
<1>3. CASE GoTo(w, "session") /\
           \/ UNCHANGED identity
           \/ /\ Exists(job[w].user)
              /\ identity' = [identity EXCEPT ![job[w].key] = job[w].user]
  <2>1. /\ job' \in [Workers -> Jobs] /\ job'[w].at = "session"
        /\ job'[w].user = job[w].user
        /\ \A v \in Workers \ {w} : Same(v)
    BY <1>3, GoToStep DEF IInv, Acting
  <2>2. JobOK(w)'
    BY <1>1, <2>1 DEF At, IInv, JobOK, Known, Acting, Tokens, Vouched
  <2>3. Kept /\ RedeemedUsed'
    BY UsersSame, TokensSame, ProvedSame, RedeemedSame DEF IInv, Kept
  <2>4. Shape'
    BY <1>1, <1>3, <2>1 DEF IInv, Shape
  <2>5. RowsHaveTheirUser'
    BY <1>1, <1>3 DEF IInv, Shape, RowsHaveTheirUser, Exists
  <2> QED
    BY <2>1, <2>2, <2>3, <2>4, <2>5, HandlerStep
<1> QED
  BY <1>2, <1>3

(* The new password makes sessions old and marks the handlers of its user. *)
LEMMA SetPasswordIInv ==
  ASSUME IInv, NEW w \in Workers, SetPassword(w)
  PROVE  IInv'
<1> DEFINE u == job[w].user
<1> USE DEF SetPassword
<1>1. CASE End(w) /\ UNCHANGED <<user, session>>
  BY <1>1, EndReads
<1>2. CASE Exists(u) /\ ~(End(w) /\ UNCHANGED <<user, session>>)
  <2>1. u \in Users /\ user[u] \in UserRow
    BY <1>2 DEF At, IInv, Shape, JobOK, Known, Acting, Exists
  <2>2. /\ user' = [user EXCEPT ![u].known = TRUE]
        /\ session' = Aged(u)
        /\ job' = [v \in Workers |->
             IF v = w THEN [job[v] EXCEPT !.at = "revoke"]
             ELSE [job[v] EXCEPT !.stale = @ \/ (job[v].user = u /\ job[v].at # "idle")]]
    BY <1>2
  <2>3. /\ user' \in [Users -> UserRow \cup {None, Gone}]
        /\ user'[u] \in UserRow /\ user'[u].email = user[u].email
        /\ \A v \in Users \ {u} : user'[v] = user[v]
    BY <2>1, <2>2 DEF IInv, Shape, UserRow
  <2>4. /\ session' \in [Sessions -> SessionRow \cup {None}]
        /\ \A s \in Sessions : session'[s] # None =>
             session[s] # None /\ session'[s].user = session[s].user
    BY <2>2, RowFacts DEF IInv, Shape, SessionRow, Aged
  <2>5. /\ job' \in [Workers -> Jobs] /\ job'[w].at = "revoke"
        /\ job'[w].user = job[w].user
        /\ \A v \in Workers \ {w} : Same(v)
    <3> DEFINE mark(v) == job[v].stale \/ (job[v].user = u /\ job[v].at # "idle")
    <3>1. \A v \in Workers : mark(v) \in BOOLEAN
      BY DEF IInv, Shape, Jobs
    <3>2. job' = [v \in Workers |-> IF v = w THEN [job[v] EXCEPT !.at = "revoke"]
                                   ELSE [job[v] EXCEPT !.stale = mark(v)]]
      BY <2>2
    <3> HIDE DEF mark
    <3>3. \A v \in Workers : job[v] \in Jobs
      BY DEF IInv, Shape
    <3>4. job'[w] \in Jobs /\ job'[w].at = "revoke" /\ job'[w].user = job[w].user
      BY <3>2, <3>3 DEF Jobs
    <3>5. ASSUME NEW v \in Workers, v # w
          PROVE  job'[v] \in Jobs /\ Same(v)
      <4>1. job'[v] = [job[v] EXCEPT !.stale = mark(v)]
        BY <3>2, <3>5
      <4> QED
        BY <3>1, <3>3, <4>1 DEF Jobs, Same
    <3> QED
      BY <3>2, <3>4, <3>5
  <2>6. UsersKept
    BY <1>2, <2>3, RowFacts DEF UsersKept, Exists
  <2>7. Kept
    BY <2>6, TokensSame, ProvedSame DEF Kept
  <2>8. RedeemedUsed'
    BY TokensSame, RedeemedSame DEF IInv
  <2>9. Shape'
    BY <2>1, <2>2, <2>3, <2>4, <2>5 DEF IInv, Shape
  <2>10. \A v \in Users : Exists(v) => Exists(v)'
    BY <2>3, RowFacts DEF Exists
  <2>11. RowsHaveTheirUser'
    BY <2>4, <2>10, RowFacts DEF IInv, Shape, RowsHaveTheirUser, SessionRow, ResetRow
  <2>12. JobOK(w)'
    BY <2>1, <2>3, <2>5, RowFacts DEF JobOK, Known, Acting, Tokens, Vouched
  <2> QED
    BY <2>5, <2>7, <2>8, <2>9, <2>11, <2>12, HandlerStep
<1> QED
  BY <1>1, <1>2

(* Sessions go, or change in what is said of their age.                    *)
LEMMA SessionStep ==
  ASSUME IInv, session' \in [Sessions -> SessionRow \cup {None}],
         \A s \in Sessions : session'[s] # None =>
           session[s] # None /\ session'[s].user = session[s].user,
         UNCHANGED <<user, reset, state, identity, proved, redeemed, raced>>,
         cutOff' \in SUBSET Users,
         job' \in [Workers -> Jobs]
  PROVE  Shape' /\ Kept /\ RowsHaveTheirUser' /\ RedeemedUsed'
<1>1. Shape'
  BY DEF IInv, Shape
<1>2. Kept /\ RedeemedUsed'
  BY UsersSame, TokensSame, ProvedSame, RedeemedSame DEF IInv, Kept
<1>3. RowsHaveTheirUser'
  BY DEF IInv, RowsHaveTheirUser, Exists
<1> QED
  BY <1>1, <1>2, <1>3

LEMMA RevokeIInv ==
  ASSUME IInv, NEW w \in Workers, Revoke(w)
  PROVE  IInv'
<1> USE DEF Revoke
<1>1. /\ session' \in [Sessions -> SessionRow \cup {None}]
      /\ \A s \in Sessions : session'[s] # None =>
           session[s] # None /\ session'[s].user = session[s].user
  BY DEF IInv, Shape
<1>4. cutOff' \in SUBSET Users
  BY DEF IInv, Shape
<1>2. CASE End(w)
  BY <1>1, <1>2, <1>4, SessionStep, EndStep, HandlerStep DEF IInv
<1>3. CASE GoTo(w, "user")
  <2>1. /\ job' \in [Workers -> Jobs] /\ job'[w].at = "user"
        /\ job'[w].user = job[w].user
        /\ \A v \in Workers \ {w} : Same(v)
    BY <1>3, GoToStep DEF IInv, Acting
  <2>2. JobOK(w)'
    BY <2>1 DEF At, IInv, JobOK, Known, Acting, Tokens, Vouched
  <2> QED
    BY <1>1, <1>4, <2>1, <2>2, SessionStep, HandlerStep
<1> QED
  BY <1>2, <1>3

LEMMA InterruptIInv ==
  ASSUME IInv, NEW w \in Workers, Interrupt(w)
  PROVE  IInv'
<1>1. UNCHANGED session /\ cutOff' \in SUBSET Users
  BY DEF Interrupt, At, IInv, Shape, JobOK, Known, Acting
<1>2. session' \in [Sessions -> SessionRow \cup {None}]
  BY <1>1 DEF IInv, Shape
<1> QED
  BY <1>1, <1>2, SessionStep, EndStep, HandlerStep DEF Interrupt, IInv

LEMMA DropSessionIInv ==
  ASSUME IInv, NEW s \in Sessions, DropSession(s)
  PROVE  IInv'
<1>1. /\ session' \in [Sessions -> SessionRow \cup {None}]
      /\ \A t \in Sessions : session'[t] # None =>
           session[t] # None /\ session'[t].user = session[t].user
  BY DEF DropSession, IInv, Shape
<1>2. job' \in [Workers -> Jobs] /\ \A v \in Workers : Same(v)
  BY DEF DropSession, IInv, Shape, Same
<1> QED
  BY <1>1, <1>2, SessionStep, OtherStep DEF DropSession, IInv, Shape

LEMMA PatchUserIInv ==
  ASSUME IInv, NEW u \in Users, PatchUser(u)
  PROVE  IInv'
<1> USE DEF PatchUser
<1>1. user[u] \in UserRow
  BY DEF IInv, Shape, Exists
<1>2. /\ user' \in [Users -> UserRow \cup {None, Gone}]
      /\ user'[u] \in UserRow /\ user'[u].email = user[u].email
      /\ \A v \in Users \ {u} : user'[v] = user[v]
  BY <1>1 DEF IInv, Shape, UserRow
<1>3. UsersKept
  BY <1>2, RowFacts DEF UsersKept, Exists
<1>4. Kept /\ RedeemedUsed'
  BY <1>3, TokensSame, ProvedSame, RedeemedSame DEF IInv, Kept
<1>5. Shape' /\ \A v \in Workers : Same(v)
  BY <1>2 DEF IInv, Shape, Same
<1>6. RowsHaveTheirUser'
  BY <1>2, RowsSame, RowFacts DEF IInv, Exists
<1> QED
  BY <1>4, <1>5, <1>6, OtherStep

LEMMA StartOAuthIInv ==
  ASSUME IInv, NEW x \in States, StartOAuth(x)
  PROVE  IInv'
<1> USE DEF StartOAuth
<1>1. Shape' /\ \A v \in Workers : Same(v)
  BY DEF IInv, Shape, Same, Phases
<1>2. TokensKept
  BY RowFacts DEF IInv, Shape, TokensKept, UsedReset, UsedState, Phases
<1>3. Kept /\ RedeemedUsed'
  BY <1>2, UsersSame, ProvedSame, RedeemedSame DEF IInv, Kept
<1>4. RowsHaveTheirUser'
  BY RowsSame DEF IInv, Exists
<1> QED
  BY <1>1, <1>3, <1>4, OtherStep

LEMMA ExpireIInv == IInv /\ Expire => IInv'
<1> SUFFICES ASSUME IInv, Expire PROVE IInv'
  OBVIOUS
<1>1. ASSUME NEW s \in Sessions, session[s] # None,
             session' = [session EXCEPT ![s].expired = TRUE],
             UNCHANGED <<user, reset, state, identity, job, history>>
      PROVE  IInv'
  <2>1. /\ session' \in [Sessions -> SessionRow \cup {None}]
        /\ \A t \in Sessions : session'[t] # None =>
             session[t] # None /\ session'[t].user = session[t].user
    BY <1>1 DEF IInv, Shape, SessionRow
  <2>2. job' \in [Workers -> Jobs] /\ \A v \in Workers : Same(v)
    BY <1>1 DEF IInv, Shape, Same
  <2> QED
    BY <1>1, <2>1, <2>2, SessionStep, OtherStep DEF IInv, Shape
<1>2. ASSUME NEW x \in Resets, reset[x] \notin {None, Gone}, reset[x].phase = "live",
             reset' = [reset EXCEPT ![x].phase = "expired"],
             UNCHANGED <<user, session, state, identity, job, history>>
      PROVE  IInv'
  <2>1. /\ reset' \in [Resets -> ResetRow \cup {None, Gone}]
        /\ reset'[x] \in ResetRow /\ reset'[x].user = reset[x].user
        /\ \A y \in Resets \ {x} : reset'[y] = reset[y]
    BY <1>2 DEF IInv, Shape, ResetRow, Phases
  <2>2. Shape' /\ \A v \in Workers : Same(v)
    BY <1>2, <2>1 DEF IInv, Shape, Same
  <2>3. TokensKept
    BY <1>2, <2>1, RowFacts DEF TokensKept, UsedReset, UsedState
  <2>4. Kept /\ RedeemedUsed'
    BY <1>2, <2>3, UsersSame, ProvedSame, RedeemedSame DEF IInv, Kept
  <2>5. RowsHaveTheirUser'
    BY <1>2, <2>1 DEF IInv, RowsHaveTheirUser, Exists
  <2> QED
    BY <2>2, <2>4, <2>5, OtherStep
<1>3. ASSUME NEW x \in States, state[x] = "live", state' = [state EXCEPT ![x] = "expired"],
             UNCHANGED <<user, session, reset, identity, job, history>>
      PROVE  IInv'
  <2>1. Shape' /\ \A v \in Workers : Same(v)
    BY <1>3 DEF IInv, Shape, Same, Phases
  <2>2. state[x] # Gone
    BY <1>3, RowFacts DEF Phases
  <2>3. "expired" # None
    BY RowFacts DEF Phases
  <2>4. TokensKept
    BY <1>3, <2>2, <2>3 DEF IInv, Shape, TokensKept, UsedReset, UsedState
  <2>5. Kept /\ RedeemedUsed'
    BY <1>3, <2>4, UsersSame, ProvedSame, RedeemedSame DEF IInv, Kept
  <2>6. RowsHaveTheirUser'
    BY <1>3, RowsSame DEF IInv, Exists
  <2> QED
    BY <2>1, <2>5, <2>6, OtherStep
<1> QED
  BY <1>1, <1>2, <1>3 DEF Expire

LEMMA StutterIInv == IInv /\ UNCHANGED vars => IInv'
<1> SUFFICES ASSUME IInv, UNCHANGED vars PROVE IInv'
  OBVIOUS
<1>1. Shape' /\ \A v \in Workers : Same(v)
  BY DEF vars, IInv, Shape, Same
<1>2. Kept /\ RedeemedUsed'
  BY UsersSame, TokensSame, ProvedSame, RedeemedSame DEF vars, IInv, Kept
<1>3. RowsHaveTheirUser'
  BY RowsSame DEF vars, IInv, Exists
<1> QED
  BY <1>1, <1>2, <1>3, OtherStep

LEMMA NextIInv == IInv /\ [Next]_vars => IInv'
<1> SUFFICES ASSUME IInv, [Next]_vars PROVE IInv'
  OBVIOUS
<1>1. ASSUME NEW w \in Workers, Calls(w) PROVE IInv'
  BY <1>1, SignupIInv, LoginIInv, ForgotIInv, CallbackIInv, ResetIInv, DeleteAccountIInv
  DEF Calls
<1>2. ASSUME NEW w \in Workers, Steps(w) PROVE IInv'
  BY <1>2, InsertUserIInv, OpenSessionIInv, BurnStateIInv, ByEmailIInv, LinkIInv,
     IssueTokenIInv, BurnTokenIInv, SetPasswordIInv, RevokeIInv, DeleteUserIInv,
     InterruptIInv, ProfileIInv
  DEF Steps
<1> QED
  BY <1>1, <1>2, DropSessionIInv, StartOAuthIInv, RemoveUserIInv, PatchUserIInv,
     ExpireIInv, StutterIInv DEF Next

LEMMA SpecIInv == Spec => []IInv
BY InitIInv, NextIInv, PTL DEF Spec

-----------------------------------------------------------------------------
(* A handler has, at each of its steps, what the rest of it works with.    *)
THEOREM TypeCorrect == Spec => []TypeOK
BY SpecIInv, IInvTypeOK, PTL

(* No session, token or identity is left of a user who is gone.            *)
THEOREM NoOrphans == Spec => []RowsHaveTheirUser
<1>1. IInv => RowsHaveTheirUser
  BY DEF IInv
<1> QED
  BY <1>1, SpecIInv, PTL

-----------------------------------------------------------------------------
(* Tokens and states are consumed once, or by handlers that overlap.       *)

Tickets == Resets \cup States

Burning(w, x) == job[w].at = "burn" /\ job[w].key = x

(* Whoever is between the SELECT and the UPDATE of a row that another is   *)
(* about to consume, or has consumed, has overlapped with it.              *)
RaceOK == \A x \in Tickets :
  /\ \A v, w \in Workers : v # w /\ Burning(v, x) /\ Burning(w, x) => x \in raced
  /\ \A w \in Workers : Burning(w, x) /\ redeemed[x] > 0 => x \in raced
  /\ redeemed[x] > 1 => x \in raced

(* Nobody comes to burn a row, and none is consumed.                       *)
LEMMA RaceQuiet ==
  ASSUME RaceOK, UNCHANGED <<redeemed, raced>>,
         \A w \in Workers : job'[w].at = "burn" =>
           job[w].at = "burn" /\ job'[w].key = job[w].key
  PROVE  RaceOK'
BY DEF RaceOK, Burning

LEMMA RaceReads ==
  ASSUME IInv, RaceOK, NEW w \in Workers, NEW x \in Tickets,
         Reads(x), UNCHANGED redeemed, redeemed[x] = 0,
         job'[w].key = x, \A v \in Workers \ {w} : job'[v] = job[v]
  PROVE  RaceOK'
<1>1. raced \subseteq raced' /\ ((\E v \in Workers : Burning(v, x)) => x \in raced')
  BY DEF Reads, At, Burning
<1>2. ASSUME NEW y \in Tickets, NEW u \in Workers, NEW v \in Workers, u # v,
             Burning(u, y)', Burning(v, y)'
      PROVE  y \in raced'
  <2>1. CASE u # w /\ v # w
    BY <1>1, <1>2, <2>1 DEF RaceOK, Burning
  <2>2. CASE u = w
    BY <1>1, <1>2, <2>2 DEF Burning
  <2>3. CASE v = w
    BY <1>1, <1>2, <2>3 DEF Burning
  <2> QED
    BY <2>1, <2>2, <2>3
<1>3. ASSUME NEW y \in Tickets, NEW v \in Workers, Burning(v, y)', redeemed'[y] > 0
      PROVE  y \in raced'
  <2>1. y # x
    BY <1>3
  <2>2. v # w
    BY <1>3, <2>1 DEF Burning
  <2> QED
    BY <1>1, <1>3, <2>2 DEF RaceOK, Burning
<1>4. \A y \in Tickets : redeemed'[y] > 1 => y \in raced'
  BY <1>1 DEF RaceOK
<1> QED
  BY <1>2, <1>3, <1>4 DEF RaceOK

LEMMA RaceRedeems ==
  ASSUME IInv, RaceOK, NEW w \in Workers, NEW x \in Tickets,
         Burning(w, x), Redeems(x), UNCHANGED raced,
         job'[w].at # "burn", \A v \in Workers \ {w} : job'[v] = job[v]
  PROVE  RaceOK'
<1>1. /\ \A y \in Tickets \ {x} : redeemed'[y] = redeemed[y]
      /\ redeemed'[x] > 1 => redeemed[x] > 0
  BY AccountAssumption DEF Redeems, IInv, Shape, Tickets
<1>2. \A v \in Workers, y \in Tickets : Burning(v, y)' => v # w /\ Burning(v, y)
  BY DEF Burning
<1>3. redeemed'[x] > 1 => x \in raced
  BY <1>1 DEF RaceOK
<1>4. ASSUME NEW y \in Tickets, NEW v \in Workers, Burning(v, y)', redeemed'[y] > 0
      PROVE  y \in raced
  <2>1. CASE y = x
    BY <1>2, <1>4, <2>1 DEF RaceOK
  <2>2. CASE y # x
    BY <1>1, <1>2, <1>4, <2>2 DEF RaceOK
  <2> QED
    BY <2>1, <2>2
<1>5. \A y \in Tickets : redeemed'[y] > 1 => y \in raced
  BY <1>1, <1>3 DEF RaceOK
<1>6. ASSUME NEW y \in Tickets, NEW u \in Workers, NEW v \in Workers, u # v,
             Burning(u, y)', Burning(v, y)'
      PROVE  y \in raced
  BY <1>2, <1>6 DEF RaceOK
<1> QED
  BY <1>4, <1>5, <1>6 DEF RaceOK

LEMMA RaceCalls ==
  ASSUME IInv, RaceOK, NEW w \in Workers, Calls(w)
  PROVE  RaceOK'
<1>1. ASSUME NEW x \in States, Callback(w, x) PROVE RaceOK'
  <2>1. redeemed[x] = 0
    BY <1>1, AccountAssumption
    DEF Callback, Redeemable, IInv, Shape, RedeemedUsed, UsedState
  <2>2. job'[w].key = x /\ \A v \in Workers \ {w} : job'[v] = job[v]
    BY <1>1 DEF Callback, Begin, Idle, IInv, Shape
  <2> QED
    BY <1>1, <2>1, <2>2, RaceReads DEF Callback, Tickets
<1>2. ASSUME NEW x \in Resets, Reset(w, x) PROVE RaceOK'
  <2>1. redeemed[x] = 0
    BY <1>2, AccountAssumption
    DEF Reset, Redeemable, IInv, Shape, RedeemedUsed, UsedReset
  <2>2. job'[w].key = x /\ \A v \in Workers \ {w} : job'[v] = job[v]
    BY <1>2 DEF Reset, Begin, Idle, IInv, Shape
  <2> QED
    BY <1>2, <2>1, <2>2, RaceReads DEF Reset, Tickets
<1>3. CASE \/ \E e \in Emails : Signup(w, e)
           \/ \E u \in Users : Login(w, u) \/ Forgot(w, u)
           \/ \E s \in Sessions : DeleteAccount(w, s)
  <2>1. UNCHANGED <<redeemed, raced>>
    BY <1>3 DEF Signup, Login, Forgot, DeleteAccount
  <2>2. /\ \A v \in Workers \ {w} : job'[v] = job[v]
        /\ job'[w].at # "burn"
    <3>1. ASSUME NEW e \in Emails, Signup(w, e) PROVE <2>2!:
      BY <3>1 DEF Signup, Begin, Idle, IInv, Shape
    <3>2. ASSUME NEW u \in Users, Login(w, u) PROVE <2>2!:
      BY <3>2 DEF Login, Begin, Idle, IInv, Shape
    <3>3. ASSUME NEW u \in Users, Forgot(w, u) PROVE <2>2!:
      BY <3>3 DEF Forgot, Begin, Idle, IInv, Shape
    <3>4. ASSUME NEW s \in Sessions, DeleteAccount(w, s) PROVE <2>2!:
      BY <3>4 DEF DeleteAccount, Begin, Idle, IInv, Shape
    <3> QED
      BY <1>3, <3>1, <3>2, <3>3, <3>4
  <2>3. \A v \in Workers : job'[v].at = "burn" => job'[v] = job[v]
    BY <2>2
  <2> QED
    BY <2>1, <2>3, RaceQuiet
<1> QED
  BY <1>1, <1>2, <1>3 DEF Calls

LEMMA RaceSteps ==
  ASSUME IInv, RaceOK, NEW w \in Workers, Steps(w)
  PROVE  RaceOK'
<1>1. CASE BurnState(w)
  <2>1. job[w].key \in Tickets /\ Burning(w, job[w].key)
    BY <1>1 DEF BurnState, At, IInv, JobOK, Tokens, Burning, Tickets
  <2>2. job'[w].at # "burn" /\ \A v \in Workers \ {w} : job'[v] = job[v]
    BY <1>1 DEF BurnState, GoTo, IInv, Shape, Jobs
  <2> QED
    BY <1>1, <2>1, <2>2, RaceRedeems DEF BurnState
<1>2. CASE BurnToken(w)
  <2>1. job[w].key \in Tickets /\ Burning(w, job[w].key)
    BY <1>2 DEF BurnToken, At, IInv, JobOK, Tokens, Burning, Tickets
  <2>2. job'[w].at # "burn" /\ \A v \in Workers \ {w} : job'[v] = job[v]
    BY <1>2 DEF BurnToken, GoTo, IInv, Shape, Jobs
  <2> QED
    BY <1>2, <2>1, <2>2, RaceRedeems DEF BurnToken
<1>3. CASE SetPassword(w)
  <2>1. \A v \in Workers : job'[v].at = "burn" =>
          job[v].at = "burn" /\ job'[v].key = job[v].key
    BY <1>3 DEF SetPassword, End, Idle, IInv, Shape, Jobs
  <2> QED
    BY <1>3, <2>1, RaceQuiet DEF SetPassword
<1>4. CASE End(w) /\ UNCHANGED <<redeemed, raced>>
  <2>1. \A v \in Workers : job'[v].at = "burn" => job'[v] = job[v]
    BY <1>4 DEF End, Idle, IInv, Shape
  <2> QED
    BY <1>4, <2>1, RaceQuiet
<1>5. ASSUME NEW step \in Acting \cup {"profile", "insert"}, GoTo(w, step),
             UNCHANGED <<redeemed, raced>>
      PROVE  RaceOK'
  <2>1. \A v \in Workers : job'[v].at = "burn" => job'[v] = job[v]
    BY <1>5 DEF GoTo, IInv, Shape, Jobs, Acting
  <2> QED
    BY <1>5, <2>1, RaceQuiet
<1>6. CASE \/ InsertUser(w) \/ ByEmail(w)
           \/ \E a \in Providers, email \in Emails \cup {None}, verified \in BOOLEAN :
                Profile(w, a, email, verified)
  <2>1. UNCHANGED <<redeemed, raced>>
    BY <1>6 DEF InsertUser, ByEmail, Profile
  <2>2. job'[w].at # "burn" /\ \A v \in Workers \ {w} : job'[v] = job[v]
    <3>1. CASE InsertUser(w)
      <4>1. CASE End(w)
        BY <4>1 DEF End, Idle, IInv, Shape
      <4>2. CASE AddUser(w)
        <5>1. PICK u \in Users, at \in {"session", "link"} :
                job' = [job EXCEPT ![w].user = u, ![w].at = at]
          BY <4>2 DEF AddUser
        <5> QED
          BY <5>1 DEF IInv, Shape, Jobs
      <4> QED
        BY <3>1, <4>1, <4>2 DEF InsertUser
    <3>2. CASE ByEmail(w)
      BY <3>2 DEF ByEmail, GoTo, End, Idle, IInv, Shape, Jobs
    <3>3. ASSUME NEW a \in Providers, NEW email \in Emails \cup {None},
                 NEW verified \in BOOLEAN, Profile(w, a, email, verified)
          PROVE  job'[w].at # "burn" /\ \A v \in Workers \ {w} : job'[v] = job[v]
      BY <3>3 DEF Profile, End, Idle, IInv, Shape, Jobs
    <3> QED
      BY <1>6, <3>1, <3>2, <3>3
  <2> QED
    BY <2>1, <2>2, RaceQuiet
<1>7. CASE OpenSession(w) \/ IssueToken(w) \/ DeleteUser(w) \/ Interrupt(w)
  BY <1>4, <1>7 DEF OpenSession, IssueToken, DeleteUser, Interrupt
<1>8. CASE Link(w) \/ Revoke(w)
  BY <1>4, <1>5, <1>8 DEF Link, Revoke, Acting
<1> QED
  BY <1>1, <1>2, <1>3, <1>6, <1>7, <1>8 DEF Steps

(* A reset token changes one password and a state lets one callback        *)
(* through, or two handlers that overlapped between SELECT and UPDATE; and *)
(* nobody who comes later finds the row redeemable.                        *)
THEOREM OneTime == Spec => []RedeemedOnce
<1>1. IInv /\ RaceOK => RedeemedOnce
  BY RowFacts
  DEF IInv, Shape, RedeemedUsed, RaceOK, Tickets, RedeemedOnce, Redeemable, UsedReset,
      UsedState
<1>2. Init => RaceOK
  BY DEF Init, RaceOK, Tickets, Burning, Idle
<1>3. ASSUME IInv, RaceOK, [Next]_vars PROVE RaceOK'
  <2>1. CASE \E w \in Workers : Calls(w) \/ Steps(w)
    BY <1>3, <2>1, RaceCalls, RaceSteps
  <2>2. CASE \/ UNCHANGED vars \/ Expire
             \/ \E s \in Sessions : DropSession(s)
             \/ \E x \in States : StartOAuth(x)
             \/ \E u \in Users : RemoveUser(u) \/ PatchUser(u)
    <3>1. UNCHANGED <<job, redeemed, raced>>
      BY <2>2 DEF vars, Expire, DropSession, StartOAuth, RemoveUser, PatchUser
    <3> QED
      BY <1>3, <3>1, RaceQuiet
  <2> QED
    BY <1>3, <2>1, <2>2 DEF Next
<1> QED
  BY <1>1, <1>2, <1>3, SpecIInv, PTL DEF Spec

-----------------------------------------------------------------------------
(* Emails are unique: a row is added only for an email nobody has.         *)

LEMMA EmailsStep ==
  ASSUME OneUserPerEmail, UsersKept,
         \A u \in Users : Exists(u)' => user[u] # None
  PROVE  OneUserPerEmail'
BY DEF OneUserPerEmail, UsersKept

LEMMA EmailsInsert ==
  ASSUME IInv, OneUserPerEmail, NEW w \in Workers, InsertUser(w)
  PROVE  OneUserPerEmail'
<1>1. CASE UNCHANGED user
  BY <1>1 DEF OneUserPerEmail, Exists
<1>2. CASE Holders(job[w].email) = {} /\ AddUser(w)
  <2>1. PICK u \in Users :
          user' = [user EXCEPT ![u] = [email |-> job[w].email, active |-> TRUE,
                                       known |-> job[w].op = "signup"]]
    BY <1>2 DEF AddUser
  <2>2. /\ user'[u].email = job[w].email
        /\ \A v \in Users \ {u} : user'[v] = user[v]
    BY <2>1 DEF IInv, Shape
  <2>3. \A v \in Users \ {u} : Exists(v)' => user'[v].email # job[w].email
    BY <1>2, <2>2 DEF Holders, Exists
  <2> QED
    BY <2>2, <2>3 DEF OneUserPerEmail, Exists
<1> QED
  BY <1>1, <1>2 DEF InsertUser

(* No other step adds a row or changes an email.                           *)
LEMMA EmailsRest ==
  ASSUME IInv, [Next]_vars, \A w \in Workers : ~InsertUser(w)
  PROVE  UsersKept /\ \A u \in Users : Exists(u)' => user[u] # None
<1>1. CASE UNCHANGED user
  BY <1>1 DEF UsersKept, Exists
<1>2. ASSUME NEW u \in Users, NEW r \in UserRow \cup {Gone}, user' = [user EXCEPT ![u] = r],
             Exists(u), r # Gone => r.email = user[u].email
      PROVE  UsersKept /\ \A v \in Users : Exists(v)' => user[v] # None
  BY <1>2, RowFacts DEF IInv, Shape, UsersKept, Exists
<1>3. ASSUME NEW u \in Users, Exists(u), Cascade(u)
      PROVE  UsersKept /\ \A v \in Users : Exists(v)' => user[v] # None
  BY <1>2, <1>3 DEF Cascade
<1>4. ASSUME NEW w \in Workers, SetPassword(w)
      PROVE  UsersKept /\ \A v \in Users : Exists(v)' => user[v] # None
  <2> DEFINE u == job[w].user
  <2>1. CASE UNCHANGED user
    BY <1>1, <2>1
  <2>2. CASE Exists(u) /\ user' = [user EXCEPT ![u].known = TRUE]
    <3>1. u \in Users /\ user[u] \in UserRow
      BY <1>4, <2>2 DEF SetPassword, At, IInv, Shape, JobOK, Known, Acting, Exists
    <3>2. [user[u] EXCEPT !.known = TRUE] \in UserRow
      BY <3>1 DEF UserRow
    <3> QED
      BY <1>2, <2>2, <3>1, <3>2 DEF UserRow
  <2> QED
    BY <1>4, <2>1, <2>2 DEF SetPassword
<1>5. ASSUME NEW u \in Users, PatchUser(u)
      PROVE  UsersKept /\ \A v \in Users : Exists(v)' => user[v] # None
  <2>1. user[u] \in UserRow /\ Exists(u)
    BY <1>5 DEF PatchUser, IInv, Shape, Exists
  <2>2. [user[u] EXCEPT !.active = ~@] \in UserRow
    BY <2>1 DEF UserRow
  <2> QED
    BY <1>2, <1>5, <2>1, <2>2 DEF PatchUser, UserRow
<1>6. ASSUME NEW w \in Workers, DeleteUser(w)
      PROVE  UsersKept /\ \A v \in Users : Exists(v)' => user[v] # None
  <2>1. job[w].user \in Users
    BY <1>6 DEF DeleteUser, At, IInv, JobOK, Known, Acting
  <2> QED
    BY <1>1, <1>3, <1>6, <2>1 DEF DeleteUser
<1>7. ASSUME NEW w \in Workers, Calls(w) PROVE UNCHANGED user
  BY <1>7 DEF Calls, Signup, Login, Forgot, Callback, Reset, DeleteAccount
<1>8. ASSUME NEW w \in Workers, Steps(w)
      PROVE  UsersKept /\ \A v \in Users : Exists(v)' => user[v] # None
  BY <1>1, <1>4, <1>6, <1>8
  DEF Steps, OpenSession, BurnState, ByEmail, Link, IssueToken, BurnToken, Revoke,
      Interrupt, Profile
<1>9. CASE UNCHANGED vars \/ Expire \/ (\E s \in Sessions : DropSession(s))
           \/ (\E x \in States : StartOAuth(x))
  BY <1>1, <1>9 DEF vars, Expire, DropSession, StartOAuth
<1>10. ASSUME NEW u \in Users, RemoveUser(u)
       PROVE  UsersKept /\ \A v \in Users : Exists(v)' => user[v] # None
  BY <1>3, <1>10 DEF RemoveUser
<1> QED
  BY <1>1, <1>5, <1>7, <1>8, <1>9, <1>10 DEF Next

(* No email has two accounts, whoever else signs up at the same time.      *)
THEOREM UniqueEmails == Spec => []OneUserPerEmail
<1>1. Init => OneUserPerEmail
  BY DEF Init, OneUserPerEmail, Exists
<1>2. IInv /\ OneUserPerEmail /\ [Next]_vars => OneUserPerEmail'
  BY EmailsInsert, EmailsRest, EmailsStep
<1> QED
  BY <1>1, <1>2, SpecIInv, PTL DEF Spec

-----------------------------------------------------------------------------
(* What becomes of the link of a provider account.                         *)

LinkStays(a) == identity'[a] = identity[a]
LinkEnds(a) == identity'[a] = None /\ user'[identity[a]] = Gone
LinkMade(a) == \E w \in Workers :
  /\ At(w, "link") /\ job[w].key = a /\ Exists(job[w].user)
  /\ identity[a] = None /\ identity'[a] = job[w].user
  /\ UNCHANGED <<user, proved>>

LEMMA LinkSteps ==
  ASSUME IInv, [Next]_vars, NEW a \in Providers
  PROVE  LinkStays(a) \/ LinkEnds(a) \/ LinkMade(a)
<1> DEFINE Goal == LinkStays(a) \/ LinkEnds(a) \/ LinkMade(a)
<1>1. CASE UNCHANGED identity
  BY <1>1 DEF LinkStays
<1>2. ASSUME NEW u \in Users, Cascade(u) PROVE Goal
  BY <1>2 DEF Cascade, IInv, Shape, LinkStays, LinkEnds
<1>3. ASSUME NEW w \in Workers, Link(w) PROVE Goal
  BY <1>1, <1>3 DEF Link, IInv, Shape, LinkStays, LinkMade
<1>4. ASSUME NEW w \in Workers, DeleteUser(w) PROVE Goal
  <2>1. job[w].user \in Users
    BY <1>4 DEF DeleteUser, At, IInv, JobOK, Known, Acting
  <2> QED
    BY <1>1, <1>2, <1>4, <2>1 DEF DeleteUser
<1>5. ASSUME NEW w \in Workers, Calls(w) PROVE UNCHANGED identity
  BY <1>5 DEF Calls, Signup, Login, Forgot, Callback, Reset, DeleteAccount
<1>6. ASSUME NEW w \in Workers, Steps(w) PROVE Goal
  <2>1. CASE Link(w) \/ DeleteUser(w)
    BY <1>3, <1>4, <2>1
  <2>2. CASE ~(Link(w) \/ DeleteUser(w))
    <3>1. UNCHANGED identity
      BY <1>6, <2>2
      DEF Steps, InsertUser, OpenSession, BurnState, ByEmail, IssueToken, BurnToken,
          SetPassword, Revoke, Interrupt, Profile
    <3> QED
      BY <1>1, <3>1
  <2> QED
    BY <2>1, <2>2
<1>7. CASE UNCHANGED vars \/ Expire \/ (\E s \in Sessions : DropSession(s))
           \/ (\E x \in States : StartOAuth(x)) \/ (\E u \in Users : PatchUser(u))
  <2>1. UNCHANGED identity
    BY <1>7 DEF vars, Expire, DropSession, StartOAuth, PatchUser
  <2> QED
    BY <1>1, <2>1
<1>8. ASSUME NEW u \in Users, RemoveUser(u) PROVE Goal
  BY <1>2, <1>8 DEF RemoveUser
<1>9. CASE \E w \in Workers : Calls(w) \/ Steps(w)
  BY <1>1, <1>5, <1>6, <1>9
<1> QED
  BY <1>7, <1>8, <1>9 DEF Next

(* A provider account cannot be re-pointed to another user.                *)
THEOREM NotRepointed == Spec => IdentityStays
<1>1. ASSUME IInv, [Next]_vars, NEW a \in Providers, identity[a] # None,
             identity'[a] # identity[a]
      PROVE  identity'[a] = None /\ user'[identity[a]] = Gone
  BY <1>1, LinkSteps DEF LinkStays, LinkEnds, LinkMade
<1>2. IInv /\ [Next]_vars =>
        [\A a \in Providers :
           identity[a] # None /\ identity'[a] # identity[a] =>
             identity'[a] = None /\ user'[identity[a]] = Gone]_vars
  BY <1>1
<1> QED
  BY <1>2, SpecIInv, PTL DEF Spec, IdentityStays

LEMMA UsersKeptAlways ==
  ASSUME IInv, [Next]_vars
  PROVE  UsersKept
<1>1. ASSUME NEW w \in Workers, InsertUser(w) PROVE UsersKept
  <2>1. CASE UNCHANGED user
    BY <2>1, UsersSame
  <2>2. CASE AddUser(w)
    BY <2>2, RowFacts DEF AddUser, IInv, Shape, UsersKept, Exists
  <2> QED
    BY <1>1, <2>1, <2>2 DEF InsertUser
<1> QED
  BY <1>1, EmailsRest

LEMMA ProvedKeptAlways ==
  ASSUME IInv, [Next]_vars
  PROVE  ProvedKept
<1>1. CASE UNCHANGED proved
  BY <1>1, ProvedSame
<1>2. ASSUME NEW w \in Workers, NEW a \in Providers, NEW email \in Emails \cup {None},
             NEW verified \in BOOLEAN, Profile(w, a, email, verified)
      PROVE  ProvedKept
  BY <1>2 DEF Profile, ProvedKept, IInv, Shape
<1>3. ASSUME NEW w \in Workers, Calls(w) PROVE UNCHANGED proved
  BY <1>3 DEF Calls, Signup, Login, Forgot, Callback, Reset, DeleteAccount
<1>4. ASSUME NEW w \in Workers, Steps(w) PROVE ProvedKept
  BY <1>1, <1>2, <1>4
  DEF Steps, InsertUser, OpenSession, BurnState, ByEmail, Link, IssueToken, BurnToken,
      SetPassword, Revoke, DeleteUser, Interrupt
<1>5. CASE UNCHANGED vars \/ Expire \/ (\E s \in Sessions : DropSession(s))
           \/ (\E x \in States : StartOAuth(x))
           \/ (\E u \in Users : RemoveUser(u) \/ PatchUser(u))
  BY <1>1, <1>5 DEF vars, Expire, DropSession, StartOAuth, RemoveUser, PatchUser
<1> QED
  BY <1>1, <1>3, <1>4, <1>5 DEF Next

(* A callback links a provider account to the user of an email only when   *)
(* the provider has called that email verified, several transactions ago.  *)
THEOREM VerifiedLinks == Spec => []LinkedByVerifiedEmail
<1>1. Init => LinkedByVerifiedEmail
  BY DEF Init, LinkedByVerifiedEmail
<1>2. ASSUME IInv, LinkedByVerifiedEmail, [Next]_vars, NEW a \in Providers,
             identity'[a] # None
      PROVE  user'[identity'[a]].email \in proved'[a]
  <2>1. IInv' /\ UsersKept /\ ProvedKept
    BY <1>2, NextIInv, UsersKeptAlways, ProvedKeptAlways
  <2>2. identity'[a] \in Users /\ user'[identity'[a]] \notin {None, Gone}
    BY <1>2, <2>1 DEF IInv, Shape, RowsHaveTheirUser, Exists
  <2>3. CASE LinkStays(a)
    <3>1. identity[a] # None /\ user[identity[a]] # None
      BY <1>2, <2>3, RowFacts DEF LinkStays, IInv, RowsHaveTheirUser, Exists
    <3> QED
      BY <1>2, <2>1, <2>2, <2>3, <3>1
      DEF LinkStays, LinkedByVerifiedEmail, UsersKept, ProvedKept, Exists
  <2>4. CASE LinkMade(a)
    BY <1>2, <2>4 DEF LinkMade, At, IInv, JobOK, Vouched
  <2> QED
    BY <1>2, <2>3, <2>4, LinkSteps DEF LinkEnds
<1>3. IInv /\ LinkedByVerifiedEmail /\ [Next]_vars => LinkedByVerifiedEmail'
  BY <1>2 DEF LinkedByVerifiedEmail
<1> QED
  BY <1>1, <1>3, SpecIInv, PTL DEF Spec

-----------------------------------------------------------------------------
(* What a reset leaves of the sessions opened before it.                   *)

Old(s) == session[s] # None /\ session[s].age \notin {"current", "late"}

(* Nothing becomes old, and who is to revoke stays or is cut off.          *)
LEMMA OldStep ==
  ASSUME OldSessionsEnd,
         \A s \in Sessions : Old(s)' =>
           /\ Old(s) /\ session'[s].user = session[s].user
           /\ session[s].user \in cutOff => session[s].user \in cutOff'
           /\ \A w \in Workers : At(w, "revoke") /\ job[w].user = session[s].user =>
                \/ job'[w].at = "revoke" /\ job'[w].user = job[w].user
                \/ session[s].user \in cutOff'
  PROVE  OldSessionsEnd'
BY DEF OldSessionsEnd, Revoking, Old, At

LEMMA OldSetPassword ==
  ASSUME IInv, IInv', OldSessionsEnd, NEW w \in Workers, SetPassword(w)
  PROVE  OldSessionsEnd'
<1> DEFINE u == job[w].user
<1>0. UNCHANGED cutOff /\ job[w].at # "revoke"
  BY DEF SetPassword, At
<1>1. CASE End(w) /\ UNCHANGED session
  <2>1. \A v \in Workers \ {w} : job'[v] = job[v]
    BY <1>1 DEF End, IInv, Shape
  <2>2. \A s \in Sessions : Old(s)' => Old(s) /\ session'[s].user = session[s].user
    BY <1>1 DEF Old
  <2> QED
    BY <1>0, <2>1, <2>2, OldStep DEF At
<1>2. CASE /\ session' = Aged(u)
           /\ job' = [v \in Workers |->
                IF v = w THEN [job[v] EXCEPT !.at = "revoke"]
                ELSE [job[v] EXCEPT !.stale = @ \/ (job[v].user = u /\ job[v].at # "idle")]]
  <2>1. job'[w].at = "revoke" /\ job'[w].user = u
    BY <1>2 DEF IInv, Shape, Jobs
  <2>2. \A v \in Workers \ {w} : job'[v].at = job[v].at /\ job'[v].user = job[v].user
    BY <1>2 DEF IInv, Shape, Jobs
  <2>3. ASSUME NEW s \in Sessions, session'[s] # None, session'[s].age # "current",
               session'[s].age # "late"
        PROVE  Revoking(session[s].user)' /\ session'[s].user = session[s].user
    <3>1. session[s] # None /\ session'[s].user = session[s].user
      BY <1>2, <2>3, RowFacts DEF Aged, IInv, Shape, SessionRow
    <3>2. CASE session[s].user = u
      BY <2>1, <3>1, <3>2 DEF Revoking, At
    <3>3. CASE session[s].user # u
      <4>1. session'[s] = session[s]
        BY <1>2, <3>3 DEF Aged
      <4>2. Revoking(session[s].user)
        BY <2>3, <3>1, <4>1 DEF OldSessionsEnd
      <4>3. CASE session[s].user \in cutOff
        BY <1>0, <3>1, <4>3 DEF Revoking
      <4>4. ASSUME NEW v \in Workers, At(v, "revoke"), job[v].user = session[s].user
            PROVE  Revoking(session[s].user)'
        BY <2>2, <3>1, <3>3, <4>4 DEF At, Revoking
      <4>5. CASE \E v \in Workers : At(v, "revoke") /\ job[v].user = session[s].user
        <5>1. PICK v \in Workers : At(v, "revoke") /\ job[v].user = session[s].user
          BY <4>5
        <5> QED
          BY <3>1, <4>4, <5>1
      <4> QED
        BY <4>2, <4>3, <4>5 DEF Revoking
    <3> QED
      BY <3>2, <3>3, <3>1
  <2> QED
    BY <2>3 DEF OldSessionsEnd, Revoking
<1> QED
  BY <1>1, <1>2 DEF SetPassword

(* A handler that is not about to revoke takes a step.                     *)
LEMMA OldQuiet ==
  ASSUME IInv', OldSessionsEnd, NEW w \in Workers, job[w].at # "revoke",
         \A v \in Workers \ {w} : job'[v] = job[v], UNCHANGED cutOff,
         \A s \in Sessions : Old(s)' => Old(s) /\ session'[s].user = session[s].user
  PROVE  OldSessionsEnd'
BY OldStep DEF At

LEMMA OldCalls ==
  ASSUME IInv, IInv', OldSessionsEnd, NEW w \in Workers, Calls(w)
  PROVE  OldSessionsEnd'
<1>1. /\ UNCHANGED <<session, cutOff>>
      /\ \E j : job[w] = Idle /\ job' = [job EXCEPT ![w] = j]
  BY DEF Calls, Signup, Login, Forgot, Callback, Reset, DeleteAccount, Begin
<1>2. \A v \in Workers \ {w} : job'[v] = job[v]
  BY <1>1 DEF IInv, Shape
<1>3. job[w].at # "revoke"
  BY <1>1 DEF Idle
<1>4. \A s \in Sessions : Old(s)' => Old(s) /\ session'[s].user = session[s].user
  BY <1>1 DEF Old
<1> QED
  BY <1>1, <1>2, <1>3, <1>4, OldQuiet

(* A session inserted by a login that began before the change is old when  *)
(* the sessions are still to be revoked, and late otherwise.               *)
LEMMA OldOpens ==
  ASSUME IInv, IInv', OldSessionsEnd, NEW w \in Workers, OpenSession(w)
  PROVE  OldSessionsEnd'
<1>1. job[w].at = "session" /\ UNCHANGED cutOff
  BY DEF OpenSession, At
<1>2. \A v \in Workers \ {w} : job'[v] = job[v]
  BY DEF OpenSession, End, IInv, Shape
<1> DEFINE Awaits(u) == \/ u \in cutOff'
                        \/ \E v \in Workers : job'[v].at = "revoke" /\ job'[v].user = u
<1>3. \A u \in Users : Revoking(u) => Awaits(u)
  BY <1>1, <1>2 DEF Revoking, At
<1>4. ASSUME NEW s \in Sessions, session'[s] # None, session'[s].age \notin {"current", "late"}
      PROVE  Awaits(session'[s].user)
  <2>1. CASE session'[s] = session[s]
    <3>1. Revoking(session[s].user)
      BY <1>4, <2>1 DEF OldSessionsEnd
    <3>2. session[s].user \in Users
      BY <1>4, <2>1 DEF IInv, Shape, SessionRow
    <3> QED
      BY <1>3, <2>1, <3>1, <3>2
  <2>2. CASE session'[s] # session[s]
    <3>1. /\ session'[s].user = job[w].user
          /\ session'[s].age = IF ~job[w].stale THEN "current"
                               ELSE IF Revoking(job[w].user) THEN "old" ELSE "late"
      BY <2>2 DEF OpenSession, AddSession, IInv, Shape
    <3>2. Revoking(job[w].user)
      BY <1>4, <3>1
    <3>3. job[w].user \in Users
      BY <1>1 DEF IInv, JobOK, Known, Acting
    <3> QED
      BY <1>3, <3>1, <3>2, <3>3
  <2> QED
    BY <2>1, <2>2
<1> QED
  BY <1>4 DEF OldSessionsEnd, Revoking, At

LEMMA OldSteps ==
  ASSUME IInv, IInv', OldSessionsEnd, NEW w \in Workers, Steps(w)
  PROVE  OldSessionsEnd'
<1>0. ASSUME UNCHANGED session
      PROVE  \A s \in Sessions : Old(s)' => Old(s) /\ session'[s].user = session[s].user
  BY <1>0 DEF Old
<1>1. CASE InsertUser(w) \/ BurnState(w) \/ ByEmail(w) \/ Link(w) \/ IssueToken(w)
           \/ BurnToken(w)
  <2>1. job[w].at # "revoke" /\ UNCHANGED <<session, cutOff>>
    BY <1>1 DEF InsertUser, BurnState, ByEmail, Link, IssueToken, BurnToken, At
  <2>2. \A v \in Workers \ {w} : job'[v] = job[v]
    BY <1>1 DEF InsertUser, AddUser, BurnState, ByEmail, Link, IssueToken, BurnToken,
                GoTo, End, IInv, Shape
  <2> QED
    BY <1>0, <2>1, <2>2, OldQuiet
<1>2. CASE \E a \in Providers, email \in Emails \cup {None}, verified \in BOOLEAN :
             Profile(w, a, email, verified)
  <2>1. job[w].at # "revoke" /\ UNCHANGED <<session, cutOff>>
    BY <1>2 DEF Profile, At
  <2>2. \A v \in Workers \ {w} : job'[v] = job[v]
    BY <1>2 DEF Profile, End, IInv, Shape
  <2> QED
    BY <1>0, <2>1, <2>2, OldQuiet
<1>3. CASE OpenSession(w)
  BY <1>3, OldOpens
<1>4. CASE SetPassword(w)
  BY <1>4, OldSetPassword
<1>5. CASE Revoke(w)
  <2>1. \A v \in Workers \ {w} : job'[v] = job[v]
    BY <1>5 DEF Revoke, End, GoTo, IInv, Shape
  <2>2. \A s \in Sessions : Old(s)' =>
          Old(s) /\ session'[s].user = session[s].user /\ session[s].user # job[w].user
    BY <1>5 DEF Revoke, Old
  <2>3. cutOff' = cutOff \ {job[w].user}
    BY <1>5 DEF Revoke
  <2> QED
    BY <2>1, <2>2, <2>3, OldStep DEF At
<1>6. CASE DeleteUser(w)
  <2>1. job[w].at # "revoke" /\ UNCHANGED cutOff /\ \A v \in Workers \ {w} : job'[v] = job[v]
    BY <1>6 DEF DeleteUser, At, End, IInv, Shape
  <2>2. \A s \in Sessions : Old(s)' => Old(s) /\ session'[s].user = session[s].user
    BY <1>6 DEF DeleteUser, Cascade, Old
  <2> QED
    BY <2>1, <2>2, OldQuiet
<1>7. CASE Interrupt(w)
  <2>1. UNCHANGED session /\ \A v \in Workers \ {w} : job'[v] = job[v]
    BY <1>7 DEF Interrupt, End, IInv, Shape
  <2>2. cutOff \subseteq cutOff' /\ (At(w, "revoke") => job[w].user \in cutOff')
    BY <1>7 DEF Interrupt
  <2> QED
    BY <1>0, <2>1, <2>2, OldStep DEF At
<1> QED
  BY <1>1, <1>2, <1>3, <1>4, <1>5, <1>6, <1>7 DEF Steps

LEMMA OldOthers ==
  ASSUME IInv, IInv', OldSessionsEnd, UNCHANGED <<job, cutOff>>,
         \/ UNCHANGED session
         \/ Expire
         \/ \E s \in Sessions : DropSession(s)
         \/ \E u \in Users : RemoveUser(u)
  PROVE  OldSessionsEnd'
<1>1. \A s \in Sessions : Old(s)' => Old(s) /\ session'[s].user = session[s].user
  BY RowFacts DEF Expire, DropSession, RemoveUser, Cascade, IInv, Shape, SessionRow, Old
<1> QED
  BY <1>1, OldStep DEF At

(* Of the sessions opened before a reset, those are left whose revocation  *)
(* is still to come or was cut off, and those that a login which had       *)
(* checked the old password inserted after it; no others.                  *)
THEOREM OldSessionsRevoked == Spec => []OldSessionsEnd
<1>1. Init => OldSessionsEnd
  BY DEF Init, OldSessionsEnd
<1>2. ASSUME IInv, IInv', OldSessionsEnd, [Next]_vars PROVE OldSessionsEnd'
  <2>1. CASE \E w \in Workers : Calls(w) \/ Steps(w)
    BY <1>2, <2>1, OldCalls, OldSteps
  <2>2. CASE Expire \/ (\E s \in Sessions : DropSession(s)) \/ (\E u \in Users : RemoveUser(u))
    BY <1>2, <2>2, OldOthers DEF Expire, DropSession, RemoveUser
  <2>3. CASE UNCHANGED vars \/ (\E x \in States : StartOAuth(x)) \/ (\E u \in Users : PatchUser(u))
    BY <1>2, <2>3, OldOthers DEF vars, StartOAuth, PatchUser
  <2> QED
    BY <1>2, <2>1, <2>2, <2>3 DEF Next
<1> QED
  BY <1>1, <1>2, SpecIInv, PTL DEF Spec

=============================================================================
