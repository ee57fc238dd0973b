--------------------------- MODULE ConnectionPool ---------------------------
(***************************************************************************)
(* The SQLite layer every request goes through: `Database' (one sqlite3    *)
(* connection) and the per-file pool behind acquire_database and           *)
(* release_database, backend/core/db.py.                                   *)
(*                                                                         *)
(* A request may hold several connections (the meta database, a project    *)
(* file, a second meta connection for a metrics flush).  Each step is one  *)
(* call on one connection, so calls of requests running in different       *)
(* threads interleave between any two of them.                             *)
(*                                                                         *)
(* What SQLite and Python's sqlite3 do, as db.py relies on it:             *)
(*   - a write statement outside a transaction opens one implicitly;       *)
(*   - a transaction takes the file's single write lock at its first       *)
(*     write, and a constraint violation keeps both (the statement alone   *)
(*     is undone);                                                         *)
(*   - a statement that waits in vain for the lock fails with "database is *)
(*     locked" and leaves the implicit transaction open, without the lock; *)
(*   - BEGIN is deferred: a block that reads first works on a snapshot of  *)
(*     the file, and once another connection has committed its first write *)
(*     fails with "database is locked" at once;                            *)
(*   - closing a connection rolls its transaction back;                    *)
(*   - COMMIT and ROLLBACK sent as statements end the transaction of a     *)
(*     block like the calls; then a write to a table opens a new one and a *)
(*     change of the schema is committed at once.                          *)
(* The 30 s wait is abstracted: while another connection has the lock, the *)
(* call may wait (no step) or time out.                                    *)
(***************************************************************************)
EXTENDS Integers, Sequences

CONSTANTS Requests,   \* request handlers, in whatever thread they run
          Conns,      \* identities of sqlite3 connections
          Paths,      \* database files: the meta database, project files
          Writes,     \* write statements, each issued at most once
          Dest,       \* Dest[w]: the file statement w is addressed to
          Scripted,   \* statements of a batch that has COMMIT, ROLLBACK or
                      \* the like among its own statements
          MaxIdle,    \* _POOL_MAX_PER_PATH
          None

ASSUME PoolAssumption == /\ MaxIdle \in Nat \ {0}
                         /\ Dest \in [Writes -> Paths]
                         /\ Scripted \in SUBSET Writes
                         /\ None \notin Requests \cup Paths

VARIABLES
  path,       \* path[c]: the file connection c is open on, None when closed
  holder,     \* holder[c]: the request that has checked c out
  idle,       \* idle[p]: the pool's list for file p, last in first out
  txn,        \* txn[c]: sqlite's transaction, one of TxnStates
  body,       \* body[c]: the kind of `with db.transaction()' block c is in
  batch,      \* batch[c]: the statements that block has executed
  pending,    \* pending[c]: those of them in c's open transaction
  committed,  \* statements whose effect is in a database file
  outcome     \* outcome[w]: what the caller of statement w has been told

vars == <<path, holder, idle, txn, body, batch, pending, committed, outcome>>

(* "begun": neither snapshot nor lock.  "reading": a snapshot that is the  *)
(* file's current state; "stale": one that no longer is.  "writing": the   *)
(* file's write lock.                                                      *)
TxnStates == {"none", "begun", "reading", "stale", "writing"}

(* "raw": the block uses the yielded connection (check_and_record, the SQL *)
(* editors, migrations).  "script": a batch given to a SQL editor that has *)
(* transaction statements of its own.  "helper": the block calls           *)
(* db.execute, which commits (consume_oauth_state).                        *)
BodyKinds == {"raw", "script", "helper"}

Outcomes == {"unsent", "inbody", "ok", "failed", "locked"}

(* The shape of the state; the pool retains at most MaxIdle connections    *)
(* per file ("Connections are bounded per path").                          *)
TypeOK ==
  /\ path \in [Conns -> Paths \cup {None}]
  /\ holder \in [Conns -> Requests \cup {None}]
  /\ idle \in [Paths -> Seq(Conns)]
  /\ \A p \in Paths : Len(idle[p]) <= MaxIdle
  /\ txn \in [Conns -> TxnStates]
  /\ body \in [Conns -> BodyKinds \cup {"none"}]
  /\ batch \in [Conns -> SUBSET Writes]
  /\ pending \in [Conns -> SUBSET Writes]
  /\ committed \in SUBSET Writes
  /\ outcome \in [Writes -> Outcomes]

Init ==
  /\ path = [c \in Conns |-> None]
  /\ holder = [c \in Conns |-> None]
  /\ idle = [p \in Paths |-> <<>>]
  /\ txn = [c \in Conns |-> "none"]
  /\ body = [c \in Conns |-> "none"]
  /\ batch = [c \in Conns |-> {}]
  /\ pending = [c \in Conns |-> {}]
  /\ committed = {}
  /\ outcome = [w \in Writes |-> "unsent"]

-----------------------------------------------------------------------------
(* Checkout and return.                                                    *)

(* Mutant: idle[-1] for idle.pop().                                        *)
AcquireIdlePeeks(r, p) ==
  /\ idle[p] # <<>>
  /\ holder' = [holder EXCEPT ![idle[p][Len(idle[p])]] = r]
  /\ UNCHANGED <<path, idle, txn, body, batch, pending, committed, outcome>>

AcquireIdle(r, p) ==
  /\ idle[p] # <<>>
  /\ holder' = [holder EXCEPT ![idle[p][Len(idle[p])]] = r]
  /\ idle' = [idle EXCEPT ![p] = SubSeq(idle[p], 1, Len(idle[p]) - 1)]
  /\ UNCHANGED <<path, txn, body, batch, pending, committed, outcome>>

(* Nothing idle: Database(path).connect().                                 *)
AcquireNew(r, p, c) ==
  /\ idle[p] = <<>>
  /\ path[c] = None
  /\ path' = [path EXCEPT ![c] = p]
  /\ holder' = [holder EXCEPT ![c] = r]
  /\ UNCHANGED <<idle, txn, body, batch, pending, committed, outcome>>

(* Mutant: <= for < against _POOL_MAX_PER_PATH.                            *)
ReleaseToPoolOffByOne(c) ==
  /\ holder[c] # None
  /\ body[c] = "none"
  /\ Len(idle[path[c]]) <= MaxIdle
  /\ idle' = [idle EXCEPT ![path[c]] = Append(@, c)]
  /\ holder' = [holder EXCEPT ![c] = None]
  /\ UNCHANGED <<path, txn, body, batch, pending, committed, outcome>>

(* Returned as it is, with whatever transaction its last call left open.   *)
ReleaseToPool(c) ==
  /\ holder[c] # None
  /\ body[c] = "none"
  /\ Len(idle[path[c]]) < MaxIdle
  /\ idle' = [idle EXCEPT ![path[c]] = Append(@, c)]
  /\ holder' = [holder EXCEPT ![c] = None]
  /\ UNCHANGED <<path, txn, body, batch, pending, committed, outcome>>

(* The pool of this file is full: the connection is closed.                *)
ReleaseAndClose(c) ==
  /\ holder[c] # None
  /\ body[c] = "none"
  /\ Len(idle[path[c]]) >= MaxIdle
  /\ path' = [path EXCEPT ![c] = None]
  /\ holder' = [holder EXCEPT ![c] = None]
  /\ txn' = [txn EXCEPT ![c] = "none"]
  /\ pending' = [pending EXCEPT ![c] = {}]
  /\ UNCHANGED <<idle, body, batch, committed, outcome>>

IsIdle(c) == \E p \in Paths : \E i \in 1 .. Len(idle[p]) : idle[p][i] = c

(* close_shared_databases, at shutdown: requests still running keep their  *)
(* connections and may return them afterwards.                             *)
CloseShared ==
  /\ \E c \in Conns : IsIdle(c)
  /\ path' = [c \in Conns |-> IF IsIdle(c) THEN None ELSE path[c]]
  /\ txn' = [c \in Conns |-> IF IsIdle(c) THEN "none" ELSE txn[c]]
  /\ pending' = [c \in Conns |-> IF IsIdle(c) THEN {} ELSE pending[c]]
  /\ idle' = [p \in Paths |-> <<>>]
  /\ UNCHANGED <<holder, body, batch, committed, outcome>>

-----------------------------------------------------------------------------
(* Statements.                                                             *)

Locked(c) == \E d \in Conns \ {c} : path[d] = path[c] /\ txn[d] = "writing"

Outdates(c, ws, d) ==
  path[d] = path[c] /\ txn[d] = "reading" /\ pending[c] \cup ws # {}

(* Mutant: transaction() re-raises without rolling back.                   *)
RollbackSkipped(c) == UNCHANGED <<txn, pending, committed>>

Rollback(c) ==
  /\ txn' = [txn EXCEPT ![c] = "none"]
  /\ pending' = [pending EXCEPT ![c] = {}]
  /\ UNCHANGED committed

(* Writing to the file outdates the snapshots of the blocks reading it.    *)
Commit(c, ws) ==
  /\ txn' = [d \in Conns |->
               CASE d = c -> "none"
                 [] d # c /\ Outdates(c, ws, d) -> "stale"
                 [] OTHER -> txn[d]]
  /\ pending' = [pending EXCEPT ![c] = {}]
  /\ committed' = committed \cup pending[c] \cup ws

CanExecute(c) == holder[c] # None /\ body[c] \in {"none", "helper"}

CanSend(c, w) == /\ outcome[w] = "unsent"
                 /\ Dest[w] = path[c]
                 /\ w \in Scripted <=> body[c] = "script"

(* Database.execute of a SELECT: needs no lock, and its commit() ends      *)
(* whatever transaction the connection was left in.                        *)
ExecuteRead(c) ==
  /\ CanExecute(c)
  /\ Commit(c, {})
  /\ UNCHANGED <<path, holder, idle, body, batch, outcome>>

ExecuteWrite(c, w) ==
  /\ CanExecute(c)
  /\ CanSend(c, w)
  /\ ~Locked(c)
  /\ Commit(c, {w})
  /\ outcome' = [outcome EXCEPT ![w] = "ok"]
  /\ UNCHANGED <<path, holder, idle, body, batch>>

(* IntegrityError: execute raises and does not roll back.                  *)
ExecuteRejected(c, w) ==
  /\ CanExecute(c)
  /\ CanSend(c, w)
  /\ body[c] = "none"
  /\ ~Locked(c)
  /\ txn' = [txn EXCEPT ![c] = "writing"]
  /\ outcome' = [outcome EXCEPT ![w] = "failed"]
  /\ UNCHANGED <<path, holder, idle, body, batch, pending, committed>>

(* "database is locked": execute raises and does not roll back; only the   *)
(* transaction() block around it does, when there is one.                  *)
ExecuteLocked(c, w) ==
  /\ CanExecute(c)
  /\ CanSend(c, w)
  /\ Locked(c)
  /\ outcome' = [outcome EXCEPT ![w] = "locked"]
  /\ \/ /\ body[c] = "none"
        /\ txn' = [txn EXCEPT ![c] = "begun"]
        /\ UNCHANGED <<body, batch, pending, committed>>
     \/ /\ body[c] = "helper"
        /\ Rollback(c)
        /\ body' = [body EXCEPT ![c] = "none"]
  /\ UNCHANGED <<path, holder, idle, batch>>

-----------------------------------------------------------------------------
(* Transaction blocks: with db.transaction() as conn: ...                  *)

Begin(c, kind) ==
  /\ holder[c] # None
  /\ body[c] = "none"
  /\ txn[c] = "none"
  /\ txn' = [txn EXCEPT ![c] = "begun"]
  /\ body' = [body EXCEPT ![c] = kind]
  /\ UNCHANGED <<path, holder, idle, pending, committed, outcome, batch>>

(* BEGIN inside the transaction a failed execute left open: "cannot start  *)
(* a transaction within a transaction", rolled back, the block never runs. *)
BeginRefused(c) ==
  /\ holder[c] # None
  /\ body[c] = "none"
  /\ txn[c] # "none"
  /\ Rollback(c)
  /\ UNCHANGED <<path, holder, idle, body, batch, outcome>>

(* The body of a block that is given the connection.                       *)
InBody(c) == body[c] \in {"raw", "script"}

(* A SELECT in such a block (the SQL editors run a batch as given).        *)
BodyRead(c) ==
  /\ InBody(c)
  /\ txn[c] = "begun"
  /\ txn' = [txn EXCEPT ![c] = "reading"]
  /\ UNCHANGED <<path, holder, idle, body, batch, pending, committed, outcome>>

BodyWrite(c, w) ==
  /\ InBody(c)
  /\ CanSend(c, w)
  /\ ~Locked(c) /\ txn[c] # "stale"
  /\ txn' = [txn EXCEPT ![c] = "writing"]
  /\ pending' = [pending EXCEPT ![c] = @ \cup {w}]
  /\ batch' = [batch EXCEPT ![c] = @ \cup {w}]
  /\ outcome' = [outcome EXCEPT ![w] = "inbody"]
  /\ UNCHANGED <<path, holder, idle, body, committed>>

(* The editors pass COMMIT, ROLLBACK, ROLLBACK TO and BEGIN on like any    *)
(* other statement of the batch, and run what comes after them.            *)
ScriptCommit(c) ==
  /\ body[c] = "script" /\ txn[c] # "none"
  /\ Commit(c, {})
  /\ UNCHANGED <<path, holder, idle, body, batch, outcome>>

ScriptRollback(c) ==
  /\ body[c] = "script" /\ txn[c] # "none"
  /\ \/ Rollback(c)
     \/ \E ws \in SUBSET pending[c] :
          /\ pending' = [pending EXCEPT ![c] = ws]
          /\ UNCHANGED <<txn, committed>>
  /\ UNCHANGED <<path, holder, idle, body, batch, outcome>>

ScriptBegin(c) ==
  /\ body[c] = "script" /\ txn[c] = "none"
  /\ txn' = [txn EXCEPT ![c] = "begun"]
  /\ UNCHANGED <<path, holder, idle, body, batch, pending, committed, outcome>>

(* A change of the schema after such a COMMIT or ROLLBACK.                 *)
ScriptWrite(c, w) ==
  /\ body[c] = "script" /\ txn[c] = "none"
  /\ CanSend(c, w)
  /\ ~Locked(c)
  /\ Commit(c, {w})
  /\ batch' = [batch EXCEPT ![c] = @ \cup {w}]
  /\ outcome' = [outcome EXCEPT ![w] = "inbody"]
  /\ UNCHANGED <<path, holder, idle, body>>

EndBlock(c) ==
  /\ body' = [body EXCEPT ![c] = "none"]
  /\ batch' = [batch EXCEPT ![c] = {}]
  /\ UNCHANGED <<path, holder, idle>>

(* The block raises: a constraint, a bad statement (a second COMMIT too),  *)
(* a handler's own error.                                                  *)
BodyRaise(c) ==
  /\ InBody(c)
  /\ Rollback(c)
  /\ outcome' = [w \in Writes |-> IF w \in batch[c] THEN "failed" ELSE outcome[w]]
  /\ EndBlock(c)

(* The block raises because statement w could not have the lock.           *)
BodyLocked(c, w) ==
  /\ InBody(c)
  /\ CanSend(c, w)
  /\ Locked(c) \/ txn[c] = "stale"
  /\ Rollback(c)
  /\ outcome' = [v \in Writes |-> CASE v = w -> "locked"
                                    [] v \in batch[c] -> "failed"
                                    [] OTHER -> outcome[v]]
  /\ EndBlock(c)

BodyExit(c) ==
  /\ body[c] # "none"
  /\ Commit(c, {})
  /\ outcome' = [w \in Writes |-> IF w \in batch[c] THEN "ok" ELSE outcome[w]]
  /\ EndBlock(c)

-----------------------------------------------------------------------------
Checkout == \E r \in Requests, p \in Paths :
              AcquireIdle(r, p) \/ \E c \in Conns : AcquireNew(r, p, c)

Return == \E c \in Conns : ReleaseToPool(c) \/ ReleaseAndClose(c)

Execute == \E c \in Conns :
             \/ ExecuteRead(c)
             \/ \E w \in Writes : \/ ExecuteWrite(c, w)
                                  \/ ExecuteRejected(c, w)
                                  \/ ExecuteLocked(c, w)

Transaction == \E c \in Conns :
                 \/ \E kind \in BodyKinds : Begin(c, kind)
                 \/ BeginRefused(c)
                 \/ BodyRead(c)
                 \/ BodyRaise(c)
                 \/ BodyExit(c)
                 \/ \E w \in Writes : BodyWrite(c, w) \/ BodyLocked(c, w)

Script == \E c \in Conns :
            \/ ScriptCommit(c) \/ ScriptRollback(c) \/ ScriptBegin(c)
            \/ \E w \in Writes : ScriptWrite(c, w)

Next == Checkout \/ Return \/ CloseShared \/ Execute \/ Transaction \/ Script

Spec == Init /\ [][Next]_vars

-----------------------------------------------------------------------------
(* acquire_database: "a connection is never shared by two requests at      *)
(* once".  An open connection is either with the request that checked it   *)
(* out or in the idle list of its own file, there once; it is never in     *)
(* both places and never lost.                                             *)
CheckedOutOnce ==
  /\ \A p \in Paths : \A i \in 1 .. Len(idle[p]) :
       path[idle[p][i]] = p /\ holder[idle[p][i]] = None
  /\ \A p \in Paths : \A i, j \in 1 .. Len(idle[p]) :
       idle[p][i] = idle[p][j] => i = j
  /\ \A c \in Conns : holder[c] # None => path[c] # None
  /\ \A c \in Conns : path[c] # None => (holder[c] # None \/ IsIdle(c))

(* A caller told "ok" finds its statement in the file, and a caller told   *)
(* of a failure never does: no later commit on the same connection, by     *)
(* another request, publishes what a failed call left behind.  A batch     *)
(* that ends its transaction itself has written its own answer: of it      *)
(* only what was executed can be in the file.                              *)
AnswerMatchesFile ==
  /\ \A w \in Writes \ Scripted : w \in committed <=> outcome[w] = "ok"
  /\ \A w \in Scripted : w \in committed => outcome[w] \in {"inbody", "ok", "failed"}

(* The request whose block has executed statements on connection c.        *)
Writer(c) == IF batch[c] = {} THEN None ELSE holder[c]

Content(p) == {w \in committed : Dest[w] = p}

Service == INSTANCE StatementService WITH
  Slots  <- Conns,
  owner  <- [c \in Conns |-> Writer(c)],
  batch  <- batch,
  block  <- pending,
  file   <- [p \in Paths |-> Content(p)],
  answer <- outcome

(* With connections that change hands with whatever transaction they were  *)
(* left in, what callers see is StatementService: every statement has its  *)
(* effect in full when its caller is told so and never otherwise, and the  *)
(* writes of a block are those of one request, appear together and have    *)
(* the file to themselves.  A batch that ends its transaction itself       *)
(* divides its own writes and nobody else's.                               *)
StatementsAtomic == Service!Spec

=============================================================================
