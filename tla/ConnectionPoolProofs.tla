------------------------ MODULE ConnectionPoolProofs ------------------------
(***************************************************************************)
(* Proofs about ConnectionPool for every set of requests, connections,     *)
(* files and statements and every pool size.                               *)
(***************************************************************************)
EXTENDS ConnectionPool, SequenceTheorems, TLAPS

(* Uncommitted statements exist only inside a block that is given the      *)
(* connection, and a block's statements are those whose callers are still  *)
(* waiting for it: a transaction left open by a failed execute holds the   *)
(* lock but no rows.  Only a batch that ends its transaction itself has    *)
(* statements that are no longer, or not, in one.                          *)
PendingIsInBody ==
  /\ \A c \in Conns : body[c] # "none" => holder[c] # None
  /\ \A c \in Conns : pending[c] \subseteq batch[c]
  /\ \A c \in Conns : batch[c] # {} => InBody(c)
  /\ \A c \in Conns : body[c] = "raw" => pending[c] = batch[c]
  /\ \A c \in Conns : \A w \in batch[c] : outcome[w] = "inbody"
  /\ \A c \in Conns : \A w \in batch[c] : w \in Scripted <=> body[c] = "script"
  /\ \A c, d \in Conns : \A w \in batch[c] : w \in batch[d] => c = d

PoolInv == TypeOK /\ CheckedOutOnce

AnswerInv == PoolInv /\ PendingIsInBody /\ AnswerMatchesFile

-----------------------------------------------------------------------------
(* Type correctness and the bound on the pool.                             *)

LEMMA InitTypeOK == Init => TypeOK
BY PoolAssumption DEF Init, TypeOK, TxnStates, BodyKinds, Outcomes

(* Every action of ConnectionPool preserves the shape of the state.        *)
LEMMA NextTypeOK == TypeOK /\ [Next]_vars => TypeOK'
<1> SUFFICES ASSUME TypeOK, [Next]_vars
             PROVE  TypeOK'
  OBVIOUS
<1> USE PoolAssumption DEF TypeOK, TxnStates, BodyKinds, Outcomes
<1>1. ASSUME NEW r \in Requests, NEW p \in Paths, AcquireIdle(r, p)
      PROVE  TypeOK'
  <2> DEFINE n == Len(idle[p])
             c == idle[p][n]
  <2>1. n \in Nat \ {0} /\ c \in Conns
    BY <1>1 DEF AcquireIdle
  <2>2. /\ SubSeq(idle[p], 1, n - 1) \in Seq(Conns)
        /\ Len(SubSeq(idle[p], 1, n - 1)) <= MaxIdle
    BY <2>1
  <2>3. holder' \in [Conns -> Requests \cup {None}]
    BY <1>1, <2>1 DEF AcquireIdle
  <2>4. idle' \in [Paths -> Seq(Conns)] /\ \A q \in Paths : Len(idle'[q]) <= MaxIdle
    BY <1>1, <2>2 DEF AcquireIdle
  <2> QED
    BY <1>1, <2>3, <2>4 DEF AcquireIdle
<1>2. ASSUME NEW r \in Requests, NEW p \in Paths, NEW c \in Conns, AcquireNew(r, p, c)
      PROVE  TypeOK'
  BY <1>2 DEF AcquireNew
<1>3. ASSUME NEW c \in Conns, ReleaseToPool(c)
      PROVE  TypeOK'
  <2>1. idle' \in [Paths -> Seq(Conns)]
    <3>1. \A p \in Paths : Append(idle[p], c) \in Seq(Conns)
      OBVIOUS
    <3>2. idle' = [p \in Paths |-> IF p = path[c] THEN Append(idle[p], c) ELSE idle[p]]
      BY <1>3 DEF ReleaseToPool
    <3> QED
      BY <3>1, <3>2
  <2>2. ASSUME NEW p \in Paths
        PROVE  Len(idle'[p]) <= MaxIdle
    <3>1. CASE p = path[c]
      <4>1. idle'[p] = Append(idle[p], c) /\ Len(idle[p]) < MaxIdle
        BY <1>3, <3>1 DEF ReleaseToPool
      <4>2. Len(Append(idle[p], c)) = Len(idle[p]) + 1 /\ Len(idle[p]) \in Nat
        OBVIOUS
      <4> QED
        BY <4>1, <4>2
    <3>2. CASE p # path[c]
      BY <1>3, <3>2 DEF ReleaseToPool
    <3> QED
      BY <3>1, <3>2
  <2> QED
    BY <1>3, <2>1, <2>2 DEF ReleaseToPool
<1>4. ASSUME NEW c \in Conns, ReleaseAndClose(c)
      PROVE  TypeOK'
  BY <1>4 DEF ReleaseAndClose
<1>5. CASE CloseShared
  <2>1. /\ path' \in [Conns -> Paths \cup {None}]
        /\ txn' \in [Conns -> TxnStates]
        /\ pending' \in [Conns -> SUBSET Writes]
        /\ batch' = batch
    BY <1>5 DEF CloseShared
  <2>2. idle' \in [Paths -> Seq(Conns)] /\ \A p \in Paths : Len(idle'[p]) <= MaxIdle
    BY <1>5 DEF CloseShared
  <2> QED
    BY <1>5, <2>1, <2>2 DEF CloseShared
<1>6. ASSUME NEW c \in Conns, ExecuteRead(c)
      PROVE  TypeOK'
  BY <1>6 DEF ExecuteRead, Commit, Outdates
<1>7. ASSUME NEW c \in Conns, NEW w \in Writes, ExecuteWrite(c, w)
      PROVE  TypeOK'
  BY <1>7 DEF ExecuteWrite, Commit
<1>8. ASSUME NEW c \in Conns, NEW w \in Writes, ExecuteRejected(c, w)
      PROVE  TypeOK'
  BY <1>8 DEF ExecuteRejected
<1>9. ASSUME NEW c \in Conns, NEW w \in Writes, ExecuteLocked(c, w)
      PROVE  TypeOK'
  BY <1>9 DEF ExecuteLocked, Rollback
<1>10. ASSUME NEW c \in Conns, NEW kind \in BodyKinds, Begin(c, kind)
       PROVE  TypeOK'
  BY <1>10 DEF Begin
<1>11. ASSUME NEW c \in Conns, BeginRefused(c)
       PROVE  TypeOK'
  BY <1>11 DEF BeginRefused, Rollback
<1>12. ASSUME NEW c \in Conns, BodyRaise(c)
       PROVE  TypeOK'
  BY <1>12 DEF BodyRaise, Rollback, EndBlock
<1>13. ASSUME NEW c \in Conns, BodyExit(c)
       PROVE  TypeOK'
  BY <1>13 DEF BodyExit, Commit, EndBlock
<1>14. ASSUME NEW c \in Conns, NEW w \in Writes, BodyWrite(c, w)
       PROVE  TypeOK'
  BY <1>14 DEF BodyWrite
<1>15. ASSUME NEW c \in Conns, NEW w \in Writes, BodyLocked(c, w)
       PROVE  TypeOK'
  BY <1>15 DEF BodyLocked, Rollback, EndBlock
<1>16. ASSUME NEW c \in Conns, BodyRead(c)
       PROVE  TypeOK'
  BY <1>16 DEF BodyRead
<1>17. CASE UNCHANGED vars
  BY <1>17 DEF vars
<1>18. ASSUME NEW c \in Conns, ScriptCommit(c)
       PROVE  TypeOK'
  BY <1>18 DEF ScriptCommit, Commit
<1>19. ASSUME NEW c \in Conns, ScriptRollback(c)
       PROVE  TypeOK'
  BY <1>19 DEF ScriptRollback, Rollback
<1>20. ASSUME NEW c \in Conns, ScriptBegin(c)
       PROVE  TypeOK'
  BY <1>20 DEF ScriptBegin
<1>21. ASSUME NEW c \in Conns, NEW w \in Writes, ScriptWrite(c, w)
       PROVE  TypeOK'
  BY <1>21 DEF ScriptWrite, Commit
<1> QED
  BY <1>1, <1>2, <1>3, <1>4, <1>5, <1>6, <1>7, <1>8, <1>9, <1>10, <1>11, <1>12,
     <1>13, <1>14, <1>15, <1>16, <1>17, <1>18, <1>19, <1>20, <1>21
     DEF Next, Checkout, Return, Execute, Transaction, Script

(* The pool's state always has its type, and no file ever has more than    *)
(* MaxIdle connections retained.                                           *)
THEOREM TypeCorrect == Spec => []TypeOK
BY InitTypeOK, NextTypeOK, PTL DEF Spec

-----------------------------------------------------------------------------
(* Checkout is exclusive.                                                  *)

(* list.pop() returns the last element and keeps the others in place.      *)
LEMMA PopLast ==
  ASSUME NEW S, NEW s \in Seq(S), NEW k \in Nat, k < Len(s)
  PROVE  /\ Len(SubSeq(s, 1, k)) = k
         /\ \A i \in 1 .. k : SubSeq(s, 1, k)[i] = s[i]
<1>1. Len(SubSeq(s, 1, k)) = k
  BY SMT
<1>2. \A i \in 1 .. k : SubSeq(s, 1, k)[i] = s[i]
  BY SMT
<1> QED
  BY <1>1, <1>2

(* list.append() adds one element at the end and keeps the others in place. *)
LEMMA AppendLast ==
  ASSUME NEW S, NEW s \in Seq(S), NEW e \in S
  PROVE  /\ Len(Append(s, e)) = Len(s) + 1
         /\ Append(s, e)[Len(s) + 1] = e
         /\ \A i \in 1 .. Len(s) : Append(s, e)[i] = s[i]
OBVIOUS

(* A step that leaves files, holders and idle lists alone.                 *)
LEMMA PoolUntouched ==
  ASSUME CheckedOutOnce, UNCHANGED <<path, holder, idle>>
  PROVE  CheckedOutOnce'
BY DEF CheckedOutOnce, IsIdle

LEMMA AcquireIdleKeepsCheckout ==
  ASSUME TypeOK, CheckedOutOnce, NEW r \in Requests, NEW p \in Paths, AcquireIdle(r, p)
  PROVE  CheckedOutOnce'
<1> DEFINE n == Len(idle[p])
           c == idle[p][n]
<1>1. /\ n \in Nat \ {0} /\ c \in Conns
      /\ path[c] = p /\ holder[c] = None
  BY DEF AcquireIdle, TypeOK, CheckedOutOnce
<1>2. /\ Len(idle'[p]) = n - 1
      /\ \A i \in 1 .. n - 1 : idle'[p][i] = idle[p][i]
  <2>1. /\ idle'[p] = SubSeq(idle[p], 1, n - 1)
        /\ idle[p] \in Seq(Conns) /\ idle[p] # <<>>
    BY DEF AcquireIdle, TypeOK
  <2> QED
    BY <1>1, <2>1, PopLast
<1>3. \A q \in Paths \ {p} : idle'[q] = idle[q]
  BY DEF AcquireIdle, TypeOK
<1>4. \A q \in Paths : /\ Len(idle'[q]) <= Len(idle[q])
                       /\ \A i \in 1 .. Len(idle'[q]) : idle'[q][i] = idle[q][i]
                       /\ Len(idle'[q]) \in Nat /\ Len(idle[q]) \in Nat
  <2> SUFFICES ASSUME NEW q \in Paths
               PROVE  /\ Len(idle'[q]) <= Len(idle[q])
                      /\ \A i \in 1 .. Len(idle'[q]) : idle'[q][i] = idle[q][i]
                      /\ Len(idle'[q]) \in Nat /\ Len(idle[q]) \in Nat
    OBVIOUS
  <2>1. Len(idle[q]) \in Nat
    BY DEF TypeOK
  <2>2. CASE q = p
    BY <1>1, <1>2, <2>2
  <2>3. CASE q # p
    BY <1>3, <2>1, <2>3
  <2> QED
    BY <2>2, <2>3
<1>5. holder' = [holder EXCEPT ![c] = r] /\ path' = path
  BY DEF AcquireIdle
<1>6. ASSUME NEW q \in Paths, NEW i \in 1 .. Len(idle'[q])
      PROVE  idle'[q][i] # c
  <2>1. idle'[q][i] = idle[q][i] /\ path[idle[q][i]] = q /\ i \in 1 .. Len(idle[q])
    BY <1>4 DEF CheckedOutOnce
  <2>2. CASE q = p
    <3>1. i < n /\ n \in 1 .. Len(idle[p])
      BY <1>1, <1>2, <2>2
    <3> QED
      BY <2>1, <2>2, <3>1 DEF CheckedOutOnce
  <2>3. CASE q # p
    BY <1>1, <2>1, <2>3
  <2> QED
    BY <2>2, <2>3
<1>7. \A q \in Paths : \A i \in 1 .. Len(idle'[q]) :
        path'[idle'[q][i]] = q /\ holder'[idle'[q][i]] = None
  <2> SUFFICES ASSUME NEW q \in Paths, NEW i \in 1 .. Len(idle'[q])
               PROVE  path'[idle'[q][i]] = q /\ holder'[idle'[q][i]] = None
    OBVIOUS
  <2>1. idle'[q][i] = idle[q][i] /\ i \in 1 .. Len(idle[q]) /\ idle[q][i] \in Conns
    BY <1>4 DEF TypeOK
  <2> QED
    BY <1>5, <1>6, <2>1 DEF CheckedOutOnce, TypeOK
<1>8. \A q \in Paths : \A i, j \in 1 .. Len(idle'[q]) :
        idle'[q][i] = idle'[q][j] => i = j
  BY <1>4 DEF CheckedOutOnce
<1>9. \A d \in Conns : holder'[d] # None => path'[d] # None
  BY <1>1, <1>5, PoolAssumption DEF CheckedOutOnce, TypeOK
<1>10. ASSUME NEW d \in Conns, path'[d] # None
       PROVE  holder'[d] # None \/ IsIdle(d)'
  <2>1. CASE d = c
    BY <1>1, <1>5, <2>1, PoolAssumption DEF TypeOK
  <2>2. CASE d # c /\ holder[d] # None
    BY <1>1, <1>5, <2>2 DEF TypeOK
  <2>3. CASE d # c /\ holder[d] = None
    <3>1. PICK q \in Paths : \E i \in 1 .. Len(idle[q]) : idle[q][i] = d
      BY <1>5, <1>10, <2>3 DEF CheckedOutOnce, IsIdle
    <3>2. PICK i \in 1 .. Len(idle[q]) : idle[q][i] = d
      BY <3>1
    <3>3. i \in 1 .. Len(idle'[q])
      BY <1>1, <1>2, <1>3, <2>3, <3>2
    <3> QED
      BY <1>4, <3>2, <3>3 DEF IsIdle
  <2> QED
    BY <2>1, <2>2, <2>3
<1> QED
  BY <1>7, <1>8, <1>9, <1>10 DEF CheckedOutOnce

LEMMA ReleaseKeepsCheckout ==
  ASSUME TypeOK, CheckedOutOnce, NEW c \in Conns, ReleaseToPool(c)
  PROVE  CheckedOutOnce'
<1> DEFINE p == path[c]
           n == Len(idle[p])
<1>1. p \in Paths /\ holder[c] # None /\ n \in Nat
  BY DEF ReleaseToPool, CheckedOutOnce, TypeOK
<1>2. /\ idle'[p] = Append(idle[p], c)
      /\ \A q \in Paths \ {p} : idle'[q] = idle[q]
      /\ holder' = [holder EXCEPT ![c] = None] /\ path' = path
  BY <1>1 DEF ReleaseToPool, TypeOK
<1>3. /\ Len(idle'[p]) = n + 1 /\ idle'[p][n + 1] = c
      /\ \A i \in 1 .. n : idle'[p][i] = idle[p][i]
  BY <1>1, <1>2, AppendLast DEF TypeOK
<1>4. ASSUME NEW q \in Paths, NEW i \in 1 .. Len(idle[q])
      PROVE  idle[q][i] # c
  BY <1>1 DEF CheckedOutOnce
<1>5. \A q \in Paths : \A i \in 1 .. Len(idle'[q]) :
        path'[idle'[q][i]] = q /\ holder'[idle'[q][i]] = None
  <2> SUFFICES ASSUME NEW q \in Paths, NEW i \in 1 .. Len(idle'[q])
               PROVE  path'[idle'[q][i]] = q /\ holder'[idle'[q][i]] = None
    OBVIOUS
  <2>1. CASE q = p /\ i = n + 1
    BY <1>2, <1>3, <2>1 DEF TypeOK
  <2>2. CASE q # p \/ i # n + 1
    <3>1. i \in 1 .. Len(idle[q]) /\ idle'[q][i] = idle[q][i]
      <4>1. CASE q # p
        BY <1>2, <4>1
      <4>2. CASE q = p /\ i # n + 1
        BY <1>1, <1>3, <4>2
      <4> QED
        BY <2>2, <4>1, <4>2
    <3>2. idle[q][i] \in Conns /\ idle[q][i] # c
      BY <1>4, <3>1 DEF TypeOK
    <3> QED
      BY <1>2, <3>1, <3>2 DEF CheckedOutOnce, TypeOK
  <2> QED
    BY <2>1, <2>2
<1>6. \A q \in Paths : \A i, j \in 1 .. Len(idle'[q]) :
        idle'[q][i] = idle'[q][j] => i = j
  <2> SUFFICES ASSUME NEW q \in Paths, NEW i \in 1 .. Len(idle'[q]),
                      NEW j \in 1 .. Len(idle'[q]), idle'[q][i] = idle'[q][j]
               PROVE  i = j
    OBVIOUS
  <2>1. CASE q # p
    BY <1>2, <2>1 DEF CheckedOutOnce
  <2>2. CASE q = p
    <3>1. i \in 1 .. n + 1 /\ j \in 1 .. n + 1
      BY <1>3, <2>2
    <3>2. CASE i \in 1 .. n /\ j \in 1 .. n
      BY <1>1, <1>3, <2>2, <3>2 DEF CheckedOutOnce
    <3>3. CASE i = n + 1 \/ j = n + 1
      <4>1. \A k \in 1 .. n : idle'[q][k] # c
        BY <1>1, <1>3, <1>4, <2>2
      <4>2. idle'[q][n + 1] = c
        BY <1>3, <2>2
      <4>3. \A k \in 1 .. n + 1 : k \in 1 .. n \/ k = n + 1
        BY <1>1
      <4> QED
        BY <3>1, <3>3, <4>1, <4>2, <4>3
    <3> QED
      BY <1>1, <3>1, <3>2, <3>3
  <2> QED
    BY <2>1, <2>2
<1>7. \A d \in Conns : holder'[d] # None => path'[d] # None
  BY <1>2 DEF CheckedOutOnce, TypeOK
<1>8. ASSUME NEW d \in Conns, path'[d] # None
      PROVE  holder'[d] # None \/ IsIdle(d)'
  <2>1. CASE d = c
    BY <1>1, <1>3, <2>1 DEF IsIdle
  <2>2. CASE d # c /\ holder[d] # None
    BY <1>2, <2>2 DEF TypeOK
  <2>3. CASE d # c /\ holder[d] = None
    <3>1. PICK q \in Paths : \E i \in 1 .. Len(idle[q]) : idle[q][i] = d
      BY <1>2, <1>8, <2>3 DEF CheckedOutOnce, IsIdle
    <3>2. PICK i \in 1 .. Len(idle[q]) : idle[q][i] = d
      BY <3>1
    <3>3. i \in 1 .. Len(idle'[q]) /\ idle'[q][i] = d
      BY <1>1, <1>2, <1>3, <3>2
    <3> QED
      BY <3>3 DEF IsIdle
  <2> QED
    BY <2>1, <2>2, <2>3
<1> QED
  BY <1>5, <1>6, <1>7, <1>8 DEF CheckedOutOnce

LEMMA InitPoolInv == Init => PoolInv
<1>1. Init => CheckedOutOnce
  BY DEF Init, CheckedOutOnce
<1> QED
  BY <1>1, InitTypeOK DEF PoolInv

LEMMA NextPoolInv == PoolInv /\ [Next]_vars => PoolInv'
<1> SUFFICES ASSUME TypeOK, CheckedOutOnce, [Next]_vars
             PROVE  CheckedOutOnce'
  BY NextTypeOK DEF PoolInv
<1>1. ASSUME NEW r \in Requests, NEW p \in Paths, NEW c \in Conns, AcquireNew(r, p, c)
      PROVE  CheckedOutOnce'
  <2>1. /\ path' = [path EXCEPT ![c] = p] /\ holder' = [holder EXCEPT ![c] = r]
        /\ idle' = idle /\ path[c] = None /\ p # None /\ r # None
    BY <1>1, PoolAssumption DEF AcquireNew
  <2>2. \A q \in Paths : \A i \in 1 .. Len(idle[q]) : idle[q][i] # c /\ idle[q][i] \in Conns
    BY <2>1, PoolAssumption DEF CheckedOutOnce, TypeOK
  <2>3. \A d \in Conns : IsIdle(d)' <=> IsIdle(d)
    BY <2>1 DEF IsIdle
  <2> QED
    BY <2>1, <2>2, <2>3 DEF CheckedOutOnce, TypeOK
<1>2. ASSUME NEW c \in Conns, ReleaseAndClose(c)
      PROVE  CheckedOutOnce'
  <2>1. /\ path' = [path EXCEPT ![c] = None] /\ holder' = [holder EXCEPT ![c] = None]
        /\ idle' = idle /\ holder[c] # None
    BY <1>2 DEF ReleaseAndClose
  <2>2. \A q \in Paths : \A i \in 1 .. Len(idle[q]) : idle[q][i] # c /\ idle[q][i] \in Conns
    BY <2>1 DEF CheckedOutOnce, TypeOK
  <2>3. \A d \in Conns : IsIdle(d)' <=> IsIdle(d)
    BY <2>1 DEF IsIdle
  <2> QED
    BY <2>1, <2>2, <2>3 DEF CheckedOutOnce, TypeOK
<1>3. CASE CloseShared
  <2>1. /\ \A q \in Paths : Len(idle'[q]) = 0
        /\ \A d \in Conns : path'[d] = IF IsIdle(d) THEN None ELSE path[d]
        /\ holder' = holder
    BY <1>3 DEF CloseShared
  <2>2. \A d \in Conns : IsIdle(d) => holder[d] = None
    BY DEF CheckedOutOnce, IsIdle
  <2> QED
    BY <2>1, <2>2 DEF CheckedOutOnce
<1>4. CASE Execute
  BY <1>4, PoolUntouched
     DEF Execute, ExecuteRead, ExecuteWrite, ExecuteRejected, ExecuteLocked
<1>5. CASE Transaction
  BY <1>5, PoolUntouched
     DEF Transaction, Begin, BeginRefused, BodyRead, BodyRaise, BodyExit, BodyWrite, BodyLocked,
         EndBlock
<1>6. CASE Script
  BY <1>6, PoolUntouched DEF Script, ScriptCommit, ScriptRollback, ScriptBegin, ScriptWrite
<1>7. CASE UNCHANGED vars
  BY <1>7, PoolUntouched DEF vars
<1> QED
  BY <1>1, <1>2, <1>3, <1>4, <1>5, <1>6, <1>7, AcquireIdleKeepsCheckout, ReleaseKeepsCheckout
     DEF Next, Checkout, Return

(* A connection is with one request or once in its file's idle list, never *)
(* both and never nowhere, through every interleaving of checkouts,        *)
(* returns, overflow closes and the shutdown close.                        *)
THEOREM ExclusiveCheckout == Spec => []CheckedOutOnce
<1>1. PoolInv => CheckedOutOnce
  BY DEF PoolInv
<1> QED
  BY <1>1, InitPoolInv, NextPoolInv, PTL DEF Spec

-----------------------------------------------------------------------------
(* A caller's answer agrees with the database file.                        *)

LEMMA InitAnswerInv == Init => AnswerInv
<1> SUFFICES ASSUME Init PROVE PendingIsInBody /\ AnswerMatchesFile
  BY InitPoolInv DEF AnswerInv
<1> QED
  BY PoolAssumption DEF Init, PendingIsInBody, AnswerMatchesFile

(* Steps that leave statements, answers and blocks alone; connections that *)
(* are closed have no transaction with statements.                         *)
LEMMA QuietStep ==
  ASSUME PendingIsInBody, AnswerMatchesFile,
         UNCHANGED <<body, batch, pending, committed, outcome>>,
         \A c \in Conns : body[c] # "none" => holder'[c] # None
  PROVE  PendingIsInBody' /\ AnswerMatchesFile'
BY DEF PendingIsInBody, AnswerMatchesFile, InBody

(* What a rollback on a connection outside every block undoes is nothing.  *)
LEMMA NothingPending ==
  ASSUME TypeOK, PendingIsInBody, NEW c \in Conns, ~InBody(c)
  PROVE  batch[c] = {} /\ pending[c] = {} /\ [pending EXCEPT ![c] = {}] = pending
BY DEF TypeOK, PendingIsInBody

(* The end of a block whose statements are told a, which is "ok" only if   *)
(* what was pending is committed.                                          *)
LEMMA BlockEnds ==
  ASSUME TypeOK, PendingIsInBody, AnswerMatchesFile, NEW c \in Conns,
         NEW a \in {"ok", "failed"},
         EndBlock(c), pending' = [pending EXCEPT ![c] = {}],
         committed' = IF a = "ok" THEN committed \cup pending[c] ELSE committed,
         \A w \in Writes : w \in batch[c] => outcome'[w] = a,
         \A w \in Writes \ batch[c] :
           \/ outcome'[w] = outcome[w]
           \/ outcome[w] = "unsent" /\ outcome'[w] = "locked"
  PROVE  PendingIsInBody' /\ AnswerMatchesFile'
<1> USE DEF TypeOK
<1>1. PendingIsInBody'
  <2>1. /\ \A d \in Conns \ {c} : /\ body'[d] = body[d] /\ batch'[d] = batch[d]
                                  /\ pending'[d] = pending[d]
        /\ body'[c] = "none" /\ batch'[c] = {} /\ pending'[c] = {}
    BY DEF EndBlock
  <2>2. \A d \in Conns \ {c} : \A w \in batch[d] :
          w \in Writes /\ w \notin batch[c] /\ outcome[w] = "inbody" /\ outcome'[w] = "inbody"
    BY DEF PendingIsInBody
  <2>3. \A d \in Conns : batch'[d] # {} => InBody(d)'
    BY <2>1 DEF PendingIsInBody, InBody
  <2>4. \A d, e \in Conns : \A w \in batch'[d] : w \in batch'[e] => d = e
    BY <2>1 DEF PendingIsInBody
  <2>5. \A d \in Conns : body'[d] # "none" => holder'[d] # None
    BY <2>1 DEF PendingIsInBody, EndBlock
  <2>6. \A d \in Conns : /\ pending'[d] \subseteq batch'[d]
                         /\ body'[d] = "raw" => pending'[d] = batch'[d]
                         /\ \A w \in batch'[d] : w \in Scripted <=> body'[d] = "script"
    BY <2>1 DEF PendingIsInBody
  <2>7. \A d \in Conns : \A w \in batch'[d] : outcome'[w] = "inbody"
    BY <2>1, <2>2
  <2> QED
    BY <2>3, <2>4, <2>5, <2>6, <2>7 DEF PendingIsInBody, InBody
<1>2. ASSUME NEW w \in Writes \ Scripted
      PROVE  w \in committed' <=> outcome'[w] = "ok"
  <2>1. CASE w \in batch[c]
    <3>1. w \in pending[c] /\ outcome[w] = "inbody"
      BY <2>1 DEF PendingIsInBody, InBody
    <3> QED
      BY <2>1, <3>1 DEF AnswerMatchesFile
  <2>2. CASE w \notin batch[c]
    <3>1. w \notin pending[c]
      BY <2>2 DEF PendingIsInBody
    <3> QED
      BY <2>2, <3>1 DEF AnswerMatchesFile
  <2> QED
    BY <2>1, <2>2
<1>3. ASSUME NEW w \in Scripted, w \in committed'
      PROVE  outcome'[w] \in {"inbody", "ok", "failed"}
  <2>1. w \in Writes
    BY PoolAssumption
  <2>2. CASE w \in batch[c]
    BY <2>1, <2>2
  <2>3. CASE w \notin batch[c]
    <3>1. w \in committed
      BY <1>3, <2>3 DEF PendingIsInBody
    <3> QED
      BY <2>1, <2>3, <3>1 DEF AnswerMatchesFile
  <2> QED
    BY <2>2, <2>3
<1> QED
  BY <1>1, <1>2, <1>3 DEF AnswerMatchesFile

(* A block executes statement w, in its transaction or, a batch that has   *)
(* ended it, at once.                                                      *)
LEMMA BlockExecutes ==
  ASSUME TypeOK, PendingIsInBody, AnswerMatchesFile, NEW c \in Conns, NEW w \in Writes,
         InBody(c), CanSend(c, w),
         batch' = [batch EXCEPT ![c] = @ \cup {w}],
         outcome' = [outcome EXCEPT ![w] = "inbody"],
         \/ /\ pending' = [pending EXCEPT ![c] = @ \cup {w}]
            /\ committed' = committed
         \/ /\ body[c] = "script"
            /\ pending' = [pending EXCEPT ![c] = {}]
            /\ committed' = committed \cup pending[c] \cup {w},
         UNCHANGED <<body, holder>>
  PROVE  PendingIsInBody' /\ AnswerMatchesFile'
<1> USE DEF TypeOK
<1>1. \A d \in Conns : w \notin batch[d]
  BY DEF PendingIsInBody, CanSend
<1>2. PendingIsInBody'
  <2>1. /\ \A d \in Conns \ {c} : batch'[d] = batch[d] /\ pending'[d] = pending[d]
        /\ batch'[c] = batch[c] \cup {w}
        /\ pending'[c] = pending[c] \cup {w} \/ (pending'[c] = {} /\ body[c] = "script")
        /\ \A d \in Conns : body'[d] = body[d] /\ holder'[d] = holder[d]
    OBVIOUS
  <2>2. \A d \in Conns : batch'[d] # {} => InBody(d)'
    BY <2>1 DEF PendingIsInBody, InBody
  <2>3. \A d, e \in Conns : \A v \in batch'[d] : v \in batch'[e] => d = e
    BY <1>1, <2>1 DEF PendingIsInBody
  <2>4. \A d \in Conns : /\ pending'[d] \subseteq batch'[d]
                         /\ body'[d] = "raw" => pending'[d] = batch'[d]
    <3>1. \A d \in Conns : /\ pending[d] \subseteq batch[d]
                           /\ body[d] = "raw" => pending[d] = batch[d]
      BY DEF PendingIsInBody
    <3>2. /\ pending'[c] \subseteq batch'[c]
          /\ body'[c] = "raw" => pending'[c] = batch'[c]
      BY <2>1, <3>1
    <3> QED
      BY <2>1, <3>1, <3>2
  <2>5. \A d \in Conns : \A v \in batch'[d] : v \in Scripted <=> body'[d] = "script"
    BY <2>1 DEF PendingIsInBody, CanSend
  <2>6. \A d \in Conns : \A v \in batch'[d] : outcome'[v] = "inbody"
    BY <1>1, <2>1 DEF PendingIsInBody
  <2>7. \A d \in Conns : body'[d] # "none" => holder'[d] # None
    BY <2>1 DEF PendingIsInBody
  <2> QED
    BY <2>2, <2>3, <2>4, <2>5, <2>6, <2>7 DEF PendingIsInBody, InBody
<1>3. AnswerMatchesFile'
  <2>1. CASE committed' = committed
    BY <2>1 DEF AnswerMatchesFile, CanSend
  <2>2. CASE body[c] = "script" /\ committed' = committed \cup pending[c] \cup {w}
    <3>1. w \in Scripted /\ \A v \in pending[c] : v \in Scripted /\ outcome[v] = "inbody"
      BY <2>2 DEF PendingIsInBody, CanSend
    <3> QED
      BY <2>2, <3>1, PoolAssumption DEF AnswerMatchesFile
  <2> QED
    BY <2>1, <2>2
<1> QED
  BY <1>2, <1>3

(* A batch ends its transaction, or undoes part of it, and goes on.        *)
LEMMA BlockDivides ==
  ASSUME TypeOK, PendingIsInBody, AnswerMatchesFile, NEW c \in Conns, body[c] = "script",
         NEW ws \in SUBSET pending[c],
         pending' = [pending EXCEPT ![c] = ws],
         committed' = committed \/ committed' = committed \cup pending[c],
         UNCHANGED <<body, holder, batch, outcome>>
  PROVE  PendingIsInBody' /\ AnswerMatchesFile'
<1>1. PendingIsInBody'
  BY DEF TypeOK, PendingIsInBody, InBody
<1>2. \A v \in pending[c] : v \in Scripted /\ outcome[v] = "inbody"
  BY DEF PendingIsInBody
<1>3. AnswerMatchesFile'
  BY <1>2 DEF AnswerMatchesFile
<1> QED
  BY <1>1, <1>3

LEMMA NextAnswerInv == AnswerInv /\ [Next]_vars => AnswerInv'
<1> SUFFICES ASSUME PoolInv, PendingIsInBody, AnswerMatchesFile, [Next]_vars
             PROVE  PendingIsInBody' /\ AnswerMatchesFile'
  BY NextPoolInv DEF AnswerInv
<1> DEFINE Goal == PendingIsInBody' /\ AnswerMatchesFile'
<1>0. TypeOK /\ CheckedOutOnce
  BY DEF PoolInv
<1>1. CASE Checkout
  <2>1. ASSUME NEW r \in Requests, NEW p \in Paths, AcquireIdle(r, p)
        PROVE  \A c \in Conns : body[c] # "none" => holder'[c] # None
    <3>1. holder \in [Conns -> Requests \cup {None}] /\ r # None
      BY <1>0, PoolAssumption DEF TypeOK
    <3> QED
      BY <2>1, <3>1 DEF AcquireIdle, PendingIsInBody
  <2>2. ASSUME NEW r \in Requests, NEW p \in Paths, NEW c \in Conns, AcquireNew(r, p, c)
        PROVE  \A d \in Conns : body[d] # "none" => holder'[d] # None
    BY <1>0, <2>2, PoolAssumption DEF AcquireNew, PendingIsInBody, TypeOK
  <2> QED
    BY <1>1, <2>1, <2>2, QuietStep DEF Checkout, AcquireIdle, AcquireNew
<1>2. ASSUME NEW c \in Conns, ReleaseToPool(c) \/ ReleaseAndClose(c)
      PROVE  Goal
  <2>1. body[c] = "none" /\ \A d \in Conns : body[d] # "none" => holder'[d] # None
    BY <1>0, <1>2 DEF ReleaseToPool, ReleaseAndClose, PendingIsInBody, TypeOK
  <2>2. pending' = pending
    BY <1>0, <1>2, <2>1, NothingPending DEF ReleaseToPool, ReleaseAndClose, InBody
  <2> QED
    BY <1>2, <2>1, <2>2, QuietStep DEF ReleaseToPool, ReleaseAndClose
<1>3. CASE CloseShared
  <2>1. \A c \in Conns : IsIdle(c) => pending[c] = {}
    BY <1>0, NothingPending DEF CheckedOutOnce, IsIdle, PendingIsInBody, InBody
  <2>2. pending' = pending
    BY <1>0, <1>3, <2>1 DEF CloseShared, TypeOK
  <2> QED
    BY <1>3, <2>2, QuietStep DEF CloseShared, PendingIsInBody
<1>4. ASSUME NEW c \in Conns, ExecuteRead(c)
      PROVE  Goal
  <2>1. pending' = pending /\ committed' = committed
    BY <1>0, <1>4, NothingPending DEF ExecuteRead, CanExecute, Commit, InBody
  <2> QED
    BY <1>4, <2>1, QuietStep DEF ExecuteRead, PendingIsInBody
<1>5. ASSUME NEW c \in Conns, NEW w \in Writes,
             ExecuteWrite(c, w) \/ ExecuteRejected(c, w) \/ ExecuteLocked(c, w)
      PROVE  Goal
  <2>1. /\ ~InBody(c) /\ w \notin Scripted /\ outcome[w] = "unsent"
        /\ body[c] \in {"none", "helper"}
    BY <1>5 DEF ExecuteWrite, ExecuteRejected, ExecuteLocked, CanExecute, CanSend, InBody
  <2>2. /\ pending[c] = {} /\ [pending EXCEPT ![c] = {}] = pending
        /\ \A d \in Conns : w \notin batch[d]
    BY <1>0, <2>1, NothingPending DEF PendingIsInBody
  <2>3. /\ pending' = pending /\ UNCHANGED <<holder, batch>>
        /\ \/ committed' = committed \cup {w} /\ outcome' = [outcome EXCEPT ![w] = "ok"]
           \/ /\ committed' = committed
              /\ \E a \in {"failed", "locked"} : outcome' = [outcome EXCEPT ![w] = a]
    BY <1>5, <2>2 DEF ExecuteWrite, ExecuteRejected, ExecuteLocked, Commit, Rollback
  <2>4. \A d \in Conns : body'[d] = body[d] \/ (d = c /\ body'[d] = "none")
    BY <1>0, <1>5 DEF ExecuteWrite, ExecuteRejected, ExecuteLocked, TypeOK
  <2>5. PendingIsInBody'
    <3>1. \A d \in Conns : batch[d] # {} => body'[d] = body[d]
      BY <1>0, <2>1, <2>4, NothingPending
    <3>2. \A d \in Conns : \A v \in batch[d] : outcome'[v] = outcome[v]
      BY <1>0, <2>2, <2>3 DEF TypeOK
    <3> QED
      BY <1>0, <2>1, <2>3, <2>4, <3>1, <3>2, NothingPending DEF PendingIsInBody, InBody
  <2>6. AnswerMatchesFile'
    BY <1>0, <2>1, <2>3 DEF AnswerMatchesFile, TypeOK
  <2> QED
    BY <2>5, <2>6
<1>6. ASSUME NEW c \in Conns, NEW kind \in BodyKinds, Begin(c, kind)
      PROVE  Goal
  <2>1. batch[c] = {} /\ pending[c] = {} /\ holder[c] # None
    BY <1>0, <1>6, NothingPending DEF Begin, InBody
  <2> QED
    BY <1>0, <1>6, <2>1 DEF Begin, PendingIsInBody, AnswerMatchesFile, InBody, TypeOK
<1>7. ASSUME NEW c \in Conns, BeginRefused(c)
      PROVE  Goal
  <2>1. pending' = pending
    BY <1>0, <1>7, NothingPending DEF BeginRefused, Rollback, InBody
  <2> QED
    BY <1>7, <2>1, QuietStep DEF BeginRefused, Rollback, PendingIsInBody
<1>8. ASSUME NEW c \in Conns, BodyRead(c) \/ ScriptBegin(c)
      PROVE  Goal
  BY <1>8, QuietStep DEF BodyRead, ScriptBegin, PendingIsInBody
<1>9. ASSUME NEW c \in Conns, BodyRaise(c)
      PROVE  Goal
  BY <1>0, <1>9, BlockEnds DEF BodyRaise, Rollback
<1>10. ASSUME NEW c \in Conns, NEW w \in Writes, BodyLocked(c, w)
       PROVE  Goal
  <2>1. outcome[w] = "unsent" /\ w \notin batch[c]
    BY <1>10 DEF BodyLocked, CanSend, PendingIsInBody
  <2> QED
    BY <1>0, <1>10, <2>1, BlockEnds DEF BodyLocked, Rollback
<1>11. ASSUME NEW c \in Conns, BodyExit(c)
       PROVE  Goal
  BY <1>0, <1>11, BlockEnds DEF BodyExit, Commit
<1>12. ASSUME NEW c \in Conns, NEW w \in Writes, BodyWrite(c, w)
       PROVE  Goal
  BY <1>0, <1>12, BlockExecutes DEF BodyWrite
<1>13. ASSUME NEW c \in Conns, NEW w \in Writes, ScriptWrite(c, w)
       PROVE  Goal
  BY <1>0, <1>13, BlockExecutes DEF ScriptWrite, Commit, InBody
<1>14. ASSUME NEW c \in Conns, ScriptCommit(c) \/ ScriptRollback(c)
       PROVE  Goal
  <2>1. \E ws \in SUBSET pending[c] : pending' = [pending EXCEPT ![c] = ws]
    BY <1>14 DEF ScriptCommit, ScriptRollback, Commit, Rollback
  <2>2. committed' = committed \/ committed' = committed \cup pending[c]
    BY <1>14 DEF ScriptCommit, ScriptRollback, Commit, Rollback
  <2> QED
    BY <1>0, <1>14, <2>1, <2>2, BlockDivides DEF ScriptCommit, ScriptRollback
<1>15. CASE UNCHANGED vars
  BY <1>15, QuietStep DEF vars, PendingIsInBody
<1> QED
  BY <1>1, <1>2, <1>3, <1>4, <1>5, <1>6, <1>7, <1>8, <1>9, <1>10, <1>11, <1>12,
     <1>13, <1>14, <1>15 DEF Next, Return, Execute, Transaction, Script

(* What a caller is told of a statement is what the file holds: nothing    *)
(* reported as done is missing, nothing reported as failed is ever         *)
(* published by a later commit on the same connection.  Only a batch with  *)
(* transaction statements of its own may be in the file though its caller  *)
(* is told that it failed.                                                 *)
THEOREM AnswersAreTrue == Spec => []AnswerMatchesFile
<1>1. Spec => []AnswerInv
  BY InitAnswerInv, NextAnswerInv, PTL DEF Spec
<1>2. AnswerInv => AnswerMatchesFile
  BY DEF AnswerInv
<1> QED
  BY <1>1, <1>2, PTL

-----------------------------------------------------------------------------
(* The refinement: callers see StatementService.                           *)

(* The statements a block has executed are for its own file, and while     *)
(* some of them are in its transaction it has the write lock of that file. *)
BlocksWrite ==
  /\ \A c \in Conns : \A w \in batch[c] : path[c] = Dest[w]
  /\ \A c \in Conns : pending[c] # {} => txn[c] = "writing"

ServiceInv == AnswerInv /\ BlocksWrite

(* Steps that leave open blocks and their transactions alone.              *)
LEMMA BlocksUntouched ==
  ASSUME BlocksWrite, UNCHANGED <<pending, batch>>,
         \A c \in Conns : pending[c] # {} => txn'[c] = txn[c],
         \A c \in Conns : batch[c] # {} => path'[c] = path[c]
  PROVE  BlocksWrite'
BY DEF BlocksWrite

(* Steps that move connection c out of every transaction.                  *)
LEMMA TransactionEnds ==
  ASSUME TypeOK, BlocksWrite, NEW c \in Conns, NEW ws \in SUBSET Writes,
         path' = path,
         pending' = [pending EXCEPT ![c] = {}],
         batch' = [batch EXCEPT ![c] = ws],
         \A v \in ws : v \in batch[c] \/ path[c] = Dest[v],
         \A d \in Conns \ {c} : txn[d] = "writing" => txn'[d] = "writing"
  PROVE  BlocksWrite'
BY DEF BlocksWrite, TypeOK

LEMMA CommitSpares ==
  ASSUME TypeOK, NEW c \in Conns, NEW ws, Commit(c, ws)
  PROVE  \A d \in Conns \ {c} : txn[d] = "writing" => txn'[d] = "writing"
BY DEF Commit, Outdates, TypeOK

LEMMA RollbackSpares ==
  ASSUME TypeOK, NEW c \in Conns, Rollback(c)
  PROVE  \A d \in Conns \ {c} : txn[d] = "writing" => txn'[d] = "writing"
BY DEF Rollback, TypeOK

LEMMA NextBlocksWrite ==
  ASSUME ServiceInv, [Next]_vars
  PROVE  BlocksWrite'
<1>0. TypeOK /\ PendingIsInBody /\ CheckedOutOnce /\ BlocksWrite
  BY DEF ServiceInv, AnswerInv, PoolInv
<1>a. \A c \in Conns : ~InBody(c) => /\ batch[c] = {} /\ pending[c] = {}
                                     /\ [pending EXCEPT ![c] = {}] = pending
  BY <1>0, NothingPending
<1>b. \A c \in Conns : [batch EXCEPT ![c] = batch[c]] = batch
  BY <1>0 DEF TypeOK
<1>c. \A c \in Conns : body[c] = "none" => ~InBody(c)
  BY DEF InBody
<1>1. CASE Checkout
  <2>1. ASSUME NEW r \in Requests, NEW p \in Paths, AcquireIdle(r, p)
        PROVE  BlocksWrite'
    BY <1>0, <2>1, BlocksUntouched DEF AcquireIdle
  <2>2. ASSUME NEW r \in Requests, NEW p \in Paths, NEW c \in Conns, AcquireNew(r, p, c)
        PROVE  BlocksWrite'
    <3>1. batch[c] = {}
      BY <1>0, <2>2, PoolAssumption DEF AcquireNew, BlocksWrite, TypeOK
    <3> QED
      BY <1>0, <2>2, <3>1, BlocksUntouched DEF AcquireNew, TypeOK
  <2> QED
    BY <1>1, <2>1, <2>2 DEF Checkout
<1>2. ASSUME NEW c \in Conns, ReleaseToPool(c) \/ ReleaseAndClose(c)
      PROVE  BlocksWrite'
  <2>1. batch[c] = {} /\ pending[c] = {} /\ pending' = pending
    BY <1>2, <1>a, <1>c DEF ReleaseToPool, ReleaseAndClose
  <2> QED
    BY <1>0, <1>2, <2>1, BlocksUntouched DEF ReleaseToPool, ReleaseAndClose, TypeOK
<1>3. CASE CloseShared
  <2>1. \A c \in Conns : IsIdle(c) => batch[c] = {} /\ pending[c] = {}
    BY <1>0, <1>a, <1>c DEF CheckedOutOnce, IsIdle, PendingIsInBody
  <2>2. pending' = pending
    BY <1>0, <1>3, <2>1 DEF CloseShared, TypeOK
  <2> QED
    BY <1>0, <1>3, <2>1, <2>2, BlocksUntouched DEF CloseShared
<1>4. ASSUME NEW c \in Conns, NEW ws, Commit(c, ws), UNCHANGED <<path, batch>>
      PROVE  BlocksWrite'
  <2>1. \A d \in Conns \ {c} : txn[d] = "writing" => txn'[d] = "writing"
    BY <1>0, <1>4, CommitSpares
  <2>2. batch' = [batch EXCEPT ![c] = batch[c]] /\ pending' = [pending EXCEPT ![c] = {}]
    BY <1>4, <1>b DEF Commit
  <2>3. batch[c] \in SUBSET Writes /\ path' = path
    BY <1>0, <1>4 DEF TypeOK
  <2> QED
    BY <1>0, <2>1, <2>2, <2>3, TransactionEnds
<1>5. ASSUME NEW c \in Conns, Rollback(c), UNCHANGED <<path, batch>>
      PROVE  BlocksWrite'
  <2>1. \A d \in Conns \ {c} : txn[d] = "writing" => txn'[d] = "writing"
    BY <1>0, <1>5, RollbackSpares
  <2>2. batch' = [batch EXCEPT ![c] = batch[c]] /\ pending' = [pending EXCEPT ![c] = {}]
    BY <1>5, <1>b DEF Rollback
  <2>3. batch[c] \in SUBSET Writes /\ path' = path
    BY <1>0, <1>5 DEF TypeOK
  <2> QED
    BY <1>0, <2>1, <2>2, <2>3, TransactionEnds
<1>6. ASSUME NEW c \in Conns, pending[c] = {}, UNCHANGED <<path, batch, pending>>,
             \A d \in Conns \ {c} : txn'[d] = txn[d]
      PROVE  BlocksWrite'
  BY <1>0, <1>6, BlocksUntouched
<1>7. ASSUME NEW c \in Conns, ExecuteRead(c)
      PROVE  BlocksWrite'
  BY <1>4, <1>7 DEF ExecuteRead
<1>8. ASSUME NEW c \in Conns, NEW w \in Writes,
             ExecuteWrite(c, w) \/ ExecuteRejected(c, w) \/ ExecuteLocked(c, w)
      PROVE  BlocksWrite'
  <2>1. pending[c] = {}
    BY <1>8, <1>a DEF ExecuteWrite, ExecuteRejected, ExecuteLocked, CanExecute, InBody
  <2>2. CASE ExecuteWrite(c, w)
    BY <1>4, <2>2 DEF ExecuteWrite
  <2>3. CASE ExecuteRejected(c, w)
    BY <1>0, <1>6, <2>1, <2>3 DEF ExecuteRejected, TypeOK
  <2>4. CASE ExecuteLocked(c, w)
    BY <1>0, <1>5, <1>6, <2>1, <2>4 DEF ExecuteLocked, TypeOK
  <2> QED
    BY <1>8, <2>2, <2>3, <2>4
<1>9. ASSUME NEW c \in Conns, NEW kind \in BodyKinds, Begin(c, kind)
      PROVE  BlocksWrite'
  BY <1>0, <1>6, <1>9, <1>a, <1>c DEF Begin, TypeOK
<1>10. ASSUME NEW c \in Conns, BeginRefused(c)
       PROVE  BlocksWrite'
  BY <1>5, <1>10 DEF BeginRefused
<1>11. ASSUME NEW c \in Conns, BodyRead(c) \/ ScriptBegin(c)
       PROVE  BlocksWrite'
  <2>1. pending[c] = {}
    BY <1>0, <1>11 DEF BodyRead, ScriptBegin, BlocksWrite
  <2> QED
    BY <1>0, <1>6, <1>11, <2>1 DEF BodyRead, ScriptBegin, TypeOK
<1>12. ASSUME NEW c \in Conns, EndBlock(c), Rollback(c) \/ Commit(c, {})
       PROVE  BlocksWrite'
  <2>1. \A d \in Conns \ {c} : txn[d] = "writing" => txn'[d] = "writing"
    BY <1>0, <1>12, CommitSpares, RollbackSpares
  <2>2. batch' = [batch EXCEPT ![c] = {}] /\ pending' = [pending EXCEPT ![c] = {}] /\ path' = path
    BY <1>12 DEF EndBlock, Commit, Rollback
  <2> QED
    BY <1>0, <2>1, <2>2, TransactionEnds, {} \in SUBSET Writes
<1>13. ASSUME NEW c \in Conns, NEW w \in Writes, BodyWrite(c, w)
       PROVE  BlocksWrite'
  BY <1>0, <1>13 DEF BodyWrite, CanSend, BlocksWrite, TypeOK
<1>14. ASSUME NEW c \in Conns, NEW w \in Writes, ScriptWrite(c, w)
       PROVE  BlocksWrite'
  <2>1. path[c] = Dest[w]
    BY <1>14 DEF ScriptWrite, CanSend
  <2> QED
    <3>1. \A d \in Conns \ {c} : txn[d] = "writing" => txn'[d] = "writing"
      BY <1>0, <1>14, CommitSpares DEF ScriptWrite
    <3>2. /\ batch' = [batch EXCEPT ![c] = batch[c] \cup {w}]
          /\ pending' = [pending EXCEPT ![c] = {}] /\ path' = path
      BY <1>14 DEF ScriptWrite, Commit
    <3>3. batch[c] \cup {w} \in SUBSET Writes /\ \A v \in batch[c] \cup {w} : v \in batch[c] \/ path[c] = Dest[v]
      BY <1>0, <2>1 DEF TypeOK
    <3> QED
      BY <1>0, <3>1, <3>2, <3>3, TransactionEnds
<1>15. ASSUME NEW c \in Conns, ScriptCommit(c) \/ ScriptRollback(c)
       PROVE  BlocksWrite'
  <2>1. CASE UNCHANGED txn /\ \E ws \in SUBSET pending[c] : pending' = [pending EXCEPT ![c] = ws]
    BY <1>0, <1>15, <2>1 DEF ScriptCommit, ScriptRollback, BlocksWrite, TypeOK
  <2>2. CASE Commit(c, {}) \/ Rollback(c)
    BY <1>4, <1>5, <1>15, <2>2 DEF ScriptCommit, ScriptRollback
  <2> QED
    BY <1>15, <2>1, <2>2 DEF ScriptCommit, ScriptRollback
<1>16. CASE UNCHANGED vars
  BY <1>0, <1>16, BlocksUntouched DEF vars
<1> QED
  BY <1>1, <1>2, <1>3, <1>7, <1>8, <1>9, <1>10, <1>11, <1>12, <1>13, <1>14, <1>15, <1>16
     DEF Next, Return, Execute, Transaction, Script, BodyRaise, BodyExit, BodyLocked

LEMMA ServiceInvariance == Spec => []ServiceInv
<1>1. Init => ServiceInv
  <2>1. Init => BlocksWrite
    BY DEF Init, BlocksWrite
  <2> QED
    BY <2>1, InitAnswerInv DEF ServiceInv
<1>2. ServiceInv /\ [Next]_vars => ServiceInv'
  BY NextAnswerInv, NextBlocksWrite DEF ServiceInv
<1> QED
  BY <1>1, <1>2, PTL DEF Spec

-----------------------------------------------------------------------------
(* Every step maps to a step of StatementService or to a stutter.          *)

Stutter == UNCHANGED Service!svars

(* A connection that changes hands has no block.                           *)
LEMMA QuietStutters ==
  ASSUME UNCHANGED <<batch, pending, committed, outcome>>,
         \A c \in Conns : batch[c] # {} => holder'[c] = holder[c]
  PROVE  Stutter
BY DEF Stutter, Service!svars, Writer, Content

(* The write lock keeps the blocks of one file apart.                      *)
LEMMA LockIsolates ==
  ASSUME TypeOK, PendingIsInBody, BlocksWrite, NEW c \in Conns, NEW w \in Writes,
         CanSend(c, w), ~Locked(c)
  PROVE  Service!Free(c, Dest[w])
BY DEF Service!Free, CanSend, Locked, BlocksWrite, PendingIsInBody

(* What a commit adds to the files.                                        *)
LEMMA CommitAppears ==
  ASSUME NEW c \in Conns, NEW ws, Commit(c, ws)
  PROVE  Service!Appear(pending[c] \cup ws)
BY DEF Commit, Service!Appear, Content

(* After the end of a block the slot is vacant.                            *)
LEMMA SlotVacated ==
  ASSUME TypeOK, NEW c \in Conns, EndBlock(c),
         pending' = [pending EXCEPT ![c] = {}]
  PROVE  Service!Vacate(c)
BY DEF Service!Vacate, EndBlock, Writer, TypeOK

LEMMA ExecuteMaps ==
  ASSUME ServiceInv, NEW c \in Conns, NEW w \in Writes, ExecuteWrite(c, w)
  PROVE  Service!Execute(c, w)
<1>0. TypeOK /\ PendingIsInBody /\ BlocksWrite
  BY DEF ServiceInv, AnswerInv, PoolInv
<1>1. batch[c] = {} /\ pending[c] = {} /\ [pending EXCEPT ![c] = {}] = pending
  BY <1>0, NothingPending DEF ExecuteWrite, CanExecute, InBody
<1>2. Service!Free(c, Dest[w])
  BY <1>0, LockIsolates DEF ExecuteWrite
<1>3. Service!Appear({w})
  <2>1. Service!Appear(pending[c] \cup {w})
    BY CommitAppears DEF ExecuteWrite
  <2>2. pending[c] \cup {w} = {w}
    BY <1>1
  <2> QED
    BY <2>1, <2>2
<1>4. Service!Tell({w}, "ok") /\ outcome[w] = "unsent" /\ w \notin Scripted
  BY <1>0 DEF ExecuteWrite, CanExecute, CanSend, Service!Tell, TypeOK
<1>5. pending' = pending /\ batch' = batch /\ UNCHANGED [d \in Conns |-> Writer(d)]
  BY <1>1 DEF ExecuteWrite, Commit, Writer
<1> QED
  BY <1>1, <1>2, <1>3, <1>4, <1>5 DEF Service!Execute

LEMMA RefuseMaps ==
  ASSUME ServiceInv, NEW c \in Conns, NEW w \in Writes,
         ExecuteRejected(c, w) \/ ExecuteLocked(c, w)
  PROVE  Service!Refuse(w)
<1>0. TypeOK /\ PendingIsInBody
  BY DEF ServiceInv, AnswerInv, PoolInv
<1>1. PICK a \in {"failed", "locked"} : outcome' = [outcome EXCEPT ![w] = a]
  BY DEF ExecuteRejected, ExecuteLocked
<1>2. Service!Tell({w}, a) /\ outcome[w] = "unsent" /\ w \notin Scripted
  BY <1>0, <1>1
     DEF Service!Tell, ExecuteRejected, ExecuteLocked, CanExecute, CanSend, TypeOK
<1>3. [pending EXCEPT ![c] = {}] = pending
  BY <1>0, NothingPending DEF ExecuteRejected, ExecuteLocked, CanExecute, InBody
<1>4. UNCHANGED <<holder, batch, pending, committed>>
  BY <1>3 DEF ExecuteRejected, ExecuteLocked, Rollback
<1>5. UNCHANGED <<[d \in Conns |-> Writer(d)], [p \in Paths |-> Content(p)]>>
  BY <1>4 DEF Writer, Content
<1> QED
  BY <1>1, <1>2, <1>4, <1>5 DEF Service!Refuse

(* A statement that enters a block.                                        *)
LEMMA EnterMaps ==
  ASSUME ServiceInv, NEW c \in Conns, NEW w \in Writes,
         InBody(c), CanSend(c, w), ~Locked(c),
         batch' = [batch EXCEPT ![c] = @ \cup {w}],
         outcome' = [outcome EXCEPT ![w] = "inbody"],
         UNCHANGED holder
  PROVE  holder[c] \in Requests /\ Service!Enter(holder[c], c, w)
<1>0. TypeOK /\ PendingIsInBody /\ BlocksWrite
  BY DEF ServiceInv, AnswerInv, PoolInv
<1>1. holder[c] \in Requests
  BY <1>0 DEF InBody, PendingIsInBody, TypeOK
<1>2. Service!Free(c, Dest[w]) /\ outcome[w] = "unsent" /\ path[c] = Dest[w]
  BY <1>0, LockIsolates DEF CanSend
<1>3. Service!Tell({w}, "inbody")
  BY <1>0 DEF Service!Tell, TypeOK
<1>4. \A v \in batch[c] : Dest[v] = Dest[w]
  BY <1>0, <1>2 DEF BlocksWrite
<1>5. \A v \in batch[c] : v \in Scripted <=> w \in Scripted
  BY <1>0 DEF PendingIsInBody, CanSend
<1>6. [d \in Conns |-> Writer(d)]' = [[d \in Conns |-> Writer(d)] EXCEPT ![c] = holder[c]]
  BY <1>0 DEF Writer, TypeOK
<1>7. [d \in Conns |-> Writer(d)][c] \in {None, holder[c]}
  BY DEF Writer
<1> QED
  BY <1>1, <1>2, <1>3, <1>4, <1>5, <1>6, <1>7 DEF Service!Enter

LEMMA JoinMaps ==
  ASSUME ServiceInv, NEW c \in Conns, NEW w \in Writes, BodyWrite(c, w)
  PROVE  holder[c] \in Requests /\ Service!Join(holder[c], c, w)
<1>1. UNCHANGED [p \in Paths |-> Content(p)]
  BY DEF BodyWrite, Content
<1> QED
  BY <1>1, EnterMaps DEF BodyWrite, Service!Join

LEMMA JoinAloneMaps ==
  ASSUME ServiceInv, NEW c \in Conns, NEW w \in Writes, ScriptWrite(c, w)
  PROVE  holder[c] \in Requests /\ Service!JoinAlone(holder[c], c, w)
<1>0. TypeOK /\ BlocksWrite
  BY DEF ServiceInv, AnswerInv, PoolInv
<1>1. pending[c] = {} /\ w \in Scripted
  BY <1>0 DEF ScriptWrite, CanSend, BlocksWrite
<1>2. pending' = pending
  BY <1>0, <1>1 DEF ScriptWrite, Commit, TypeOK
<1>3. Service!Appear({w})
  <2>1. Service!Appear(pending[c] \cup {w})
    BY CommitAppears DEF ScriptWrite
  <2>2. pending[c] \cup {w} = {w}
    BY <1>1
  <2> QED
    BY <2>1, <2>2
<1> QED
  BY <1>1, <1>2, <1>3, EnterMaps DEF ScriptWrite, InBody, Service!JoinAlone

LEMMA DivideMaps ==
  ASSUME ServiceInv, NEW c \in Conns, ScriptCommit(c) \/ ScriptRollback(c)
  PROVE  Service!Divide(c)
<1>0. TypeOK /\ PendingIsInBody
  BY DEF ServiceInv, AnswerInv, PoolInv
<1>1. batch[c] \subseteq Scripted
  BY <1>0 DEF PendingIsInBody, ScriptCommit, ScriptRollback
<1>2. UNCHANGED <<[d \in Conns |-> Writer(d)], batch, outcome>>
  BY DEF ScriptCommit, ScriptRollback, Writer
<1>3. CASE Commit(c, {})
  <2>1. Service!Appear(pending[c] \cup {})
    BY <1>3, CommitAppears
  <2>2. pending[c] \cup {} = pending[c]
    OBVIOUS
  <2> QED
    BY <1>1, <1>2, <1>3, <2>1, <2>2 DEF Commit, Service!Divide
<1>4. CASE UNCHANGED committed /\ \E ws \in SUBSET pending[c] : pending' = [pending EXCEPT ![c] = ws]
  <2>1. UNCHANGED [p \in Paths |-> Content(p)]
    BY <1>4 DEF Content
  <2> QED
    BY <1>1, <1>2, <1>4, <2>1 DEF Service!Divide
<1> QED
  BY <1>3, <1>4 DEF ScriptCommit, ScriptRollback, Rollback

LEMMA PublishMaps ==
  ASSUME ServiceInv, NEW c \in Conns, BodyExit(c)
  PROVE  Service!Publish(c)
<1>0. TypeOK
  BY DEF ServiceInv, AnswerInv, PoolInv
<1>1. Service!Appear(pending[c])
  <2>1. Service!Appear(pending[c] \cup {})
    BY CommitAppears DEF BodyExit
  <2>2. pending[c] \cup {} = pending[c]
    OBVIOUS
  <2> QED
    BY <2>1, <2>2
<1>2. Service!Tell(batch[c], "ok")
  BY DEF BodyExit, Service!Tell
<1>3. Service!Vacate(c)
  BY <1>0, SlotVacated DEF BodyExit, Commit
<1> QED
  BY <1>1, <1>2, <1>3 DEF Service!Publish

LEMMA WithdrawMaps ==
  ASSUME ServiceInv, NEW c \in Conns, BodyRaise(c)
  PROVE  Service!Withdraw(c)
<1>0. TypeOK
  BY DEF ServiceInv, AnswerInv, PoolInv
<1>1. Service!Tell(batch[c], "failed")
  BY DEF BodyRaise, Service!Tell
<1>2. Service!Vacate(c)
  BY <1>0, SlotVacated DEF BodyRaise, Rollback
<1>3. UNCHANGED [p \in Paths |-> Content(p)]
  BY DEF BodyRaise, Rollback, Content
<1> QED
  BY <1>1, <1>2, <1>3 DEF Service!Withdraw

LEMMA WithdrawAtMaps ==
  ASSUME ServiceInv, NEW c \in Conns, NEW w \in Writes, BodyLocked(c, w)
  PROVE  Service!WithdrawAt(c, w)
<1>0. TypeOK
  BY DEF ServiceInv, AnswerInv, PoolInv
<1>1. Service!Vacate(c)
  BY <1>0, SlotVacated DEF BodyLocked, Rollback
<1>2. UNCHANGED [p \in Paths |-> Content(p)]
  BY DEF BodyLocked, Rollback, Content
<1> QED
  BY <1>1, <1>2 DEF BodyLocked, CanSend, Service!WithdrawAt

LEMMA InitMaps == Init => Service!Init
BY DEF Init, Service!Init, Writer, Content

LEMMA StepMaps ==
  ASSUME ServiceInv, [Next]_vars
  PROVE  [Service!Next]_(Service!svars)
<1> SUFFICES Service!Next \/ Stutter
  BY DEF Stutter
<1>0. TypeOK /\ PendingIsInBody /\ CheckedOutOnce
  BY DEF ServiceInv, AnswerInv, PoolInv
<1>a. \A c \in Conns : ~InBody(c) => /\ batch[c] = {} /\ pending[c] = {}
                                     /\ [pending EXCEPT ![c] = {}] = pending
  BY <1>0, NothingPending
<1>b. \A c \in Conns : body[c] = "none" => ~InBody(c)
  BY DEF InBody
<1>1. \A c \in Conns : holder[c] = None => batch[c] = {} /\ pending[c] = {}
  BY <1>0, <1>a, <1>b DEF PendingIsInBody
<1>2. CASE Checkout
  <2>1. ASSUME NEW r \in Requests, NEW p \in Paths, AcquireIdle(r, p)
        PROVE  Stutter
    <3>1. holder[idle[p][Len(idle[p])]] = None /\ idle[p][Len(idle[p])] \in Conns
      BY <1>0, <2>1 DEF AcquireIdle, CheckedOutOnce, TypeOK
    <3> QED
      BY <1>0, <1>1, <2>1, <3>1, QuietStutters DEF AcquireIdle, TypeOK
  <2>2. ASSUME NEW r \in Requests, NEW p \in Paths, NEW c \in Conns, AcquireNew(r, p, c)
        PROVE  Stutter
    <3>1. holder[c] = None
      BY <1>0, <2>2 DEF AcquireNew, CheckedOutOnce
    <3> QED
      BY <1>0, <1>1, <2>2, <3>1, QuietStutters DEF AcquireNew, TypeOK
  <2> QED
    BY <1>2, <2>1, <2>2 DEF Checkout
<1>3. ASSUME NEW c \in Conns, ReleaseToPool(c) \/ ReleaseAndClose(c)
      PROVE  Stutter
  <2>1. batch[c] = {} /\ pending' = pending
    BY <1>3, <1>a, <1>b DEF ReleaseToPool, ReleaseAndClose
  <2> QED
    BY <1>0, <1>3, <2>1, QuietStutters DEF ReleaseToPool, ReleaseAndClose, TypeOK
<1>4. CASE CloseShared
  <2>1. \A c \in Conns : IsIdle(c) => pending[c] = {}
    BY <1>0, <1>1 DEF CheckedOutOnce, IsIdle
  <2>2. pending' = pending
    BY <1>0, <1>4, <2>1 DEF CloseShared, TypeOK
  <2> QED
    BY <1>4, <2>2, QuietStutters DEF CloseShared
<1>5. ASSUME NEW c \in Conns, ExecuteRead(c)
      PROVE  Stutter
  <2>1. pending' = pending /\ committed' = committed
    BY <1>5, <1>a DEF ExecuteRead, CanExecute, Commit, InBody
  <2> QED
    BY <1>5, <2>1, QuietStutters DEF ExecuteRead
<1>6. ASSUME NEW c \in Conns, NEW kind \in BodyKinds, Begin(c, kind)
      PROVE  Stutter
  BY <1>6, QuietStutters DEF Begin
<1>7. ASSUME NEW c \in Conns, BeginRefused(c)
      PROVE  Stutter
  <2>1. pending' = pending
    BY <1>7, <1>a, <1>b DEF BeginRefused, Rollback
  <2> QED
    BY <1>7, <2>1, QuietStutters DEF BeginRefused, Rollback
<1>8. ASSUME NEW c \in Conns, BodyRead(c) \/ ScriptBegin(c)
      PROVE  Stutter
  BY <1>8, QuietStutters DEF BodyRead, ScriptBegin
<1>9. CASE UNCHANGED vars
  BY <1>9, QuietStutters DEF vars
<1>10. ASSUME NEW c \in Conns, NEW w \in Writes, ExecuteWrite(c, w)
       PROVE  Service!Next
  BY <1>10, ExecuteMaps DEF Service!Next
<1>11. ASSUME NEW c \in Conns, NEW w \in Writes, ExecuteRejected(c, w) \/ ExecuteLocked(c, w)
       PROVE  Service!Next
  BY <1>11, RefuseMaps DEF Service!Next
<1>12. ASSUME NEW c \in Conns, NEW w \in Writes, BodyWrite(c, w)
       PROVE  Service!Next
  BY <1>12, JoinMaps DEF Service!Next
<1>13. ASSUME NEW c \in Conns, BodyExit(c)
       PROVE  Service!Next
  BY <1>13, PublishMaps DEF Service!Next
<1>14. ASSUME NEW c \in Conns, BodyRaise(c)
       PROVE  Service!Next
  BY <1>14, WithdrawMaps DEF Service!Next
<1>15. ASSUME NEW c \in Conns, NEW w \in Writes, BodyLocked(c, w)
       PROVE  Service!Next
  BY <1>15, WithdrawAtMaps DEF Service!Next
<1>16. ASSUME NEW c \in Conns, NEW w \in Writes, ScriptWrite(c, w)
       PROVE  Service!Next
  BY <1>16, JoinAloneMaps DEF Service!Next
<1>17. ASSUME NEW c \in Conns, ScriptCommit(c) \/ ScriptRollback(c)
       PROVE  Service!Next
  BY <1>17, DivideMaps DEF Service!Next
<1> QED
  BY <1>2, <1>3, <1>4, <1>5, <1>6, <1>7, <1>8, <1>9, <1>10, <1>11, <1>12, <1>13,
     <1>14, <1>15, <1>16, <1>17 DEF Next, Return, Execute, Transaction, Script

(* The SQLite layer implements StatementService: through every             *)
(* interleaving of checkouts, returns, blocks, lock time-outs and the      *)
(* shutdown close, each call on a connection is, for those who look at     *)
(* answers and files, one step of it or none.                              *)
THEOREM ImplementsService == Spec => StatementsAtomic
<1>1. Init => Service!Init
  BY InitMaps
<1>2. ServiceInv /\ [Next]_vars => [Service!Next]_(Service!svars)
  BY StepMaps
<1> QED
  BY <1>1, <1>2, ServiceInvariance, PTL DEF Spec, StatementsAtomic, Service!Spec

-----------------------------------------------------------------------------
(* What StatementService is worth to its callers.                          *)

(* A block's statements are in no other block and wait for its end; those  *)
(* of a block that does not divide itself appear with it; the statements   *)
(* in the files are those answered "ok".                                   *)
ServiceAnswers ==
  /\ \A c \in Conns : pending[c] \subseteq batch[c]
  /\ \A c \in Conns : \A w \in batch[c] \ Scripted : w \in pending[c]
  /\ \A c \in Conns : \A w \in batch[c] : outcome[w] = "inbody"
  /\ \A c, d \in Conns : \A w \in batch[c] : w \in batch[d] => c = d
  /\ AnswerMatchesFile

(* What a step makes appear in the files is what the pool has committed.   *)
LEMMA AppearCommits ==
  ASSUME TypeOK, TypeOK', NEW ws \in SUBSET Writes, Service!Appear(ws)
  PROVE  committed' = committed \cup ws
<1>1. \A w \in Writes : Dest[w] \in Paths
  BY PoolAssumption
<1>2. [p \in Paths |-> Content(p)'] = [p \in Paths |-> Content(p) \cup {w \in ws : Dest[w] = p}]
  BY DEF Service!Appear
<1>3. \A p \in Paths : Content(p)' = Content(p) \cup {w \in ws : Dest[w] = p}
  BY <1>2
<1> QED
  BY <1>1, <1>3 DEF Content, TypeOK

LEMMA SameFiles ==
  ASSUME TypeOK, TypeOK', UNCHANGED [p \in Paths |-> Content(p)]
  PROVE  committed' = committed
<1>1. \A w \in Writes : Dest[w] \in Paths
  BY PoolAssumption
<1>2. [p \in Paths |-> Content(p)'] = [p \in Paths |-> Content(p)]
  OBVIOUS
<1>3. \A p \in Paths : Content(p)' = Content(p)
  BY <1>2
<1>4. \A w \in Writes : w \in committed' <=> w \in committed
  BY <1>1, <1>3 DEF Content
<1>5. committed \in SUBSET Writes /\ committed' \in SUBSET Writes
  BY DEF TypeOK
<1> QED
  BY <1>4, <1>5

LEMMA ServiceAnswersStep ==
  ASSUME TypeOK, TypeOK', ServiceAnswers, [Service!Next]_(Service!svars)
  PROVE  ServiceAnswers'
<1> USE PoolAssumption DEF ServiceAnswers, AnswerMatchesFile
<1>1. CASE UNCHANGED Service!svars
  <2>1. committed' = committed /\ pending' = pending /\ batch' = batch /\ outcome' = outcome
    BY <1>1, SameFiles DEF Service!svars
  <2> QED
    BY <2>1
<1>2. ASSUME NEW s \in Conns, NEW w \in Writes, Service!Execute(s, w)
      PROVE  ServiceAnswers'
  <2>1. /\ committed' = committed \cup {w} /\ pending' = pending /\ batch' = batch
        /\ outcome[w] = "unsent" /\ w \notin Scripted
    BY <1>2, AppearCommits DEF Service!Execute
  <2>2. outcome' = [v \in Writes |-> IF v \in {w} THEN "ok" ELSE outcome[v]]
    BY <1>2 DEF Service!Execute, Service!Tell
  <2> QED
    BY <2>1, <2>2 DEF TypeOK
<1>3. ASSUME NEW s \in Conns, NEW w \in Writes, Service!WithdrawAt(s, w)
      PROVE  ServiceAnswers'
  <2>1. committed' = committed /\ outcome[w] = "unsent"
    BY <1>3, SameFiles DEF Service!WithdrawAt
  <2>2. pending' = [pending EXCEPT ![s] = {}] /\ batch' = [batch EXCEPT ![s] = {}]
    BY <1>3 DEF Service!WithdrawAt, Service!Vacate
  <2>3. outcome' = [v \in Writes |-> CASE v = w -> "locked"
                                        [] v \in batch[s] -> "failed"
                                        [] OTHER -> outcome[v]]
    BY <1>3 DEF Service!WithdrawAt
  <2> QED
    BY <2>1, <2>2, <2>3 DEF TypeOK
<1>4. ASSUME NEW w \in Writes, Service!Refuse(w)
      PROVE  ServiceAnswers'
  <2>1. committed' = committed /\ pending' = pending /\ batch' = batch /\ outcome[w] = "unsent"
    BY <1>4, SameFiles DEF Service!Refuse
  <2>2. PICK a \in {"failed", "locked"} :
          outcome' = [v \in Writes |-> IF v \in {w} THEN a ELSE outcome[v]]
    BY <1>4 DEF Service!Refuse, Service!Tell
  <2> QED
    BY <2>1, <2>2 DEF TypeOK
<1>5. ASSUME NEW r \in Requests, NEW s \in Conns, NEW w \in Writes,
             Service!Join(r, s, w) \/ Service!JoinAlone(r, s, w)
      PROVE  ServiceAnswers'
  <2>1. outcome[w] = "unsent" /\ batch' = [batch EXCEPT ![s] = @ \cup {w}]
    BY <1>5 DEF Service!Join, Service!JoinAlone, Service!Enter
  <2>2. outcome' = [v \in Writes |-> IF v \in {w} THEN "inbody" ELSE outcome[v]]
    BY <1>5 DEF Service!Join, Service!JoinAlone, Service!Enter, Service!Tell
  <2>3. CASE Service!Join(r, s, w)
    <3>1. committed' = committed /\ pending' = [pending EXCEPT ![s] = @ \cup {w}]
      BY <2>3, SameFiles DEF Service!Join
    <3> QED
      BY <2>1, <2>2, <3>1 DEF TypeOK
  <2>4. CASE Service!JoinAlone(r, s, w)
    <3>1. committed' = committed \cup {w} /\ pending' = pending /\ w \in Scripted
      BY <2>4, AppearCommits DEF Service!JoinAlone
    <3> QED
      BY <2>1, <2>2, <3>1 DEF TypeOK
  <2> QED
    BY <1>5, <2>3, <2>4
<1>6. ASSUME NEW s \in Conns, Service!Publish(s)
      PROVE  ServiceAnswers'
  <2>1. pending[s] \in SUBSET Writes
    BY DEF TypeOK
  <2>2. committed' = committed \cup pending[s]
    BY <1>6, <2>1, AppearCommits DEF Service!Publish
  <2>3. pending' = [pending EXCEPT ![s] = {}] /\ batch' = [batch EXCEPT ![s] = {}]
    BY <1>6 DEF Service!Publish, Service!Vacate
  <2>4. outcome' = [v \in Writes |-> IF v \in batch[s] THEN "ok" ELSE outcome[v]]
    BY <1>6 DEF Service!Publish, Service!Tell
  <2> QED
    BY <2>1, <2>2, <2>3, <2>4 DEF TypeOK
<1>7. ASSUME NEW s \in Conns, Service!Withdraw(s)
      PROVE  ServiceAnswers'
  <2>1. committed' = committed
    BY <1>7, SameFiles DEF Service!Withdraw
  <2>2. pending' = [pending EXCEPT ![s] = {}] /\ batch' = [batch EXCEPT ![s] = {}]
    BY <1>7 DEF Service!Withdraw, Service!Vacate
  <2>3. outcome' = [v \in Writes |-> IF v \in batch[s] THEN "failed" ELSE outcome[v]]
    BY <1>7 DEF Service!Withdraw, Service!Tell
  <2> QED
    BY <2>1, <2>2, <2>3 DEF TypeOK
<1>8. ASSUME NEW s \in Conns, Service!Divide(s)
      PROVE  ServiceAnswers'
  <2>1. batch[s] \subseteq Scripted /\ batch' = batch /\ outcome' = outcome
    BY <1>8 DEF Service!Divide
  <2>2. \E ws \in SUBSET pending[s] : pending' = [pending EXCEPT ![s] = ws]
    BY <1>8 DEF Service!Divide
  <2>3. committed' = committed \/ committed' = committed \cup pending[s]
    <3>1. pending[s] \in SUBSET Writes
      BY DEF TypeOK
    <3> QED
      BY <1>8, <3>1, AppearCommits, SameFiles DEF Service!Divide
  <2> QED
    BY <2>1, <2>2, <2>3 DEF TypeOK
<1> QED
  BY <1>1, <1>2, <1>3, <1>4, <1>5, <1>6, <1>7, <1>8 DEF Service!Next

(* StatementService alone says that the files hold the statements answered *)
(* "ok" and no others: whoever implements it never tells a caller of       *)
(* Database.execute or of a transaction block an outcome the database does *)
(* not bear out, but of a batch that ends its transaction itself.          *)
THEOREM ServiceSuffices == []TypeOK /\ StatementsAtomic => []AnswerMatchesFile
<1>1. TypeOK /\ Service!Init => ServiceAnswers
  <2> SUFFICES ASSUME TypeOK, Service!Init PROVE ServiceAnswers
    OBVIOUS
  <2>1. \A w \in Writes : Dest[w] \in Paths
    BY PoolAssumption
  <2>2. \A p \in Paths : Content(p) = {}
    <3>1. [p \in Paths |-> Content(p)] = [p \in Paths |-> {}]
      BY DEF Service!Init
    <3> QED
      BY <3>1
  <2>3. committed = {}
    BY <2>1, <2>2 DEF Content, TypeOK
  <2> QED
    BY <2>3 DEF Service!Init, ServiceAnswers, AnswerMatchesFile
<1>2. TypeOK /\ TypeOK' /\ ServiceAnswers /\ [Service!Next]_(Service!svars) => ServiceAnswers'
  BY ServiceAnswersStep
<1>3. ServiceAnswers => AnswerMatchesFile
  BY DEF ServiceAnswers
<1> QED
  BY <1>1, <1>2, <1>3, PTL DEF StatementsAtomic, Service!Spec

=============================================================================
