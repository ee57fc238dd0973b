----------------------- MODULE PyronitesClientProofs -----------------------
(***************************************************************************)
(* Proofs about PyronitesClient for any number of threads, rows, bodies    *)
(* and retries.                                                            *)
(***************************************************************************)
EXTENDS PyronitesClient, TLAPS

-----------------------------------------------------------------------------
(* Requests, keys and answers.                                             *)

LEMMA RequestFacts ==
  ASSUME NEW r \in Requests
  PROVE  /\ Key(r) \in Service!Keys
         /\ r.method \in Service!Methods
         /\ r.method \in Writes \ {"POST"} => r.id \in Ids
         /\ r.method \in {"FIND", "GET"} => r.id \in Ids
         /\ r.id \in Ids \cup {None}
         /\ r.method = "POST" => r.body \in Bodies
         /\ r.body \in Bodies \cup {None}
<1>1. Key(r) \in Service!Keys /\ r.method \in Service!Methods
  BY DEF Key, Service!Keys, Service!Methods, Requests
<1>2. QED
  BY <1>1 DEF Requests, Service!Requests, Writes

LEMMA AnswerFacts ==
  /\ Refused \notin Row /\ None \notin Row /\ None # Refused
  /\ \A a \in Service!Answers : a # Refused => a \in Row
  /\ Refused \in Service!Answers /\ Row \subseteq Service!Answers
  /\ Waiting \notin Service!Answers /\ None \notin Service!Answers
  /\ None # Waiting
BY ClientAssumption DEF Service!Answers, Row

LEMMA OnlyRow ==
  ASSUME NEW i \in Ids, NEW b \in Bodies \cup {None}
  PROVE  Service!Only(i, b) \in Row /\ \A j \in Ids : Service!Only(i, b)[j] # None => j = i /\ b # None
BY DEF Service!Only, Row, Service!Row

-----------------------------------------------------------------------------
(* What a handler of the server does to the rows, and what it answers:     *)
(* rows come and are changed or marked as deleted, and an answer shows     *)
(* only rows that are there.                                               *)
LEMMA HandleRows ==
  ASSUME NEW r \in Requests, NEW a \in Service!Answers,
         rows \in [Ids -> Bodies \cup {None, Gone}],
         Service!Handle(r, a)
  PROVE  /\ rows' \in [Ids -> Bodies \cup {None, Gone}]
         /\ \A i \in Ids : rows[i] # None => rows'[i] # None
         /\ a # Refused => \A i \in Ids : a[i] # None => rows'[i] # None
<1>0. /\ None \notin Bodies /\ None # Gone /\ Gone \notin Bodies
      /\ Refused \notin Row
  BY ClientAssumption
<1> USE <1>0
<1>1. CASE Service!NoSuchTable(r, a)
  BY <1>1 DEF Service!NoSuchTable
<1>2. CASE Service!ListTableRows(r, a)
  <2>1. CASE a = Service!Visible
    BY <1>2, <2>1 DEF Service!ListTableRows, Service!Visible
  <2>2. CASE r.method = "FIND" /\ a = Service!Only(r.id, Service!Visible[r.id])
    <3>1. r.id \in Ids
      BY <2>2, RequestFacts
    <3>2. Service!Visible[r.id] \in Bodies \cup {None} /\ (Service!Visible[r.id] # None => rows[r.id] # None)
      BY <3>1 DEF Service!Visible
    <3> QED
      BY <1>2, <2>2, <3>1, <3>2, OnlyRow DEF Service!ListTableRows
  <2> QED
    BY <1>2, <2>1, <2>2 DEF Service!ListTableRows
<1>3. CASE Service!GetTableRow(r, a)
  <2>1. r.id \in Ids
    BY <1>3, RequestFacts DEF Service!GetTableRow
  <2> QED
    BY <1>3, <2>1, OnlyRow DEF Service!GetTableRow
<1>4. CASE Service!CreateTableRow(r, a)
  <2>1. PICK i \in IF r.id = None THEN {j \in Ids : rows[j] = None} ELSE {r.id} :
          \/ /\ rows[i] \in Bodies
             /\ a = Refused /\ UNCHANGED rows
          \/ /\ rows[i] \notin Bodies
             /\ a = Service!Only(i, r.body) /\ rows' = [rows EXCEPT ![i] = r.body]
    BY <1>4 DEF Service!CreateTableRow
  <2>2. i \in Ids /\ r.body \in Bodies
    BY <1>4, <2>1, RequestFacts DEF Service!CreateTableRow
  <2> QED
    BY <2>1, <2>2, OnlyRow
<1>5. CASE Service!UpdateTableRow(r, a)
  <2>1. r.id \in Ids /\ r.method = "PATCH"
    BY <1>5, RequestFacts DEF Service!UpdateTableRow, Writes
  <2>2. r.body \in Bodies
    BY <2>1 DEF Requests, Service!Requests
  <2> QED
    BY <1>5, <2>1, <2>2, OnlyRow DEF Service!UpdateTableRow
<1>6. CASE Service!DeleteTableRow(r, a)
  <2>1. r.id \in Ids
    BY <1>6, RequestFacts DEF Service!DeleteTableRow, Writes
  <2> QED
    BY <1>6, <2>1 DEF Service!DeleteTableRow
<1> QED
  BY <1>1, <1>2, <1>3, <1>4, <1>5, <1>6 DEF Service!Handle

-----------------------------------------------------------------------------
(* Type correctness.  What a push has still to send is in the local copy,  *)
(* and only the owner of the copy pushes.                                  *)

PushInv ==
  /\ \A t \in Threads \ {Owner} : todo[t] = {}
  /\ \A p \in todo[Owner] : cache[p.id] # None

(* An answer that is waited for or stored is one that the server has given.*)
AnswerInv ==
  /\ \A t \in Threads : call[t] = None => reply[t] = Waiting
  /\ \A t \in Threads : reply[t] \notin {Waiting, None} => reply[t] \in given[t]
  /\ \A k \in Service!Keys : inflight[k] # None => inflight[k] = told[k]

IInv == TypeOK /\ PushInv /\ AnswerInv

LEMMA InitIInv == Init => IInv
<1> SUFFICES ASSUME Init PROVE IInv
  OBVIOUS
<1> USE ClientAssumption DEF Init
<1>1. TypeOK
  BY DEF TypeOK, Service!Init, Row, Service!Row, Service!Answers
<1>2. PushInv
  BY DEF PushInv
<1>3. AnswerInv
  BY DEF AnswerInv
<1> QED
  BY <1>1, <1>2, <1>3 DEF IInv

LEMMA EndType ==
  ASSUME TypeOK, NEW t \in Threads, NEW r \in Requests, NEW a \in Service!Answers,
         End(t, r, a)
  PROVE  /\ call' \in [Threads -> Requests \cup {None}]
         /\ given' \in [Threads -> SUBSET Service!Answers]
         /\ result' \in [Threads -> [method: Service!Methods, answer: Service!Answers]
                                    \cup {None}]
         /\ inflight' \in [Service!Keys -> Row \cup {None}]
<1>1. r.method \in Service!Methods /\ Key(r) \in Service!Keys
  BY RequestFacts
<1>2. a # Refused => a \in Row
  BY AnswerFacts
<1>3. [method |-> r.method, answer |-> Outcome(t, r, a)]
        \in [method: Service!Methods, answer: Service!Answers]
  BY <1>1, AnswerFacts DEF Outcome
<1> QED
  BY <1>1, <1>2, <1>3 DEF End, TypeOK

LEMMA StoredType ==
  ASSUME TypeOK, NEW r \in Requests, NEW a \in Row
  PROVE  StoredAfter(r, a) \in Row
<1>1. r.method = "DELETE" => r.id \in Ids
  BY RequestFacts DEF Writes
<1>2. Merged(a) \in Row
  BY DEF Merged, TypeOK, Row, Service!Row
<1>3. r.method = "DELETE" => [cache EXCEPT ![r.id] = None] \in Row
  BY <1>1 DEF TypeOK, Row, Service!Row
<1> QED
  BY <1>2, <1>3 DEF StoredAfter, TypeOK

(* A call that returns, with what the server or _inflight answered.        *)
LEMMA SucceedIInv ==
  ASSUME IInv, NEW t \in Threads, NEW r \in Requests, NEW a \in Row,
         Succeed(t, r, a),
         reply' = [reply EXCEPT ![t] = Waiting],
         calls' \in 0..MaxCalls[policy]
  PROVE  IInv'
<1> USE DEF IInv
<1>0. a \in Service!Answers /\ a # Refused /\ Key(r) \in Service!Keys
  BY AnswerFacts, RequestFacts
<1>1. End(t, r, a)
  BY DEF Succeed
<1>2. /\ UNCHANGED <<rows, exists, attempt, policy, late>>
      /\ told' = [told EXCEPT ![Key(r)] = a]
      /\ inflight' = [inflight EXCEPT ![Key(r)] = a]
  BY <1>0 DEF Succeed, End, serverVars
<1>3. /\ todo' \in [Threads -> SUBSET Pushes] /\ cache' \in Row
      /\ \A s \in Threads : todo'[s] \subseteq todo[s]
      /\ cache' = cache \/ (t = Owner /\ todo[t] = {} /\ todo' = todo)
  <2>1. CASE /\ todo[t] # {} /\ todo' = [todo EXCEPT ![t] = @ \ {Patch(r.id), Post(r.id)}]
             /\ UNCHANGED cache
    BY <2>1 DEF TypeOK
  <2>2. CASE /\ todo[t] = {} /\ t = Owner /\ cache' = StoredAfter(r, a)
             /\ UNCHANGED todo
    BY <2>2, StoredType DEF TypeOK
  <2>3. CASE todo[t] = {} /\ t # Owner /\ UNCHANGED <<cache, todo>>
    BY <2>3 DEF TypeOK
  <2> QED
    BY <2>1, <2>2, <2>3 DEF Succeed
<1>4. TypeOK'
  BY <1>0, <1>1, <1>2, <1>3, EndType DEF TypeOK
<1>5. PushInv'
  BY <1>3, ClientAssumption DEF PushInv, TypeOK
<1>6. AnswerInv'
  BY <1>0, <1>1, <1>2 DEF AnswerInv, TypeOK, End
<1> QED
  BY <1>4, <1>5, <1>6

LEMMA FailIInv ==
  ASSUME IInv, NEW t \in Threads, call[t] # None, NEW missing \in BOOLEAN,
         Fail(t, missing), late' \subseteq Requests
  PROVE  IInv'
<1> USE DEF IInv
<1> DEFINE r == call[t]
<1>0. r \in Requests /\ Refused \in Service!Answers
  BY AnswerFacts DEF TypeOK
<1>1. End(t, r, Refused)
  BY DEF Fail
<1>2. /\ UNCHANGED <<rows, exists, attempt, policy, told, cache, calls>>
      /\ reply' = [reply EXCEPT ![t] = Waiting]
      /\ inflight' = [inflight EXCEPT ![Key(r)] = None]
  BY DEF Fail, End, serverVars
<1>3. /\ todo' \in [Threads -> SUBSET Pushes]
      /\ \A s \in Threads : \A p \in todo'[s] : \E q \in todo[s] : p.id = q.id
  <2>1. CASE missing /\ Patch(r.id) \in todo[t]
    <3>1. r.id \in Ids
      BY <2>1 DEF TypeOK, Pushes, Patch
    <3>2. todo' = [todo EXCEPT ![t] = (todo[t] \ {Patch(r.id)}) \cup {Post(r.id)}]
      BY <2>1 DEF Fail
    <3>3. Post(r.id) \in Pushes /\ Post(r.id).id = Patch(r.id).id
      BY <3>1 DEF Pushes, Post, Patch
    <3> QED
      BY <2>1, <3>2, <3>3 DEF TypeOK
  <2>2. CASE ~(missing /\ Patch(r.id) \in todo[t])
    <3>1. todo' = [todo EXCEPT ![t] = {}]
      BY <2>2 DEF Fail
    <3> QED
      BY <3>1 DEF TypeOK
  <2> QED
    BY <2>1, <2>2
<1>4. TypeOK'
  BY <1>0, <1>1, <1>2, <1>3, EndType, ClientAssumption DEF TypeOK
<1>5. PushInv'
  BY <1>2, <1>3, ClientAssumption DEF PushInv, TypeOK
<1>6. AnswerInv'
  <2>1. Key(r) \in Service!Keys
    BY <1>0, RequestFacts
  <2> QED
    BY <1>1, <1>2, <2>1 DEF AnswerInv, TypeOK, End
<1> QED
  BY <1>4, <1>5, <1>6

(* A call that begins: it is answered at once or sent.                     *)
LEMMA RequestIInv ==
  ASSUME IInv, NEW t \in Threads, NEW r \in Requests, call[t] = None,
         Request(t, r), calls' \in 0..MaxCalls[policy]
  PROVE  IInv'
<1> USE DEF IInv
<1>0. Key(r) \in Service!Keys
  BY RequestFacts
<1>1. CASE /\ inflight[Key(r)] # None
           /\ Succeed(t, r, inflight[Key(r)])
           /\ UNCHANGED reply
  <2>1. inflight[Key(r)] \in Row
    BY <1>0, <1>1 DEF TypeOK
  <2>2. reply' = [reply EXCEPT ![t] = Waiting]
    BY <1>1 DEF AnswerInv, TypeOK
  <2> QED
    BY <1>1, <2>1, <2>2, SucceedIInv
<1>2. CASE /\ inflight[Key(r)] = None
           /\ Begin(t, r)
           /\ UNCHANGED todo
  <2>1. TypeOK'
    BY <1>2, ClientAssumption DEF Begin, TypeOK, serverVars
  <2>2. PushInv'
    BY <1>2 DEF Begin, PushInv
  <2>3. AnswerInv'
    BY <1>2, ClientAssumption DEF Begin, AnswerInv, TypeOK
  <2> QED
    BY <2>1, <2>2, <2>3
<1> QED
  BY <1>1, <1>2 DEF Request

LEMMA CountedCall == TypeOK /\ calls < MaxCalls[policy] => calls + 1 \in 0..MaxCalls[policy]
BY ClientAssumption DEF TypeOK

(* The row that a push sends.                                              *)
LEMMA PushedRequest ==
  ASSUME IInv, NEW p \in todo[Owner]
  PROVE  [method |-> p.method, id |-> p.id, body |-> cache[p.id]] \in Requests
<1>1. p \in Pushes /\ cache[p.id] # None
  BY ClientAssumption DEF IInv, TypeOK, PushInv
<1>2. p.id \in Ids /\ p.method \in {"PATCH", "POST"} /\ cache[p.id] \in Bodies
  BY <1>1 DEF Pushes, IInv, TypeOK, Row, Service!Row
<1> QED
  BY <1>2 DEF Requests, Service!Requests

LEMMA NextIInv == IInv /\ [Next]_vars => IInv'
<1> SUFFICES ASSUME IInv, [Next]_vars
             PROVE  IInv'
  OBVIOUS
<1> USE ClientAssumption DEF IInv
<1>1. CASE CreateTable \/ DropTable
  <2>1. TypeOK'
    BY <1>1 DEF CreateTable, DropTable, TypeOK, transportVars
  <2> QED
    BY <1>1, <2>1 DEF CreateTable, DropTable, PushInv, AnswerInv, transportVars
<1>2. CASE ServeLate
  <2>1. rows' \in [Ids -> Bodies \cup {None, Gone}] /\ late' \subseteq Requests
    BY <1>2, HandleRows DEF ServeLate, TypeOK
  <2>2. TypeOK'
    BY <1>2, <2>1 DEF ServeLate, TypeOK
  <2> QED
    BY <1>2, <2>2 DEF ServeLate, PushInv, AnswerInv
<1>3. CASE Push
  <2>1. /\ todo' = [todo EXCEPT ![Owner] = {Patch(i) : i \in {j \in Ids : cache[j] # None}}]
        /\ {Patch(i) : i \in {j \in Ids : cache[j] # None}} \subseteq Pushes
    BY <1>3 DEF Push, Patch, Pushes
  <2>2. TypeOK'
    BY <1>3, <2>1, CountedCall DEF Push, TypeOK, serverVars, transportVars
  <2>3. PushInv'
    BY <1>3, <2>1 DEF Push, PushInv, TypeOK, Patch
  <2> QED
    BY <1>3, <2>2, <2>3 DEF Push, AnswerInv, transportVars
<1>4. CASE PushRow
  <2>1. PICK p \in todo[Owner] :
          Request(Owner, [method |-> p.method, id |-> p.id, body |-> cache[p.id]])
    BY <1>4 DEF PushRow
  <2>2. calls' \in 0..MaxCalls[policy]
    BY <1>4 DEF PushRow, TypeOK
  <2> QED
    BY <1>4, <2>1, <2>2, PushedRequest, RequestIInv DEF PushRow
<1>5. ASSUME NEW r \in Requests, LocalWrite(r)
      PROVE  IInv'
  <2>1. todo[Owner] = {}
    BY <1>5 DEF LocalWrite
  <2>2. cache' \in Row
    <3>1. CASE r.method = "POST"
      <4>1. PICK i \in IF r.id = None THEN {j \in Ids : cache[j] = None} ELSE {r.id} :
              cache' = [cache EXCEPT ![i] = r.body]
        BY <1>5, <3>1 DEF LocalWrite
      <4>2. i \in Ids /\ r.body \in Bodies
        BY <3>1, <4>1, RequestFacts
      <4> QED
        BY <4>1, <4>2 DEF TypeOK, Row, Service!Row
    <3>2. CASE r.method \in {"PATCH", "DELETE"}
      <4>1. r.id \in Ids /\ r.body \in Bodies \cup {None}
        BY <3>2, RequestFacts DEF Writes
      <4> QED
        BY <1>5, <3>2, <4>1 DEF LocalWrite, TypeOK, Row, Service!Row
    <3> QED
      BY <1>5, <3>1, <3>2 DEF LocalWrite
  <2>3. TypeOK'
    BY <1>5, <2>2 DEF LocalWrite, TypeOK, serverVars, transportVars
  <2> QED
    BY <1>5, <2>1, <2>3 DEF LocalWrite, PushInv, AnswerInv, transportVars
<1>6. ASSUME NEW t \in Threads, Serve(t)
      PROVE  IInv'
  <2>1. PICK a \in Service!Answers :
          /\ Service!Handle(call[t], a)
          /\ reply' = [reply EXCEPT ![t] = a]
          /\ given' = [given EXCEPT ![t] = @ \cup {a}]
    BY <1>6 DEF Serve
  <2>2. rows' \in [Ids -> Bodies \cup {None, Gone}]
    BY <1>6, <2>1, HandleRows DEF Serve, TypeOK
  <2>3. TypeOK'
    BY <1>6, <2>1, <2>2 DEF Serve, TypeOK
  <2>4. AnswerInv'
    BY <1>6, <2>1 DEF Serve, AnswerInv, TypeOK
  <2> QED
    BY <1>6, <2>3, <2>4 DEF Serve, PushInv
<1>7. ASSUME NEW t \in Threads, Receive(t)
      PROVE  IInv'
  <2>1. CASE reply[t] # Refused
    <3>1. reply[t] \in Row /\ call[t] \in Requests
      BY <1>7, <2>1, AnswerFacts DEF Receive, TypeOK
    <3>2. calls' \in 0..MaxCalls[policy]
      BY <1>7, <2>1 DEF Receive, TypeOK
    <3> QED
      BY <1>7, <2>1, <3>1, <3>2, SucceedIInv DEF Receive
  <2>2. CASE reply[t] = Refused
    BY <1>7, <2>2, FailIInv DEF Receive, TypeOK
  <2> QED
    BY <2>1, <2>2
<1>8. ASSUME NEW t \in Threads, Retry(t)
      PROVE  IInv'
  <2>1. late' \subseteq Requests
    BY <1>8 DEF Retry, Unanswered, TypeOK
  <2>2. TypeOK'
    BY <1>8, <2>1 DEF Retry, TypeOK, serverVars
  <2>3. AnswerInv'
    BY <1>8 DEF Retry, AnswerInv, TypeOK
  <2> QED
    BY <1>8, <2>2, <2>3 DEF Retry, PushInv
<1>9. ASSUME NEW t \in Threads, GiveUp(t)
      PROVE  IInv'
  <2>1. late' \subseteq Requests
    BY <1>9 DEF GiveUp, Unanswered, TypeOK
  <2> QED
    BY <1>9, <2>1, FailIInv DEF GiveUp, Unanswered
<1>10. ASSUME NEW t \in Threads, NEW r \in Requests, Call(t, r)
       PROVE  IInv'
  <2>1. calls' \in 0..MaxCalls[policy]
    <3>1. policy' = policy /\ calls' = calls + 1
      BY <1>10 DEF Call, Request, Succeed, End, Begin
    <3> QED
      BY <1>10, <3>1, CountedCall DEF Call
  <2> QED
    BY <1>10, <2>1, RequestIInv DEF Call
<1>11. ASSUME NEW t \in Threads, Send(t)
       PROVE  IInv'
  <2>1. call[t] \in Requests /\ Key(call[t]) \in Service!Keys
    BY <1>11, RequestFacts DEF Send, TypeOK
  <2>2. TypeOK'
    BY <1>11, <2>1 DEF Send, TypeOK, serverVars
  <2>3. AnswerInv'
    BY <1>11, <2>1 DEF Send, AnswerInv, TypeOK
  <2> QED
    BY <1>11, <2>2, <2>3 DEF Send, PushInv
<1>12. CASE UNCHANGED vars
  <2>1. TypeOK'
    BY <1>12 DEF vars, TypeOK
  <2> QED
    BY <1>12, <2>1 DEF vars, PushInv, AnswerInv
<1> QED
  BY <1>1, <1>2, <1>3, <1>4, <1>5, <1>6, <1>7, <1>8, <1>9, <1>10, <1>11, <1>12 DEF Next

LEMMA Invariant == Spec => []IInv
<1> QED
  BY InitIInv, NextIInv, PTL DEF Spec

(* The state of client and server has its type, and no call makes more     *)
(* attempts than max_retries allows.                                       *)
THEOREM TypeCorrect == Spec => []TypeOK
<1>1. IInv => TypeOK
  BY DEF IInv
<1> QED
  BY <1>1, Invariant, PTL

-----------------------------------------------------------------------------
(* The client implements TableService.                                     *)

LEMMA RequestRefines ==
  ASSUME IInv, NEW t \in Threads, NEW r \in Requests, call[t] = None, Request(t, r)
  PROVE  Service!Invoke(t, r) \/ Service!Repeat(t, r)
<1>0. Key(r) \in Service!Keys /\ Key(r) = Service!Key(r)
  BY RequestFacts DEF Key
<1>1. CASE inflight[Key(r)] # None /\ Succeed(t, r, inflight[Key(r)])
  <2> DEFINE a == inflight[Key(r)]
  <2>1. a = told[Service!Key(r)] /\ told[Service!Key(r)] # None
    BY <1>0, <1>1 DEF IInv, AnswerInv
  <2>2. UNCHANGED told
    BY <1>0, <1>1, <2>1 DEF Succeed, IInv, TypeOK
  <2>3. Service!Ends(t, r.method, Outcome(t, r, a)) /\ Outcome(t, r, a) \in {a, Refused}
    BY <1>1 DEF Succeed, End, Outcome, Service!Ends, serverVars
  <2> QED
    BY <2>1, <2>2, <2>3 DEF Service!Repeat
<1>2. CASE Begin(t, r)
  BY <1>2 DEF Begin, Service!Invoke, serverVars
<1> QED
  BY <1>1, <1>2 DEF Request

LEMMA FailRefines ==
  ASSUME NEW t \in Threads, NEW missing \in BOOLEAN, call[t] # None, Fail(t, missing)
  PROVE  Service!Fail(t)
BY DEF Fail, End, Outcome, Service!Fail, Service!Ends, serverVars

LEMMA StepRefines == IInv /\ [Next]_vars => [Service!Next]_(Service!svars)
<1> SUFFICES ASSUME IInv, [Next]_vars
             PROVE  Service!Next \/ UNCHANGED Service!svars
  OBVIOUS
<1> USE ClientAssumption
<1>1. CASE CreateTable
  BY <1>1 DEF CreateTable, Service!CreateTable, Service!Next
<1>2. CASE DropTable
  BY <1>2 DEF DropTable, Service!DropTable, Service!Next
<1>3. CASE ServeLate
  <2>1. Service!ServeLate
    BY <1>3 DEF ServeLate, Service!ServeLate, IInv, TypeOK, Requests
  <2> QED
    BY <2>1 DEF Service!Next
<1>4. CASE Push
  BY <1>4 DEF Push, Service!svars, serverVars
<1>5. CASE PushRow
  <2>1. PICK p \in todo[Owner] :
          Request(Owner, [method |-> p.method, id |-> p.id, body |-> cache[p.id]])
    BY <1>5 DEF PushRow
  <2> DEFINE r == [method |-> p.method, id |-> p.id, body |-> cache[p.id]]
  <2>2. r \in Requests
    BY PushedRequest
  <2>3. Service!Invoke(Owner, r) \/ Service!Repeat(Owner, r)
    BY <1>5, <2>1, <2>2, RequestRefines DEF PushRow
  <2> QED
    BY <2>2, <2>3 DEF Service!Next, Requests
<1>6. ASSUME NEW r \in Requests, LocalWrite(r)
      PROVE  UNCHANGED Service!svars
  BY <1>6 DEF LocalWrite, Service!svars, serverVars
<1>7. ASSUME NEW t \in Threads, Serve(t)
      PROVE  Service!Next
  <2>1. Service!Serve(t)
    BY <1>7 DEF Serve, Service!Serve
  <2> QED
    BY <2>1 DEF Service!Next
<1>8. ASSUME NEW t \in Threads, Receive(t)
      PROVE  Service!Next
  <2>1. CASE reply[t] # Refused
    <3>1. reply[t] \in given[t] \ {Refused}
      BY <1>8, <2>1 DEF Receive, IInv, AnswerInv
    <3>2. Succeed(t, call[t], reply[t])
      BY <1>8, <2>1 DEF Receive
    <3>3. /\ Service!Ends(t, call[t].method, Outcome(t, call[t], reply[t]))
          /\ Outcome(t, call[t], reply[t]) \in {reply[t], Refused}
      BY <3>2 DEF Succeed, End, Outcome, Service!Ends, serverVars
    <3>4. told' = [told EXCEPT ![Service!Key(call[t])] = reply[t]]
      BY <3>2 DEF Succeed, Key
    <3>5. Service!Succeed(t)
      BY <1>8, <3>1, <3>3, <3>4 DEF Receive, Service!Succeed
    <3> QED
      BY <3>5 DEF Service!Next
  <2>2. CASE reply[t] = Refused
    <3>1. Service!Fail(t)
      BY <1>8, <2>2, FailRefines DEF Receive
    <3> QED
      BY <3>1 DEF Service!Next
  <2> QED
    BY <2>1, <2>2
<1>9. ASSUME NEW t \in Threads, Retry(t)
      PROVE  UNCHANGED Service!svars
  BY <1>9 DEF Retry, Service!svars, serverVars
<1>10. ASSUME NEW t \in Threads, GiveUp(t)
       PROVE  Service!Next
  <2>1. Service!Fail(t)
    BY <1>10, FailRefines DEF GiveUp, Unanswered
  <2> QED
    BY <2>1 DEF Service!Next
<1>11. ASSUME NEW t \in Threads, NEW r \in Requests, Call(t, r)
       PROVE  Service!Next
  <2>1. Service!Invoke(t, r) \/ Service!Repeat(t, r)
    BY <1>11, RequestRefines DEF Call
  <2> QED
    BY <2>1 DEF Service!Next, Requests
<1>12. ASSUME NEW t \in Threads, Send(t)
       PROVE  UNCHANGED Service!svars
  BY <1>12 DEF Send, Service!svars, serverVars
<1>13. CASE UNCHANGED vars
  BY <1>13 DEF vars, Service!svars
<1> QED
  BY <1>1, <1>2, <1>3, <1>4, <1>5, <1>6, <1>7, <1>8, <1>9, <1>10, <1>11, <1>12, <1>13 DEF Next

(* What a caller of the client may rely on is TableService: an answer was  *)
(* given to this call or to an earlier one with the same key.              *)
THEOREM Implements == Spec => ServiceSpec
<1>1. Init => Service!Init
  BY DEF Init
<1> QED
  BY <1>1, StepRefines, Invariant, PTL DEF Spec, ServiceSpec, Service!Spec

-----------------------------------------------------------------------------
(* The local copy of a cached table.  An answer, wherever it is kept,      *)
(* shows only rows that the server has had.                                *)

Shown(a) == \A i \in Ids : a[i] # None => rows[i] # None

AnswersShown ==
  /\ \A t \in Threads : reply[t] \notin {Waiting, None, Refused} => Shown(reply[t])
  /\ \A k \in Service!Keys : inflight[k] # None => Shown(inflight[k])

CInv == AnswersShown /\ CacheHoldsServerRows

LEMMA SucceedShown ==
  ASSUME IInv, CInv, NEW t \in Threads, NEW r \in Requests, NEW a \in Row,
         Shown(a), Succeed(t, r, a), reply' = [reply EXCEPT ![t] = Waiting]
  PROVE  CInv'
<1>0. a # Refused /\ Key(r) \in Service!Keys
  BY AnswerFacts, RequestFacts
<1>1. /\ rows' = rows /\ policy' = policy
      /\ inflight' = [inflight EXCEPT ![Key(r)] = a]
  BY <1>0 DEF Succeed, End, serverVars
<1>2. AnswersShown'
  BY <1>0, <1>1 DEF CInv, AnswersShown, Shown, IInv, TypeOK
<1>3. cache' = cache \/ cache' = StoredAfter(r, a)
  BY DEF Succeed
<1>4. policy = "cache" => \A i \in Ids : StoredAfter(r, a)[i] # None => rows[i] # None
  <2>1. \A i \in Ids : Merged(a)[i] # None => a[i] # None \/ cache[i] # None
    BY DEF Merged
  <2>2. r.method = "DELETE" =>
          \A i \in Ids : [cache EXCEPT ![r.id] = None][i] # None => cache[i] # None
    BY DEF IInv, TypeOK, Row, Service!Row
  <2> QED
    BY <2>1, <2>2 DEF StoredAfter, Shown, CInv, CacheHoldsServerRows
<1>5. CacheHoldsServerRows'
  BY <1>1, <1>3, <1>4 DEF CInv, CacheHoldsServerRows
<1> QED
  BY <1>2, <1>5 DEF CInv

LEMMA FailShown ==
  ASSUME IInv, CInv, NEW t \in Threads, call[t] # None, NEW missing \in BOOLEAN,
         Fail(t, missing)
  PROVE  CInv'
<1>1. call[t] \in Requests /\ Key(call[t]) \in Service!Keys
  BY RequestFacts DEF IInv, TypeOK
<1>2. /\ UNCHANGED <<rows, policy, cache>>
      /\ reply' = [reply EXCEPT ![t] = Waiting]
      /\ inflight' = [inflight EXCEPT ![Key(call[t])] = None]
  BY DEF Fail, End, serverVars
<1> QED
  BY <1>1, <1>2 DEF CInv, AnswersShown, Shown, CacheHoldsServerRows, IInv, TypeOK

LEMMA RequestShown ==
  ASSUME IInv, CInv, NEW t \in Threads, NEW r \in Requests, call[t] = None, Request(t, r)
  PROVE  CInv'
<1>0. Key(r) \in Service!Keys
  BY RequestFacts
<1>1. CASE /\ inflight[Key(r)] # None
           /\ Succeed(t, r, inflight[Key(r)])
           /\ UNCHANGED reply
  <2>1. inflight[Key(r)] \in Row /\ Shown(inflight[Key(r)])
    BY <1>0, <1>1 DEF IInv, TypeOK, CInv, AnswersShown
  <2>2. reply' = [reply EXCEPT ![t] = Waiting]
    BY <1>1 DEF IInv, AnswerInv, TypeOK
  <2> QED
    BY <1>1, <2>1, <2>2, SucceedShown
<1>2. CASE Begin(t, r)
  BY <1>2 DEF Begin, serverVars, CInv, AnswersShown, Shown, CacheHoldsServerRows, IInv, TypeOK
<1> QED
  BY <1>1, <1>2 DEF Request

LEMMA NextCInv == IInv /\ CInv /\ [Next]_vars => CInv'
<1> SUFFICES ASSUME IInv, CInv, [Next]_vars
             PROVE  CInv'
  OBVIOUS
<1> USE ClientAssumption
<1>1. CASE CreateTable \/ DropTable
  <2>1. \A i \in Ids : rows[i] # None => rows'[i] # None
    BY <1>1 DEF CreateTable, DropTable, IInv, TypeOK
  <2>2. UNCHANGED <<reply, inflight, policy, cache>>
    BY <1>1 DEF CreateTable, DropTable, transportVars
  <2> QED
    BY <2>1, <2>2 DEF CInv, AnswersShown, Shown, CacheHoldsServerRows
<1>2. CASE ServeLate
  <2>1. \A i \in Ids : rows[i] # None => rows'[i] # None
    BY <1>2, HandleRows DEF ServeLate, IInv, TypeOK
  <2> QED
    BY <1>2, <2>1 DEF ServeLate, CInv, AnswersShown, Shown, CacheHoldsServerRows
<1>3. CASE Push
  BY <1>3 DEF Push, serverVars, transportVars, CInv, AnswersShown, Shown, CacheHoldsServerRows
<1>4. CASE PushRow
  <2>1. PICK p \in todo[Owner] :
          Request(Owner, [method |-> p.method, id |-> p.id, body |-> cache[p.id]])
    BY <1>4 DEF PushRow
  <2> QED
    BY <1>4, <2>1, PushedRequest, RequestShown DEF PushRow
<1>5. ASSUME NEW r \in Requests, LocalWrite(r)
      PROVE  CInv'
  BY <1>5 DEF LocalWrite, serverVars, transportVars, CInv, AnswersShown, Shown, CacheHoldsServerRows
<1>6. ASSUME NEW t \in Threads, Serve(t)
      PROVE  CInv'
  <2>1. PICK a \in Service!Answers :
          Service!Handle(call[t], a) /\ reply' = [reply EXCEPT ![t] = a]
    BY <1>6 DEF Serve
  <2>2. /\ \A i \in Ids : rows[i] # None => rows'[i] # None
        /\ a # Refused => \A i \in Ids : a[i] # None => rows'[i] # None
    BY <1>6, <2>1, HandleRows DEF Serve, IInv, TypeOK
  <2> QED
    BY <1>6, <2>1, <2>2 DEF Serve, CInv, AnswersShown, Shown, CacheHoldsServerRows, IInv, TypeOK
<1>7. ASSUME NEW t \in Threads, Receive(t)
      PROVE  CInv'
  <2>1. CASE reply[t] # Refused
    <3>1. reply[t] \in Row /\ call[t] \in Requests /\ Shown(reply[t])
      BY <1>7, <2>1, AnswerFacts DEF Receive, IInv, TypeOK, CInv, AnswersShown
    <3> QED
      BY <1>7, <2>1, <3>1, SucceedShown DEF Receive
  <2>2. CASE reply[t] = Refused
    BY <1>7, <2>2, FailShown DEF Receive
  <2> QED
    BY <2>1, <2>2
<1>8. ASSUME NEW t \in Threads, Retry(t)
      PROVE  CInv'
  BY <1>8 DEF Retry, serverVars, CInv, AnswersShown, Shown, CacheHoldsServerRows, IInv, TypeOK
<1>9. ASSUME NEW t \in Threads, GiveUp(t)
      PROVE  CInv'
  BY <1>9, FailShown DEF GiveUp, Unanswered
<1>10. ASSUME NEW t \in Threads, NEW r \in Requests, Call(t, r)
       PROVE  CInv'
  BY <1>10, RequestShown DEF Call
<1>11. ASSUME NEW t \in Threads, Send(t)
       PROVE  CInv'
  <2>1. Key(call[t]) \in Service!Keys
    BY <1>11, RequestFacts DEF Send, IInv, TypeOK
  <2> QED
    BY <1>11, <2>1 DEF Send, serverVars, CInv, AnswersShown, Shown, CacheHoldsServerRows, IInv, TypeOK
<1>12. CASE UNCHANGED vars
  BY <1>12 DEF vars, CInv, AnswersShown, Shown, CacheHoldsServerRows
<1> QED
  BY <1>1, <1>2, <1>3, <1>4, <1>5, <1>6, <1>7, <1>8, <1>9, <1>10, <1>11, <1>12 DEF Next

(* Under the cache policy the local copy shows no row that the server      *)
(* never had, whatever was lost, repeated or answered from _inflight.      *)
THEOREM CopyOfServerRows == Spec => []CacheHoldsServerRows
<1>1. Init => CInv
  BY DEF Init, CInv, AnswersShown, CacheHoldsServerRows
<1>2. CInv => CacheHoldsServerRows
  BY DEF CInv
<1> QED
  BY <1>1, <1>2, NextCInv, Invariant, PTL DEF Spec

-----------------------------------------------------------------------------
(* What TableService promises of its answers, in its own terms: the rows   *)
(* that they show have been there, wherever an answer is kept.             *)

Kept ==
  /\ \A t \in Threads : \A a \in given[t] \ {Refused} : Shown(a)
  /\ \A k \in Service!Keys : told[k] # None => Shown(told[k])
  /\ ResultsAreServerRows

(* The rows only grow, and nobody is told anything.                        *)
LEMMA KeptGrows ==
  ASSUME Kept, \A i \in Ids : rows[i] # None => rows'[i] # None,
         UNCHANGED <<given, told, result>>
  PROVE  Kept'
BY DEF Kept, Shown, ResultsAreServerRows

(* A call of thread t ends with a, when told is set, if at all, to b.       *)
LEMMA KeptEnds ==
  ASSUME TypeOK, Kept, NEW t \in Threads, NEW m, NEW a, Service!Ends(t, m, a),
         NEW b, a = Refused \/ Shown(a),
         told' = told \/ (Shown(b) /\ \E k \in Service!Keys : told' = [told EXCEPT ![k] = b])
  PROVE  Kept'
<1>1. /\ rows' = rows
      /\ given' = [given EXCEPT ![t] = {}]
      /\ result' = [result EXCEPT ![t] = [method |-> m, answer |-> a]]
  BY DEF Service!Ends
<1>2. ASSUME NEW u \in Threads, NEW c \in given'[u] \ {Refused} PROVE Shown(c)'
  BY <1>1, <1>2 DEF TypeOK, Kept, Shown
<1>3. ASSUME NEW k \in Service!Keys, told'[k] # None PROVE Shown(told[k])'
  BY <1>1, <1>3 DEF TypeOK, Kept, Shown
<1>4. ResultsAreServerRows'
  <2> SUFFICES ASSUME NEW u \in Threads, result'[u] # None, result'[u].answer # Refused,
                      NEW i \in Ids, result'[u].answer[i] # None
               PROVE  rows[i] # None
    BY <1>1 DEF ResultsAreServerRows
  <2>1. CASE u = t
    <3>1. result'[u].answer = a
      BY <1>1, <2>1 DEF TypeOK
    <3> QED
      BY <3>1 DEF Shown
  <2>2. CASE u # t
    <3>1. result'[u] = result[u]
      BY <1>1, <2>2 DEF TypeOK
    <3> QED
      BY <3>1 DEF Kept, ResultsAreServerRows
  <2> QED
    BY <2>1, <2>2
<1> QED
  BY <1>2, <1>3, <1>4 DEF Kept

LEMMA KeptStep ==
  ASSUME TypeOK, Kept, [Service!Next]_(Service!svars)
  PROVE  Kept'
<1> USE ClientAssumption
<1>1. CASE Service!CreateTable \/ Service!DropTable
  <2>1. \A i \in Ids : rows[i] # None => rows'[i] # None
    BY <1>1 DEF Service!CreateTable, Service!DropTable, TypeOK
  <2> QED
    BY <1>1, <2>1, KeptGrows DEF Service!CreateTable, Service!DropTable
<1>2. CASE Service!ServeLate
  <2>1. \A i \in Ids : rows[i] # None => rows'[i] # None
    BY <1>2, HandleRows DEF Service!ServeLate, TypeOK, Requests
  <2> QED
    BY <1>2, <2>1, KeptGrows DEF Service!ServeLate
<1>3. ASSUME NEW t \in Threads, Service!Serve(t) PROVE Kept'
  <2>1. PICK a \in Service!Answers :
          Service!Handle(call[t], a) /\ given' = [given EXCEPT ![t] = @ \cup {a}]
    BY <1>3 DEF Service!Serve
  <2>2. call[t] \in Requests /\ UNCHANGED <<told, result>>
    BY <1>3 DEF Service!Serve, TypeOK
  <2>3. /\ \A i \in Ids : rows[i] # None => rows'[i] # None
        /\ a # Refused => \A i \in Ids : a[i] # None => rows'[i] # None
    BY <2>1, <2>2, HandleRows DEF TypeOK
  <2>4. ASSUME NEW u \in Threads, NEW b \in given'[u] \ {Refused} PROVE Shown(b)'
    BY <2>1, <2>3, <2>4 DEF TypeOK, Kept, Shown
  <2> QED
    BY <2>2, <2>3, <2>4 DEF Kept, Shown, ResultsAreServerRows
<1>4. ASSUME NEW t \in Threads, NEW r \in Requests, Service!Invoke(t, r) PROVE Kept'
  BY <1>4, KeptGrows DEF Service!Invoke
<1>5. ASSUME NEW t \in Threads, Service!Succeed(t) PROVE Kept'
  <2>0. PICK a \in given[t] \ {Refused} : \E out \in {a, Refused} :
          /\ Service!Ends(t, call[t].method, out)
          /\ told' = [told EXCEPT ![Service!Key(call[t])] = a]
    BY <1>5 DEF Service!Succeed
  <2>1. PICK out \in {a, Refused} :
          /\ Service!Ends(t, call[t].method, out)
          /\ told' = [told EXCEPT ![Service!Key(call[t])] = a]
    BY <2>0
  <2>2. Service!Key(call[t]) \in Service!Keys
    BY <1>5, RequestFacts DEF Service!Succeed, TypeOK, Key
  <2>3. Shown(a)
    BY DEF Kept
  <2> QED
    BY <2>1, <2>2, <2>3, KeptEnds
<1>6. ASSUME NEW t \in Threads, Service!Fail(t) PROVE Kept'
  BY <1>6, KeptEnds DEF Service!Fail
<1>7. ASSUME NEW t \in Threads, NEW r \in Requests, Service!Repeat(t, r) PROVE Kept'
  <2>1. Service!Key(r) \in Service!Keys
    BY RequestFacts DEF Key
  <2>2. Shown(told[Service!Key(r)]) /\ told' = told
    BY <1>7, <2>1 DEF Service!Repeat, Kept
  <2>3. PICK out \in {told[Service!Key(r)], Refused} : Service!Ends(t, r.method, out)
    BY <1>7 DEF Service!Repeat
  <2> QED
    BY <2>2, <2>3, KeptEnds
<1>8. CASE UNCHANGED Service!svars
  BY <1>8, KeptGrows DEF Service!svars
<1> QED
  BY <1>1, <1>2, <1>3, <1>4, <1>5, <1>6, <1>7, <1>8 DEF Service!Next, Requests

(* Whoever relies on TableService may rely on the rows an answer shows,    *)
(* without knowing of retries, late requests or _inflight.                 *)
THEOREM ServiceSuffices == []TypeOK /\ ServiceSpec => []ResultsAreServerRows
<1>1. Service!Init => Kept
  BY DEF Service!Init, Kept, ResultsAreServerRows
<1>2. Kept => ResultsAreServerRows
  BY DEF Kept
<1> QED
  BY <1>1, <1>2, KeptStep, PTL DEF ServiceSpec, Service!Spec

=============================================================================
