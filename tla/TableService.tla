--------------------------- MODULE TableService ---------------------------
(* One table of the row API (backend/api/tables.py) and what a caller of   *)
(* the pyronites client may rely on: the answer of a call that succeeds is *)
(* one that the server gave to this very call, or to an earlier call for   *)
(* the same method, path and parameters; a call that fails may have been   *)
(* carried out, then or later, any number of times, and even answered.     *)
(*                                                                         *)
(* A handler runs without an await between its statements, so it is one    *)
(* step.  A row has an id and one other column; its id is a text key.      *)
EXTENDS Naturals

CONSTANTS Threads,      \* the threads that share one client
          Ids,          \* uuids of rows
          Bodies,       \* what a row holds
          None,         \* no row, no id, no call
          Gone,         \* a row that was deleted: its uuid is not drawn again
          Refused       \* a 4xx answer

VARIABLES rows,         \* the rows of the table
          exists,       \* whether there is a table
          call,         \* the request each thread waits for
          given,        \* the answers the server gave to that call
          told,         \* what the last call with this key was answered
          result        \* what a thread's last call returned

svars == <<rows, exists, call, given, told, result>>

Row == [Ids -> Bodies \cup {None}]
Answers == Row \cup {Refused}

Requests ==
  [method: {"LIST", "PULL"}, id: {None}, body: {None}]
    \cup [method: {"FIND", "GET", "DELETE"}, id: Ids, body: {None}]
    \cup [method: {"POST"}, id: Ids \cup {None}, body: Bodies]
    \cup [method: {"PATCH"}, id: Ids, body: Bodies]

(* HttpTransport._request_key: method, path and parameters.  The row of a  *)
(* POST is in the body, and the body is not in the key.                    *)
Key(r) == <<r.method, IF r.method = "POST" THEN None ELSE r.id>>
Methods == {r.method : r \in Requests}
Keys == {Key(r) : r \in Requests}

Visible == [i \in Ids |-> IF rows[i] \in Bodies THEN rows[i] ELSE None]
Only(i, b) == [j \in Ids |-> IF j = i THEN b ELSE None]

---------------------------------------------------------------------------
(* The handlers.  Each runs for request r and answers a.                   *)

NoSuchTable(r, a) == ~exists /\ a = Refused /\ UNCHANGED rows

(* Without a filter, and filtered by the id.                               *)
ListTableRows(r, a) ==
  /\ exists
  /\ UNCHANGED rows
  /\ \/ r.method \in {"LIST", "PULL"} /\ a = Visible
     \/ r.method = "FIND" /\ a = Only(r.id, Visible[r.id])

GetTableRow(r, a) ==
  /\ exists /\ r.method = "GET"
  /\ a = IF rows[r.id] \in Bodies THEN Only(r.id, rows[r.id]) ELSE Refused
  /\ UNCHANGED rows

(* An id of the caller's is taken as it is, otherwise a uuid is drawn; an  *)
(* id in use violates the primary key (409).                               *)
CreateTableRow(r, a) ==
  /\ exists /\ r.method = "POST"
  /\ \E i \in IF r.id = None THEN {j \in Ids : rows[j] = None} ELSE {r.id} :
       \/ /\ rows[i] \in Bodies
          /\ a = Refused /\ UNCHANGED rows
       \/ /\ rows[i] \notin Bodies
          /\ a = Only(i, r.body) /\ rows' = [rows EXCEPT ![i] = r.body]

UpdateTableRow(r, a) ==
  /\ exists /\ r.method = "PATCH"
  /\ \/ /\ rows[r.id] \in Bodies
        /\ a = Only(r.id, r.body) /\ rows' = [rows EXCEPT ![r.id] = r.body]
     \/ rows[r.id] \notin Bodies /\ a = Refused /\ UNCHANGED rows

DeleteTableRow(r, a) ==
  /\ exists /\ r.method = "DELETE"
  /\ \/ /\ rows[r.id] \in Bodies
        /\ a = [i \in Ids |-> None] /\ rows' = [rows EXCEPT ![r.id] = Gone]
     \/ rows[r.id] \notin Bodies /\ a = Refused /\ UNCHANGED rows

Handle(r, a) ==
  \/ NoSuchTable(r, a)
  \/ ListTableRows(r, a)
  \/ GetTableRow(r, a)
  \/ CreateTableRow(r, a)
  \/ UpdateTableRow(r, a)
  \/ DeleteTableRow(r, a)

---------------------------------------------------------------------------
(* The table itself, created and dropped from the dashboard.               *)

CreateTable ==
  /\ ~exists /\ exists' = TRUE
  /\ UNCHANGED <<rows, call, given, told, result>>

DropTable ==
  /\ exists /\ exists' = FALSE
  /\ rows' = [i \in Ids |-> IF rows[i] \in Bodies THEN Gone ELSE rows[i]]
  /\ UNCHANGED <<call, given, told, result>>

(* The calls.                                                              *)

Invoke(t, r) ==
  /\ call[t] = None
  /\ call' = [call EXCEPT ![t] = r]
  /\ UNCHANGED <<rows, exists, given, told, result>>

(* The server carries out a request, of a call that waits for it.          *)
Serve(t) ==
  /\ call[t] # None
  /\ \E a \in Answers :
       /\ Handle(call[t], a)
       /\ given' = [given EXCEPT ![t] = @ \cup {a}]
  /\ UNCHANGED <<exists, call, told, result>>

(* ... or of one whose caller has given up waiting, or of another client.  *)
ServeLate ==
  /\ \E r \in Requests, a \in Answers : Handle(r, a)
  /\ UNCHANGED <<exists, call, given, told, result>>

Ends(t, m, a) ==
  /\ call' = [call EXCEPT ![t] = None]
  /\ given' = [given EXCEPT ![t] = {}]
  /\ result' = [result EXCEPT ![t] = [method |-> m, answer |-> a]]
  /\ UNCHANGED <<rows, exists>>

(* The answer arrives; the caller may fail to use it.                      *)
Succeed(t) ==
  /\ call[t] # None
  /\ \E a \in given[t] \ {Refused} : \E out \in {a, Refused} :
       /\ Ends(t, call[t].method, out)
       /\ told' = [told EXCEPT ![Key(call[t])] = a]

Fail(t) == call[t] # None /\ Ends(t, call[t].method, Refused) /\ UNCHANGED told

(* A request that was answered before gets that answer again.              *)
Repeat(t, r) ==
  /\ call[t] = None
  /\ told[Key(r)] # None
  /\ \E out \in {told[Key(r)], Refused} : Ends(t, r.method, out)
  /\ UNCHANGED told

---------------------------------------------------------------------------
Init ==
  /\ rows = [i \in Ids |-> None]
  /\ exists = TRUE
  /\ call = [t \in Threads |-> None]
  /\ given = [t \in Threads |-> {}]
  /\ told = [k \in Keys |-> None]
  /\ result = [t \in Threads |-> None]

Next ==
  \/ CreateTable
  \/ DropTable
  \/ ServeLate
  \/ \E t \in Threads : Serve(t) \/ Succeed(t) \/ Fail(t)
  \/ \E t \in Threads, r \in Requests : Invoke(t, r) \/ Repeat(t, r)

Spec == Init /\ [][Next]_svars

===========================================================================
