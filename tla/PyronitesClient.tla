-------------------------- MODULE PyronitesClient --------------------------
(* The pyronites client: the transport (http.py) with its table of         *)
(* requests in flight and its retries, the table handles (table.py), the   *)
(* local SQLite copy (local.py) and push/pull (client.py), calling the row *)
(* API of one table.  It implements TableService.                          *)
(*                                                                         *)
(* An attempt ends with an answer, or without one: a time-out, a network   *)
(* error, 429, 502, 503 or 504 are all "try again", and a request given up *)
(* may still be on its way.  Waiting times are left out.                   *)
EXTENDS Naturals

CONSTANTS Threads, Ids, Bodies, None, Gone, Refused,
          Waiting,      \* an attempt without an answer yet
          Owner,        \* the thread that opened the local store
          MaxRetries,
          MaxCalls      \* per policy, bounds the calls of a behaviour

VARIABLES rows, exists, call, given, told, result,
          inflight,     \* per key the answer in _inflight that is returned
                        \* again; None without an entry, with an unfinished
                        \* one and with that of a call that failed
          attempt,      \* the loop counter of _do_request
          reply,        \* what the current attempt was answered; None
                        \* before the request has its entry in _inflight
          late,         \* requests given up that the server may yet see
          todo,         \* what a push still has to send
          policy,       \* the policy of the table in the configuration
          cache,        \* the local copy
          calls

serverVars == <<rows, exists>>
transportVars == <<inflight, attempt, reply, late>>
vars == <<rows, exists, call, given, told, result, inflight,
          attempt, reply, late, todo, policy, cache, calls>>

Service == INSTANCE TableService

Row == Service!Row
Requests == Service!Requests

(* Mutant: the parameters are not in the key of a GET.                     *)
KeyOfPath(r) ==
  IF r.method \in {"LIST", "PULL", "FIND"} THEN <<"LIST", None>>
  ELSE Service!Key(r)

Key(r) == Service!Key(r)

Policies == {"remote", "cache", "local"}

ASSUME ClientAssumption ==
  /\ Owner \in Threads
  /\ None \notin Ids \cup Bodies \cup {Gone, Refused}
  /\ Gone \notin Bodies
  /\ Refused \notin Row /\ None \notin Row \cup Requests
  /\ Waiting \notin Service!Answers \cup {None}
  /\ MaxRetries \in Nat /\ MaxCalls \in [Policies -> Nat]

Writes == {"POST", "PATCH", "DELETE"}
Pushes == [id: Ids, method: {"PATCH", "POST"}]
Patch(i) == [id |-> i, method |-> "PATCH"]
Post(i) == [id |-> i, method |-> "POST"]

---------------------------------------------------------------------------
(* The local copy.                                                         *)

(* INSERT OR REPLACE of a row that the server answered, or replace_all.    *)
Merged(a) == [i \in Ids |-> IF a[i] # None THEN a[i] ELSE cache[i]]

Empty(c) == \A i \in Ids : c[i] = None

(* Mutant: an insert stores the row that was sent, under a uuid of its own. *)
StoredAfterSent(r, a) ==
  IF policy = "cache" /\ r.method = "POST"
  THEN [cache EXCEPT ![CHOOSE i \in Ids : a[i] = None] = r.body]
  ELSE IF r.method = "PULL" THEN a ELSE cache

(* The copy after request r of a table handle, or of pull, was answered.   *)
StoredAfter(r, a) ==
  IF r.method = "PULL" THEN a
  ELSE IF policy # "cache" THEN cache
  ELSE CASE r.method \in {"LIST", "FIND"} -> IF Empty(a) THEN cache ELSE a
         [] r.method = "DELETE" -> [cache EXCEPT ![r.id] = None]
         [] OTHER -> Merged(a)

(* The copy answers and nothing is sent.                                   *)
LocalHit(r) ==
  /\ policy = "cache"
  /\ \/ r.method = "LIST" /\ ~Empty(cache)
     \/ r.method \in {"FIND", "GET"} /\ cache[r.id] # None

(* A table with the local policy never leaves the device.                  *)
LocalWrite(r) ==
  /\ policy = "local" /\ call[Owner] = None /\ todo[Owner] = {}
  /\ \/ /\ r.method = "POST"
        /\ \E i \in IF r.id = None THEN {j \in Ids : cache[j] = None}
                    ELSE {r.id} : cache' = [cache EXCEPT ![i] = r.body]
     \/ /\ r.method \in {"PATCH", "DELETE"} /\ cache[r.id] # None
        /\ cache' = [cache EXCEPT ![r.id] = r.body]
  /\ UNCHANGED <<serverVars, transportVars, call, given, told, result,
                 todo, policy, calls>>

---------------------------------------------------------------------------
(* The transport: one request of thread t.                                 *)

(* Whoever found no answer to repeat goes on ...                           *)
Begin(t, r) ==
  /\ call' = [call EXCEPT ![t] = r]
  /\ attempt' = [attempt EXCEPT ![t] = 0]
  /\ reply' = [reply EXCEPT ![t] = None]
  /\ UNCHANGED <<serverVars, given, told, result, inflight, late, policy,
                 cache>>

(* ... and overwrites the entry, which may be finished by now.             *)
Send(t) ==
  /\ call[t] # None /\ reply[t] = None
  /\ inflight' = [inflight EXCEPT ![Key(call[t])] = None]
  /\ reply' = [reply EXCEPT ![t] = Waiting]
  /\ UNCHANGED <<serverVars, call, given, told, result, attempt, late, todo,
                 policy, cache, calls>>

(* sqlite3 lets only the thread that opened the local store use it: any    *)
(* other one is answered, and fails when it stores the answer.             *)
Outcome(t, r, a) ==
  IF t # Owner /\ (policy = "cache" \/ r.method = "PULL") THEN Refused ELSE a

(* Request r of t ends with answer a: _inflight has what is answered again. *)
End(t, r, a) ==
  /\ call' = [call EXCEPT ![t] = None]
  /\ given' = [given EXCEPT ![t] = {}]
  /\ result' = [result EXCEPT ![t] = [method |-> r.method,
                                     answer |-> Outcome(t, r, a)]]
  /\ inflight' = [inflight EXCEPT ![Key(r)] = IF a = Refused THEN None ELSE a]
  /\ UNCHANGED <<serverVars, attempt, policy>>

(* What follows an answer: a push goes on with its next row, a table       *)
(* handle updates the copy.                                                *)
Succeed(t, r, a) ==
  /\ End(t, r, a)
  /\ told' = [told EXCEPT ![Key(r)] = a]
  /\ UNCHANGED late
  /\ \/ /\ todo[t] # {} /\ todo' = [todo EXCEPT ![t] = @ \ {Patch(r.id), Post(r.id)}]
        /\ UNCHANGED cache
     \/ /\ todo[t] = {} /\ t = Owner /\ cache' = StoredAfter(r, a)
        /\ UNCHANGED todo
     \/ todo[t] = {} /\ t # Owner /\ UNCHANGED <<cache, todo>>

(* What follows a failure: a push whose PATCH found no row sends a POST,   *)
(* any other exception ends the call.                                      *)
Fail(t, missing) ==
  /\ End(t, call[t], Refused)
  /\ reply' = [reply EXCEPT ![t] = Waiting]
  /\ todo' = [todo EXCEPT ![t] =
                IF missing /\ Patch(call[t].id) \in @
                THEN (@ \ {Patch(call[t].id)}) \cup {Post(call[t].id)} ELSE {}]
  /\ UNCHANGED <<told, cache, calls>>

Request(t, r) ==
  \/ /\ inflight[Key(r)] # None
     /\ Succeed(t, r, inflight[Key(r)])
     /\ UNCHANGED reply
  \/ /\ inflight[Key(r)] = None
     /\ Begin(t, r)
     /\ UNCHANGED todo

---------------------------------------------------------------------------
(* The server, and the network between.                                    *)

Serve(t) ==
  /\ call[t] # None /\ reply[t] = Waiting
  /\ \E a \in Service!Answers :
       /\ Service!Handle(call[t], a)
       /\ reply' = [reply EXCEPT ![t] = a]
       /\ given' = [given EXCEPT ![t] = @ \cup {a}]
  /\ UNCHANGED <<exists, call, told, result, inflight, attempt,
                 late, todo, policy, cache, calls>>

ServeLate ==
  /\ \E r \in late, a \in Service!Answers :
       Service!Handle(r, a) /\ late' = late \ {r}
  /\ UNCHANGED <<exists, call, given, told, result, inflight,
                 attempt, reply, todo, policy, cache, calls>>

Receive(t) ==
  /\ call[t] # None /\ reply[t] \notin {Waiting, None}
  /\ \/ /\ reply[t] # Refused
        /\ Succeed(t, call[t], reply[t])
        /\ reply' = [reply EXCEPT ![t] = Waiting]
        /\ UNCHANGED calls
     \/ reply[t] = Refused /\ Fail(t, TRUE) /\ UNCHANGED late

(* No answer to this attempt: the answer is lost, or the request was, or   *)
(* it is late (a late read changes nothing).                               *)
Unanswered(t) ==
  /\ call[t] # None /\ reply[t] # None
  /\ \/ UNCHANGED late
     \/ /\ reply[t] = Waiting /\ call[t].method \in Writes
        /\ late' = late \cup {call[t]}

(* Mutant: waiting for a rate limit does not use up an attempt.            *)
RetryUncounted(t) ==
  /\ Unanswered(t) /\ attempt[t] < MaxRetries
  /\ reply' = [reply EXCEPT ![t] = Waiting]
  /\ UNCHANGED <<serverVars, call, given, told, result, inflight, attempt,
                 todo, policy, cache, calls>>

(* Mutant: one attempt too many.                                           *)
RetryOnceMore(t) ==
  /\ Unanswered(t) /\ attempt[t] <= MaxRetries
  /\ attempt' = [attempt EXCEPT ![t] = @ + 1]
  /\ reply' = [reply EXCEPT ![t] = Waiting]
  /\ UNCHANGED <<serverVars, call, given, told, result, inflight, todo,
                 policy, cache, calls>>

Retry(t) ==
  /\ Unanswered(t) /\ attempt[t] < MaxRetries
  /\ attempt' = [attempt EXCEPT ![t] = @ + 1]
  /\ reply' = [reply EXCEPT ![t] = Waiting]
  /\ UNCHANGED <<serverVars, call, given, told, result, inflight,
                 todo, policy, cache, calls>>

GiveUp(t) == Unanswered(t) /\ attempt[t] = MaxRetries /\ Fail(t, FALSE)

CreateTable ==
  /\ ~exists /\ exists' = TRUE
  /\ UNCHANGED <<rows, call, given, told, result, transportVars,
                 todo, policy, cache, calls>>

DropTable ==
  /\ exists /\ exists' = FALSE
  /\ rows' = [i \in Ids |-> IF rows[i] \in Bodies THEN Gone ELSE rows[i]]
  /\ UNCHANGED <<call, given, told, result, transportVars, todo,
                 policy, cache, calls>>

---------------------------------------------------------------------------
(* The callers.                                                            *)

(* The calls that send something, at least when there is no local hit.  A   *)
(* thread that may not use the local store fails before it has sent a read  *)
(* of a cached table, and after it has sent anything else.                  *)
MayCall(t, r) ==
  \/ r.method = "PULL"
  \/ policy = "remote"
  \/ policy = "cache" /\ (t = Owner \/ r.method \in Writes)

Call(t, r) ==
  /\ call[t] = None /\ todo[t] = {} /\ calls < MaxCalls[policy]
  /\ MayCall(t, r) /\ ~LocalHit(r)
  /\ Request(t, r)
  /\ calls' = calls + 1

Push ==
  /\ call[Owner] = None /\ todo[Owner] = {} /\ calls < MaxCalls[policy]
  /\ policy # "local"
  /\ todo' = [todo EXCEPT ![Owner] = {Patch(i) : i \in {j \in Ids : cache[j] # None}}]
  /\ calls' = calls + 1
  /\ UNCHANGED <<serverVars, transportVars, call, given, told, result,
                 policy, cache>>

(* Row by row; the POST of a row follows its PATCH.                        *)
PushRow ==
  /\ call[Owner] = None
  /\ \E p \in todo[Owner] :
       /\ \A q \in todo[Owner] : q.method = "POST" => q = p
       /\ Request(Owner, [method |-> p.method, id |-> p.id, body |-> cache[p.id]])
  /\ UNCHANGED calls

Init ==
  /\ Service!Init
  /\ inflight = [k \in Service!Keys |-> None]
  /\ attempt = [t \in Threads |-> 0]
  /\ reply = [t \in Threads |-> Waiting]
  /\ late = {}
  /\ todo = [t \in Threads |-> {}]
  /\ policy \in Policies
  /\ cache = [i \in Ids |-> None]
  /\ calls = 0

Next ==
  \/ CreateTable
  \/ DropTable
  \/ ServeLate
  \/ Push
  \/ PushRow
  \/ \E r \in Requests : LocalWrite(r)
  \/ \E t \in Threads : Send(t) \/ Serve(t) \/ Receive(t) \/ Retry(t) \/ GiveUp(t)
  \/ \E t \in Threads, r \in Requests : Call(t, r)

(* httpx ends every attempt after its timeout at the latest, and the code  *)
(* that called it goes on.  Nothing is assumed of the server.              *)
Fairness ==
  /\ \A t \in Threads : WF_vars(Send(t) \/ Receive(t) \/ Retry(t) \/ GiveUp(t))
  /\ WF_vars(PushRow)

Spec == Init /\ [][Next]_vars /\ Fairness

---------------------------------------------------------------------------
TypeOK ==
  /\ rows \in [Ids -> Bodies \cup {None, Gone}]
  /\ exists \in BOOLEAN
  /\ call \in [Threads -> Requests \cup {None}]
  /\ given \in [Threads -> SUBSET Service!Answers]
  /\ told \in [Service!Keys -> Row \cup {None}]
  /\ result \in [Threads -> [method: Service!Methods, answer: Service!Answers]
                          \cup {None}]
  /\ inflight \in [Service!Keys -> Row \cup {None}]
  /\ attempt \in [Threads -> 0..MaxRetries]
  /\ reply \in [Threads -> Service!Answers \cup {Waiting, None}]
  /\ late \subseteq Requests
  /\ todo \in [Threads -> SUBSET Pushes]
  /\ policy \in Policies
  /\ cache \in Row
  /\ calls \in 0..MaxCalls[policy]

(* A cached table shows no row that the server never had, whatever was     *)
(* lost, sent twice or answered from _inflight.                            *)
CacheHoldsServerRows ==
  policy = "cache" => \A i \in Ids : cache[i] # None => rows[i] # None

(* The promise of TableService.                                            *)
ServiceSpec == Service!Spec

(* What a call returned shows no row that the server never had, also when  *)
(* it is given the answer of an earlier call.                              *)
ResultsAreServerRows ==
  \A t \in Threads :
    result[t] # None /\ result[t].answer # Refused =>
      \A i \in Ids : result[t].answer[i] # None => rows[i] # None

(* A call, and a push of many rows, ends whatever the server and the       *)
(* network do.                                                             *)
CallsEnd ==
  \A t \in Threads :
    call[t] # None \/ todo[t] # {} ~> call[t] = None /\ todo[t] = {}

(* Identical calls share an answer while they are in flight                *)
(* (http.py:85): a write that succeeds was carried out by the server.      *)
SuccessWasServed ==
  [][\A t \in Threads :
       /\ result'[t] # result[t]
       /\ result'[t].method \in Writes /\ result'[t].answer # Refused
       => result'[t].answer \in given[t]]_vars

=============================================================================
