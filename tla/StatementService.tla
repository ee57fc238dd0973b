-------------------------- MODULE StatementService --------------------------
(***************************************************************************)
(* What a handler may rely on when it writes through Database.execute or   *)
(* in a `with db.transaction()' block, backend/core/db.py: a write stands  *)
(* alone or belongs to one block of one request; it is in its file when    *)
(* and only when its caller is told so; the writes of a block appear in    *)
(* the file together or not at all; and while a block has written to a     *)
(* file nobody else's write comes in between.  Only a batch that has       *)
(* transaction statements of its own divides its writes, and no others.    *)
(* There are no connections here, no pool and no transactions.             *)
(***************************************************************************)
CONSTANTS Requests,
          Slots,     \* a block is open in a slot of its own
          Paths,     \* database files
          Writes,    \* write statements
          Dest,      \* Dest[w]: the file statement w is addressed to
          Scripted,  \* statements of batches with transaction statements
          None

VARIABLES
  owner,    \* owner[s]: the request whose block has written in slot s
  batch,    \* batch[s]: the statements of that block so far
  block,    \* block[s]: those of them that are neither in the file nor undone
  file,     \* file[p]: the statements whose effect is in file p
  answer    \* answer[w]: what the caller of statement w has been told

svars == <<owner, batch, block, file, answer>>

Init ==
  /\ owner = [s \in Slots |-> None]
  /\ batch = [s \in Slots |-> {}]
  /\ block = [s \in Slots |-> {}]
  /\ file = [p \in Paths |-> {}]
  /\ answer = [w \in Writes |-> "unsent"]

-----------------------------------------------------------------------------
(* No block but the one in slot s has written to file p.                   *)
Free(s, p) == \A t \in Slots \ {s} : \A w \in block[t] : Dest[w] # p

Appear(ws) == file' = [p \in Paths |-> file[p] \cup {w \in ws : Dest[w] = p}]

Tell(ws, a) == answer' = [w \in Writes |-> IF w \in ws THEN a ELSE answer[w]]

Vacate(s) ==
  /\ owner' = [owner EXCEPT ![s] = None]
  /\ batch' = [batch EXCEPT ![s] = {}]
  /\ block' = [block EXCEPT ![s] = {}]

(* A single statement is carried out.                                      *)
Execute(s, w) ==
  /\ answer[w] = "unsent" /\ w \notin Scripted
  /\ batch[s] = {} /\ Free(s, Dest[w])
  /\ Appear({w})
  /\ Tell({w}, "ok")
  /\ UNCHANGED <<owner, batch, block>>

(* A single statement is refused: by a constraint or for want of the lock. *)
Refuse(w) ==
  /\ answer[w] = "unsent" /\ w \notin Scripted
  /\ \E a \in {"failed", "locked"} : Tell({w}, a)
  /\ UNCHANGED <<owner, batch, block, file>>

(* A statement of a block of request r, which waits for the block's end.   *)
Enter(r, s, w) ==
  /\ answer[w] = "unsent"
  /\ owner[s] \in {None, r}
  /\ Free(s, Dest[w])
  /\ \A v \in batch[s] : Dest[v] = Dest[w] /\ (v \in Scripted <=> w \in Scripted)
  /\ owner' = [owner EXCEPT ![s] = r]
  /\ batch' = [batch EXCEPT ![s] = @ \cup {w}]
  /\ Tell({w}, "inbody")

Join(r, s, w) ==
  /\ Enter(r, s, w)
  /\ block' = [block EXCEPT ![s] = @ \cup {w}]
  /\ UNCHANGED file

(* A batch that has ended its transaction changes the schema.              *)
JoinAlone(r, s, w) ==
  /\ Enter(r, s, w)
  /\ w \in Scripted /\ block[s] = {}
  /\ Appear({w})
  /\ UNCHANGED block

(* A batch commits what it has written so far, or undoes some of it.       *)
Divide(s) ==
  /\ batch[s] \subseteq Scripted
  /\ \/ /\ Appear(block[s])
        /\ block' = [block EXCEPT ![s] = {}]
     \/ /\ \E ws \in SUBSET block[s] : block' = [block EXCEPT ![s] = ws]
        /\ UNCHANGED file
  /\ UNCHANGED <<owner, batch, answer>>

Publish(s) ==
  /\ Appear(block[s])
  /\ Tell(batch[s], "ok")
  /\ Vacate(s)

(* The block is given up, perhaps for statement w that cannot be run.      *)
Withdraw(s) == Tell(batch[s], "failed") /\ Vacate(s) /\ UNCHANGED file

WithdrawAt(s, w) ==
  /\ answer[w] = "unsent"
  /\ answer' = [v \in Writes |-> CASE v = w -> "locked"
                                   [] v \in batch[s] -> "failed"
                                   [] OTHER -> answer[v]]
  /\ Vacate(s)
  /\ UNCHANGED file

Next ==
  \/ \E s \in Slots, w \in Writes : Execute(s, w) \/ WithdrawAt(s, w)
  \/ \E w \in Writes : Refuse(w)
  \/ \E r \in Requests, s \in Slots, w \in Writes : Join(r, s, w) \/ JoinAlone(r, s, w)
  \/ \E s \in Slots : Divide(s) \/ Publish(s) \/ Withdraw(s)

Spec == Init /\ [][Next]_svars

=============================================================================
