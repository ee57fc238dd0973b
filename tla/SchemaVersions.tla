--------------------------- MODULE SchemaVersions ---------------------------
(***************************************************************************)
(* What the migrations promise to those who work on a database: a file is  *)
(* at a version, which is all there is to know of its schema; the version  *)
(* goes up by one at a time, and a file is only ever worked on at the      *)
(* latest one.  Copies are taken and restored at whatever version they     *)
(* are.  Who migrates a file, how often, and what fails, does not show.    *)
(* There are three exceptions, all by an administrator's hand: a backup    *)
(* that is put back into a file that is worked on takes its version back;  *)
(* a file that is removed may be made anew by whoever still works with it, *)
(* and is not migrated then; and where a backup is put back under a run of *)
(* migrations that is on its way, nothing more is promised.                *)
(*                                                                         *)
(* backend/core/migrations.py, backend/api/project_deps.py, backend/app.py *)
(***************************************************************************)
EXTENDS Naturals

CONSTANTS Dbs,      \* the database files
          Last,     \* the latest version
          Users,    \* who may work on a file
          Absent    \* no file, no copy

VARIABLES
  version,  \* version[f]: the version of file f, or Absent
  copy,     \* copy[f]: the version of its copy in the bucket, or Absent
  backup,   \* backup[f]: the version of a backup of f, or Absent
  users,    \* users[f]: who works on f
  removed,  \* files that were removed from under those who work with them
  orderly   \* no backup has been put back under a run of migrations

svars == <<version, copy, backup, users, removed, orderly>>

Init ==
  /\ version \in [Dbs -> (0 .. Last) \cup {Absent}]
  /\ copy = [f \in Dbs |-> Absent]
  /\ backup \in [Dbs -> (0 .. Last) \cup {Absent}]
  /\ users = [f \in Dbs |-> {}]
  /\ removed = {}
  /\ orderly = TRUE

Create(f) ==
  /\ version[f] = Absent
  /\ version' = [version EXCEPT ![f] = 0]
  /\ UNCHANGED <<copy, backup, users, removed, orderly>>

Migrate(f) ==
  /\ version[f] \in 0 .. Last - 1
  /\ version' = [version EXCEPT ![f] = @ + 1]
  /\ UNCHANGED <<copy, backup, users, removed, orderly>>

Attach(u, f) ==
  /\ version[f] = Last
  /\ users' = [users EXCEPT ![f] = @ \cup {u}]
  /\ UNCHANGED <<version, copy, backup, removed, orderly>>

(* Some, or all with their memory of what was removed, stop their work.    *)
Detach ==
  /\ \A f \in Dbs : users'[f] \subseteq users[f]
  /\ removed' \subseteq removed
  /\ users' \in [Dbs -> SUBSET Users]
  /\ UNCHANGED <<version, copy, backup, orderly>>

Save(f) ==
  /\ version[f] # Absent
  /\ copy' = [copy EXCEPT ![f] = version[f]]
  /\ UNCHANGED <<version, backup, users, removed, orderly>>

(* Missing files are brought back, before anybody works on one.            *)
Restore(fs) ==
  /\ \A f \in fs : version[f] = Absent /\ copy[f] # Absent
  /\ \A f \in Dbs : users[f] = {}
  /\ version' = [f \in Dbs |-> IF f \in fs THEN copy[f] ELSE version[f]]
  /\ UNCHANGED <<copy, backup, users, removed, orderly>>

Wipe ==
  /\ \A f \in Dbs : users[f] = {}
  /\ version' = [f \in Dbs |-> Absent]
  /\ backup' = [f \in Dbs |-> Absent]
  /\ UNCHANGED <<copy, users, removed, orderly>>

-----------------------------------------------------------------------------
(* By hand.                                                                *)

Backup(f) ==
  /\ version[f] # Absent
  /\ backup' = [backup EXCEPT ![f] = version[f]]
  /\ UNCHANGED <<version, copy, users, removed, orderly>>

PutBack(f) ==
  /\ backup[f] # Absent
  /\ version' = [version EXCEPT ![f] = backup[f]]
  /\ orderly' \in {orderly, FALSE}
  /\ UNCHANGED <<copy, backup, users, removed>>

Remove(f) ==
  /\ version' = [version EXCEPT ![f] = Absent]
  /\ users' = [users EXCEPT ![f] = {}]
  /\ removed' = removed \cup {f}
  /\ UNCHANGED <<copy, backup, orderly>>

(* Somebody goes on with a file that was removed.                          *)
AttachAnew(u, f) ==
  /\ f \in removed
  /\ version' = [version EXCEPT ![f] = IF @ = Absent THEN 0 ELSE @]
  /\ users' = [users EXCEPT ![f] = @ \cup {u}]
  /\ UNCHANGED <<copy, backup, removed, orderly>>

Next ==
  \/ \E f \in Dbs : \/ Create(f) \/ Migrate(f) \/ Save(f)
                     \/ Backup(f) \/ PutBack(f) \/ Remove(f)
  \/ \E u \in Users, f \in Dbs : Attach(u, f) \/ AttachAnew(u, f)
  \/ \E fs \in SUBSET Dbs : Restore(fs)
  \/ Detach
  \/ Wipe
  \/ orderly = FALSE /\ orderly' = FALSE

Spec == Init /\ [][Next]_svars

=============================================================================
