------------------------------- MODULE StartUp -------------------------------
(***************************************************************************)
(* From the restore to the first request: download_all, the migrations of  *)
(* the meta database, the adoption of legacy tables into a project's file, *)
(* and the migrations of that file when it is opened;                      *)
(* backend/app.py, backend/core/{migrations,legacy_adoption,s3_sync}.py,   *)
(* cli/commands/db.py, open_data_db_for_project of api/project_deps.py.    *)
(*                                                                         *)
(* The lifespan migrates before it serves; `pyrocore db push' is another   *)
(* process on the same file; threads of scoped requests migrate a project  *)
(* file the first time the process opens it.  A migration is one SQLite    *)
(* transaction.  Its statements tolerate a schema that has them already,   *)
(* the INSERT of its id does not.                                          *)
(*                                                                         *)
(* An administrator may put a backup of the meta database back, into the   *)
(* live file (POST /api/backup/restore) or, while nothing runs, with the   *)
(* CLI, and delete the project for good (core/projects.py).                *)
(*                                                                         *)
(* One slug of LEGACY_ADOPTION_MAP and the one project, with one id and    *)
(* file, that is made under it: a project made anew has another file.  A   *)
(* table is as the legacy plane has it or as the project has changed it.   *)
(* Upload jobs that overlap and torn copies are left to BackupSync, the    *)
(* file that a migration comes in to the parser.  The CLI's swap of a file *)
(* that a process has open is not modelled.                                *)
(***************************************************************************)
EXTENDS Naturals

CONSTANTS Meta, Proj,   \* the meta database and the file of the project
          Last,         \* the migrations are numbered 1 to Last
          Tables,       \* the tables that the adoption map names
          Requests,     \* threads of scoped requests
          Server, Cli,  \* the lifespan and `pyrocore db push'
          Absent, None

Dbs == {Meta, Proj}

Migs == 1 .. Last

Actors == Requests \cup {Server, Cli}

ASSUME StartAssumption ==
  /\ Last \in Nat
  /\ Meta # Proj /\ None \notin Dbs
  /\ Server \notin Requests /\ Cli \notin Requests /\ Server # Cli
  /\ None \notin Actors

(* A database file: the ids in its migrations table, the migrations whose  *)
(* schema it has, its user tables; in the meta database, whether the       *)
(* marker of the adoption and the row of the project are there.            *)
Database == [applied : SUBSET Migs, schema : SUBSET Migs,
             tables : [Tables -> {"none", "legacy", "scoped"}],
             marker : BOOLEAN, project : BOOLEAN]

ASSUME AbsentAssumption ==
  /\ Absent \notin Database
  /\ Absent # None /\ {Absent, None} \cap (0 .. Last) = {}

VARIABLES
  phase,   \* "down", "starting", "migrating", "adopting", "copying",
           \* "marking", "serving"
  disk,    \* disk[f]: Absent or the committed content
  lock,    \* lock[f]: who has a transaction open on f
  job,     \* job[a]: the run of run_pending_migrations that a is in
  cached,  \* the project file is in _MIGRATED_PATHS
  open,    \* open[r]: request r has the project file open
  bucket,  \* bucket[f]: the object of f
  push,    \* upload_all: "idle" or "projects", the meta object being done
  whole,   \* history: the last upload_all went through, both objects agree
  torn,    \* history: a start has gone on without that, a backup has been put
           \* back or the project deleted
  dropped, \* history: tables the project dropped after their adoption
  backup,  \* a file of the backups directory, or Absent
  life,    \* the project: "unborn", "made", its row deleted: "rowless", its
           \* file too: "unlinked", and that process has ended: "past"
  mishaps  \* history: "replaced": a backup has been put back under the
           \* server; "crossed": under a run of `db push'; "misread": an
           \* adoption has gone on though its marker was there

hvars == <<backup, life, mishaps>>

vars == <<phase, disk, lock, job, cached, open, bucket, push, whole, torn, dropped, hvars>>

Idle == [db |-> None, pending |-> {}, step |-> "idle"]

Jobs == {Idle} \cup [db : Dbs, pending : SUBSET Migs, step : {"listed", "begun"}]

(* The shape of the state; a write lock is held by the job that has begun  *)
(* a migration of that file.                                               *)
TypeOK ==
  /\ phase \in {"down", "starting", "migrating", "adopting", "copying", "marking", "serving"}
  /\ disk \in [Dbs -> Database \cup {Absent}]
  /\ lock \in [Dbs -> Actors \cup {None}]
  /\ job \in [Actors -> Jobs]
  /\ cached \in BOOLEAN
  /\ open \in [Requests -> BOOLEAN]
  /\ bucket \in [Dbs -> Database \cup {Absent}]
  /\ push \in {"idle", "projects"}
  /\ whole \in BOOLEAN /\ torn \in BOOLEAN
  /\ dropped \in SUBSET Tables
  /\ backup \in Database \cup {Absent}
  /\ life \in {"unborn", "made", "rowless", "unlinked", "past"}
  /\ mishaps \in SUBSET {"replaced", "crossed", "misread"}
  /\ \A f \in Dbs, a \in Actors :
       lock[f] = a <=> job[a].step = "begun" /\ job[a].db = f

Fresh == [applied |-> {}, schema |-> {}, tables |-> [t \in Tables |-> "none"],
          marker |-> FALSE, project |-> FALSE]

(* A new disk, or one left by an older release, whose schema somebody may  *)
(* have patched by hand.                                                   *)
Init ==
  /\ phase = "down"
  /\ \/ disk = [f \in Dbs |-> Absent]
     \/ \E k \in Migs, patched \in SUBSET Migs,
           tabs \in [Tables -> {"none", "legacy"}], p \in BOOLEAN :
          disk = [f \in Dbs |->
                    IF f = Meta
                    THEN [applied |-> 1 .. k, schema |-> (1 .. k) \cup patched,
                          tables |-> tabs, marker |-> FALSE, project |-> p]
                    ELSE Absent]
  /\ lock = [f \in Dbs |-> None]
  /\ job = [a \in Actors |-> Idle]
  /\ cached = FALSE
  /\ open = [r \in Requests |-> FALSE]
  /\ bucket = [f \in Dbs |-> Absent]
  /\ push = "idle"
  /\ whole = FALSE
  /\ torn = FALSE
  /\ dropped = {}
  /\ backup \in {Absent, disk[Meta]}
  /\ life = IF disk[Meta] # Absent /\ disk[Meta].project THEN "made" ELSE "unborn"
  /\ mishaps = {}

-----------------------------------------------------------------------------
(* run_pending_migrations by actor a.                                      *)

(* connect() creates the file.                                             *)
Connected(f) == IF disk[f] = Absent THEN Fresh ELSE disk[f]

(* get_applied_migrations takes an error for a database without any.       *)
List(a, f) ==
  /\ job[a] = Idle
  /\ disk' = [disk EXCEPT ![f] = Connected(f)]
  /\ \E applied \in {Connected(f).applied, {}} :
       job' = [job EXCEPT ![a] = [db |-> f, pending |-> Migs \ applied, step |-> "listed"]]

(* Mutant: the files in no particular order.                               *)
LatestOf(pending) == CHOOSE m \in pending : \A n \in pending : n <= m

(* The files are sorted by their number.                                   *)
FirstOf(pending) == CHOOSE m \in pending : \A n \in pending : m <= n

(* What the migration leaves in the database, in one commit.               *)
Migrated(d, m) == [d EXCEPT !.schema = @ \cup {m}, !.applied = @ \cup {m}]

(* Mutant: the id is recorded, and committed, before the statements.       *)
BeginRecords(a) ==
  LET f == job[a].db
      m == FirstOf(job[a].pending)
  IN
  /\ job[a].step = "listed" /\ job[a].pending # {}
  /\ lock[f] = None
  /\ m \notin disk[f].applied
  /\ lock' = [lock EXCEPT ![f] = a]
  /\ job' = [job EXCEPT ![a].step = "begun"]
  /\ disk' = [disk EXCEPT ![f].applied = @ \cup {m}]
  /\ UNCHANGED <<phase, cached, open, bucket, push, whole, torn, dropped, hvars>>

(* apply_migration: the first statement takes the write lock.              *)
Begin(a) ==
  LET f == job[a].db IN
  /\ job[a].step = "listed" /\ job[a].pending # {}
  /\ lock[f] = None
  /\ FirstOf(job[a].pending) \notin disk[f].applied
  /\ lock' = [lock EXCEPT ![f] = a]
  /\ job' = [job EXCEPT ![a].step = "begun"]
  /\ UNCHANGED <<phase, disk, cached, open, bucket, push, whole, torn, dropped, hvars>>

Commit(a) ==
  LET f == job[a].db
      m == FirstOf(job[a].pending)
  IN
  /\ job[a].step = "begun"
  /\ disk' = [disk EXCEPT ![f] = Migrated(@, m)]
  /\ lock' = [lock EXCEPT ![f] = None]
  /\ job' = [job EXCEPT ![a].step = "listed", ![a].pending = @ \ {m}]
  /\ UNCHANGED <<phase, cached, open, bucket, push, whole, torn, dropped, hvars>>

(* Mutant: the server starts whether the migrations succeed or not.        *)
EndedAnyway(a, f, ok) ==
  /\ phase' = IF a # Server THEN phase
              ELSE IF f = Meta THEN "adopting"
              ELSE IF ok THEN "copying" ELSE "serving"
  /\ open' = IF a \in Requests THEN [open EXCEPT ![a] = ok] ELSE open
  /\ cached' = (cached \/ (a \in Requests /\ ok))

(* Mutant: a failed adoption is not caught.                                *)
EndedStuck(a, f, ok) ==
  /\ phase' = IF a # Server THEN phase
              ELSE IF f = Meta THEN IF ok THEN "adopting" ELSE "down"
              ELSE IF ok THEN "copying" ELSE "migrating"
  /\ open' = IF a \in Requests THEN [open EXCEPT ![a] = ok] ELSE open
  /\ cached' = (cached \/ (a \in Requests /\ ok))

(* What follows: a failed migration of the meta database ends the start,   *)
(* one of the project file ends the adoption or the request.               *)
Ended(a, f, ok) ==
  /\ phase' = IF a # Server THEN phase
              ELSE IF f = Meta THEN IF ok THEN "adopting" ELSE "down"
              ELSE IF ok THEN "copying" ELSE "serving"
  /\ open' = IF a \in Requests THEN [open EXCEPT ![a] = ok] ELSE open
  /\ cached' = (cached \/ (a \in Requests /\ ok))

(* Mutant: the transaction stays open after an error.                      *)
FailUnrolled(a) ==
  LET f == job[a].db IN
  /\ job[a].step = "begun" \/ (job[a].step = "listed" /\ job[a].pending # {})
  /\ job' = [job EXCEPT ![a] = Idle]
  /\ Ended(a, f, FALSE)
  /\ UNCHANGED <<disk, lock, bucket, push, whole, torn, dropped, hvars>>

(* Any error rolls the migration back and gives the rest up: a statement,  *)
(* an id that another actor has recorded meanwhile, "database is locked".  *)
Fail(a) ==
  LET f == job[a].db IN
  /\ job[a].step = "begun" \/ (job[a].step = "listed" /\ job[a].pending # {})
  /\ lock' = IF lock[f] = a THEN [lock EXCEPT ![f] = None] ELSE lock
  /\ job' = [job EXCEPT ![a] = Idle]
  /\ Ended(a, f, FALSE)
  /\ UNCHANGED <<disk, bucket, push, whole, torn, dropped, hvars>>

Done(a) ==
  /\ job[a].step = "listed" /\ job[a].pending = {}
  /\ job' = [job EXCEPT ![a] = Idle]
  /\ Ended(a, job[a].db, TRUE)
  /\ UNCHANGED <<disk, lock, bucket, push, whole, torn, dropped, hvars>>

Push ==
  /\ List(Cli, Meta)
  /\ UNCHANGED <<phase, lock, cached, open, bucket, push, whole, torn, dropped, hvars>>

-----------------------------------------------------------------------------
(* lifespan and run_legacy_adoption.                                       *)

Objects == {f \in Dbs : bucket[f] # Absent}

(* download_all fetches what is missing.  `fetched': the downloads that    *)
(* worked.                                                                 *)
Start(fetched) ==
  LET remote == {f \in Objects : disk[f] = Absent} IN
  /\ phase = "down"
  /\ fetched \subseteq remote
  /\ phase' = "starting"
  /\ disk' = [f \in Dbs |-> IF f \in fetched THEN bucket[f] ELSE disk[f]]
  /\ torn' = (torn \/ (remote # {} /\ ~(whole /\ fetched = Objects)))
  /\ dropped' = IF fetched = {} THEN dropped
                ELSE {t \in dropped : disk'[Meta] # Absent /\ disk'[Meta].marker
                                      /\ disk'[Proj] # Absent /\ disk'[Proj].tables[t] = "none"}
  /\ UNCHANGED <<lock, job, cached, open, bucket, push, whole, hvars>>

Migrate ==
  /\ phase = "starting"
  /\ List(Server, Meta)
  /\ phase' = "migrating"
  /\ UNCHANGED <<lock, cached, open, bucket, push, whole, torn, dropped, hvars>>

(* Mutant: the marker is not looked at.                                    *)
AdoptsAgain(d, unread) == d.project

(* The marker is not there, or cannot be read ("no migrations table yet"), *)
(* and the slug is that of an active project.                              *)
Adopts(d, unread) == (~d.marker \/ unread) /\ d.project

NothingToAdopt ==
  /\ phase = "adopting" /\ job[Server] = Idle
  /\ \E unread \in BOOLEAN : ~Adopts(disk[Meta], unread)
  /\ phase' = "serving"
  /\ UNCHANGED <<disk, lock, job, cached, open, bucket, push, whole, torn, dropped, hvars>>

(* open_project_db creates and migrates the file.                          *)
Adopt ==
  /\ phase = "adopting"
  /\ \E unread \in BOOLEAN :
       /\ Adopts(disk[Meta], unread)
       /\ mishaps' = IF unread /\ disk[Meta].marker THEN mishaps \cup {"misread"} ELSE mishaps
  /\ List(Server, Proj)
  /\ UNCHANGED <<phase, lock, cached, open, bucket, push, whole, torn, dropped, backup, life>>

(* Mutant: the copy replaces what the project has.                         *)
CopiedOver(source, target) ==
  [t \in Tables |-> IF source[t] # "none" THEN source[t] ELSE target[t]]

(* A table that the project has already is kept.                           *)
Copied(source, target) ==
  [t \in Tables |-> IF target[t] = "none" THEN source[t] ELSE target[t]]

(* One transaction on the project file for all tables.                     *)
Copy ==
  /\ phase = "copying"
  /\ lock[Proj] = None
  /\ disk' = [disk EXCEPT ![Proj].tables = Copied(disk[Meta].tables, @)]
  /\ phase' = "marking"
  /\ UNCHANGED <<lock, job, cached, open, bucket, push, whole, torn, dropped, hvars>>

(* A transaction of its own on the meta database.                          *)
Mark ==
  /\ phase = "marking"
  /\ lock[Meta] = None
  /\ disk' = [disk EXCEPT ![Meta].marker = TRUE]
  /\ phase' = "serving"
  /\ UNCHANGED <<lock, job, cached, open, bucket, push, whole, torn, dropped, hvars>>

(* Mutant: the marker is written whatever comes of the copy.               *)
AdoptionFailsMarked ==
  /\ phase \in {"copying", "marking"}
  /\ phase' = "serving"
  /\ disk' = [disk EXCEPT ![Meta].marker = TRUE]
  /\ UNCHANGED <<lock, job, cached, open, bucket, push, whole, torn, dropped, hvars>>

(* "Never blocks startup": every failure is logged.                        *)
AdoptionFails ==
  /\ phase \in {"copying", "marking"}
  /\ phase' = "serving"
  /\ UNCHANGED <<disk, lock, job, cached, open, bucket, push, whole, torn, dropped, hvars>>

(* The end of the process: SQLite rolls its transactions back.             *)
Crash ==
  /\ phase # "down"
  /\ phase' = "down"
  /\ lock' = [f \in Dbs |-> IF lock[f] = Cli THEN Cli ELSE None]
  /\ job' = [a \in Actors |-> IF a = Cli THEN job[a] ELSE Idle]
  /\ cached' = FALSE
  /\ open' = [r \in Requests |-> FALSE]
  /\ push' = "idle"
  /\ life' = IF life \in {"rowless", "unlinked"} THEN "past" ELSE life
  /\ mishaps' = mishaps \ {"replaced"}
  /\ UNCHANGED <<disk, bucket, whole, torn, dropped, backup>>

(* An ephemeral disk is gone with its container, and all that ran in it.   *)
Wipe ==
  /\ phase = "down" /\ job[Cli] = Idle
  /\ disk' = [f \in Dbs |-> Absent]
  /\ backup' = Absent
  /\ UNCHANGED <<phase, lock, job, cached, open, bucket, push, whole, torn, dropped, life, mishaps>>

-----------------------------------------------------------------------------
(* Requests and uploads while the server runs.                             *)

(* Sign-up, or a project created under the slug of the map.                *)
CreateProject ==
  /\ phase = "serving" /\ lock[Meta] = None
  /\ life = "unborn"
  /\ disk' = [disk EXCEPT ![Meta].project = TRUE]
  /\ life' = "made"
  /\ UNCHANGED <<phase, lock, job, cached, open, bucket, push, whole, torn, dropped, backup, mishaps>>

(* The project is there, or was when the request looked it up.             *)
Resolved == disk[Meta].project \/ life \in {"rowless", "unlinked"}

(* Mutant: the path is remembered before its migrations have run.          *)
OpenEarly(r) ==
  /\ phase = "serving" /\ Resolved
  /\ ~open[r] /\ job[r] = Idle
  /\ cached' = TRUE
  /\ IF cached
     THEN /\ open' = [open EXCEPT ![r] = TRUE]
          /\ disk' = [disk EXCEPT ![Proj] = Connected(Proj)]
          /\ UNCHANGED job
     ELSE /\ List(r, Proj)
          /\ UNCHANGED open
  /\ UNCHANGED <<phase, lock, bucket, push, whole, torn, dropped, hvars>>

(* open_data_db_for_project: a path is migrated once in a process, also    *)
(* when the file there is a new one, made after the first was unlinked.    *)
Open(r) ==
  /\ phase = "serving" /\ Resolved
  /\ ~open[r] /\ job[r] = Idle
  /\ IF cached
     THEN /\ open' = [open EXCEPT ![r] = TRUE]
          /\ disk' = [disk EXCEPT ![Proj] = Connected(Proj)]
          /\ UNCHANGED job
     ELSE /\ List(r, Proj)
          /\ UNCHANGED open
  /\ UNCHANGED <<phase, lock, cached, bucket, push, whole, torn, dropped, hvars>>

Close(r) ==
  /\ open[r]
  /\ open' = [open EXCEPT ![r] = FALSE]
  /\ UNCHANGED <<phase, disk, lock, job, cached, bucket, push, whole, torn, dropped, hvars>>

(* The project creates, changes or drops one of its tables.                *)
Change(r, t, v) ==
  /\ open[r] /\ lock[Proj] = None
  /\ disk' = [disk EXCEPT ![Proj].tables[t] = v]
  /\ dropped' = IF v = "none" /\ disk[Meta].marker /\ disk[Proj].tables[t] # "none"
                THEN dropped \cup {t} ELSE dropped
  /\ UNCHANGED <<phase, lock, job, cached, open, bucket, push, whole, torn, hvars>>

(* The legacy plane drops its table.                                       *)
DropLegacy(t) ==
  /\ phase = "serving" /\ lock[Meta] = None
  /\ disk' = [disk EXCEPT ![Meta].tables[t] = "none"]
  /\ UNCHANGED <<phase, lock, job, cached, open, bucket, push, whole, torn, dropped, hvars>>

(* hard_delete_project commits the deletion of the row, then unlinks the   *)
(* file and leaves _MIGRATED_PATHS as it is.                               *)
DeleteRow ==
  /\ phase = "serving" /\ lock[Meta] = None
  /\ life = "made" /\ disk[Meta].project
  /\ disk' = [disk EXCEPT ![Meta].project = FALSE]
  /\ life' = "rowless"
  /\ torn' = TRUE
  /\ UNCHANGED <<phase, lock, job, cached, open, bucket, push, whole, dropped, backup, mishaps>>

(* Requests that have the file open, or migrate it, and those that share   *)
(* their pool go on with a file that has no name and is not followed.      *)
Unlink ==
  /\ life = "rowless"
  /\ disk' = [disk EXCEPT ![Proj] = Absent]
  /\ life' = "unlinked"
  /\ lock' = [lock EXCEPT ![Proj] = None]
  /\ job' = [a \in Actors |-> IF job[a].db = Proj THEN Idle ELSE job[a]]
  /\ open' = [r \in Requests |-> FALSE]
  /\ UNCHANGED <<phase, cached, bucket, push, whole, torn, dropped, backup, mishaps>>

(* One that has migrated the file without a name remembers the path.       *)
Remember ==
  /\ life = "unlinked"
  /\ cached' = TRUE
  /\ UNCHANGED <<phase, disk, lock, job, open, bucket, push, whole, torn, dropped, hvars>>

(* backup_now: the schedule, the endpoint, a SQL editor, the CLI.          *)
Backup ==
  /\ disk[Meta] # Absent
  /\ backup' = disk[Meta]
  /\ UNCHANGED <<phase, disk, lock, job, cached, open, bucket, push, whole, torn, dropped, life, mishaps>>

(* restore_into_live replaces the content of the file that is served, and  *)
(* migrates nothing; restore_from_backup replaces the file.                *)
PutBack ==
  /\ backup # Absent
  /\ \/ phase = "serving" /\ lock[Meta] = None
     \/ phase = "down" /\ job[Cli] = Idle
  /\ disk' = [disk EXCEPT ![Meta] = backup]
  /\ torn' = TRUE
  /\ mishaps' = mishaps \cup (IF phase = "serving" THEN {"replaced"} ELSE {})
                        \cup (IF job[Cli] = Idle THEN {} ELSE {"crossed"})
  /\ UNCHANGED <<phase, lock, job, cached, open, bucket, push, whole, dropped, backup, life>>

(* upload_all: the meta database, then the project file.                   *)
PushMeta ==
  /\ phase = "serving" /\ push = "idle"
  /\ bucket' = [bucket EXCEPT ![Meta] = disk[Meta]]
  /\ push' = "projects"
  /\ whole' = FALSE
  /\ UNCHANGED <<phase, disk, lock, job, cached, open, torn, dropped, hvars>>

PushProject ==
  /\ push = "projects"
  /\ bucket' = [bucket EXCEPT ![Proj] = IF disk[Proj] = Absent THEN @ ELSE disk[Proj]]
  /\ push' = "idle"
  /\ whole' = TRUE
  /\ UNCHANGED <<phase, disk, lock, job, cached, open, torn, dropped, hvars>>

(* The error of either push is noted; the other object is replaced.        *)
PushFails ==
  \/ /\ push = "projects"
     /\ push' = "idle"
     /\ UNCHANGED <<phase, disk, lock, job, cached, open, bucket, whole, torn, dropped, hvars>>
  \/ /\ phase = "serving" /\ push = "idle"
     /\ disk[Proj] # Absent
     /\ bucket' = [bucket EXCEPT ![Proj] = disk[Proj]]
     /\ whole' = FALSE
     /\ UNCHANGED <<phase, disk, lock, job, cached, open, push, torn, dropped, hvars>>

-----------------------------------------------------------------------------
Run(a) == Begin(a) \/ Commit(a) \/ Fail(a) \/ Done(a)

Lifespan == \/ Migrate \/ NothingToAdopt \/ Adopt \/ Copy \/ Mark
            \/ AdoptionFails \/ Run(Server)

Use == \/ CreateProject
       \/ \E r \in Requests : Open(r) \/ Close(r)
       \/ \E r \in Requests, t \in Tables, v \in {"none", "scoped"} : Change(r, t, v)
       \/ \E t \in Tables : DropLegacy(t)
       \/ DeleteRow \/ Unlink \/ Remember \/ Backup \/ PutBack
       \/ PushMeta \/ PushProject \/ PushFails

Next == \/ \E fetched \in SUBSET Dbs : Start(fetched)
        \/ Lifespan \/ Push \/ Use
        \/ \E a \in Actors \ {Server} : Run(a)
        \/ Crash \/ Wipe

(* A start that has begun goes on: it waits for nobody, as a lock that is  *)
(* not released ends the wait in a timeout.                                *)
Fairness == WF_vars(Lifespan)

Spec == Init /\ [][Next]_vars /\ Fairness

-----------------------------------------------------------------------------
Images ==
  {d \in {disk[f] : f \in Dbs} \cup {bucket[f] : f \in Dbs} \cup {backup} : d # Absent}

(* migrations.py: "if any statement raises, the entire transaction is      *)
(* rolled back and the migration ID is NOT recorded".  Whoever migrates,   *)
(* races, fails or crashes: no database and no copy of one has the id of a *)
(* migration without its schema.                                           *)
RecordedMeansApplied == \A d \in Images : d.applied \subseteq d.schema

(* "always applied in the correct order": the ids are those of a prefix of *)
(* the files, also after two stale lists of pending files were worked off  *)
(* at the same time, unless a backup is put back under a `db push'.        *)
AppliedInOrder ==
  "crossed" \notin mishaps => \A d \in Images : \A m \in d.applied : 1 .. m \subseteq d.applied

(* The version of a file or of a copy: the schema and the ids of the first *)
(* n migrations.  One that has some other part of them has no version.     *)
IsVersion(d, n) == d.applied = 1 .. n /\ d.applied \subseteq d.schema

Version(d) ==
  CASE d = Absent -> Absent
    [] d # Absent /\ (\E n \in 0 .. Last : IsVersion(d, n)) ->
         CHOOSE n \in 0 .. Last : IsVersion(d, n)
    [] OTHER -> None

(* The server, from the end of its migrations, and the open requests.      *)
UsersOf(f) ==
  IF f = Meta
  THEN {a \in {Server} : phase \in {"adopting", "copying", "marking", "serving"}}
  ELSE {r \in Requests : open[r]}

Schema == INSTANCE SchemaVersions WITH
  Users   <- Actors,
  version <- [f \in Dbs |-> Version(disk[f])],
  copy    <- [f \in Dbs |-> Version(bucket[f])],
  backup  <- [f \in Dbs |-> IF f = Meta THEN Version(backup) ELSE Absent],
  users   <- [f \in Dbs |-> UsersOf(f)],
  removed <- IF life = "unlinked" THEN {Proj} ELSE {},
  orderly <- "crossed" \notin mishaps

(* migrations.py: "if any statement raises, the entire transaction is      *)
(* rolled back", "always applied in the correct order".  Whoever migrates, *)
(* races, fails or crashes, a file goes through the versions one by one,   *)
(* no copy of one holds anything else, and nobody starts to work on a file *)
(* before it is at the last; a file that is worked on goes back only with  *)
(* a backup that is put back into it, and is new only where a deletion has *)
(* unlinked it in the life of this process.                                *)
SchemaUpByOne == Schema!Spec

(* Nothing is served from an outdated schema: the lifespan raises, a       *)
(* request that could not migrate its file is refused, and the memory of   *)
(* migrated paths does not outlive the process.  It outlives the file of a *)
(* project that is deleted, and a backup that is put back is served as it  *)
(* is: those two, and only in the process they happened in, are excepted.  *)
ServedUpToDate ==
  /\ phase \in {"adopting", "copying", "marking", "serving"} /\ "replaced" \notin mishaps
       => disk[Meta].applied = Migs
  /\ \A r \in Requests : open[r] /\ life # "unlinked" => disk[Proj].applied = Migs

(* legacy_adoption.py: "Never clobbers".  What a project has made of a     *)
(* table changes by its own requests and by the restore of a copy, never   *)
(* by an adoption.                                                         *)
ScopedDataWins ==
  [][phase \notin {"down", "serving"} =>
       \A t \in Tables :
         disk[Proj] # Absent /\ disk[Proj].tables[t] = "scoped"
           => disk'[Proj].tables[t] = "scoped"]_vars

(* "The copy runs exactly once per slug": a table that the project drops   *)
(* after its adoption stays dropped, through crashes between copy and      *)
(* marker and through starts from the bucket, as long as the two files     *)
(* belong together (no start without one of them, no backup put back, no   *)
(* deletion) and the marker that is there can be read.                     *)
AdoptedOnce ==
  ~torn /\ "misread" \notin mishaps /\ disk[Proj] # Absent =>
    \A t \in dropped : disk[Proj].tables[t] # "legacy"

(* The marker is in another file than the tables: whenever it is there,    *)
(* every table of the legacy plane has been copied.                        *)
MarkerMeansAdopted ==
  ~torn /\ disk[Meta] # Absent /\ disk[Meta].marker =>
    \A t \in Tables :
      disk[Meta].tables[t] = "legacy" /\ t \notin dropped =>
        disk[Proj] # Absent /\ disk[Proj].tables[t] # "none"

(* "Never blocks startup": a start ends in serving or in the refusal of    *)
(* the lifespan, whatever fails and whoever holds a lock.                  *)
StartEnds == phase \notin {"down", "serving"} ~> phase \in {"down", "serving"}

=============================================================================
