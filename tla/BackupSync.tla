----------------------------- MODULE BackupSync -----------------------------
(***************************************************************************)
(* Backups and the bucket: the scheduled backup loop, manual backups, the  *)
(* final sync at shutdown and the restore at start, backend/core/          *)
(* {backup,s3_sync}.py, backend/app.py, backend/api/system.py, with        *)
(* S3_SYNC_ENABLED.  The file system may be gone at the next start.        *)
(*                                                                         *)
(* A job snapshots the meta database and runs upload_all in a worker       *)
(* thread: the snapshot first, then the project files as they are on disk. *)
(* Jobs overlap each other and the requests that write.                    *)
(*                                                                         *)
(* The content of a database is the set of writes committed to it, Absent  *)
(* when there is no file, Torn when a copy mixes two states of the file.   *)
(* A WAL database keeps its last commits beside the file: `main' is what   *)
(* the file alone holds.  Not modelled: uploaded blobs, which behave as    *)
(* project files without a WAL; a backup_now that fails in a job that goes *)
(* on with its next round.                                                 *)
(***************************************************************************)
EXTENDS Naturals

CONSTANTS Meta,       \* the meta database
          Projects,   \* the files data/projects/*.db
          Writes,     \* transactions, each committed at most once
          Dest,       \* Dest[w]: the file w is committed to
          Manual,     \* POST /api/backup requests
          Scheduled,  \* the loop of scheduled_backup_loop
          Final,      \* _final_sync of the shutdown
          Keep,       \* keep of prune_backups
          Absent, Torn, None

Files == Projects \cup {Meta}

Jobs == Manual \cup {Scheduled, Final}

Contents == {Absent, Torn} \cup SUBSET Writes

ASSUME SyncAssumption ==
  /\ Meta \notin Projects
  /\ Dest \in [Writes -> Files]
  /\ Scheduled \notin Manual /\ Final \notin Manual /\ Scheduled # Final
  /\ Absent # Torn
  /\ \A S \in SUBSET Writes : Absent # S /\ Torn # S
  /\ None \notin Files
  /\ Keep \in Nat \ {0}

VARIABLES
  phase,     \* "serving", "stopping" (lifespan after the yield), "stopped", "down"
  issued,    \* the writes that have been committed so far
  local,     \* local[f]: the content of database f
  main,      \* main[f]: the part of it that is in the file, not in the WAL
  bucket,    \* bucket[f]: the object of f
  snaps,     \* the contents of the backup files, those pruned since among them
  stage,     \* stage[j]: "idle", "backedup", "meta", "files"
  snap,      \* snap[j]: the snapshot job j has taken and not yet pushed
  newer,     \* newer[j]: how many backups have been taken since, up to Keep
  todo,      \* todo[j]: the project files upload_all has still to push
  reading,   \* reading[j]: the file being pushed, None between two
  seen,      \* seen[j]: its content when the push began
  failed,    \* failed[j]: upload_all has noted an error
  final,     \* the outcome of the final sync: "none", "complete", "failed"
  straggler, \* history: an upload was running when the shutdown began
  durable,   \* history: durable[f]: what the bucket had when the last job ended
  blind,     \* history: files with an object that a start went on without
  deleted    \* history: projects deleted by their owner

disk == <<issued, local, main, snaps>>
uploads == <<stage, snap, newer, todo, reading, seen, failed>>
history == <<straggler, durable, blind, deleted>>
vars == <<phase, disk, bucket, uploads, final, history>>

(* The shape of the state: an upload in progress reads one file.           *)
TypeOK ==
  /\ phase \in {"serving", "stopping", "stopped", "down"}
  /\ issued \in SUBSET Writes
  /\ local \in [Files -> Contents]
  /\ main \in [Files -> Contents]
  /\ bucket \in [Files -> Contents]
  /\ snaps \in SUBSET Contents
  /\ stage \in [Jobs -> {"idle", "backedup", "meta", "files"}]
  /\ snap \in [Jobs -> Contents]
  /\ newer \in [Jobs -> 0 .. Keep]
  /\ todo \in [Jobs -> SUBSET Projects]
  /\ reading \in [Jobs -> Files \cup {None}]
  /\ seen \in [Jobs -> Contents]
  /\ failed \in [Jobs -> BOOLEAN]
  /\ final \in {"none", "complete", "failed"}
  /\ straggler \in BOOLEAN
  /\ durable \in [Files -> SUBSET Writes]
  /\ blind \in SUBSET Files
  /\ deleted \in SUBSET Projects
  /\ local[Meta] # Absent /\ Absent \notin snaps
  /\ \A j \in Jobs : reading[j] = Meta <=> stage[j] = "meta"
  /\ \A j \in Jobs : reading[j] \in Projects => stage[j] = "files"

(* The writes a copy of a database can give back.                          *)
In(c) == IF c \in {Absent, Torn} THEN {} ELSE c

NoUploads == [stage |-> [j \in Jobs |-> "idle"],
              snap |-> [j \in Jobs |-> {}],
              newer |-> [j \in Jobs |-> 0],
              todo |-> [j \in Jobs |-> {}],
              reading |-> [j \in Jobs |-> None],
              seen |-> [j \in Jobs |-> {}],
              failed |-> [j \in Jobs |-> FALSE]]

Init ==
  /\ phase = "serving"
  /\ issued = {}
  /\ local = [f \in Files |-> IF f = Meta THEN {} ELSE Absent]
  /\ main = local
  /\ bucket = [f \in Files |-> Absent]
  /\ snaps = {}
  /\ stage = NoUploads.stage
  /\ snap = NoUploads.snap
  /\ newer = NoUploads.newer
  /\ todo = NoUploads.todo
  /\ reading = NoUploads.reading
  /\ seen = NoUploads.seen
  /\ failed = NoUploads.failed
  /\ final = "none"
  /\ straggler = FALSE
  /\ durable = [f \in Files |-> {}]
  /\ blind = {}
  /\ deleted = {}

-----------------------------------------------------------------------------
(* Requests.                                                               *)

(* The first request of a project creates its file.  Two outcomes: the     *)
(* commit is in the WAL, or it was the one that triggers a checkpoint.     *)
Commit(w) ==
  LET f == Dest[w] IN
  /\ phase = "serving"
  /\ w \notin issued /\ f \notin deleted /\ local[f] # Torn
  /\ issued' = issued \cup {w}
  /\ local' = [local EXCEPT ![f] = In(@) \cup {w}]
  /\ main' \in {[main EXCEPT ![f] = In(@)], [main EXCEPT ![f] = In(local[f]) \cup {w}]}
  /\ UNCHANGED <<phase, bucket, snaps, uploads, final, history>>

(* hard_delete_project unlinks the file; nothing is removed from the       *)
(* bucket.                                                                 *)
DeleteProject(p) ==
  /\ phase = "serving"
  /\ local[p] # Absent
  /\ local' = [local EXCEPT ![p] = Absent]
  /\ main' = [main EXCEPT ![p] = Absent]
  /\ deleted' = deleted \cup {p}
  /\ UNCHANGED <<phase, issued, bucket, snaps, uploads, final, straggler, durable, blind>>

(* POST /api/backup/restore: the backup replaces the content in one        *)
(* transaction.  What it undoes is not promised any more.                  *)
RestoreLive(s) ==
  /\ phase = "serving"
  /\ s \in snaps
  /\ local' = [local EXCEPT ![Meta] = s]
  /\ durable' = [durable EXCEPT ![Meta] = @ \cap In(s)]
  /\ UNCHANGED <<phase, issued, main, bucket, snaps, uploads, final, straggler, blind, deleted>>

-----------------------------------------------------------------------------
(* A job: backup_now, then upload_all.                                     *)

MayStart(j) == IF j = Final THEN phase = "stopping" /\ final = "none"
                            ELSE phase = "serving"

(* The checkpoint before the copy may be refused; the copy reads through   *)
(* SQLite and is complete either way.                                      *)
BackUp(j) ==
  /\ stage[j] = "idle" /\ MayStart(j)
  /\ snap' = [snap EXCEPT ![j] = local[Meta]]
  /\ snaps' = snaps \cup {local[Meta]}
  /\ newer' = [i \in Jobs |-> IF i # j /\ stage[i] = "backedup"
                               THEN IF newer[i] < Keep THEN newer[i] + 1 ELSE Keep
                               ELSE 0]
  /\ main' \in {main, [main EXCEPT ![Meta] = local[Meta]]}
  /\ stage' = [stage EXCEPT ![j] = "backedup"]
  /\ UNCHANGED <<phase, issued, local, bucket, todo, reading, seen, failed, final, history>>

(* Mutant: the live file is pushed instead of the snapshot.                *)
SourceIsLive(j, f) == main[f]

(* What pushing f reads, byte by byte, while the push goes on.             *)
Source(j, f) == IF f = Meta THEN snap[j] ELSE main[f]

(* The project files that upload_all lists.                                *)
Listed == {p \in Projects : local[p] # Absent}

PushMeta(j) ==
  /\ stage[j] = "backedup"
  /\ stage' = [stage EXCEPT ![j] = "meta"]
  /\ reading' = [reading EXCEPT ![j] = Meta]
  /\ seen' = [seen EXCEPT ![j] = Source(j, Meta)]
  /\ newer' = [newer EXCEPT ![j] = 0]
  /\ UNCHANGED <<phase, disk, bucket, snap, todo, failed, final, history>>

(* Mutant: what is kept need not be the newest.                            *)
PrunableAlways(j) == TRUE

(* prune_backups, which the loop and every manual backup run between two   *)
(* other steps, keeps the Keep newest files.                               *)
Prunable(j) == newer[j] >= Keep

(* upload_all does not find the snapshot, writes a line to the log, notes  *)
(* no error and goes on with the project files.                            *)
SnapshotMissing(j) ==
  /\ stage[j] = "backedup" /\ Prunable(j)
  /\ stage' = [stage EXCEPT ![j] = "files"]
  /\ todo' = [todo EXCEPT ![j] = Listed]
  /\ snap' = [snap EXCEPT ![j] = {}]
  /\ newer' = [newer EXCEPT ![j] = 0]
  /\ UNCHANGED <<phase, disk, bucket, reading, seen, failed, final, history>>

(* wal_checkpoint(TRUNCATE) before a project file is pushed: readers in    *)
(* other requests may keep it from completing.                             *)
Folded(p) == IF phase = "serving" THEN {In(main[p]), In(local[p])} ELSE {In(local[p])}

(* sqlite3.connect creates the file if it was deleted since the listing.   *)
PushProject(j, p) ==
  /\ stage[j] = "files" /\ reading[j] = None
  /\ p \in todo[j]
  /\ IF local[p] = Torn
     THEN /\ seen' = [seen EXCEPT ![j] = Torn]
          /\ UNCHANGED <<local, main>>
     ELSE \E c \in Folded(p) :
            /\ main' = [main EXCEPT ![p] = c]
            /\ local' = [local EXCEPT ![p] = In(@)]
            /\ seen' = [seen EXCEPT ![j] = c]
  /\ reading' = [reading EXCEPT ![j] = p]
  /\ UNCHANGED <<phase, issued, bucket, snaps, stage, snap, newer, todo,
                 failed, final, history>>

(* Mutant: the file stays open after the push.                             *)
PushedStillReading(j) ==
  /\ stage' = [stage EXCEPT ![j] = "files"]
  /\ todo' = [todo EXCEPT ![j] = IF reading[j] = Meta
                                 THEN Listed
                                 ELSE @ \ {reading[j]}]
  /\ UNCHANGED <<phase, disk, snap, newer, reading, seen, final, history>>

(* The listing of the project files follows the push of the snapshot.      *)
Pushed(j) ==
  /\ stage' = [stage EXCEPT ![j] = "files"]
  /\ todo' = [todo EXCEPT ![j] = IF reading[j] = Meta
                                 THEN Listed
                                 ELSE @ \ {reading[j]}]
  /\ reading' = [reading EXCEPT ![j] = None]
  /\ seen' = [seen EXCEPT ![j] = {}]
  /\ snap' = [snap EXCEPT ![j] = {}]
  /\ UNCHANGED <<phase, disk, newer, final, history>>

(* The object is replaced as a whole, by a copy that is torn if the file   *)
(* changed under the push.                                                 *)
Put(j) ==
  LET f == reading[j] IN
  /\ f # None
  /\ bucket' = [bucket EXCEPT ![f] = IF Source(j, f) \in {seen[j], Absent}
                                     THEN seen[j] ELSE Torn]
  /\ Pushed(j)
  /\ UNCHANGED failed

(* The error is noted, the next file follows.                              *)
PutFails(j) ==
  /\ reading[j] # None
  /\ failed' = [failed EXCEPT ![j] = TRUE]
  /\ Pushed(j)
  /\ UNCHANGED bucket

(* What the bucket and the databases hold when no job is left is promised  *)
(* from then on.                                                           *)
Settled == [f \in Files |-> IF bucket[f] = Torn THEN durable[f]
                                                ELSE In(bucket[f]) \cap In(local[f])]

(* Mutant: the loop does not go on after an error.                         *)
FinishIfGood(j) ==
  /\ stage[j] = "files" /\ reading[j] = None /\ todo[j] = {} /\ ~failed[j]
  /\ stage' = [stage EXCEPT ![j] = "idle"]
  /\ durable' = IF \A i \in Jobs \ {j} : stage[i] = "idle" THEN Settled ELSE durable
  /\ final' = IF j = Final THEN IF failed[j] THEN "failed" ELSE "complete" ELSE final
  /\ failed' = [failed EXCEPT ![j] = FALSE]
  /\ UNCHANGED <<phase, disk, bucket, snap, newer, todo, reading, seen, straggler, blind,
                 deleted>>

Finish(j) ==
  /\ stage[j] = "files" /\ reading[j] = None /\ todo[j] = {}
  /\ stage' = [stage EXCEPT ![j] = "idle"]
  /\ durable' = IF \A i \in Jobs \ {j} : stage[i] = "idle" THEN Settled ELSE durable
  /\ final' = IF j = Final THEN IF failed[j] THEN "failed" ELSE "complete" ELSE final
  /\ failed' = [failed EXCEPT ![j] = FALSE]
  /\ UNCHANGED <<phase, disk, bucket, snap, newer, todo, reading, seen, straggler, blind,
                 deleted>>

-----------------------------------------------------------------------------
(* Shutdown, crash, start.                                                 *)

(* The server has drained its requests.  backup_task.cancel() ends the     *)
(* loop between two worker threads; a running upload_all goes on.          *)
Stop ==
  /\ phase = "serving"
  /\ \A j \in Manual : stage[j] = "idle"
  /\ phase' = "stopping"
  /\ final' = "none"
  /\ straggler' = (stage[Scheduled] \in {"meta", "files"})
  /\ IF straggler'
     THEN UNCHANGED <<stage, snap, newer>>
     ELSE /\ stage' = [stage EXCEPT ![Scheduled] = "idle"]
          /\ snap' = [snap EXCEPT ![Scheduled] = {}]
          /\ newer' = [newer EXCEPT ![Scheduled] = 0]
  /\ UNCHANGED <<disk, bucket, todo, reading, seen, failed, durable, blind, deleted>>

(* backup_now fails: there is no final sync.                               *)
NoFinalSync ==
  /\ phase = "stopping" /\ final = "none" /\ stage[Final] = "idle"
  /\ final' = "failed"
  /\ UNCHANGED <<phase, disk, bucket, uploads, history>>

(* The process ends when its worker threads have.                          *)
Exit ==
  /\ phase = "stopping" /\ final # "none"
  /\ \A j \in Jobs : stage[j] = "idle"
  /\ phase' = "stopped"
  /\ UNCHANGED <<disk, bucket, uploads, final, history>>

(* A push that was under way has no effect.                                *)
Crash ==
  /\ phase \in {"serving", "stopping"}
  /\ phase' = "down"
  /\ stage' = NoUploads.stage
  /\ snap' = NoUploads.snap
  /\ newer' = NoUploads.newer
  /\ todo' = NoUploads.todo
  /\ reading' = NoUploads.reading
  /\ seen' = NoUploads.seen
  /\ failed' = NoUploads.failed
  /\ durable' = Settled
  /\ UNCHANGED <<disk, bucket, final, straggler, blind, deleted>>

(* Mutant: download_all is never called.                                   *)
StartEmpty(wiped, fetched) ==
  LET missing == {f \in Files : wiped \/ local[f] = Absent}
      Fresh(f) == IF f = Meta THEN {} ELSE Absent
  IN
  /\ phase \in {"stopped", "down"} /\ fetched = {}
  /\ phase' = "serving"
  /\ local' = [f \in Files |-> IF f \in missing THEN Fresh(f) ELSE local[f]]
  /\ main' = [f \in Files |-> IF f \in missing THEN local'[f] ELSE main[f]]
  /\ snaps' = IF wiped THEN {} ELSE snaps
  /\ final' = "none"
  /\ straggler' = FALSE
  /\ UNCHANGED <<issued, bucket, uploads, durable, blind, deleted>>

(* download_all, then the migrations, which create the meta database.      *)
(* `wiped': an ephemeral disk.  `fetched': the downloads that worked; a    *)
(* HEAD request that fails for any reason means "no remote DB".            *)
Start(wiped, fetched) ==
  LET missing == {f \in Files : wiped \/ local[f] = Absent}
      remote == {f \in missing : bucket[f] # Absent}
      Fresh(f) == IF f = Meta THEN {} ELSE Absent
  IN
  /\ phase \in {"stopped", "down"}
  /\ fetched \subseteq remote
  /\ phase' = "serving"
  /\ local' = [f \in Files |-> IF f \in fetched THEN bucket[f]
                               ELSE IF f \in missing THEN Fresh(f) ELSE local[f]]
  /\ main' = [f \in Files |-> IF f \in missing THEN local'[f] ELSE main[f]]
  /\ snaps' = IF wiped THEN {} ELSE snaps
  /\ blind' = blind \cup (remote \ fetched)
  /\ final' = "none"
  /\ straggler' = FALSE
  /\ UNCHANGED <<issued, bucket, uploads, durable, deleted>>

-----------------------------------------------------------------------------
Requests == \/ \E w \in Writes : Commit(w)
            \/ \E p \in Projects : DeleteProject(p)
            \/ \E s \in snaps : RestoreLive(s)

JobStep(j) == \/ BackUp(j) \/ PushMeta(j) \/ SnapshotMissing(j)
              \/ \E p \in Projects : PushProject(j, p)
              \/ Put(j) \/ PutFails(j) \/ Finish(j)

Process == \/ Stop \/ NoFinalSync \/ Exit \/ Crash
           \/ \E wiped \in BOOLEAN, fetched \in SUBSET Files : Start(wiped, fetched)

Next == Requests \/ Process \/ \E j \in Jobs : JobStep(j)

(* The loop never ends while the process runs and its worker threads make  *)
(* progress; Keep manual backups do not come in between a backup of the    *)
(* loop and its upload every time; a push to a bucket that can be reached  *)
(* again and again succeeds in the end.                                    *)
Fairness == /\ WF_vars(JobStep(Scheduled))
            /\ SF_vars(PushMeta(Scheduled))
            /\ SF_vars(reading[Scheduled] = Meta /\ Put(Scheduled))

Spec == Init /\ [][Next]_vars /\ Fairness

-----------------------------------------------------------------------------
(* app.py: the snapshot is pushed "so the bucket never holds a torn        *)
(* live-file copy".  True of the meta database, whatever writes, restores  *)
(* and checkpoints run while it is pushed.                                 *)
MetaCopyWhole == bucket[Meta] # Torn

(* Overlapping jobs may replace an object by an older copy, but never by   *)
(* one from before the last moment at which no job was running: what the   *)
(* bucket had then survives crashes, restarts on an empty disk and later   *)
(* syncs, for every database that has been restored whenever it could be.  *)
SettledSurvives ==
  \A f \in Files \ (blind \cup deleted) :
    bucket[f] # Torn => durable[f] \subseteq In(bucket[f])

(* The same on the disk: what requests read, also after a start from the   *)
(* bucket, has all that is promised, unless a torn object was fetched.     *)
PromisedOnDisk ==
  \A f \in Files \ (blind \cup deleted) :
    local[f] # Torn => durable[f] \subseteq In(local[f])

(* What is promised stays promised: only a restore by hand takes some of   *)
(* it back, never the end of a job, a crash or a start.                    *)
PromisesStand ==
  [][(\A s \in snaps : ~RestoreLive(s)) =>
       \A f \in Files \ (blind \cup deleted) : durable[f] \subseteq durable'[f]]_vars

(* A final sync that reports no error, with no upload of the loop still    *)
(* running, leaves the bucket equal to the disk.                           *)
CleanStopKeepsAll ==
  phase = "stopped" /\ final = "complete" /\ ~straggler =>
    \A f \in Files : local[f] # Absent => bucket[f] = local[f]

(* scheduled_backup_loop catches every exception "to ensure the loop keeps *)
(* running": a write to the meta database reaches the bucket unless the    *)
(* process ends or the write is undone by a restore.                       *)
WritesReachBucket ==
  \A w \in Writes :
    phase = "serving" /\ w \in In(local[Meta])
      ~> \/ w \in In(bucket[Meta])
         \/ phase # "serving"
         \/ w \notin In(local[Meta])

(* DEPLOY.md: "data survives every redeploy and cold start".  What the     *)
(* bucket had when no job was running is never lost.                       *)
SurvivesColdStart ==
  \A f \in Files \ deleted : bucket[f] # Torn => durable[f] \subseteq In(bucket[f])

(* DEPLOY.md: "a best-effort final upload runs on SIGTERM so the last few  *)
(* minutes of writes survive a graceful stop".  A final sync that reports  *)
(* no error leaves the bucket equal to the meta database.                  *)
GracefulStopKeepsWrites ==
  phase = "stopped" /\ final = "complete" => bucket[Meta] = local[Meta]

=============================================================================
