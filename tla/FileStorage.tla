----------------------------- MODULE FileStorage -----------------------------
(***************************************************************************)
(* Uploaded files: the bytes in a file of STORAGE_ROOT, the metadata in a  *)
(* row of storage_files, and the copies of both in the bucket;             *)
(* backend/core/{storage,s3_sync}.py, backend/api/{storage,project_scoped} *)
(*                                                                         *)
(* The handlers are coroutines without an await between their steps: one   *)
(* runs at a time.  The threads of upload_all run next to it, and the      *)
(* process may end between any two steps.                                  *)
(*                                                                         *)
(* A project keeps its files in a directory named by its slug, and the     *)
(* slug is in each row; both are what the slug was when the request of the *)
(* upload looked it up.  A project may be renamed; its directory and its   *)
(* rows stay as they are.                                                  *)
(*                                                                         *)
(* One database and its directory stand for a project (its file, pushed    *)
(* from disk) as for the legacy plane (the meta database, pushed from a    *)
(* snapshot; its only slug is "default"); the copy that is pushed is taken *)
(* as whole, which BackupSync looks at.  Not modelled: uploads refused for *)
(* their name or size, which change nothing; POST /backup/restore; a       *)
(* project that is archived or deleted; rows that its owner's SQL changes. *)
(***************************************************************************)
CONSTANTS Files,   \* file_id, a fresh uuid for every upload
          Slugs,   \* the slugs a project may be given
          Jobs,    \* the threads that may run upload_all
          Absent, None

ASSUME StorageAssumption ==
  /\ None \notin Files
  /\ \A S \in SUBSET Files : Absent # S

VARIABLES
  serving,   \* the process is up and past its start
  rows,      \* the ids in storage_files
  blobs,     \* blobs[f]: "none", "partial" while it is written, or "whole"
  slug,      \* the slug of the project
  held,      \* the slugs that requests in flight may have looked up
  home,      \* home[f]: the slug in the row of f and in the path of its blob
  call,      \* the handler that is running: its operation, file and step
  object,    \* the copy of the database in the bucket: Absent or its ids
  remote,    \* remote[f]: the copy of the blob in the bucket
  stage,     \* stage[j]: "idle", "database", "files"
  image,     \* image[j]: the copy of the database that job j pushes
  todo,      \* todo[j]: the listed blobs j has still to push
  reading,   \* reading[j]: the blob being pushed, None between two
  seen,      \* seen[j]: what j has read of it
  story,     \* history: what the client of f was told last
  sealed,    \* history: the bucket agreed with the story when no job ran
  returned   \* history: blobs that came back from the bucket

disk == <<rows, blobs>>
names == <<slug, held, home>>
bucket == <<object, remote>>
uploads == <<stage, image, todo, reading, seen>>
vars == <<serving, disk, names, call, bucket, uploads, story, sealed, returned>>

Blob == {"none", "partial", "whole"}

Idle == [op |-> "none", file |-> None]

Calls == {Idle} \cup [op : {"write", "insert", "unlinked"}, file : Files]

(* The shape of the state; a handler is never left behind by its process.  *)
TypeOK ==
  /\ serving \in BOOLEAN
  /\ rows \in SUBSET Files
  /\ blobs \in [Files -> Blob]
  /\ slug \in Slugs
  /\ held \in SUBSET Slugs
  /\ home \in [Files -> Slugs \cup {None}]
  /\ call \in Calls
  /\ object \in {Absent} \cup SUBSET Files
  /\ remote \in [Files -> Blob]
  /\ stage \in [Jobs -> {"idle", "database", "files"}]
  /\ image \in [Jobs -> SUBSET Files]
  /\ todo \in [Jobs -> SUBSET Files]
  /\ reading \in [Jobs -> Files \cup {None}]
  /\ seen \in [Jobs -> Blob]
  /\ story \in [Files -> {"new", "saving", "saved", "deleting", "deleted", "lost"}]
  /\ sealed \in SUBSET Files
  /\ returned \in SUBSET Files
  /\ ~serving => call = Idle
  /\ serving => slug \in held
  /\ \A j \in Jobs : reading[j] # None => stage[j] = "files"

NoUploads == [stage |-> [j \in Jobs |-> "idle"],
              image |-> [j \in Jobs |-> {}],
              todo |-> [j \in Jobs |-> {}],
              reading |-> [j \in Jobs |-> None],
              seen |-> [j \in Jobs |-> "none"]]

Init ==
  /\ serving = TRUE
  /\ rows = {}
  /\ blobs = [f \in Files |-> "none"]
  /\ slug \in Slugs
  /\ held = {slug}
  /\ home = [f \in Files |-> None]
  /\ call = Idle
  /\ object = Absent
  /\ remote = [f \in Files |-> "none"]
  /\ stage = NoUploads.stage
  /\ image = NoUploads.image
  /\ todo = NoUploads.todo
  /\ reading = NoUploads.reading
  /\ seen = NoUploads.seen
  /\ story = [f \in Files |-> "new"]
  /\ sealed = {}
  /\ returned = {}

-----------------------------------------------------------------------------
(* LocalFileStorage: save, get, delete.                                    *)

(* What get and get_record answer to a request that finds the project as   *)
(* it is: they look for a row of f with its slug, and then in its          *)
(* directory.                                                              *)
Downloaded(f) == IF f \in rows /\ home[f] = slug THEN blobs[f] ELSE "none"

(* update_project: nothing of the files moves.                             *)
Rename(s) ==
  /\ serving /\ call = Idle
  /\ s # slug
  /\ slug' = s
  /\ held' = held \cup {s}
  /\ UNCHANGED <<serving, disk, home, call, bucket, uploads, story, sealed, returned>>

(* write_bytes creates the file and then fills it.                         *)
Save(f, s) ==
  /\ serving /\ call = Idle
  /\ story[f] = "new"
  /\ s \in held
  /\ home' = [home EXCEPT ![f] = s]
  /\ blobs' = [blobs EXCEPT ![f] = "partial"]
  /\ call' = [op |-> "write", file |-> f]
  /\ story' = [story EXCEPT ![f] = "saving"]
  /\ UNCHANGED <<serving, rows, slug, held, bucket, uploads, sealed, returned>>

WriteDone ==
  LET f == call.file IN
  /\ call.op = "write"
  /\ blobs' = [blobs EXCEPT ![f] = "whole"]
  /\ call' = [call EXCEPT !.op = "insert"]
  /\ UNCHANGED <<serving, rows, names, bucket, uploads, story, sealed, returned>>

(* Disk full, permissions: what has been written stays.                    *)
WriteFails ==
  LET f == call.file IN
  /\ call.op = "write"
  /\ \E b \in {"none", "partial"} : blobs' = [blobs EXCEPT ![f] = b]
  /\ call' = Idle
  /\ story' = [story EXCEPT ![f] = "lost"]
  /\ UNCHANGED <<serving, rows, names, bucket, uploads, sealed, returned>>

InsertRow ==
  LET f == call.file IN
  /\ call.op = "insert"
  /\ rows' = rows \cup {f}
  /\ call' = Idle
  /\ story' = [story EXCEPT ![f] = "saved"]
  /\ UNCHANGED <<serving, blobs, names, bucket, uploads, sealed, returned>>

(* The blob is unlinked again, unless that fails too.                      *)
InsertFails ==
  LET f == call.file IN
  /\ call.op = "insert"
  /\ \E b \in {"none", "whole"} : blobs' = [blobs EXCEPT ![f] = b]
  /\ call' = Idle
  /\ story' = [story EXCEPT ![f] = "lost"]
  /\ UNCHANGED <<serving, rows, names, bucket, uploads, sealed, returned>>

(* Mutant: the row is deleted before the blob.                             *)
DeleteRowFirst(f) ==
  /\ serving /\ call = Idle
  /\ f \in rows /\ home[f] \in held
  /\ rows' = rows \ {f}
  /\ call' = [op |-> "unlinked", file |-> f]
  /\ story' = [story EXCEPT ![f] = "deleting"]
  /\ sealed' = sealed \ {f}
  /\ UNCHANGED <<serving, blobs, names, bucket, uploads, returned>>

(* get_record under the slug of the request, then unlink(missing_ok=True); *)
(* an unlink that fails ends the call with nothing changed.                *)
Delete(f) ==
  /\ serving /\ call = Idle
  /\ f \in rows /\ home[f] \in held
  /\ blobs' = [blobs EXCEPT ![f] = "none"]
  /\ call' = [op |-> "unlinked", file |-> f]
  /\ story' = [story EXCEPT ![f] = "deleting"]
  /\ sealed' = sealed \ {f}
  /\ UNCHANGED <<serving, rows, names, bucket, uploads, returned>>

DeleteRow ==
  LET f == call.file IN
  /\ call.op = "unlinked"
  /\ rows' = rows \ {f}
  /\ call' = Idle
  /\ story' = [story EXCEPT ![f] = "deleted"]
  /\ returned' = returned \ {f}
  /\ UNCHANGED <<serving, blobs, names, bucket, uploads, sealed>>

DeleteRowFails ==
  /\ call.op = "unlinked"
  /\ call' = Idle
  /\ UNCHANGED <<serving, disk, names, bucket, uploads, story, sealed, returned>>

-----------------------------------------------------------------------------
(* upload_all in a thread: the database, then the blobs.                   *)

TakeImage(j) ==
  /\ serving /\ stage[j] = "idle"
  /\ stage' = [stage EXCEPT ![j] = "database"]
  /\ image' = [image EXCEPT ![j] = rows]
  /\ UNCHANGED <<serving, disk, names, call, bucket, todo, reading, seen, story, sealed, returned>>

(* What rglob finds: a blob is listed as soon as it has been created.      *)
Listed == {f \in Files : blobs[f] # "none"}

(* The push of the database succeeds or its error is noted; the blobs are  *)
(* listed next either way.                                                 *)
PushDatabase(j) ==
  /\ stage[j] = "database"
  /\ object' \in {object, image[j]}
  /\ stage' = [stage EXCEPT ![j] = "files"]
  /\ image' = [image EXCEPT ![j] = {}]
  /\ todo' = [todo EXCEPT ![j] = Listed]
  /\ UNCHANGED <<serving, disk, names, call, remote, reading, seen, story, sealed, returned>>

ReadBlob(j, f) ==
  /\ stage[j] = "files" /\ reading[j] = None
  /\ f \in todo[j]
  /\ reading' = [reading EXCEPT ![j] = f]
  /\ seen' = [seen EXCEPT ![j] = blobs[f]]
  /\ UNCHANGED <<serving, disk, names, call, bucket, stage, image, todo, story, sealed, returned>>

(* The put of a blob succeeds or its error is noted; there is nothing to   *)
(* put of one that was unlinked since it was listed.                       *)
PutBlob(j) ==
  LET f == reading[j] IN
  /\ f # None
  /\ remote' \in {remote} \cup
                 (IF seen[j] = "none" THEN {} ELSE {[remote EXCEPT ![f] = seen[j]]})
  /\ todo' = [todo EXCEPT ![j] = @ \ {f}]
  /\ reading' = [reading EXCEPT ![j] = None]
  /\ seen' = [seen EXCEPT ![j] = "none"]
  /\ UNCHANGED <<serving, disk, names, call, object, stage, image, story, sealed, returned>>

(* The files of which the bucket tells the same story as their client was  *)
(* told.                                                                   *)
Agreed == {f \in Files :
             \/ /\ story[f] = "saved" /\ remote[f] = "whole"
                /\ object # Absent /\ f \in object
             \/ /\ story[f] = "deleted"
                /\ object = Absent \/ f \notin object}

(* Mutant: the job ends with a push under way.                             *)
FinishEarly(j) ==
  /\ stage[j] = "files"
  /\ stage' = [stage EXCEPT ![j] = "idle"]
  /\ sealed' = IF \A i \in Jobs \ {j} : stage[i] = "idle" THEN sealed \cup Agreed ELSE sealed
  /\ UNCHANGED <<serving, disk, names, call, bucket, image, todo, reading, seen, story, returned>>

Finish(j) ==
  /\ stage[j] = "files" /\ reading[j] = None /\ todo[j] = {}
  /\ stage' = [stage EXCEPT ![j] = "idle"]
  /\ sealed' = IF \A i \in Jobs \ {j} : stage[i] = "idle" THEN sealed \cup Agreed ELSE sealed
  /\ UNCHANGED <<serving, disk, names, call, bucket, image, todo, reading, seen, story, returned>>

-----------------------------------------------------------------------------
(* Crash and start.                                                        *)

(* Nobody has been answered about the file of the call that was running.   *)
Crash ==
  /\ serving
  /\ serving' = FALSE
  /\ held' = {}
  /\ call' = Idle
  /\ stage' = NoUploads.stage
  /\ image' = NoUploads.image
  /\ todo' = NoUploads.todo
  /\ reading' = NoUploads.reading
  /\ seen' = NoUploads.seen
  /\ story' = [f \in Files |-> IF story[f] = "saving" THEN "lost" ELSE story[f]]
  /\ sealed' = sealed \cup Agreed
  /\ UNCHANGED <<disk, slug, home, bucket, returned>>

(* Mutant: a start fetches the blobs and not the database.                 *)
RestoredNever(wiped, found) == IF wiped THEN {} ELSE rows

(* Mutant: a start replaces a database that is there.                      *)
RestoredAlways(wiped, found) ==
  IF found /\ object # Absent THEN object ELSE IF wiped THEN {} ELSE rows

(* The database after a start: fetched only if there is no local file.     *)
Restored(wiped, found) ==
  IF ~wiped THEN rows ELSE IF found /\ object # Absent THEN object ELSE {}

(* download_all.  `wiped': an ephemeral disk.  `found': the database       *)
(* object could be fetched.  `fetched': the blobs that could.  The slug is *)
(* in the meta database; a copy of that may tell an earlier one.           *)
Start(wiped, found, fetched) ==
  LET missing == {f \in Files : wiped \/ blobs[f] = "none"}
      offered == {f \in missing : remote[f] # "none"}
      kept == {f \in Files : IF wiped THEN f \in sealed /\ found /\ f \notin offered \ fetched
                                      ELSE TRUE}
  IN
  /\ ~serving
  /\ fetched \subseteq offered
  /\ serving' = TRUE
  /\ slug' \in IF wiped THEN Slugs ELSE {slug}
  /\ held' = {slug'}
  /\ rows' = Restored(wiped, found)
  /\ blobs' = [f \in Files |-> IF f \in fetched THEN remote[f]
                               ELSE IF wiped THEN "none" ELSE blobs[f]]
  /\ returned' = (IF wiped THEN {} ELSE returned) \cup fetched
  /\ story' = [f \in Files |-> IF f \in kept \/ story[f] = "new" THEN story[f] ELSE "lost"]
  /\ sealed' = {f \in sealed : f \in kept}
  /\ UNCHANGED <<home, call, bucket, uploads>>

-----------------------------------------------------------------------------
Handler == \/ \E s \in Slugs : Rename(s) \/ \E f \in Files : Save(f, s)
           \/ \E f \in Files : Delete(f)
           \/ WriteDone \/ WriteFails \/ InsertRow \/ InsertFails
           \/ DeleteRow \/ DeleteRowFails

Upload(j) == \/ TakeImage(j) \/ PushDatabase(j)
             \/ \E f \in Files : ReadBlob(j, f)
             \/ PutBlob(j) \/ Finish(j)

Process == \/ Crash
           \/ \E wiped, found \in BOOLEAN, fetched \in SUBSET Files :
                Start(wiped, found, fetched)

Next == Handler \/ Process \/ \E j \in Jobs : Upload(j)

Spec == Init /\ [][Next]_vars

-----------------------------------------------------------------------------
(* A file whose upload was answered 200, with the slug as its project_id,  *)
(* and that nobody has deleted since, downloads whole while the project    *)
(* has that slug, and again when it is given it back; under another slug   *)
(* it is 404.  That holds always on a kept disk, and on an empty one if    *)
(* the bucket had row and blob when no upload was running and the start    *)
(* could fetch them.  Overlapping uploads, whatever they read and in       *)
(* whatever order they end, do not take it back.                           *)
SavedReadable ==
  serving => \A f \in Files :
    story[f] = "saved" /\ home[f] = slug => Downloaded(f) = "whole"

(* A file whose deletion was answered 200 has no row, and gets none from a *)
(* later start once the bucket's copy of the database had none either: the *)
(* object that upload_all leaves behind comes back as a blob only.         *)
DeletedUnreadable ==
  serving => \A f \in Files : story[f] = "deleted" => f \notin rows

(* storage.py: "leaking a dead metadata row is recoverable, leaking an     *)
(* unreferenced disk file full of user data is not".  After a delete that  *)
(* failed half-way or was cut off by a crash, the row is there for it to   *)
(* be repeated under the slug of the upload; a deleted file has left no    *)
(* blob, unless a later start has fetched it again.                        *)
DeleteRecoverable ==
  \A f \in Files : /\ story[f] = "deleting" => f \in rows
                   /\ story[f] = "deleted" /\ f \notin returned => blobs[f] = "none"

-----------------------------------------------------------------------------
(* What clients see of all this under the slug of the upload: the listing  *)
(* is the rows, the content of a listed file its blob, and what outlives   *)
(* an empty disk is what is sealed.  Slugs are the same in both.           *)
Shown(f) == IF f \in rows THEN blobs[f] ELSE "absent"

Service ==
  INSTANCE FileService WITH
    up <- serving,
    told <- story,
    shown <- [f \in Files |-> Shown(f)],
    safe <- sealed

(* File storage implements FileService: the two steps of a save and of a   *)
(* delete, whichever of them fails or is cut off, the threads of upload_all*)
(* and the downloads of a start are for clients one answered step or none; *)
(* no upload shows before it is answered, and no start takes back what a   *)
(* client was told of a file that the disk or the sealed bucket still has. *)
StorageService == Service!Spec

=============================================================================
