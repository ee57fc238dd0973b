------------------------- MODULE FileStorageProofs -------------------------
(***************************************************************************)
(* Proofs about FileStorage for any number of files and upload threads.    *)
(***************************************************************************)
EXTENDS FileStorage, TLAPS

USE DEF names, Service!places

-----------------------------------------------------------------------------
(* The inductive invariant: what each answer to a client says of row and   *)
(* blob, what the running handler has done so far, what the bucket is      *)
(* known to hold, and that no running upload carries anything that would   *)
(* take that back.                                                         *)

Saved(f) == story[f] = "saved" => f \in rows /\ blobs[f] = "whole"
Deleting(f) == story[f] = "deleting" => f \in rows
Deleted(f) == story[f] = "deleted" => f \notin rows /\ (f \in returned \/ blobs[f] = "none")

StoryOK == \A f \in Files : Saved(f) /\ Deleting(f) /\ Deleted(f)

CallOK ==
  /\ call.op \in {"write", "insert"} => story[call.file] = "saving"
  /\ call.op = "insert" => blobs[call.file] = "whole"
  /\ call.op = "unlinked" => story[call.file] = "deleting" /\ blobs[call.file] = "none"

NoJob == \A j \in Jobs : stage[j] = "idle"

ImageOK(j) == stage[j] = "database" => \A f \in sealed : f \in image[j] <=> story[f] = "saved"
SeenOK(j) == reading[j] \in sealed /\ story[reading[j]] = "saved" => seen[j] = "whole"

SealOK ==
  /\ ~serving => NoJob
  /\ sealed \subseteq Agreed
  /\ \A j \in Jobs : ImageOK(j) /\ SeenOK(j)

IInv == TypeOK /\ StoryOK /\ CallOK /\ SealOK

LEMMA CallFacts ==
  /\ Idle.op = "none" /\ Idle.file = None
  /\ call \in Calls /\ call.op \in {"write", "insert", "unlinked"} => call.file \in Files
BY DEF Idle, Calls

LEMMA InitIInv == Init => IInv
<1> SUFFICES ASSUME Init PROVE IInv
  OBVIOUS
<1>1. TypeOK
  BY DEF Init, TypeOK, NoUploads, Calls, Blob
<1>2. StoryOK /\ CallOK
  BY CallFacts DEF Init, StoryOK, Saved, Deleting, Deleted, CallOK
<1>3. SealOK
  BY DEF Init, SealOK, ImageOK, SeenOK, NoUploads
<1> QED
  BY <1>1, <1>2, <1>3 DEF IInv

-----------------------------------------------------------------------------
(* The handlers: the bucket and the uploads do not move.                   *)

(* A sealed file is one whose client was told it is saved or deleted.      *)
LEMMA SealedStory ==
  ASSUME SealOK
  PROVE  \A f \in sealed : f \in Files /\ story[f] \in {"saved", "deleted"}
BY DEF SealOK, Agreed

LEMMA SealKept ==
  ASSUME SealOK, UNCHANGED <<serving, uploads, bucket>>, sealed' \subseteq sealed,
         \A f \in sealed' : story'[f] = story[f]
  PROVE  SealOK'
<1>1. (~serving => NoJob)'
  BY DEF SealOK, NoJob, uploads
<1>2. (sealed \subseteq Agreed)'
  BY DEF SealOK, Agreed, bucket
<1>3. ASSUME NEW j \in Jobs PROVE (ImageOK(j) /\ SeenOK(j))'
  BY DEF SealOK, ImageOK, SeenOK, uploads
<1> QED
  BY <1>1, <1>2, <1>3 DEF SealOK

LEMMA RenameIInv ==
  ASSUME IInv, NEW s \in Slugs, Rename(s)
  PROVE  IInv'
<1> USE DEF Rename, disk, bucket, uploads
<1>1. TypeOK'
  BY DEF IInv, TypeOK
<1>2. StoryOK' /\ CallOK'
  BY DEF IInv, StoryOK, Saved, Deleting, Deleted, CallOK
<1>3. SealOK'
  BY SealKept DEF IInv
<1> QED
  BY <1>1, <1>2, <1>3 DEF IInv

LEMMA SaveIInv ==
  ASSUME IInv, NEW f \in Files, NEW s \in Slugs, Save(f, s)
  PROVE  IInv'
<1> USE DEF Save, disk, bucket, uploads
<1>1. TypeOK'
  BY DEF IInv, TypeOK, Blob, Calls
<1>2. StoryOK'
  BY DEF IInv, TypeOK, StoryOK, Saved, Deleting, Deleted
<1>3. CallOK'
  BY DEF IInv, TypeOK, CallOK
<1>4. SealOK'
  BY SealKept, SealedStory DEF IInv, TypeOK
<1> QED
  BY <1>1, <1>2, <1>3, <1>4 DEF IInv

LEMMA WriteDoneIInv == IInv /\ WriteDone => IInv'
<1> SUFFICES ASSUME IInv, WriteDone PROVE IInv'
  OBVIOUS
<1> USE DEF WriteDone, disk, bucket, uploads
<1>0. PICK f \in Files : f = call.file
  BY CallFacts DEF IInv, TypeOK
<1>1. call' = [op |-> "insert", file |-> f]
  BY <1>0 DEF IInv, TypeOK, Calls, Idle
<1>2. TypeOK'
  <2>1. serving
    BY CallFacts DEF IInv, TypeOK
  <2>2. call' \in Calls
    BY <1>0, <1>1 DEF Calls
  <2>3. blobs' \in [Files -> Blob]
    BY <1>0 DEF IInv, TypeOK, Blob
  <2> QED
    BY <2>1, <2>2, <2>3 DEF IInv, TypeOK
<1>3. StoryOK'
  BY <1>0 DEF IInv, TypeOK, StoryOK, Saved, Deleting, Deleted, CallOK
<1>4. CallOK'
  BY <1>0, <1>1 DEF IInv, TypeOK, CallOK
<1>5. SealOK'
  BY SealKept DEF IInv
<1> QED
  BY <1>2, <1>3, <1>4, <1>5 DEF IInv

(* The upload is given up; nobody was answered about it.                   *)
LEMMA LostIInv ==
  ASSUME IInv, WriteFails \/ InsertFails
  PROVE  IInv'
<1>0. PICK f \in Files, b \in Blob :
        /\ f = call.file /\ story[f] = "saving"
        /\ blobs' = [blobs EXCEPT ![f] = b] /\ call' = Idle
        /\ story' = [story EXCEPT ![f] = "lost"]
        /\ UNCHANGED <<serving, rows, names, bucket, uploads, sealed, returned>>
  BY CallFacts DEF IInv, TypeOK, CallOK, WriteFails, InsertFails, Blob
<1> USE DEF bucket, uploads
<1>1. TypeOK'
  BY <1>0 DEF IInv, TypeOK, Calls
<1>2. StoryOK'
  BY <1>0 DEF IInv, TypeOK, StoryOK, Saved, Deleting, Deleted
<1>3. CallOK'
  BY <1>0, CallFacts DEF CallOK
<1>4. SealOK'
  BY <1>0, SealKept, SealedStory DEF IInv, TypeOK
<1> QED
  BY <1>1, <1>2, <1>3, <1>4 DEF IInv

LEMMA InsertRowIInv == IInv /\ InsertRow => IInv'
<1> SUFFICES ASSUME IInv, InsertRow PROVE IInv'
  OBVIOUS
<1> USE DEF InsertRow, disk, bucket, uploads
<1>0. PICK f \in Files : f = call.file /\ story[f] = "saving" /\ blobs[f] = "whole"
  BY CallFacts DEF IInv, TypeOK, CallOK
<1>1. TypeOK'
  BY <1>0 DEF IInv, TypeOK, Calls
<1>2. StoryOK'
  BY <1>0 DEF IInv, TypeOK, StoryOK, Saved, Deleting, Deleted
<1>3. CallOK'
  BY CallFacts DEF CallOK
<1>4. SealOK'
  BY <1>0, SealKept, SealedStory DEF IInv, TypeOK
<1> QED
  BY <1>1, <1>2, <1>3, <1>4 DEF IInv

LEMMA DeleteIInv ==
  ASSUME IInv, NEW f \in Files, Delete(f)
  PROVE  IInv'
<1> USE DEF Delete, disk, bucket, uploads
<1>1. TypeOK'
  BY DEF IInv, TypeOK, Blob, Calls
<1>2. StoryOK'
  BY DEF IInv, TypeOK, StoryOK, Saved, Deleting, Deleted
<1>3. CallOK'
  BY DEF IInv, TypeOK, CallOK
<1>4. SealOK'
  BY SealKept, SealedStory DEF IInv, TypeOK
<1> QED
  BY <1>1, <1>2, <1>3, <1>4 DEF IInv

LEMMA DeleteRowIInv == IInv /\ DeleteRow => IInv'
<1> SUFFICES ASSUME IInv, DeleteRow PROVE IInv'
  OBVIOUS
<1> USE DEF DeleteRow, disk, bucket, uploads
<1>0. PICK f \in Files : f = call.file /\ story[f] = "deleting" /\ blobs[f] = "none"
  BY CallFacts DEF IInv, TypeOK, CallOK
<1>1. TypeOK'
  BY <1>0 DEF IInv, TypeOK, Calls
<1>2. StoryOK'
  BY <1>0 DEF IInv, TypeOK, StoryOK, Saved, Deleting, Deleted
<1>3. CallOK'
  BY CallFacts DEF CallOK
<1>4. SealOK'
  BY <1>0, SealKept, SealedStory DEF IInv, TypeOK
<1> QED
  BY <1>1, <1>2, <1>3, <1>4 DEF IInv

LEMMA DeleteRowFailsIInv == IInv /\ DeleteRowFails => IInv'
<1> SUFFICES ASSUME IInv, DeleteRowFails PROVE IInv'
  OBVIOUS
<1> USE DEF DeleteRowFails, disk, bucket, uploads
<1>1. TypeOK'
  BY DEF IInv, TypeOK, Calls
<1>2. StoryOK' /\ CallOK'
  BY CallFacts DEF IInv, StoryOK, Saved, Deleting, Deleted, CallOK
<1>3. SealOK'
  BY SealKept DEF IInv
<1> QED
  BY <1>1, <1>2, <1>3 DEF IInv

-----------------------------------------------------------------------------
(* The uploads: rows, blobs and what clients were told do not move.        *)

LEMMA UploadFrame ==
  ASSUME IInv, UNCHANGED <<serving, disk, names, call, story, returned>>, TypeOK', SealOK'
  PROVE  IInv'
<1>1. StoryOK' /\ CallOK'
  BY DEF IInv, StoryOK, Saved, Deleting, Deleted, CallOK, disk
<1> QED
  BY <1>1 DEF IInv

(* Only j has moved, the bucket and the seal have not.                     *)
LEMMA SealJob ==
  ASSUME SealOK, NEW j \in Jobs, serving,
         UNCHANGED <<serving, bucket, story, sealed>>,
         \A i \in Jobs \ {j} : /\ stage'[i] = stage[i] /\ image'[i] = image[i]
                               /\ reading'[i] = reading[i] /\ seen'[i] = seen[i],
         ImageOK(j)', SeenOK(j)'
  PROVE  SealOK'
<1>1. (sealed \subseteq Agreed)'
  BY DEF SealOK, Agreed, bucket
<1>2. ASSUME NEW i \in Jobs \ {j} PROVE (ImageOK(i) /\ SeenOK(i))'
  BY DEF SealOK, ImageOK, SeenOK
<1> QED
  BY <1>1, <1>2 DEF SealOK

(* The image is the rows, which tell of every file what its client knows.  *)
LEMMA TakeImageIInv ==
  ASSUME IInv, NEW j \in Jobs, TakeImage(j)
  PROVE  IInv'
<1> USE DEF TakeImage
<1>1. TypeOK'
  BY DEF IInv, TypeOK, disk, bucket
<1>2. ImageOK(j)'
  <2>1. image'[j] = rows /\ sealed' = sealed /\ story' = story
    BY DEF IInv, TypeOK
  <2>2. \A f \in sealed : f \in rows <=> story[f] = "saved"
    BY SealedStory DEF IInv, StoryOK, Saved, Deleted
  <2> QED
    BY <2>1, <2>2 DEF ImageOK
<1>3. SeenOK(j)'
  BY DEF IInv, SealOK, SeenOK
<1>4. SealOK'
  BY <1>2, <1>3, SealJob DEF IInv, TypeOK
<1> QED
  BY <1>1, <1>4, UploadFrame DEF IInv

LEMMA PushDatabaseIInv ==
  ASSUME IInv, NEW j \in Jobs, PushDatabase(j)
  PROVE  IInv'
<1> USE DEF PushDatabase
<1>1. serving
  BY DEF IInv, SealOK, NoJob
<1>2. TypeOK'
  BY <1>1 DEF IInv, TypeOK, Listed, disk
<1>3. stage'[j] = "files"
  BY DEF IInv, TypeOK
<1>4. (sealed \subseteq Agreed)'
  <2>1. CASE object' = object
    BY <2>1 DEF IInv, SealOK, Agreed
  <2>2. CASE object' = image[j]
    <3>1. object' # Absent
      BY <2>2, StorageAssumption DEF IInv, TypeOK
    <3>2. \A f \in sealed : f \in object' <=> story[f] = "saved"
      BY <2>2 DEF IInv, SealOK, ImageOK
    <3>3. \A f \in sealed : f \in Agreed
      BY DEF IInv, SealOK
    <3> QED
      BY <3>1, <3>2, <3>3 DEF Agreed
  <2> QED
    BY <2>1, <2>2
<1>5. ASSUME NEW i \in Jobs PROVE ImageOK(i)'
  <2>1. CASE i = j
    BY <1>3, <2>1 DEF ImageOK
  <2>2. CASE i # j
    BY <2>2 DEF IInv, TypeOK, SealOK, ImageOK
  <2> QED
    BY <2>1, <2>2
<1>6. ASSUME NEW i \in Jobs PROVE SeenOK(i)'
  BY DEF IInv, SealOK, SeenOK
<1> QED
  BY <1>1, <1>2, <1>4, <1>5, <1>6, UploadFrame DEF SealOK

(* The blob of a file that was saved is whole whenever it is read.         *)
LEMMA ReadBlobIInv ==
  ASSUME IInv, NEW j \in Jobs, NEW f \in Files, ReadBlob(j, f)
  PROVE  IInv'
<1> USE DEF ReadBlob
<1>1. serving
  BY DEF IInv, SealOK, NoJob
<1>2. TypeOK'
  BY <1>1 DEF IInv, TypeOK, disk, bucket
<1>3. ImageOK(j)'
  BY DEF IInv, SealOK, ImageOK
<1>4. SeenOK(j)'
  BY DEF IInv, TypeOK, StoryOK, Saved, SeenOK
<1>5. SealOK'
  BY <1>1, <1>3, <1>4, SealJob DEF IInv, TypeOK
<1> QED
  BY <1>2, <1>5, UploadFrame

LEMMA PutBlobIInv ==
  ASSUME IInv, NEW j \in Jobs, PutBlob(j)
  PROVE  IInv'
<1> USE DEF PutBlob
<1>1. PICK f \in Files : f = reading[j]
  BY DEF IInv, TypeOK
<1>2. remote' \in [Files -> Blob]
  BY <1>1 DEF IInv, TypeOK
<1>3. serving
  BY <1>1 DEF IInv, TypeOK, SealOK, NoJob
<1>4. TypeOK'
  BY <1>1, <1>2, <1>3 DEF IInv, TypeOK, Blob, disk
<1>5. (sealed \subseteq Agreed)'
  <2>1. \A g \in Files : remote'[g] = remote[g] \/ (g = f /\ remote'[g] = seen[j])
    BY <1>1 DEF IInv, TypeOK
  <2>2. f \in sealed /\ story[f] = "saved" => seen[j] = "whole"
    BY <1>1 DEF IInv, SealOK, SeenOK
  <2>3. \A g \in sealed : g \in Agreed
    BY DEF IInv, SealOK
  <2> QED
    BY <2>1, <2>2, <2>3 DEF Agreed
<1>6. ASSUME NEW i \in Jobs PROVE ImageOK(i)'
  BY DEF IInv, SealOK, ImageOK
<1>7. ASSUME NEW i \in Jobs PROVE SeenOK(i)'
  <2>1. CASE i = j
    <3>1. reading'[j] = None /\ sealed' = sealed
      BY DEF IInv, TypeOK
    <3>2. None \notin sealed
      BY StorageAssumption DEF IInv, TypeOK
    <3> QED
      BY <2>1, <3>1, <3>2 DEF SeenOK
  <2>2. CASE i # j
    BY <2>2 DEF IInv, TypeOK, SealOK, SeenOK
  <2> QED
    BY <2>1, <2>2
<1> QED
  BY <1>3, <1>4, <1>5, <1>6, <1>7, UploadFrame DEF SealOK

(* The last job to end finds no other that reads or carries anything, so   *)
(* what agrees then is sealed.                                             *)
LEMMA FinishIInv ==
  ASSUME IInv, NEW j \in Jobs, Finish(j)
  PROVE  IInv'
<1> USE DEF Finish
<1>1. serving /\ sealed' \subseteq Agreed
  BY DEF IInv, SealOK, NoJob
<1>2. Agreed' = Agreed /\ Agreed \subseteq Files
  BY DEF Agreed, bucket
<1>3. TypeOK'
  BY <1>1, <1>2 DEF IInv, TypeOK, disk, bucket
<1>4. ASSUME NEW i \in Jobs PROVE (ImageOK(i) /\ SeenOK(i))'
  <2>1. CASE \A k \in Jobs \ {j} : stage[k] = "idle"
    <3>1. stage'[i] = "idle"
      BY <2>1 DEF IInv, TypeOK
    <3>2. reading'[i] = None
      BY <2>1 DEF IInv, TypeOK
    <3> QED
      BY <1>1, <1>2, <3>1, <3>2, StorageAssumption DEF ImageOK, SeenOK
  <2>2. CASE ~ \A k \in Jobs \ {j} : stage[k] = "idle"
    <3>1. sealed' = sealed
      BY <2>2
    <3>2. stage'[i] = "database" => stage[i] = "database"
      BY DEF IInv, TypeOK
    <3> QED
      BY <3>1, <3>2 DEF IInv, SealOK, ImageOK, SeenOK
  <2> QED
    BY <2>1, <2>2
<1>5. SealOK'
  BY <1>1, <1>2, <1>4 DEF SealOK
<1> QED
  BY <1>3, <1>5, UploadFrame

-----------------------------------------------------------------------------
(* Crash and start.                                                        *)

LEMMA CrashIInv == IInv /\ Crash => IInv'
<1> SUFFICES ASSUME IInv, Crash PROVE IInv'
  OBVIOUS
<1> USE DEF Crash, disk, bucket
<1>1. \A f \in Files : story'[f] = IF story[f] = "saving" THEN "lost" ELSE story[f]
  OBVIOUS
<1>2. story' \in [Files -> {"new", "saving", "saved", "deleting", "deleted", "lost"}]
  BY DEF IInv, TypeOK
<1>3. Agreed' = Agreed
  BY <1>1 DEF Agreed
<1>4. TypeOK'
  BY <1>2 DEF IInv, TypeOK, NoUploads, Calls, Blob, Agreed
<1>5. StoryOK' /\ CallOK'
  BY <1>1, CallFacts DEF IInv, StoryOK, Saved, Deleting, Deleted, CallOK
<1>6. SealOK'
  <2>1. (sealed \subseteq Agreed)'
    BY <1>3 DEF IInv, SealOK
  <2>2. \A j \in Jobs : stage'[j] = "idle" /\ reading'[j] = None
    BY DEF NoUploads
  <2>3. None \notin sealed'
    BY <2>1, StorageAssumption DEF Agreed
  <2> QED
    BY <2>1, <2>2, <2>3 DEF SealOK, NoJob, ImageOK, SeenOK
<1> QED
  BY <1>4, <1>5, <1>6 DEF IInv

(* A start finds no upload, and a bucket that stays as it is.              *)
LEMMA SealStart ==
  ASSUME TypeOK, SealOK, NoJob, serving', UNCHANGED <<bucket, uploads>>,
         sealed' \subseteq sealed, \A f \in sealed' : story'[f] = story[f]
  PROVE  SealOK'
<1>1. (sealed \subseteq Agreed)'
  BY DEF SealOK, Agreed, bucket
<1>2. \A j \in Jobs : stage'[j] = "idle" /\ reading'[j] = None
  BY DEF TypeOK, NoJob, uploads
<1>3. None \notin sealed'
  BY <1>1, StorageAssumption DEF Agreed
<1> QED
  BY <1>1, <1>2, <1>3 DEF SealOK, ImageOK, SeenOK

(* A start on a kept disk changes nothing that was told; on an empty one   *)
(* only the sealed files stand, if they could be fetched.                  *)
LEMMA StartIInv ==
  ASSUME IInv, NEW wiped \in BOOLEAN, NEW found \in BOOLEAN, NEW fetched \in SUBSET Files,
         Start(wiped, found, fetched)
  PROVE  IInv'
<1> DEFINE missing == {f \in Files : wiped \/ blobs[f] = "none"}
           offered == {f \in missing : remote[f] # "none"}
           kept == {f \in Files : IF wiped THEN f \in sealed /\ found /\ f \notin offered \ fetched
                                           ELSE TRUE}
<1>1. /\ ~serving /\ serving' = TRUE
      /\ fetched \subseteq offered
      /\ rows' = Restored(wiped, found)
      /\ blobs' = [f \in Files |-> IF f \in fetched THEN remote[f]
                                   ELSE IF wiped THEN "none" ELSE blobs[f]]
      /\ returned' = (IF wiped THEN {} ELSE returned) \cup fetched
      /\ story' = [f \in Files |-> IF f \in kept \/ story[f] = "new" THEN story[f] ELSE "lost"]
      /\ sealed' = {f \in sealed : f \in kept}
      /\ slug' \in Slugs /\ held' = {slug'}
      /\ UNCHANGED <<home, call, bucket, uploads>>
  BY DEF Start, IInv, TypeOK
<1>2. NoJob /\ sealed \subseteq Agreed /\ call = Idle
  BY <1>1 DEF IInv, TypeOK, SealOK
<1>3. rows' \in SUBSET Files
  BY <1>1 DEF IInv, TypeOK, Restored
<1>4. TypeOK'
  BY <1>1, <1>3 DEF IInv, TypeOK, bucket, uploads, Blob
<1>5. CASE ~wiped
  <2>1. \A f \in Files : story'[f] = story[f]
    BY <1>1, <1>5 DEF IInv, TypeOK
  <2>2. rows' = rows
    BY <1>1, <1>5 DEF Restored
  <2>3. \A f \in Files : \/ blobs'[f] = blobs[f]
                         \/ blobs[f] = "none" /\ f \in returned'
    BY <1>1, <1>5
  <2>4. returned \subseteq returned'
    BY <1>1, <1>5
  <2>5. StoryOK'
    BY <2>1, <2>2, <2>3, <2>4 DEF IInv, StoryOK, Saved, Deleting, Deleted
  <2>6. sealed' \subseteq sealed
    BY <1>1
  <2>7. SealOK'
    BY <1>1, <1>2, <2>1, <2>6, SealStart DEF IInv, TypeOK
  <2> QED
    BY <1>1, <1>2, <1>4, <2>5, <2>7, CallFacts DEF IInv, CallOK
<1>6. CASE wiped
  <2>1. ASSUME NEW f \in Files, story'[f] \in {"saved", "deleting", "deleted"}
        PROVE  f \in sealed /\ found /\ (f \in offered => f \in fetched) /\ story'[f] = story[f]
    BY <1>1, <1>6, <2>1
  <2>2. ASSUME NEW f \in Files PROVE Saved(f)'
    <3> SUFFICES ASSUME story'[f] = "saved" PROVE f \in rows' /\ blobs'[f] = "whole"
      BY DEF Saved
    <3>1. f \in Agreed /\ story[f] = "saved" /\ found
      BY <1>2, <2>1
    <3>2. remote[f] = "whole" /\ object # Absent /\ f \in object
      BY <3>1 DEF Agreed
    <3>3. f \in fetched
      BY <1>6, <2>1, <3>2
    <3> QED
      BY <1>1, <1>6, <3>1, <3>2, <3>3 DEF Restored
  <2>3. ASSUME NEW f \in Files PROVE Deleting(f)'
    BY <2>1, SealedStory DEF Deleting, IInv
  <2>4. ASSUME NEW f \in Files PROVE Deleted(f)'
    <3> SUFFICES ASSUME story'[f] = "deleted"
                 PROVE  f \notin rows' /\ (f \in returned' \/ blobs'[f] = "none")
      BY DEF Deleted
    <3>1. f \in Agreed /\ story[f] = "deleted"
      BY <1>2, <2>1
    <3>2. object = Absent \/ f \notin object
      BY <3>1 DEF Agreed
    <3> QED
      BY <1>1, <1>6, <3>2 DEF Restored
  <2>5. sealed' \subseteq sealed /\ \A f \in sealed' : story'[f] = story[f]
    BY <1>1 DEF IInv, TypeOK
  <2>6. SealOK'
    BY <1>1, <1>2, <2>5, SealStart DEF IInv
  <2> QED
    BY <1>1, <1>2, <1>4, <2>2, <2>3, <2>4, <2>6, CallFacts DEF IInv, StoryOK, CallOK
<1> QED
  BY <1>5, <1>6

-----------------------------------------------------------------------------
LEMMA NextIInv == IInv /\ [Next]_vars => IInv'
<1> SUFFICES ASSUME IInv, [Next]_vars PROVE IInv'
  OBVIOUS
<1>1. CASE Handler
  BY <1>1, RenameIInv, SaveIInv, DeleteIInv, WriteDoneIInv, LostIInv, InsertRowIInv, DeleteRowIInv,
     DeleteRowFailsIInv DEF Handler
<1>2. CASE Process
  BY <1>2, CrashIInv, StartIInv DEF Process
<1>3. ASSUME NEW j \in Jobs, Upload(j) PROVE IInv'
  BY <1>3, TakeImageIInv, PushDatabaseIInv, ReadBlobIInv, PutBlobIInv, FinishIInv DEF Upload
<1>4. CASE UNCHANGED vars
  BY <1>4 DEF vars, disk, bucket, uploads, IInv, TypeOK, StoryOK, Saved, Deleting, Deleted,
              CallOK, SealOK, NoJob, ImageOK, SeenOK, Agreed
<1> QED
  BY <1>1, <1>2, <1>3, <1>4 DEF Next

LEMMA SpecIInv == Spec => []IInv
BY InitIInv, NextIInv, PTL DEF Spec

(* The state keeps its shape, no handler outlives its process.             *)
THEOREM TypeCorrect == Spec => []TypeOK
<1>1. IInv => TypeOK
  BY DEF IInv
<1> QED
  BY <1>1, SpecIInv, PTL

(* What was answered 200 can be downloaded, through crashes on a kept disk *)
(* and through a start on an empty one from a sealed bucket.               *)
THEOREM SavedStays == Spec => []SavedReadable
<1>1. IInv => SavedReadable
  BY DEF IInv, StoryOK, Saved, SavedReadable, Downloaded
<1> QED
  BY <1>1, SpecIInv, PTL

(* What was deleted cannot, whatever the bucket still holds.               *)
THEOREM DeletedStays == Spec => []DeletedUnreadable
<1>1. IInv => DeletedUnreadable
  BY DEF IInv, StoryOK, Deleted, DeletedUnreadable
<1> QED
  BY <1>1, SpecIInv, PTL

(* The order of delete: what stops half-way can be repeated, and what is   *)
(* done leaves no blob without its row.                                    *)
THEOREM RecoverableDelete == Spec => []DeleteRecoverable
<1>1. IInv => DeleteRecoverable
  BY DEF IInv, StoryOK, Deleted, Deleting, DeleteRecoverable
<1> QED
  BY <1>1, SpecIInv, PTL

-----------------------------------------------------------------------------
(* File storage implements FileService.  A step that no client can tell is *)
(* a stutter; for the others the inductive invariant has to say also what  *)
(* has not happened yet: nothing lists a file before its upload is         *)
(* answered, and only the running handler is about to answer.              *)

Unlisted(f) ==
  story[f] \in {"new", "saving"} =>
    /\ f \notin rows
    /\ object = Absent \/ f \notin object
    /\ \A j \in Jobs : f \notin image[j]

Answering(f) == story[f] = "saving" => call.op \in {"write", "insert"} /\ call.file = f

FreshOK == \A f \in Files : Unlisted(f) /\ Answering(f)

RInv == IInv /\ FreshOK

LEMMA InitFresh == Init => FreshOK
BY DEF Init, NoUploads, FreshOK, Unlisted, Answering

LEMMA RenameFresh ==
  ASSUME RInv, NEW s \in Slugs, Rename(s)
  PROVE  FreshOK'
BY DEF Rename, disk, bucket, uploads, RInv, FreshOK, Unlisted, Answering

LEMMA SaveFresh ==
  ASSUME RInv, NEW f \in Files, NEW s \in Slugs, Save(f, s)
  PROVE  FreshOK'
<1> USE DEF Save, bucket, uploads
<1>1. \A g \in Files : story'[g] = IF g = f THEN "saving" ELSE story[g]
  BY DEF RInv, IInv, TypeOK
<1>2. \A g \in Files : story[g] # "saving"
  BY CallFacts DEF RInv, FreshOK, Answering
<1>3. call'.op = "write" /\ call'.file = f
  OBVIOUS
<1>4. ASSUME NEW g \in Files PROVE Answering(g)'
  BY <1>1, <1>2, <1>3 DEF Answering
<1>5. ASSUME NEW g \in Files PROVE Unlisted(g)'
  BY <1>1 DEF RInv, FreshOK, Unlisted
<1> QED
  BY <1>4, <1>5 DEF FreshOK

LEMMA HandlerFresh ==
  ASSUME RInv, WriteDone \/ WriteFails \/ InsertRow \/ InsertFails
  PROVE  FreshOK'
<1> USE DEF bucket, uploads
<1>1. PICK f \in Files : f = call.file
  BY CallFacts DEF RInv, IInv, TypeOK, WriteDone, WriteFails, InsertRow, InsertFails
<1>2. UNCHANGED <<object, image>>
  BY DEF WriteDone, WriteFails, InsertRow, InsertFails
<1>3. \A g \in Files : story'[g] = story[g] \/ (g = f /\ story'[g] \in {"saved", "lost"})
  BY <1>1 DEF RInv, IInv, TypeOK, WriteDone, WriteFails, InsertRow, InsertFails
<1>4. rows' = rows \/ (rows' = rows \cup {f} /\ story'[f] = "saved")
  BY <1>1 DEF RInv, IInv, TypeOK, WriteDone, WriteFails, InsertRow, InsertFails
<1>5. ASSUME NEW g \in Files PROVE Unlisted(g)'
  BY <1>2, <1>3, <1>4 DEF RInv, FreshOK, Unlisted
<1>6. ASSUME NEW g \in Files PROVE Answering(g)'
  <2>1. CASE WriteDone
    <3>1. call'.op = "insert" /\ call'.file = call.file
      BY <2>1 DEF WriteDone, RInv, IInv, TypeOK, Calls, Idle
    <3> QED
      BY <2>1, <3>1 DEF WriteDone, RInv, FreshOK, Answering
  <2>2. CASE ~WriteDone
    <3>1. story'[f] # "saving"
      BY <1>1, <2>2 DEF RInv, IInv, TypeOK, WriteFails, InsertRow, InsertFails
    <3>2. story[g] = "saving" => g = f
      BY <1>1 DEF RInv, FreshOK, Answering
    <3> QED
      BY <1>3, <3>1, <3>2 DEF Answering
  <2> QED
    BY <2>1, <2>2
<1> QED
  BY <1>5, <1>6 DEF FreshOK

LEMMA DeleteFresh ==
  ASSUME RInv, (\E f \in Files : Delete(f)) \/ DeleteRow \/ DeleteRowFails
  PROVE  FreshOK'
<1> USE DEF bucket, disk, uploads
<1>1. \A g \in Files : story[g] # "saving"
  BY CallFacts DEF RInv, FreshOK, Answering, Delete, DeleteRow, DeleteRowFails
<1>2. PICK f \in Files : /\ story' = [story EXCEPT ![f] = "deleting"] \/
                            story' = [story EXCEPT ![f] = "deleted"] \/ story' = story
                         /\ rows' \subseteq rows
                         /\ UNCHANGED <<object, image>>
  BY CallFacts DEF RInv, IInv, TypeOK, Delete, DeleteRow, DeleteRowFails
<1>3. \A g \in Files : story'[g] = story[g] \/ story'[g] \in {"deleting", "deleted"}
  BY <1>2 DEF RInv, IInv, TypeOK
<1>4. ASSUME NEW g \in Files PROVE Unlisted(g)'
  BY <1>2, <1>3 DEF RInv, FreshOK, Unlisted
<1>5. ASSUME NEW g \in Files PROVE Answering(g)'
  BY <1>1, <1>3 DEF Answering
<1> QED
  BY <1>4, <1>5 DEF FreshOK

(* An upload carries into the bucket what was listed, a start brings back  *)
(* what the bucket or the disk has.                                        *)
LEMMA UploadFresh ==
  ASSUME RInv, NEW j \in Jobs, Upload(j)
  PROVE  FreshOK'
<1> USE DEF disk, bucket, Upload, TakeImage, PushDatabase, ReadBlob, PutBlob, Finish
<1>1. UNCHANGED <<rows, call, story>>
  OBVIOUS
<1>2. object' = object \/ object' = image[j]
  OBVIOUS
<1>3. \A i \in Jobs : image'[i] \in {image[i], rows, {}}
  BY DEF RInv, IInv, TypeOK
<1>4. ASSUME NEW g \in Files PROVE Unlisted(g)'
  BY <1>1, <1>2, <1>3 DEF RInv, FreshOK, Unlisted
<1>5. ASSUME NEW g \in Files PROVE Answering(g)'
  BY <1>1 DEF RInv, FreshOK, Answering
<1> QED
  BY <1>4, <1>5 DEF FreshOK

LEMMA CrashFresh == RInv /\ Crash => FreshOK'
<1> SUFFICES ASSUME RInv, Crash PROVE FreshOK'
  OBVIOUS
<1>1. \A f \in Files : story'[f] = IF story[f] = "saving" THEN "lost" ELSE story[f]
  BY DEF Crash
<1>2. \A j \in Jobs : image'[j] = {}
  BY DEF Crash, NoUploads
<1>3. UNCHANGED <<rows, object>>
  BY DEF Crash, disk, bucket
<1> QED
  BY <1>1, <1>2, <1>3 DEF RInv, FreshOK, Unlisted, Answering

LEMMA StartFresh ==
  ASSUME RInv, NEW wiped \in BOOLEAN, NEW found \in BOOLEAN, NEW fetched \in SUBSET Files,
         Start(wiped, found, fetched)
  PROVE  FreshOK'
<1>1. \A f \in Files : story'[f] \in {story[f], "lost"}
  BY DEF Start
<1>2. rows' = Restored(wiped, found) /\ UNCHANGED <<object, image>>
  BY DEF Start, bucket, uploads
<1>3. \A f \in Files : story[f] # "saving"
  BY CallFacts DEF RInv, IInv, TypeOK, FreshOK, Answering, Start
<1>4. ASSUME NEW f \in Files PROVE Unlisted(f)'
  BY <1>1, <1>2 DEF RInv, FreshOK, Unlisted, Restored
<1>5. ASSUME NEW f \in Files PROVE Answering(f)'
  BY <1>1, <1>3 DEF Answering
<1> QED
  BY <1>4, <1>5 DEF FreshOK

LEMMA NextRInv == RInv /\ [Next]_vars => RInv'
<1> SUFFICES ASSUME RInv, [Next]_vars PROVE FreshOK'
  BY NextIInv DEF RInv
<1>1. CASE Handler
  BY <1>1, RenameFresh, SaveFresh, HandlerFresh, DeleteFresh DEF Handler
<1>2. CASE Process
  BY <1>2, CrashFresh, StartFresh DEF Process
<1>3. ASSUME NEW j \in Jobs, Upload(j) PROVE FreshOK'
  BY <1>3, UploadFresh
<1>4. CASE UNCHANGED vars
  BY <1>4 DEF vars, disk, bucket, uploads, RInv, FreshOK, Unlisted, Answering
<1> QED
  BY <1>1, <1>2, <1>3, <1>4 DEF Next

LEMMA SpecRInv == Spec => []RInv
<1>1. Init => RInv
  BY InitIInv, InitFresh DEF RInv
<1> QED
  BY <1>1, NextRInv, PTL DEF Spec

Stutter == UNCHANGED Service!svars

Listing == [f \in Files |-> Shown(f)]

LEMMA ListingKept ==
  ASSUME UNCHANGED <<serving, rows, story, sealed, names>>,
         \A f \in Files : f \in rows => blobs'[f] = blobs[f]
  PROVE  Stutter
<1>1. \A f \in Files : Shown(f)' = Shown(f)
  BY DEF Shown
<1>2. Listing' = Listing
  BY <1>1 DEF Listing
<1> QED
  BY <1>2 DEF Stutter, Service!svars, Listing

(* One file is shown differently.                                          *)
LEMMA ListingChanged ==
  ASSUME NEW f \in Files, NEW what, Shown(f)' = what,
         \A g \in Files \ {f} : (g \in rows' <=> g \in rows) /\ blobs'[g] = blobs[g]
  PROVE  Listing' = [Listing EXCEPT ![f] = what]
<1>1. \A g \in Files : Shown(g)' = IF g = f THEN what ELSE Shown(g)
  BY DEF Shown
<1> QED
  BY <1>1 DEF Listing

LEMMA RenameMaps ==
  ASSUME NEW s \in Slugs, Rename(s)
  PROVE  Service!Rename(s)
<1>1. Listing' = Listing
  BY DEF Rename, disk, Listing, Shown
<1> QED
  BY <1>1 DEF Rename, Service!Rename, Listing

LEMMA SaveMaps ==
  ASSUME RInv, NEW f \in Files, NEW s \in Slugs, Save(f, s)
  PROVE  Service!Upload(f, s)
<1>1. \A g \in Files : Shown(g)' = Shown(g)
  BY DEF RInv, IInv, TypeOK, FreshOK, Unlisted, Save, Shown
<1>2. Listing' = Listing
  BY <1>1 DEF Listing
<1> QED
  BY <1>2 DEF Service!Upload, Service!Tell, Save, Listing

LEMMA WriteDoneMaps ==
  ASSUME RInv, WriteDone
  PROVE  Stutter
<1>1. PICK f \in Files : f = call.file /\ story[f] = "saving"
  BY CallFacts DEF RInv, IInv, TypeOK, CallOK, WriteDone
<1>2. \A g \in Files : g \in rows => blobs'[g] = blobs[g]
  BY <1>1 DEF RInv, IInv, TypeOK, FreshOK, Unlisted, WriteDone
<1> QED
  BY <1>2, ListingKept DEF WriteDone

LEMMA LostMaps ==
  ASSUME RInv, WriteFails \/ InsertFails
  PROVE  \E f \in Files : Service!Reject(f)
<1>1. PICK f \in Files, b \in Blob :
        /\ f = call.file /\ story[f] = "saving"
        /\ blobs' = [blobs EXCEPT ![f] = b]
        /\ story' = [story EXCEPT ![f] = "lost"]
        /\ UNCHANGED <<serving, rows, sealed, names>>
  BY CallFacts DEF RInv, IInv, TypeOK, CallOK, WriteFails, InsertFails, Blob
<1>2. \A g \in Files : Shown(g)' = Shown(g)
  BY <1>1 DEF RInv, IInv, TypeOK, FreshOK, Unlisted, Shown
<1>3. Listing' = Listing
  BY <1>2 DEF Listing
<1>4. Service!Reject(f)
  BY <1>1, <1>3 DEF Service!Reject, Service!Tell, Listing
<1> QED
  BY <1>4

LEMMA InsertRowMaps ==
  ASSUME RInv, InsertRow
  PROVE  \E f \in Files : Service!Accept(f)
<1>1. PICK f \in Files : f = call.file /\ story[f] = "saving" /\ blobs[f] = "whole"
  BY CallFacts DEF RInv, IInv, TypeOK, CallOK, InsertRow
<1>2. Listing' = [Listing EXCEPT ![f] = "whole"]
  <2>1. Shown(f)' = "whole"
    BY <1>1 DEF InsertRow, Shown
  <2> QED
    BY <1>1, <2>1, ListingChanged DEF InsertRow
<1>3. Service!Accept(f)
  BY <1>1, <1>2 DEF InsertRow, Service!Accept, Service!Tell, Service!Show, Listing
<1> QED
  BY <1>3

LEMMA DeleteMaps ==
  ASSUME RInv, NEW f \in Files, Delete(f)
  PROVE  Service!Remove(f)
<1>1. story[f] \in {"saved", "deleting", "lost"}
  <2>1. story[f] \notin {"new", "saving"}
    BY DEF RInv, FreshOK, Unlisted, Delete
  <2>2. story[f] # "deleted"
    BY DEF RInv, IInv, StoryOK, Deleted, Delete
  <2> QED
    BY <2>1, <2>2 DEF RInv, IInv, TypeOK
<1>2. Shown(f) # "absent"
  BY DEF RInv, IInv, TypeOK, Blob, Delete, Shown
<1>3. Listing[f] # "absent"
  BY <1>2 DEF Listing
<1>4. Listing' = [Listing EXCEPT ![f] = "none"]
  <2>1. Shown(f)' = "none"
    BY DEF RInv, IInv, TypeOK, Delete, Shown
  <2>2. \A g \in Files \ {f} : (g \in rows' <=> g \in rows) /\ blobs'[g] = blobs[g]
    BY DEF RInv, IInv, TypeOK, Delete
  <2> QED
    BY <2>1, <2>2, ListingChanged
<1> QED
  BY <1>1, <1>3, <1>4 DEF Delete, Service!Remove, Service!Tell, Service!Show, Listing

LEMMA DeleteRowMaps ==
  ASSUME RInv, DeleteRow
  PROVE  \E f \in Files : Service!Removed(f)
<1>1. PICK f \in Files : f = call.file /\ story[f] = "deleting"
  BY CallFacts DEF RInv, IInv, TypeOK, CallOK, DeleteRow
<1>2. Listing' = [Listing EXCEPT ![f] = "absent"]
  <2>1. Shown(f)' = "absent"
    BY <1>1 DEF DeleteRow, Shown
  <2> QED
    BY <1>1, <2>1, ListingChanged DEF DeleteRow
<1>3. Service!Removed(f)
  BY <1>1, <1>2 DEF DeleteRow, Service!Removed, Service!Tell, Service!Show, Listing
<1> QED
  BY <1>3

(* What agrees when the last upload ends is what the service calls safe.   *)
LEMMA AgreedSecured ==
  ASSUME sealed' = sealed \cup Agreed \/ sealed' = sealed
  PROVE  Service!Secured
<1> DEFINE Settled == {f \in Files : story[f] \in {"saved", "deleted"}}
<1>1. Agreed \in SUBSET Settled /\ {} \in SUBSET Settled
  BY DEF Agreed
<1>2. \E S \in SUBSET Settled : sealed' = sealed \cup S
  BY <1>1
<1> QED
  BY <1>2 DEF Service!Secured

LEMMA UploadMaps ==
  ASSUME RInv, NEW j \in Jobs, Upload(j)
  PROVE  Service!Settle \/ Stutter
<1>1. CASE Finish(j)
  <2>1. sealed' = sealed \cup Agreed \/ sealed' = sealed
    BY <1>1 DEF Finish
  <2>2. UNCHANGED <<serving, rows, blobs, story, names>>
    BY <1>1 DEF Finish, disk
  <2>3. Listing' = Listing
    BY <2>2 DEF Listing, Shown
  <2> QED
    BY <2>1, <2>2, <2>3, AgreedSecured DEF Service!Settle, Listing
<1>2. CASE ~Finish(j)
  <2>1. UNCHANGED <<serving, rows, blobs, story, sealed, names>>
    BY <1>2 DEF Upload, TakeImage, PushDatabase, ReadBlob, PutBlob, disk
  <2> QED
    BY <2>1, ListingKept
<1> QED
  BY <1>1, <1>2

LEMMA CrashMaps ==
  ASSUME Crash
  PROVE  Service!Stop
<1>1. Listing' = Listing
  BY DEF Crash, disk, Listing, Shown
<1>2. Service!Secured
  BY AgreedSecured DEF Crash
<1> QED
  BY <1>1, <1>2 DEF Crash, Service!Stop, Listing

LEMMA StartMaps ==
  ASSUME RInv, NEW wiped \in BOOLEAN, NEW found \in BOOLEAN, NEW fetched \in SUBSET Files,
         Start(wiped, found, fetched)
  PROVE  \E kept \in SUBSET Files : Service!Start(kept)
<1> DEFINE missing == {f \in Files : wiped \/ blobs[f] = "none"}
           offered == {f \in missing : remote[f] # "none"}
           kept == {f \in Files : IF wiped THEN f \in sealed /\ found /\ f \notin offered \ fetched
                                           ELSE TRUE}
           stays == kept \cup {f \in Files : story[f] = "new"}
<1>1. /\ ~serving /\ serving' = TRUE
      /\ fetched \subseteq offered
      /\ rows' = Restored(wiped, found)
      /\ blobs' = [f \in Files |-> IF f \in fetched THEN remote[f]
                                   ELSE IF wiped THEN "none" ELSE blobs[f]]
      /\ story' = [f \in Files |-> IF f \in kept \/ story[f] = "new" THEN story[f] ELSE "lost"]
      /\ sealed' = {f \in sealed : f \in kept}
      /\ slug' \in Slugs /\ (~wiped => slug' = slug) /\ held' = {slug'} /\ home' = home
  BY DEF Start, RInv, IInv, TypeOK
<1>2. (kept = Files /\ slug' = slug) \/ kept \subseteq sealed
  BY <1>1
<1>3. story' = [f \in Files |-> IF f \in stays THEN story[f] ELSE "lost"]
  BY <1>1
<1>4. sealed' = sealed \cap kept
  BY <1>1
<1>5. TypeOK'
  BY StartIInv DEF RInv, IInv
<1>6. Listing' \in [Files -> {"absent", "none", "partial", "whole"}]
  BY <1>5 DEF Listing, Shown, TypeOK, Blob
<1>7. ASSUME NEW f \in stays
      PROVE  Listing'[f] = Listing[f] \/ (Listing[f] = "none" /\ Listing'[f] # "absent")
  <2>1. f \in Files
    OBVIOUS
  <2>2. Listing[f] = Shown(f) /\ Listing'[f] = Shown(f)'
    BY <2>1 DEF Listing
  <2>3. CASE story[f] = "new"
    <3>1. f \notin rows
      BY <2>1, <2>3 DEF RInv, FreshOK, Unlisted
    <3>2. f \notin rows'
      BY <1>1, <2>1, <2>3, <3>1 DEF RInv, FreshOK, Unlisted, Restored
    <3> QED
      BY <2>2, <3>1, <3>2 DEF Shown
  <2>4. CASE ~wiped
    <3>1. rows' = rows
      BY <1>1, <2>4 DEF Restored
    <3>2. \/ blobs'[f] = blobs[f]
          \/ blobs[f] = "none" /\ blobs'[f] # "none"
      BY <1>1, <2>1, <2>4
    <3>3. blobs'[f] # "absent"
      BY <1>5, <2>1 DEF TypeOK, Blob
    <3> QED
      BY <2>2, <3>1, <3>2, <3>3 DEF Shown
  <2>5. CASE wiped /\ story[f] # "new"
    <3>1. f \in sealed /\ found /\ story'[f] = story[f]
      BY <1>3, <2>5
    <3>2. IInv'
      BY StartIInv DEF RInv
    <3>3. story[f] \in {"saved", "deleted"}
      BY <3>1, SealedStory DEF RInv, IInv
    <3>4. story[f] = "saved" => Shown(f) = "whole" /\ Shown(f)' = "whole"
      BY <2>1, <3>1, <3>2 DEF RInv, IInv, StoryOK, Saved, Shown
    <3>5. story[f] = "deleted" => Shown(f) = "absent" /\ Shown(f)' = "absent"
      BY <2>1, <3>1, <3>2 DEF RInv, IInv, StoryOK, Deleted, Shown
    <3> QED
      BY <2>2, <3>3, <3>4, <3>5
  <2> QED
    BY <2>3, <2>4, <2>5
<1>8. Service!Start(kept)
  BY <1>1, <1>2, <1>3, <1>4, <1>6, <1>7 DEF Service!Start, Listing
<1> QED
  BY <1>8

LEMMA InitMaps == Init => Service!Init
BY DEF Init, Service!Init, Shown

LEMMA NextMaps ==
  ASSUME RInv, [Next]_vars
  PROVE  [Service!Next]_(Service!svars)
<1>1. CASE Handler
  <2>0. ASSUME NEW s \in Slugs, Rename(s) PROVE Service!Next
    BY <2>0, RenameMaps DEF Service!Next
  <2>1. ASSUME NEW f \in Files, NEW s \in Slugs, Save(f, s) PROVE Service!Next
    BY <2>1, SaveMaps DEF Service!Next
  <2>2. ASSUME NEW f \in Files, Delete(f) PROVE Service!Next
    BY <2>2, DeleteMaps DEF Service!Next
  <2>3. CASE WriteDone
    BY <2>3, WriteDoneMaps DEF Stutter
  <2>4. CASE WriteFails \/ InsertFails
    BY <2>4, LostMaps DEF Service!Next
  <2>5. CASE InsertRow
    BY <2>5, InsertRowMaps DEF Service!Next
  <2>6. CASE DeleteRow
    BY <2>6, DeleteRowMaps DEF Service!Next
  <2>7. CASE DeleteRowFails
    <3>1. Stutter
      BY <2>7, ListingKept DEF DeleteRowFails, disk
    <3> QED
      BY <3>1 DEF Stutter
  <2> QED
    BY <1>1, <2>0, <2>1, <2>2, <2>3, <2>4, <2>5, <2>6, <2>7 DEF Handler
<1>2. CASE Process
  BY <1>2, CrashMaps, StartMaps DEF Process, Service!Next
<1>3. ASSUME NEW j \in Jobs, Upload(j) PROVE [Service!Next]_(Service!svars)
  BY <1>3, UploadMaps DEF Service!Next, Stutter
<1>4. CASE UNCHANGED vars
  <2>1. Stutter
    BY <1>4, ListingKept DEF vars, disk
  <2> QED
    BY <2>1 DEF Stutter
<1> QED
  BY <1>1, <1>2, <1>3, <1>4 DEF Next

(* Every behaviour of file storage, with any number of files and upload    *)
(* threads, is one of the service: what clients are told and shown can be  *)
(* relied on without knowing of blobs, rows, uploads or the bucket.        *)
THEOREM ImplementsService == Spec => StorageService
<1>1. Init => Service!Init
  BY InitMaps
<1>2. RInv /\ [Next]_vars => [Service!Next]_(Service!svars)
  BY NextMaps
<1> QED
  BY <1>1, <1>2, SpecRInv, PTL DEF Spec, StorageService, Service!Spec

-----------------------------------------------------------------------------
(* What the service promises of a file, in its own terms.                  *)

Promise(f) ==
  /\ story[f] \in {"new", "saving"} => Listing[f] = "absent"
  /\ story[f] = "saved" => Listing[f] = "whole"
  /\ story[f] = "deleting" => Listing[f] # "absent"
  /\ story[f] = "deleted" => Listing[f] = "absent"

Promises ==
  /\ \A f \in Files : Promise(f)
  /\ \A f \in sealed : story[f] \in {"saved", "deleted"}

LEMMA PromisesStep ==
  ASSUME TypeOK, TypeOK', Promises, [Service!Next]_(Service!svars)
  PROVE  Promises'
<1> USE DEF Promises, Promise
<1>0. story \in [Files -> {"new", "saving", "saved", "deleting", "deleted", "lost"}]
      /\ sealed \subseteq Files
  BY DEF TypeOK
<1>00. Listing = [f \in Files |-> Shown(f)]
  BY DEF Listing
<1>10. CASE \E s \in Slugs : Service!Rename(s)
  <2>1. Listing' = Listing /\ story' = story /\ sealed' = sealed
    BY <1>10 DEF Service!Rename, Listing
  <2> QED
    BY <2>1
<1>1. ASSUME NEW f \in Files, NEW s \in Slugs, Service!Upload(f, s) PROVE Promises'
  <2>1. Listing' = Listing /\ sealed' = sealed /\ story[f] = "new"
        /\ story' = [story EXCEPT ![f] = "saving"]
    BY <1>1 DEF Service!Upload, Service!Tell, Listing
  <2> QED
    BY <1>0, <2>1
<1>2. ASSUME NEW f \in Files, Service!Accept(f) PROVE Promises'
  <2>1. /\ Listing' = [Listing EXCEPT ![f] = "whole"] /\ sealed' = sealed
        /\ story[f] = "saving" /\ story' = [story EXCEPT ![f] = "saved"]
    BY <1>2 DEF Service!Accept, Service!Tell, Service!Show, Listing
  <2> QED
    BY <1>0, <1>00, <2>1
<1>3. ASSUME NEW f \in Files, Service!Reject(f) PROVE Promises'
  <2>1. Listing' = Listing /\ sealed' = sealed /\ story[f] = "saving"
        /\ story' = [story EXCEPT ![f] = "lost"]
    BY <1>3 DEF Service!Reject, Service!Tell, Listing
  <2> QED
    BY <1>0, <2>1
<1>4. ASSUME NEW f \in Files, Service!Remove(f) PROVE Promises'
  <2>1. /\ Listing' = [Listing EXCEPT ![f] = "none"] /\ sealed' = sealed \ {f}
        /\ story' = [story EXCEPT ![f] = "deleting"]
    BY <1>4 DEF Service!Remove, Service!Tell, Service!Show, Listing
  <2> QED
    BY <1>0, <1>00, <2>1
<1>5. ASSUME NEW f \in Files, Service!Removed(f) PROVE Promises'
  <2>1. /\ Listing' = [Listing EXCEPT ![f] = "absent"] /\ sealed' = sealed
        /\ story[f] = "deleting" /\ story' = [story EXCEPT ![f] = "deleted"]
    BY <1>5 DEF Service!Removed, Service!Tell, Service!Show, Listing
  <2> QED
    BY <1>0, <1>00, <2>1
<1>6. CASE Service!Settle
  <2>1. Listing' = Listing /\ story' = story
    BY <1>6 DEF Service!Settle, Listing
  <2>2. \A f \in sealed' : f \in sealed \/ story[f] \in {"saved", "deleted"}
    BY <1>6 DEF Service!Settle, Service!Secured
  <2> QED
    BY <2>1, <2>2
<1>7. CASE Service!Stop
  <2>1. Listing' = Listing
        /\ story' = [f \in Files |-> IF story[f] = "saving" THEN "lost" ELSE story[f]]
    BY <1>7 DEF Service!Stop, Listing
  <2>2. \A f \in sealed' : f \in Files /\ (f \in sealed \/ story[f] \in {"saved", "deleted"})
    BY <1>0, <1>7 DEF Service!Stop, Service!Secured
  <2> QED
    BY <2>1, <2>2
<1>8. ASSUME NEW kept \in SUBSET Files, Service!Start(kept) PROVE Promises'
  <2> DEFINE stays == kept \cup {f \in Files : story[f] = "new"}
  <2>1. /\ story' = [f \in Files |-> IF f \in stays THEN story[f] ELSE "lost"]
        /\ \A f \in stays : \/ Listing'[f] = Listing[f]
                            \/ Listing[f] = "none" /\ Listing'[f] # "absent"
        /\ sealed' = sealed \cap kept
    BY <1>8 DEF Service!Start, Listing
  <2> QED
    BY <1>0, <2>1
<1>9. CASE UNCHANGED Service!svars
  <2>1. Listing' = Listing /\ story' = story /\ sealed' = sealed
    BY <1>9 DEF Service!svars, Listing
  <2> QED
    BY <2>1
<1> QED
  BY <1>1, <1>2, <1>3, <1>4, <1>5, <1>6, <1>7, <1>8, <1>9, <1>10 DEF Service!Next

(* Whoever relies on FileService may rely on its answers: a file that was  *)
(* saved downloads whole, a deleted one has no row.                        *)
THEOREM ServiceSuffices == []TypeOK /\ StorageService => [](SavedReadable /\ DeletedUnreadable)
<1>1. Service!Init => Promises
  BY DEF Service!Init, Promises, Promise, Listing
<1>2. TypeOK /\ TypeOK' /\ Promises /\ [Service!Next]_(Service!svars) => Promises'
  BY PromisesStep
<1>3. TypeOK /\ Promises => SavedReadable /\ DeletedUnreadable
  BY DEF TypeOK, Blob, Promises, Promise, Listing, Shown, SavedReadable, DeletedUnreadable,
         Downloaded
<1> QED
  BY <1>1, <1>2, <1>3, PTL DEF StorageService, Service!Spec

=============================================================================
