-------------------------- MODULE BackupSyncProofs --------------------------
(***************************************************************************)
(* Proofs about BackupSync for every set of projects, writes and manual    *)
(* backup requests.                                                        *)
(***************************************************************************)
EXTENDS BackupSync, TLAPS

-----------------------------------------------------------------------------
(* What a copy gives back.                                                 *)

LEMMA InSet == \A S \in SUBSET Writes : In(S) = S /\ S # Absent /\ S # Torn
BY SyncAssumption DEF In

LEMMA InType == \A c \in Contents : In(c) \in SUBSET Writes
BY SyncAssumption DEF In, Contents

LEMMA Whole == \A c \in Contents : c # Absent /\ c # Torn => c \in SUBSET Writes
BY DEF Contents

LEMMA InNone == In(Absent) = {} /\ In(Torn) = {}
BY DEF In

LEMMA ContentsOfIn == \A c \in Contents : In(c) \in Contents
BY InType DEF Contents

-----------------------------------------------------------------------------
(* Type correctness.                                                       *)

LEMMA InitTypeOK == Init => TypeOK
<1> SUFFICES ASSUME Init PROVE TypeOK
  OBVIOUS
<1>1. /\ stage = [j \in Jobs |-> "idle"] /\ snap = [j \in Jobs |-> {}]
      /\ todo = [j \in Jobs |-> {}] /\ reading = [j \in Jobs |-> None]
      /\ seen = [j \in Jobs |-> {}] /\ failed = [j \in Jobs |-> FALSE]
      /\ newer = [j \in Jobs |-> 0] /\ 0 \in 0 .. Keep
  BY SyncAssumption DEF Init, NoUploads
<1>2. {} \in Contents /\ Absent \in Contents /\ Meta \in Files /\ {} # Absent
  BY InSet DEF Contents, Files
<1>3. None \notin Projects /\ None # Meta
  BY SyncAssumption DEF Files
<1> QED
  BY <1>1, <1>2, <1>3 DEF Init, TypeOK

LEMMA SettledType == TypeOK => Settled \in [Files -> SUBSET Writes]
BY InType DEF TypeOK, Settled

(* Every action of BackupSync preserves the shape of the state.            *)
LEMMA NextTypeOK == TypeOK /\ [Next]_vars => TypeOK'
<1> SUFFICES ASSUME TypeOK, [Next]_vars
             PROVE  TypeOK'
  OBVIOUS
<1> USE SyncAssumption, InType, ContentsOfIn DEF TypeOK
<1>0. /\ Meta \in Files /\ \A p \in Projects : p \in Files /\ p # Meta
      /\ Scheduled \in Jobs /\ Final \in Jobs
      /\ {} \in Contents /\ 0 \in 0 .. Keep
  BY DEF Files, Jobs, Contents
<1>1. ASSUME NEW w \in Writes, Commit(w)
      PROVE  TypeOK'
  <2> DEFINE f == Dest[w]
  <2>1. f \in Files /\ In(local[f]) \cup {w} \in Contents /\ In(main[f]) \in Contents
    BY <1>1, InType DEF Contents
  <2>2. In(local[f]) \cup {w} # Absent
    BY InType, InSet
  <2>3. local' \in [Files -> Contents] /\ local'[Meta] # Absent
    BY <1>0, <1>1, <2>1, <2>2 DEF Commit
  <2>4. main' \in [Files -> Contents]
    BY <1>1, <2>1 DEF Commit
  <2> QED
    BY <1>1, <2>3, <2>4 DEF Commit, uploads, history
<1>2. ASSUME NEW p \in Projects, DeleteProject(p)
      PROVE  TypeOK'
  BY <1>0, <1>2 DEF DeleteProject, uploads, Contents
<1>3. ASSUME NEW s \in snaps, RestoreLive(s)
      PROVE  TypeOK'
  BY <1>0, <1>3 DEF RestoreLive, uploads
<1>4. ASSUME NEW j \in Jobs, BackUp(j)
      PROVE  TypeOK'
  <2>1. newer' \in [Jobs -> 0 .. Keep]
    <3>1. \A i \in Jobs : newer[i] \in 0 .. Keep /\ Keep \in Nat
      OBVIOUS
    <3>2. \A n \in 0 .. Keep : (IF n < Keep THEN n + 1 ELSE Keep) \in 0 .. Keep
      OBVIOUS
    <3>3. newer' = [i \in Jobs |-> IF i # j /\ stage[i] = "backedup"
                                 THEN IF newer[i] < Keep THEN newer[i] + 1 ELSE Keep
                                 ELSE 0]
      BY <1>4 DEF BackUp
    <3> QED
      BY <1>0, <3>1, <3>2, <3>3
  <2> QED
    BY <1>0, <1>4, <2>1 DEF BackUp, history
<1>5. ASSUME NEW j \in Jobs, PushMeta(j)
      PROVE  TypeOK'
  BY <1>0, <1>5 DEF PushMeta, Source, disk, history
<1>5a. ASSUME NEW j \in Jobs, SnapshotMissing(j)
       PROVE  TypeOK'
  <2>1. todo' \in [Jobs -> SUBSET Projects]
    BY <1>5a DEF SnapshotMissing, Listed
  <2> QED
    BY <1>0, <1>5a, <2>1 DEF SnapshotMissing, disk, history
<1>6. ASSUME NEW j \in Jobs, NEW p \in Projects, PushProject(j, p)
      PROVE  TypeOK'
  <2>1. /\ local' \in [Files -> Contents] /\ main' \in [Files -> Contents]
        /\ seen' \in [Jobs -> Contents] /\ local'[Meta] = local[Meta]
    BY <1>0, <1>6 DEF PushProject, Folded, Contents
  <2> QED
    BY <1>0, <1>6, <2>1 DEF PushProject, history
<1>7. ASSUME NEW j \in Jobs, reading[j] # None, Pushed(j),
             bucket' \in [Files -> Contents], failed' \in [Jobs -> BOOLEAN]
      PROVE  TypeOK'
  <2>1. todo' \in [Jobs -> SUBSET Projects]
    BY <1>7 DEF Pushed, Listed
  <2> QED
    BY <1>0, <1>7, <2>1 DEF Pushed, disk, history
<1>8. ASSUME NEW j \in Jobs, Put(j)
      PROVE  TypeOK'
  <2>1. bucket' \in [Files -> Contents]
    BY <1>8 DEF Put, Contents
  <2> QED
    BY <1>7, <1>8, <2>1 DEF Put
<1>9. ASSUME NEW j \in Jobs, PutFails(j)
      PROVE  TypeOK'
  BY <1>7, <1>9 DEF PutFails
<1>10. ASSUME NEW j \in Jobs, Finish(j)
       PROVE  TypeOK'
  BY <1>0, <1>10, SettledType DEF Finish, disk
<1>11. CASE Stop
  <2>1. straggler' \in BOOLEAN /\ stage'[Final] = stage[Final]
    BY <1>11, <1>0 DEF Stop
  <2>2. CASE straggler'
    BY <1>0, <1>11, <2>1, <2>2 DEF Stop, disk
  <2>3. CASE ~straggler'
    <3>1. stage[Scheduled] # "meta" /\ stage[Scheduled] # "files"
      BY <1>11, <2>3 DEF Stop
    <3>2. /\ stage' = [stage EXCEPT ![Scheduled] = "idle"]
          /\ snap' = [snap EXCEPT ![Scheduled] = {}]
      BY <1>11, <2>3 DEF Stop
    <3>3. \A j \in Jobs : /\ stage'[j] = "meta" <=> stage[j] = "meta"
                          /\ stage'[j] = "files" <=> stage[j] = "files"
      BY <1>0, <3>1, <3>2
    <3>4. stage' \in [Jobs -> {"idle", "backedup", "meta", "files"}]
          /\ snap' \in [Jobs -> Contents]
      BY <1>0, <3>2
    <3>5. UNCHANGED <<reading, snaps, local>>
      BY <1>11 DEF Stop, disk
    <3>6. /\ \A j \in Jobs : reading'[j] = Meta <=> stage'[j] = "meta"
          /\ \A j \in Jobs : reading'[j] \in Projects => stage'[j] = "files"
      BY <3>3, <3>5
    <3> QED
      BY <1>11, <2>1, <3>4, <3>5, <3>6 DEF Stop, disk
  <2> QED
    BY <2>2, <2>3
<1>12. CASE NoFinalSync \/ Exit
  BY <1>12 DEF NoFinalSync, Exit, disk, uploads, history
<1>13. CASE Crash
  <2>1. durable' \in [Files -> SUBSET Writes]
    BY <1>13, SettledType DEF Crash
  <2> QED
    BY <1>0, <1>13, <2>1 DEF Crash, NoUploads, disk
<1>14. ASSUME NEW wiped \in BOOLEAN, NEW fetched \in SUBSET Files, Start(wiped, fetched)
       PROVE  TypeOK'
  <2>1. local' \in [Files -> Contents] /\ local'[Meta] # Absent
    BY <1>0, <1>14 DEF Start, Contents
  <2>2. main' \in [Files -> Contents]
    BY <1>14, <2>1 DEF Start
  <2>3. snaps' \in SUBSET Contents /\ blind' \in SUBSET Files
    BY <1>14 DEF Start
  <2> QED
    BY <1>14, <2>1, <2>2, <2>3 DEF Start, uploads
<1>15. CASE UNCHANGED vars
  BY <1>15 DEF vars, disk, uploads, history
<1> QED
  BY <1>1, <1>2, <1>3, <1>4, <1>5, <1>5a, <1>6, <1>8, <1>9, <1>10, <1>11, <1>12, <1>13,
     <1>14, <1>15
     DEF Next, Requests, JobStep, Process

(* The state always has its type.                                          *)
THEOREM TypeCorrect == Spec => []TypeOK
BY InitTypeOK, NextTypeOK, PTL DEF Spec

-----------------------------------------------------------------------------
(* The strengthening.                                                      *)

(* Snapshots are whole, and a push of a snapshot reads the same file from  *)
(* beginning to end.                                                       *)
MetaWhole ==
  /\ local[Meta] # Torn /\ bucket[Meta] # Torn
  /\ Torn \notin snaps
  /\ \A j \in Jobs : snap[j] \in SUBSET Writes
  /\ \A j \in Jobs : reading[j] = Meta => seen[j] = snap[j]

(* No job outlives the process.                                            *)
Quiet == phase \in {"stopped", "down"} => \A j \in Jobs : stage[j] = "idle"

(* What is promised of the meta database is in the bucket, on the disk and *)
(* in every snapshot that can still be pushed.                             *)
MetaKept ==
  /\ durable[Meta] \subseteq In(bucket[Meta])
  /\ durable[Meta] \subseteq local[Meta]
  /\ \A j \in Jobs : stage[j] \in {"backedup", "meta"} => durable[Meta] \subseteq snap[j]

(* What is promised of a project is in its file, and so is everything the  *)
(* bucket or a push has; a torn file came from a torn object.              *)
TornKept(p) ==
  /\ local[p] = Torn <=> main[p] = Torn
  /\ local[p] = Torn => bucket[p] = Torn
  /\ local[p] = Torn => \A j \in Jobs : reading[j] = p => seen[j] = Torn

FileKept(p) ==
  local[p] # Torn =>
    /\ durable[p] \subseteq In(main[p])
    /\ In(main[p]) \subseteq In(local[p])

Between(p, c) == c # Torn => durable[p] \subseteq In(c) /\ In(c) \subseteq In(main[p])

CopiesKept(p) == /\ Between(p, bucket[p])
                 /\ \A j \in Jobs : reading[j] = p => Between(p, seen[j])

ProjectKept(p) == TornKept(p) /\ FileKept(p) /\ CopiesKept(p)

SyncInv == /\ TypeOK /\ MetaWhole /\ Quiet
           /\ Meta \notin blind => MetaKept
           /\ \A p \in Projects \ (blind \cup deleted) : ProjectKept(p)

-----------------------------------------------------------------------------
LEMMA InitSyncInv == Init => SyncInv
<1> SUFFICES ASSUME Init PROVE SyncInv
  OBVIOUS
<1>1. /\ \A j \in Jobs : stage[j] = "idle" /\ snap[j] = {} /\ reading[j] = None
      /\ \A f \in Files : durable[f] = {} /\ bucket[f] = Absent
      /\ local[Meta] = {} /\ snaps = {} /\ main = local
      /\ \A p \in Projects : local[p] = Absent
      /\ Meta \in Files /\ Projects \subseteq Files
  BY SyncAssumption DEF Init, NoUploads, Files
<1>2. MetaWhole /\ MetaKept
  BY <1>1, InSet, SyncAssumption DEF MetaWhole, MetaKept, Files
<1>3. \A p \in Projects : ProjectKept(p)
  BY <1>1, InNone, SyncAssumption
     DEF ProjectKept, TornKept, FileKept, CopiesKept, Between, Files
<1>4. Quiet
  BY <1>1 DEF Quiet
<1> QED
  BY <1>2, <1>3, <1>4, InitTypeOK DEF SyncInv

LEMMA NextQuiet == TypeOK /\ Quiet /\ [Next]_vars => Quiet'
<1> SUFFICES ASSUME TypeOK, Quiet, [Next]_vars
             PROVE  Quiet'
  OBVIOUS
<1> USE DEF Quiet
<1>1. CASE Requests
  BY <1>1 DEF Requests, Commit, DeleteProject, RestoreLive, uploads
<1>2. ASSUME NEW j \in Jobs, JobStep(j)
      PROVE  Quiet'
  <2>1. /\ phase' = phase
        /\ BackUp(j) \/ reading[j] # None \/ stage[j] # "idle"
    BY <1>2 DEF JobStep, BackUp, PushMeta, SnapshotMissing, PushProject, Put, PutFails,
                Pushed, Finish
  <2>2. phase \in {"stopped", "down"} => stage[j] = "idle" /\ reading[j] = None
    BY DEF TypeOK, Files
  <2>3. BackUp(j) => phase \in {"serving", "stopping"}
    BY DEF BackUp, MayStart
  <2> QED
    BY <2>1, <2>2, <2>3
<1>3. CASE Stop \/ NoFinalSync \/ Exit
  BY <1>3 DEF Stop, NoFinalSync, Exit, uploads
<1>4. CASE Crash
  BY <1>4 DEF Crash, NoUploads
<1>5. ASSUME NEW wiped \in BOOLEAN, NEW fetched \in SUBSET Files, Start(wiped, fetched)
      PROVE  Quiet'
  BY <1>5 DEF Start
<1>6. CASE UNCHANGED vars
  BY <1>6 DEF vars, uploads
<1> QED
  BY <1>1, <1>2, <1>3, <1>4, <1>5, <1>6 DEF Next, Process

(* No job holds a snapshot or a file while the process is not running.     *)
LEMMA NothingRead ==
  ASSUME TypeOK, NEW j \in Jobs, stage[j] = "idle"
  PROVE  reading[j] = None
BY DEF TypeOK, Files

LEMMA NextMetaWhole == TypeOK /\ MetaWhole /\ [Next]_vars => MetaWhole'
<1> SUFFICES ASSUME TypeOK, MetaWhole, [Next]_vars
             PROVE  MetaWhole'
  OBVIOUS
<1> USE DEF MetaWhole
<1>0. /\ Meta \in Files /\ \A p \in Projects : p \in Files /\ p # Meta
      /\ Scheduled \in Jobs /\ {} \in SUBSET Writes
  BY SyncAssumption DEF Files, Jobs
<1>1. ASSUME NEW w \in Writes, Commit(w)
      PROVE  MetaWhole'
  <2>1. local'[Meta] \in {local[Meta], In(local[Meta]) \cup {w}}
    BY <1>0, <1>1, SyncAssumption DEF Commit, TypeOK
  <2>2. In(local[Meta]) \cup {w} # Torn
    BY <1>0, InType, InSet DEF TypeOK
  <2> QED
    BY <1>1, <2>1, <2>2 DEF Commit, uploads
<1>2. ASSUME NEW p \in Projects, DeleteProject(p)
      PROVE  MetaWhole'
  BY <1>0, <1>2 DEF DeleteProject, TypeOK, uploads
<1>3. ASSUME NEW s \in snaps, RestoreLive(s)
      PROVE  MetaWhole'
  BY <1>0, <1>3 DEF RestoreLive, TypeOK, uploads
<1>4. ASSUME NEW j \in Jobs, BackUp(j)
      PROVE  MetaWhole'
  <2>1. local[Meta] \in SUBSET Writes
    BY <1>0, Whole DEF TypeOK
  <2>2. reading[j] = None /\ None # Meta
    BY <1>4, NothingRead, SyncAssumption DEF BackUp, Files
  <2> QED
    BY <1>4, <2>1, <2>2 DEF BackUp, TypeOK
<1>5. ASSUME NEW j \in Jobs, PushMeta(j)
      PROVE  MetaWhole'
  BY <1>5 DEF PushMeta, Source, disk, TypeOK
<1>5a. ASSUME NEW j \in Jobs, SnapshotMissing(j)
       PROVE  MetaWhole'
  BY <1>0, <1>5a DEF SnapshotMissing, disk, TypeOK
<1>6. ASSUME NEW j \in Jobs, NEW p \in Projects, PushProject(j, p)
      PROVE  MetaWhole'
  <2>1. local'[Meta] = local[Meta]
    BY <1>0, <1>6 DEF PushProject, TypeOK
  <2>2. \A i \in Jobs : reading'[i] = Meta => reading[i] = Meta /\ seen'[i] = seen[i]
    BY <1>0, <1>6 DEF PushProject, TypeOK
  <2> QED
    BY <1>6, <2>1, <2>2 DEF PushProject
<1>7. ASSUME NEW j \in Jobs, Pushed(j), bucket'[Meta] # Torn
      PROVE  MetaWhole'
  <2>1. None # Meta
    BY SyncAssumption DEF Files
  <2> QED
    BY <1>0, <1>7, <2>1 DEF Pushed, disk, TypeOK
<1>8. ASSUME NEW j \in Jobs, Put(j)
      PROVE  MetaWhole'
  <2>1. CASE reading[j] = Meta
    <3>1. Source(j, Meta) = seen[j] /\ seen[j] # Torn
      BY <2>1, InSet DEF Source
    <3>2. bucket'[Meta] = seen[j]
      BY <1>0, <1>8, <2>1, <3>1 DEF Put, TypeOK
    <3> QED
      BY <1>7, <1>8, <3>1, <3>2 DEF Put
  <2>2. CASE reading[j] # Meta
    BY <1>0, <1>7, <1>8, <2>2 DEF Put, TypeOK
  <2> QED
    BY <2>1, <2>2
<1>9. ASSUME NEW j \in Jobs, PutFails(j)
      PROVE  MetaWhole'
  BY <1>7, <1>9 DEF PutFails
<1>10. ASSUME NEW j \in Jobs, Finish(j)
       PROVE  MetaWhole'
  BY <1>10 DEF Finish, disk
<1>11. CASE Stop
  <2>1. \/ snap' = snap
        \/ snap' = [snap EXCEPT ![Scheduled] = {}] /\ stage[Scheduled] # "meta"
    <3>1. CASE straggler'
      BY <1>11, <3>1 DEF Stop
    <3>2. CASE ~straggler'
      <4>1. stage[Scheduled] # "meta"
        BY <1>0, <1>11, <3>2 DEF Stop, TypeOK
      <4> QED
        BY <1>11, <3>2, <4>1 DEF Stop
    <3> QED
      BY <3>1, <3>2
  <2> QED
    BY <1>0, <1>11, <2>1 DEF Stop, disk, TypeOK
<1>12. CASE NoFinalSync \/ Exit \/ UNCHANGED vars
  BY <1>12 DEF NoFinalSync, Exit, vars, disk, uploads
<1>13. CASE Crash
  <2>1. None # Meta
    BY SyncAssumption DEF Files
  <2> QED
    BY <1>0, <1>13, <2>1 DEF Crash, NoUploads, disk
<1>14. ASSUME NEW wiped \in BOOLEAN, NEW fetched \in SUBSET Files, Start(wiped, fetched)
       PROVE  MetaWhole'
  <2>1. local'[Meta] \in {bucket[Meta], {}, local[Meta]}
    BY <1>0, <1>14 DEF Start
  <2> QED
    BY <1>14, <2>1, InSet DEF Start, uploads
<1> QED
  BY <1>1, <1>2, <1>3, <1>4, <1>5, <1>5a, <1>6, <1>8, <1>9, <1>10, <1>11, <1>12, <1>13, <1>14
     DEF Next, Requests, JobStep, Process

-----------------------------------------------------------------------------
(* What was promised when the last job ended, or when the process died, is *)
(* in the bucket and on the disk.                                          *)
LEMMA SettledKept ==
  ASSUME TypeOK, NEW f \in Files
  PROVE  /\ bucket[f] = Torn => Settled[f] = durable[f]
         /\ bucket[f] # Torn => /\ Settled[f] \subseteq In(bucket[f])
                                /\ Settled[f] \subseteq In(local[f])
BY DEF Settled

LEMMA NextMetaKept ==
  TypeOK /\ MetaWhole /\ Quiet /\ (Meta \notin blind => MetaKept) /\ [Next]_vars
    => (Meta \notin blind => MetaKept)'
<1> SUFFICES ASSUME TypeOK, MetaWhole, Quiet, Meta \notin blind => MetaKept, [Next]_vars,
                    Meta \notin blind'
             PROVE  MetaKept'
  OBVIOUS
<1>0. /\ Meta \in Files /\ \A p \in Projects : p \in Files /\ p # Meta
      /\ Scheduled \in Jobs
      /\ local[Meta] \in SUBSET Writes /\ In(local[Meta]) = local[Meta]
      /\ durable \in [Files -> SUBSET Writes]
  BY SyncAssumption, Whole, InSet DEF Files, Jobs, TypeOK, MetaWhole
<1>a. MetaKept
  <2>1. blind \subseteq blind'
    BY DEF Next, Requests, JobStep, Process, Commit, DeleteProject, RestoreLive, BackUp,
           PushMeta, SnapshotMissing, PushProject, Put, PutFails, Pushed, Finish, Stop,
           NoFinalSync, Exit,
           Crash, Start, vars, history
  <2> QED
    BY <2>1
<1> USE DEF MetaKept
<1>1. ASSUME NEW w \in Writes, Commit(w)
      PROVE  MetaKept'
  BY <1>0, <1>a, <1>1, SyncAssumption DEF Commit, TypeOK, uploads, history
<1>2. ASSUME NEW p \in Projects, DeleteProject(p)
      PROVE  MetaKept'
  BY <1>0, <1>a, <1>2 DEF DeleteProject, TypeOK, uploads
<1>3. ASSUME NEW s \in snaps, RestoreLive(s)
      PROVE  MetaKept'
  <2>1. In(s) = s
    BY Whole, InSet DEF TypeOK, MetaWhole
  <2>2. local'[Meta] = s /\ durable'[Meta] = durable[Meta] \cap s
    BY <1>0, <1>3, <2>1 DEF RestoreLive, TypeOK
  <2> QED
    BY <1>a, <1>3, <2>2 DEF RestoreLive, uploads
<1>4. ASSUME NEW j \in Jobs, BackUp(j)
      PROVE  MetaKept'
  BY <1>0, <1>a, <1>4 DEF BackUp, TypeOK, history
<1>5. ASSUME NEW j \in Jobs, PushMeta(j)
      PROVE  MetaKept'
  BY <1>a, <1>5 DEF PushMeta, TypeOK, disk, history
<1>5a. ASSUME NEW j \in Jobs, SnapshotMissing(j)
       PROVE  MetaKept'
  BY <1>a, <1>5a DEF SnapshotMissing, TypeOK, disk, history
<1>6. ASSUME NEW j \in Jobs, NEW p \in Projects, PushProject(j, p)
      PROVE  MetaKept'
  <2>1. local'[Meta] = local[Meta]
    BY <1>0, <1>6 DEF PushProject, TypeOK
  <2> QED
    BY <1>a, <1>6, <2>1 DEF PushProject, history
<1>7. ASSUME NEW j \in Jobs, Pushed(j), bucket'[Meta] = bucket[Meta] \/ bucket'[Meta] = snap[j],
             reading[j] = Meta \/ bucket'[Meta] = bucket[Meta]
      PROVE  MetaKept'
  <2>1. /\ \A i \in Jobs : stage'[i] \in {"backedup", "meta"} =>
                             stage[i] = stage'[i] /\ snap'[i] = snap[i]
        /\ local' = local /\ durable' = durable
    BY <1>7 DEF Pushed, TypeOK, disk, history
  <2>2. reading[j] = Meta => durable[Meta] \subseteq In(snap[j])
    BY <1>a, InSet DEF MetaWhole, TypeOK
  <2> QED
    BY <1>a, <1>7, <2>1, <2>2
<1>8. ASSUME NEW j \in Jobs, Put(j)
      PROVE  MetaKept'
  <2>1. CASE reading[j] = Meta
    BY <1>0, <1>7, <1>8, <2>1 DEF Put, Source, MetaWhole, TypeOK
  <2>2. CASE reading[j] # Meta
    BY <1>0, <1>7, <1>8, <2>2 DEF Put, TypeOK
  <2> QED
    BY <2>1, <2>2
<1>9. ASSUME NEW j \in Jobs, PutFails(j)
      PROVE  MetaKept'
  BY <1>7, <1>9 DEF PutFails
<1>10. ASSUME NEW j \in Jobs, Finish(j)
       PROVE  MetaKept'
  <2>1. \/ durable' = durable
        \/ durable' = Settled /\ \A i \in Jobs : stage'[i] = "idle"
    BY <1>10 DEF Finish, TypeOK
  <2>2. \A i \in Jobs : stage'[i] \in {"backedup", "meta"} => stage[i] = stage'[i]
    BY <1>10 DEF Finish, TypeOK
  <2>3. UNCHANGED <<local, bucket, snap>>
    BY <1>10 DEF Finish, disk
  <2>4. Settled[Meta] \subseteq In(bucket[Meta]) /\ Settled[Meta] \subseteq local[Meta]
    BY <1>0, SettledKept DEF MetaWhole
  <2> QED
    BY <1>a, <2>1, <2>2, <2>3, <2>4
<1>11. CASE Stop
  <2>1. \A i \in Jobs : stage'[i] \in {"backedup", "meta"} =>
                          stage[i] = stage'[i] /\ snap'[i] = snap[i]
    <3>1. CASE straggler'
      BY <1>11, <3>1 DEF Stop
    <3>2. CASE ~straggler'
      BY <1>0, <1>11, <3>2 DEF Stop, TypeOK
    <3> QED
      BY <3>1, <3>2
  <2> QED
    BY <1>a, <1>11, <2>1 DEF Stop, disk
<1>12. CASE NoFinalSync \/ Exit \/ UNCHANGED vars
  BY <1>a, <1>12 DEF NoFinalSync, Exit, vars, disk, uploads, history
<1>13. CASE Crash
  <2>1. \A i \in Jobs : stage'[i] = "idle"
    BY <1>13 DEF Crash, NoUploads
  <2>2. Settled[Meta] \subseteq In(bucket[Meta]) /\ Settled[Meta] \subseteq local[Meta]
    BY <1>0, SettledKept DEF MetaWhole
  <2>3. UNCHANGED <<local, bucket>> /\ durable' = Settled
    BY <1>13 DEF Crash, disk
  <2> QED
    BY <2>1, <2>2, <2>3
<1>14. ASSUME NEW wiped \in BOOLEAN, NEW fetched \in SUBSET Files, Start(wiped, fetched)
       PROVE  MetaKept'
  <2>1. \A i \in Jobs : stage'[i] = "idle"
    BY <1>14 DEF Start, Quiet, uploads
  <2>2. UNCHANGED <<bucket, durable>>
    BY <1>14 DEF Start
  <2>3. durable[Meta] \subseteq local'[Meta]
    <3>1. CASE ~wiped
      <4>1. local'[Meta] = local[Meta]
        BY <1>0, <1>14, <3>1 DEF Start, TypeOK
      <4> QED
        BY <1>a, <4>1
    <3>2. CASE wiped /\ bucket[Meta] = Absent
      BY <1>a, <3>2, InNone
    <3>3. CASE wiped /\ bucket[Meta] # Absent
      <4>1. Meta \in fetched
        BY <1>0, <1>14, <3>3 DEF Start
      <4>2. local'[Meta] = bucket[Meta]
        BY <1>0, <1>14, <4>1 DEF Start
      <4>3. In(bucket[Meta]) = bucket[Meta]
        BY <3>3 DEF In, MetaWhole
      <4> QED
        BY <1>a, <4>2, <4>3
    <3> QED
      BY <3>1, <3>2, <3>3
  <2> QED
    BY <1>a, <2>1, <2>2, <2>3
<1> QED
  BY <1>1, <1>2, <1>3, <1>4, <1>5, <1>5a, <1>6, <1>8, <1>9, <1>10, <1>11, <1>12, <1>13, <1>14
     DEF Next, Requests, JobStep, Process

-----------------------------------------------------------------------------
(* A step that leaves the file, the object, the promise and the readers of *)
(* p alone, or lets readers go, keeps what is promised of p.               *)
LEMMA ProjectUntouched ==
  ASSUME NEW p, ProjectKept(p),
         local'[p] = local[p], main'[p] = main[p], bucket'[p] = bucket[p],
         durable'[p] = durable[p],
         \A j \in Jobs : reading'[j] = p => reading[j] = p /\ seen'[j] = seen[j]
  PROVE  ProjectKept(p)'
<1>1. TornKept(p)'
  BY DEF ProjectKept, TornKept
<1>2. FileKept(p)'
  BY DEF ProjectKept, FileKept, In
<1>3. CopiesKept(p)'
  BY DEF ProjectKept, CopiesKept, Between, In
<1> QED
  BY <1>1, <1>2, <1>3 DEF ProjectKept

(* Nor does promising what bucket and disk have when nothing is read.      *)
LEMMA ProjectSettled ==
  ASSUME TypeOK, NEW p \in Projects, ProjectKept(p),
         UNCHANGED <<local, main, bucket>>, durable' = Settled,
         \A j \in Jobs : reading'[j] # p
  PROVE  ProjectKept(p)'
<1>1. p \in Files
  BY DEF Files
<1>2. durable'[p] = Settled[p]
  OBVIOUS
<1>3. TornKept(p)'
  BY DEF ProjectKept, TornKept
<1>4. CASE bucket[p] = Torn
  <2>1. durable'[p] = durable[p]
    BY <1>1, <1>2, <1>4, SettledKept
  <2>2. FileKept(p)' /\ CopiesKept(p)'
    BY <1>4, <2>1 DEF ProjectKept, FileKept, CopiesKept, Between, In
  <2> QED
    BY <1>3, <2>2 DEF ProjectKept
<1>5. CASE bucket[p] # Torn
  <2>1. durable'[p] \subseteq In(bucket[p]) /\ In(bucket[p]) \subseteq In(main[p])
    BY <1>1, <1>2, <1>5, SettledKept DEF ProjectKept, CopiesKept, Between
  <2>2. FileKept(p)' /\ CopiesKept(p)'
    BY <1>5, <2>1 DEF ProjectKept, FileKept, CopiesKept, Between, In
  <2> QED
    BY <1>3, <2>2 DEF ProjectKept
<1> QED
  BY <1>4, <1>5

(* Commits and checkpoints let the file grow and leave the copies alone.   *)
LEMMA ProjectGrows ==
  ASSUME TypeOK, NEW p \in Projects, ProjectKept(p), local[p] # Torn,
         local'[p] \in SUBSET Writes, main'[p] \in SUBSET Writes,
         In(main[p]) \subseteq main'[p], main'[p] \subseteq local'[p],
         UNCHANGED <<bucket, durable>>,
         \A j \in Jobs : reading'[j] = p =>
           seen'[j] = main'[p] \/ (reading[j] = p /\ seen'[j] = seen[j])
  PROVE  ProjectKept(p)'
<1>1. /\ local'[p] # Torn /\ main'[p] # Torn
      /\ In(local'[p]) = local'[p] /\ In(main'[p]) = main'[p]
  BY InSet
<1>2. In(main[p]) \subseteq In(main'[p]) /\ durable'[p] \subseteq In(main'[p])
  BY <1>1 DEF ProjectKept, FileKept
<1>3. TornKept(p)'
  BY <1>1 DEF TornKept
<1>4. FileKept(p)'
  BY <1>1, <1>2 DEF FileKept, In
<1>5. ASSUME NEW c, Between(p, c)
      PROVE  c # Torn => durable'[p] \subseteq In(c) /\ In(c) \subseteq In(main'[p])
  BY <1>2, <1>5 DEF Between
<1>6. CopiesKept(p)'
  <2>1. Between(p, bucket[p])'
    <3>1. Between(p, bucket[p])
      BY DEF ProjectKept, CopiesKept
    <3> QED
      BY <1>5, <3>1 DEF Between, In
  <2>2. ASSUME NEW j \in Jobs, reading'[j] = p
        PROVE  Between(p, seen[j])'
    <3>1. CASE seen'[j] = main'[p]
      BY <1>2, <3>1 DEF Between, In
    <3>2. CASE reading[j] = p /\ seen'[j] = seen[j]
      <4>1. Between(p, seen[j])
        BY <3>2 DEF ProjectKept, CopiesKept
      <4> QED
        BY <1>5, <3>2, <4>1 DEF Between, In
    <3> QED
      BY <2>2, <3>1, <3>2
  <2> QED
    BY <2>1, <2>2 DEF CopiesKept
<1> QED
  BY <1>3, <1>4, <1>6 DEF ProjectKept

LEMMA NextProjectKept ==
  ASSUME TypeOK, Quiet, [Next]_vars, NEW p \in Projects,
         p \notin (blind \cup deleted)', p \notin blind \cup deleted => ProjectKept(p)
  PROVE  ProjectKept(p)'
<1>0. /\ p \in Files /\ p # Meta /\ p # None
      /\ local[p] \in Contents /\ main[p] \in Contents
  BY SyncAssumption DEF Files, TypeOK
<1>a. ProjectKept(p)
  <2>1. blind \subseteq blind' /\ deleted \subseteq deleted'
    BY DEF Next, Requests, JobStep, Process, Commit, DeleteProject, RestoreLive, BackUp,
           PushMeta, SnapshotMissing, PushProject, Put, PutFails, Pushed, Finish, Stop,
           NoFinalSync, Exit,
           Crash, Start, vars, history
  <2> QED
    BY <2>1
<1>b. main[p] = Torn <=> local[p] = Torn
  BY <1>a DEF ProjectKept, TornKept
<1>c. local[p] # Torn => In(main[p]) \subseteq In(local[p])
  BY <1>a DEF ProjectKept, FileKept
<1>1. ASSUME NEW w \in Writes, Commit(w)
      PROVE  ProjectKept(p)'
  <2>1. CASE Dest[w] # p
    BY <1>0, <1>a, <1>1, <2>1, ProjectUntouched DEF Commit, TypeOK, uploads, history
  <2>2. CASE Dest[w] = p
    <3>1. local[p] # Torn /\ local'[p] = In(local[p]) \cup {w}
      BY <1>0, <1>1, <2>2 DEF Commit, TypeOK
    <3>2. main'[p] \in {In(main[p]), In(local[p]) \cup {w}}
      BY <1>0, <1>1, <2>2 DEF Commit, TypeOK
    <3>3. UNCHANGED <<bucket, durable, reading, seen>>
      BY <1>1 DEF Commit, uploads, history
    <3>4. In(local[p]) \in SUBSET Writes /\ In(main[p]) \in SUBSET Writes
      BY <1>0, InType
    <3> QED
      BY <1>a, <1>c, <3>1, <3>2, <3>3, <3>4, ProjectGrows
  <2> QED
    BY <2>1, <2>2
<1>2. ASSUME NEW q \in Projects, DeleteProject(q)
      PROVE  ProjectKept(p)'
  <2>1. q # p
    BY <1>2 DEF DeleteProject
  <2> QED
    BY <1>0, <1>a, <1>2, <2>1, ProjectUntouched DEF DeleteProject, TypeOK, uploads
<1>3. ASSUME NEW s \in snaps, RestoreLive(s)
      PROVE  ProjectKept(p)'
  BY <1>0, <1>a, <1>3, ProjectUntouched DEF RestoreLive, TypeOK, uploads
<1>4. ASSUME NEW j \in Jobs, BackUp(j)
      PROVE  ProjectKept(p)'
  <2>1. main'[p] = main[p]
    BY <1>0, <1>4 DEF BackUp, TypeOK
  <2> QED
    BY <1>a, <1>4, <2>1, ProjectUntouched DEF BackUp, history
<1>5. ASSUME NEW j \in Jobs, PushMeta(j)
      PROVE  ProjectKept(p)'
  <2>1. \A i \in Jobs : reading'[i] = p => reading[i] = p /\ seen'[i] = seen[i]
    BY <1>0, <1>5 DEF PushMeta, TypeOK
  <2> QED
    BY <1>a, <1>5, <2>1, ProjectUntouched DEF PushMeta, disk, history
<1>5a. ASSUME NEW j \in Jobs, SnapshotMissing(j)
       PROVE  ProjectKept(p)'
  BY <1>a, <1>5a, ProjectUntouched DEF SnapshotMissing, disk, history
<1>6. ASSUME NEW j \in Jobs, NEW q \in Projects, PushProject(j, q)
      PROVE  ProjectKept(p)'
  <2>0. /\ reading' = [reading EXCEPT ![j] = q]
        /\ \A i \in Jobs \ {j} : seen'[i] = seen[i] /\ reading'[i] = reading[i]
        /\ UNCHANGED <<bucket, durable>>
    BY <1>6 DEF PushProject, TypeOK, history
  <2>1. CASE q # p
    <3>1. local'[p] = local[p] /\ main'[p] = main[p]
      BY <1>0, <1>6, <2>1 DEF PushProject, TypeOK
    <3>2. \A i \in Jobs : reading'[i] = p => reading[i] = p /\ seen'[i] = seen[i]
      BY <2>0, <2>1 DEF TypeOK
    <3> QED
      BY <1>a, <2>0, <3>1, <3>2, ProjectUntouched
  <2>2. CASE q = p /\ local[p] = Torn
    <3>1. /\ UNCHANGED <<local, main>>
          /\ seen'[j] = Torn
      BY <1>6, <2>2 DEF PushProject, TypeOK
    <3>2. TornKept(p)'
      BY <1>a, <2>0, <2>2, <3>1 DEF ProjectKept, TornKept
    <3>3. FileKept(p)'
      BY <2>2, <3>1 DEF FileKept
    <3>4. CopiesKept(p)'
      BY <1>a, <2>0, <2>2, <3>1 DEF ProjectKept, TornKept, CopiesKept, Between
    <3> QED
      BY <3>2, <3>3, <3>4 DEF ProjectKept
  <2>3. CASE q = p /\ local[p] # Torn
    <3>1. PICK c \in Folded(p) : /\ main' = [main EXCEPT ![p] = c]
                                 /\ local' = [local EXCEPT ![p] = In(@)]
                                 /\ seen' = [seen EXCEPT ![j] = c]
      BY <1>6, <2>3 DEF PushProject
    <3>2. /\ main'[p] = c /\ local'[p] = In(local[p]) /\ seen'[j] = c
          /\ c \in {In(main[p]), In(local[p])}
      BY <1>0, <3>1 DEF TypeOK, Folded
    <3>3. In(local[p]) \in SUBSET Writes /\ In(main[p]) \in SUBSET Writes
      BY <1>0, InType
    <3>4. \A i \in Jobs : reading'[i] = p =>
            seen'[i] = main'[p] \/ (reading[i] = p /\ seen'[i] = seen[i])
      BY <2>0, <3>2
    <3> QED
      BY <1>a, <1>c, <2>0, <2>3, <3>2, <3>3, <3>4, ProjectGrows
  <2> QED
    BY <2>1, <2>2, <2>3
<1>7. ASSUME NEW j \in Jobs, Pushed(j)
      PROVE  /\ \A i \in Jobs : reading'[i] = p => reading[i] = p /\ seen'[i] = seen[i]
             /\ UNCHANGED <<local, main, durable>>
  BY <1>0, <1>7 DEF Pushed, disk, history, TypeOK
<1>8. ASSUME NEW j \in Jobs, Put(j)
      PROVE  ProjectKept(p)'
  <2>0. Pushed(j)
    BY <1>8 DEF Put
  <2>1. CASE reading[j] # p
    <3>1. bucket'[p] = bucket[p]
      BY <1>0, <1>8, <2>1 DEF Put, TypeOK
    <3> QED
      BY <1>7, <1>a, <2>0, <3>1, ProjectUntouched
  <2>2. CASE reading[j] = p
    <3>1. bucket'[p] \in {seen[j], Torn} /\ (seen[j] = Torn => bucket'[p] = Torn)
      BY <1>0, <1>8, <2>2 DEF Put, TypeOK
    <3>2. TornKept(p)'
      BY <1>7, <1>a, <2>0, <2>2, <3>1 DEF ProjectKept, TornKept
    <3>3. FileKept(p)'
      BY <1>7, <1>a, <2>0 DEF ProjectKept, FileKept, In
    <3>4. CopiesKept(p)'
      BY <1>7, <1>a, <2>0, <2>2, <3>1 DEF ProjectKept, CopiesKept, Between, In
    <3> QED
      BY <3>2, <3>3, <3>4 DEF ProjectKept
  <2> QED
    BY <2>1, <2>2
<1>9. ASSUME NEW j \in Jobs, PutFails(j)
      PROVE  ProjectKept(p)'
  BY <1>7, <1>9, <1>a, ProjectUntouched DEF PutFails
<1>10. ASSUME NEW j \in Jobs, Finish(j)
       PROVE  ProjectKept(p)'
  <2>0. UNCHANGED <<local, main, bucket, reading, seen>>
    BY <1>10 DEF Finish, disk
  <2>1. CASE \A i \in Jobs \ {j} : stage[i] = "idle"
    <3>1. \A i \in Jobs : reading'[i] # p
      BY <1>0, <1>10, <2>0, <2>1, NothingRead DEF Finish
    <3>2. durable' = Settled
      BY <1>10, <2>1 DEF Finish
    <3> QED
      BY <1>a, <2>0, <3>1, <3>2, ProjectSettled
  <2>2. CASE ~(\A i \in Jobs \ {j} : stage[i] = "idle")
    <3>1. durable' = durable
      BY <1>10, <2>2 DEF Finish
    <3> QED
      BY <1>a, <2>0, <3>1, ProjectUntouched
  <2> QED
    BY <2>1, <2>2
<1>11. CASE Stop \/ NoFinalSync \/ Exit \/ UNCHANGED vars
  BY <1>11, <1>a, ProjectUntouched DEF Stop, NoFinalSync, Exit, vars, disk, uploads, history
<1>12. CASE Crash
  <2>1. UNCHANGED <<local, main, bucket>> /\ durable' = Settled
    BY <1>12 DEF Crash, disk
  <2>2. \A i \in Jobs : reading'[i] # p
    BY <1>0, <1>12 DEF Crash, NoUploads
  <2> QED
    BY <1>a, <2>1, <2>2, ProjectSettled
<1>13. ASSUME NEW wiped \in BOOLEAN, NEW fetched \in SUBSET Files, Start(wiped, fetched)
       PROVE  ProjectKept(p)'
  <2>1. \A i \in Jobs : reading'[i] # p
    BY <1>0, <1>13, NothingRead DEF Start, Quiet, uploads
  <2>2. UNCHANGED <<bucket, durable>>
    BY <1>13 DEF Start
  <2>3. CASE wiped \/ local[p] = Absent
    <3>1. local'[p] = bucket[p] /\ main'[p] = bucket[p]
      BY <1>0, <1>13, <2>3 DEF Start
    <3>2. bucket[p] # Torn => durable[p] \subseteq In(bucket[p])
      BY <1>a DEF ProjectKept, CopiesKept, Between
    <3> QED
      BY <2>1, <2>2, <3>1, <3>2
         DEF ProjectKept, TornKept, FileKept, CopiesKept, Between, In
  <2>4. CASE ~(wiped \/ local[p] = Absent)
    <3>1. local'[p] = local[p] /\ main'[p] = main[p]
      BY <1>0, <1>13, <2>4 DEF Start, TypeOK
    <3> QED
      BY <1>a, <2>1, <2>2, <3>1, ProjectUntouched
  <2> QED
    BY <2>3, <2>4
<1> QED
  BY <1>1, <1>2, <1>3, <1>4, <1>5, <1>5a, <1>6, <1>8, <1>9, <1>10, <1>11, <1>12, <1>13
     DEF Next, Requests, JobStep, Process

-----------------------------------------------------------------------------
LEMMA NextSyncInv == SyncInv /\ [Next]_vars => SyncInv'
<1> SUFFICES ASSUME SyncInv, [Next]_vars
             PROVE  SyncInv'
  OBVIOUS
<1> USE DEF SyncInv
<1>1. TypeOK' /\ MetaWhole' /\ Quiet'
  BY NextTypeOK, NextMetaWhole, NextQuiet
<1>2. (Meta \notin blind => MetaKept)'
  BY NextMetaKept
<1>3. ASSUME NEW p \in Projects, p \notin (blind \cup deleted)'
      PROVE  ProjectKept(p)'
  BY <1>3, NextProjectKept
<1> QED
  BY <1>1, <1>2, <1>3

LEMMA SyncInvImplies == SyncInv => MetaCopyWhole /\ SettledSurvives
<1> SUFFICES ASSUME SyncInv
             PROVE  MetaCopyWhole /\ SettledSurvives
  OBVIOUS
<1>1. MetaCopyWhole
  BY DEF SyncInv, MetaWhole, MetaCopyWhole
<1>2. SettledSurvives
  BY DEF SyncInv, SettledSurvives, MetaKept, ProjectKept, CopiesKept, Between, Files
<1> QED
  BY <1>1, <1>2

(* The bucket never holds a torn copy of the meta database, whatever       *)
(* writes, restores and checkpoints run while it is pushed.                *)
THEOREM BucketWhole == Spec => []MetaCopyWhole
BY InitSyncInv, NextSyncInv, SyncInvImplies, PTL DEF Spec

(* What the bucket had when no job was running is still in it, through     *)
(* overlapping jobs, crashes and restarts on an empty disk, for every      *)
(* database that was restored whenever it could be.                        *)
THEOREM BackupsSurvive == Spec => []SettledSurvives
BY InitSyncInv, NextSyncInv, SyncInvImplies, PTL DEF Spec

(* ... and it is on the disk that requests are served from.                *)
THEOREM DiskKeepsPromises == Spec => []PromisedOnDisk
<1>1. SyncInv => PromisedOnDisk
  <2> SUFFICES ASSUME SyncInv, NEW f \in Files \ (blind \cup deleted), local[f] # Torn
               PROVE  durable[f] \subseteq In(local[f])
    BY DEF PromisedOnDisk
  <2>1. CASE f = Meta
    <3>1. local[Meta] # Absent /\ local[Meta] # Torn
      BY DEF SyncInv, TypeOK, MetaWhole
    <3> QED
      BY <2>1, <3>1 DEF SyncInv, MetaKept, In
  <2>2. CASE f \in Projects
    BY <2>2 DEF SyncInv, ProjectKept, FileKept
  <2> QED
    BY <2>1, <2>2 DEF Files
<1> QED
  BY <1>1, InitSyncInv, NextSyncInv, PTL DEF Spec

(* What the bucket and the disk have when a job ends is no less than what  *)
(* they had when the last one did.                                         *)
LEMMA SettledGrows ==
  ASSUME SyncInv, NEW f \in Files \ (blind \cup deleted)
  PROVE  durable[f] \subseteq Settled[f]
<1>1. CASE bucket[f] = Torn
  BY <1>1 DEF Settled
<1>2. CASE bucket[f] # Torn
  <2>1. durable[f] \subseteq In(bucket[f])
    BY <1>2, SyncInvImplies DEF SettledSurvives
  <2>2. durable[f] \subseteq In(local[f])
    <3>1. CASE f = Meta
      <4>1. local[Meta] # Absent /\ local[Meta] # Torn
        BY DEF SyncInv, TypeOK, MetaWhole
      <4> QED
        BY <3>1, <4>1 DEF SyncInv, MetaKept, In
    <3>2. CASE f \in Projects
      BY <1>2, <3>2 DEF SyncInv, ProjectKept, TornKept, FileKept
    <3> QED
      BY <3>1, <3>2 DEF Files
  <2> QED
    BY <1>2, <2>1, <2>2 DEF Settled
<1> QED
  BY <1>1, <1>2

(* The promise itself does not dwindle from one job to the next.           *)
THEOREM NothingUnpromised == Spec => PromisesStand
<1>1. ASSUME SyncInv, [Next]_vars, \A s \in snaps : ~RestoreLive(s),
             NEW f \in Files \ (blind \cup deleted)
      PROVE  durable[f] \subseteq durable'[f]
  <2>1. durable[f] \subseteq Settled[f]
    BY <1>1, SettledGrows
  <2>2. durable' = durable \/ durable' = Settled
    <3>1. CASE Requests
      BY <1>1, <3>1 DEF Requests, Commit, DeleteProject, history
    <3>2. CASE Process
      BY <3>2 DEF Process, Stop, NoFinalSync, Exit, Crash, Start, history
    <3>3. ASSUME NEW j \in Jobs, JobStep(j) PROVE durable' = durable \/ durable' = Settled
      BY <3>3 DEF JobStep, BackUp, PushMeta, SnapshotMissing, PushProject, Put, PutFails, Pushed,
                  Finish, history
    <3>4. CASE UNCHANGED vars
      BY <3>4 DEF vars, history
    <3> QED
      BY <1>1, <3>1, <3>2, <3>3, <3>4 DEF Next
  <2> QED
    BY <2>1, <2>2
<1>2. SyncInv /\ [Next]_vars =>
        [(\A s \in snaps : ~RestoreLive(s)) =>
           \A f \in Files \ (blind \cup deleted) : durable[f] \subseteq durable'[f]]_vars
  BY <1>1
<1> QED
  BY <1>2, InitSyncInv, NextSyncInv, PTL DEF Spec, PromisesStand

-----------------------------------------------------------------------------
(* A clean stop.                                                           *)

Saved(f) == local[f] # Absent => bucket[f] = local[f]

(* While the server stops and no upload is left over from the loop, the    *)
(* final sync is alone: what it has pushed without an error is saved.      *)
FinalAlone ==
  /\ \A j \in Jobs \ {Final} : stage[j] = "idle"
  /\ final # "none" => stage[Final] = "idle"
  /\ final = "complete" => \A f \in Files : Saved(f)
  /\ stage[Final] \in {"backedup", "meta"} => snap[Final] = local[Meta]
  /\ stage[Final] = "backedup" => newer[Final] = 0
  /\ stage[Final] = "files" /\ ~failed[Final] =>
       \A f \in Files \ todo[Final] : Saved(f)
  /\ \A p \in Projects : reading[Final] = p =>
       seen[Final] = local[p] /\ local[p] \in {main[p], Torn}

FailedFiles == \A j \in Jobs : failed[j] => stage[j] = "files"

CleanInv ==
  /\ Quiet /\ FailedFiles
  /\ phase = "serving" => stage[Final] = "idle"
  /\ phase = "stopping" /\ ~straggler => FinalAlone
  /\ CleanStopKeepsAll

LEMMA InitCleanInv == Init => CleanInv
<1> SUFFICES ASSUME Init PROVE CleanInv
  OBVIOUS
<1>1. \A j \in Jobs : stage[j] = "idle" /\ failed[j] = FALSE
  BY DEF Init, NoUploads
<1>2. phase = "serving" /\ Final \in Jobs
  BY DEF Init, Jobs
<1> QED
  BY <1>1, <1>2 DEF CleanInv, Quiet, FailedFiles, CleanStopKeepsAll

(* A job moves only when it has begun, or begins when it may.              *)
LEMMA JobActive ==
  ASSUME TypeOK, NEW j \in Jobs, JobStep(j)
  PROVE  /\ stage[j] # "idle" \/ MayStart(j)
         /\ \A i \in Jobs \ {j} : /\ stage'[i] = stage[i]
                                  /\ failed'[i] = failed[i]
         /\ phase' = phase /\ straggler' = straggler
<1>1. None \notin Projects /\ None # Meta
  BY SyncAssumption DEF Files
<1>2. reading[j] # None => stage[j] # "idle"
  BY <1>1 DEF TypeOK, Files
<1> QED
  BY <1>2 DEF JobStep, BackUp, PushMeta, SnapshotMissing, PushProject, Put, PutFails,
                Pushed, Finish,
              TypeOK, history

LEMMA NextFailedFiles == TypeOK /\ FailedFiles /\ [Next]_vars => FailedFiles'
<1> SUFFICES ASSUME TypeOK, FailedFiles, [Next]_vars
             PROVE  FailedFiles'
  OBVIOUS
<1> USE DEF FailedFiles
<1>1. CASE Requests
  BY <1>1 DEF Requests, Commit, DeleteProject, RestoreLive, uploads
<1>2. ASSUME NEW j \in Jobs, JobStep(j)
      PROVE  FailedFiles'
  <2>1. failed'[j] => stage'[j] = "files"
    BY <1>2 DEF JobStep, BackUp, PushMeta, SnapshotMissing, PushProject, Put, PutFails,
                Pushed, Finish,
                TypeOK, history
  <2> QED
    BY <1>2, <2>1, JobActive
<1>3. CASE Stop
  <2>1. CASE straggler'
    BY <1>3, <2>1 DEF Stop
  <2>2. CASE ~straggler'
    <3>1. stage[Scheduled] # "files" /\ stage' = [stage EXCEPT ![Scheduled] = "idle"]
      BY <1>3, <2>2 DEF Stop
    <3> QED
      BY <1>3, <3>1 DEF Stop, TypeOK
  <2> QED
    BY <2>1, <2>2
<1>4. CASE NoFinalSync \/ Exit \/ UNCHANGED vars
  BY <1>4 DEF NoFinalSync, Exit, vars, uploads
<1>5. CASE Crash
  BY <1>5 DEF Crash, NoUploads
<1>6. ASSUME NEW wiped \in BOOLEAN, NEW fetched \in SUBSET Files, Start(wiped, fetched)
      PROVE  FailedFiles'
  BY <1>6 DEF Start, uploads
<1> QED
  BY <1>1, <1>2, <1>3, <1>4, <1>5, <1>6 DEF Next, Process

(* The final sync alone: no other backup is newer than its own, and its    *)
(* steps keep what it has saved.                                           *)
LEMMA FinalStep ==
  ASSUME TypeOK, MetaWhole, FailedFiles, FinalAlone, phase = "stopping", JobStep(Final)
  PROVE  FinalAlone'
<1>0. /\ Final \in Jobs /\ Meta \in Files /\ \A p \in Projects : p \in Files /\ p # Meta
      /\ None # Meta /\ None \notin Projects
  BY SyncAssumption DEF Files, Jobs
<1>1. \A j \in Jobs \ {Final} : stage'[j] = "idle"
  BY <1>0, JobActive DEF FinalAlone
<1>2. CASE BackUp(Final)
  <2>1. /\ stage'[Final] = "backedup" /\ snap'[Final] = local[Meta] /\ final = "none"
        /\ newer'[Final] = 0
        /\ reading[Final] = None
    BY <1>0, <1>2, NothingRead DEF BackUp, MayStart, TypeOK
  <2>2. UNCHANGED <<local, final, reading>>
    BY <1>2 DEF BackUp
  <2> QED
    BY <1>0, <1>1, <2>1, <2>2 DEF FinalAlone
<1>3. CASE PushMeta(Final)
  <2>1. stage[Final] = "backedup" /\ stage'[Final] = "meta" /\ reading'[Final] = Meta
    BY <1>0, <1>3 DEF PushMeta, TypeOK
  <2>2. UNCHANGED <<local, snap, final>>
    BY <1>3 DEF PushMeta, disk
  <2>3. final = "none"
    BY <2>1 DEF FinalAlone
  <2> QED
    BY <1>0, <1>1, <2>1, <2>2, <2>3 DEF FinalAlone
<1>3a. CASE SnapshotMissing(Final)
  <2>1. newer[Final] = 0 /\ newer[Final] >= Keep
    BY <1>0, <1>3a DEF SnapshotMissing, Prunable, FinalAlone
  <2> QED
    BY <2>1, SyncAssumption
<1>4. ASSUME NEW p \in Projects, PushProject(Final, p)
      PROVE  FinalAlone'
  <2>1. /\ stage[Final] = "files" /\ reading'[Final] = p
        /\ UNCHANGED <<stage, todo, failed, final, bucket>>
    BY <1>0, <1>4 DEF PushProject, TypeOK
  <2>2. final = "none"
    BY <2>1 DEF FinalAlone
  <2>3. p \in todo[Final]
    BY <1>4 DEF PushProject
  <2>4. \A f \in Files \ {p} : local'[f] = local[f]
    BY <1>4 DEF PushProject, TypeOK
  <2>5. seen'[Final] = local'[p] /\ local'[p] \in {main'[p], Torn}
    BY <1>0, <1>4 DEF PushProject, Folded, TypeOK
  <2>6. ~failed[Final] => \A f \in Files \ todo[Final] : Saved(f)'
    BY <2>1, <2>3, <2>4 DEF FinalAlone, Saved
  <2> QED
    BY <1>1, <2>1, <2>2, <2>5, <2>6 DEF FinalAlone
<1>5. ASSUME Pushed(Final), reading[Final] # None,
             ~failed'[Final] => /\ ~failed[Final] /\ bucket'[reading[Final]] = local[reading[Final]]
                                /\ \A f \in Files \ {reading[Final]} : bucket'[f] = bucket[f]
      PROVE  FinalAlone'
  <2>1. /\ stage'[Final] = "files" /\ reading'[Final] = None
        /\ UNCHANGED <<local, final>>
    BY <1>0, <1>5 DEF Pushed, TypeOK, disk
  <2>2. stage[Final] # "idle"
    BY <1>0, <1>5, NothingRead
  <2>3. final = "none"
    BY <2>2 DEF FinalAlone
  <2>4. ASSUME ~failed'[Final], NEW f \in Files, f \notin todo'[Final]
        PROVE  Saved(f)'
    <3>1. CASE f = reading[Final]
      BY <1>5, <2>1, <2>4, <3>1 DEF Saved
    <3>2. CASE f # reading[Final] /\ reading[Final] = Meta
      <4>1. todo'[Final] = {p \in Projects : local[p] # Absent}
        BY <1>0, <1>5, <3>2 DEF Pushed, Listed, TypeOK
      <4>2. local[f] = Absent
        BY <2>4, <3>2, <4>1 DEF Files
      <4> QED
        BY <2>1, <4>2 DEF Saved
    <3>3. CASE f # reading[Final] /\ reading[Final] # Meta
      <4>1. reading[Final] \in Projects /\ stage[Final] = "files"
        BY <1>0, <1>5, <3>3 DEF TypeOK, Files
      <4>2. f \notin todo[Final]
        BY <1>0, <1>5, <2>4, <3>3 DEF Pushed, TypeOK
      <4>3. Saved(f)
        BY <1>5, <2>4, <4>1, <4>2 DEF FinalAlone
      <4> QED
        BY <1>5, <2>1, <2>4, <3>3, <4>3 DEF Saved
    <3> QED
      BY <3>1, <3>2, <3>3
  <2> QED
    BY <1>0, <1>1, <2>1, <2>3, <2>4 DEF FinalAlone
<1>6. CASE Put(Final)
  <2>1. /\ reading[Final] # None /\ reading[Final] \in Files
        /\ Pushed(Final) /\ failed' = failed
    BY <1>0, <1>6 DEF Put, TypeOK
  <2>2. \A f \in Files \ {reading[Final]} : bucket'[f] = bucket[f]
    BY <1>6 DEF Put, TypeOK
  <2>3. CASE reading[Final] = Meta
    <3>1. /\ seen[Final] = snap[Final] /\ snap[Final] = local[Meta]
          /\ Source(Final, Meta) = seen[Final]
      BY <1>0, <2>3 DEF TypeOK, MetaWhole, FinalAlone, Source
    <3>2. bucket'[Meta] = local[Meta]
      BY <1>0, <1>6, <2>3, <3>1 DEF Put, TypeOK
    <3> QED
      BY <1>5, <2>1, <2>2, <2>3, <3>2
  <2>4. CASE reading[Final] \in Projects
    <3> DEFINE p == reading[Final]
    <3>1. /\ seen[Final] = local[p] /\ local[p] \in {main[p], Torn}
          /\ Source(Final, p) = main[p]
      BY <1>0, <2>4 DEF FinalAlone, Source
    <3>2. bucket'[p] = local[p]
      BY <1>0, <1>6, <2>4, <3>1 DEF Put, TypeOK
    <3> QED
      BY <1>5, <2>1, <2>2, <3>2
  <2> QED
    BY <2>1, <2>3, <2>4 DEF Files
<1>7. CASE PutFails(Final)
  <2>1. failed'[Final] = TRUE
    BY <1>0, <1>7 DEF PutFails, TypeOK
  <2> QED
    BY <1>5, <1>7, <2>1 DEF PutFails
<1>8. CASE Finish(Final)
  <2>1. /\ stage'[Final] = "idle" /\ reading[Final] = None /\ todo[Final] = {}
        /\ UNCHANGED <<local, bucket, reading>>
        /\ stage[Final] = "files"
        /\ final' = "complete" => ~failed[Final]
    BY <1>0, <1>8 DEF Finish, TypeOK, disk
  <2>2. final' = "complete" => \A f \in Files : Saved(f)'
    BY <2>1 DEF FinalAlone, Saved
  <2> QED
    BY <1>0, <1>1, <2>1, <2>2 DEF FinalAlone
<1> QED
  BY <1>2, <1>3, <1>3a, <1>4, <1>6, <1>7, <1>8 DEF JobStep

LEMMA NextCleanInv ==
  TypeOK /\ MetaWhole /\ CleanInv /\ [Next]_vars => CleanInv'
<1> SUFFICES ASSUME TypeOK, MetaWhole, CleanInv, [Next]_vars
             PROVE  CleanInv'
  OBVIOUS
<1>0. Final \in Jobs /\ Scheduled \in Jobs /\ Scheduled # Final
  BY SyncAssumption DEF Jobs
<1>a. Quiet' /\ FailedFiles'
  BY NextQuiet, NextFailedFiles DEF CleanInv
<1>1. CASE Requests
  <2>1. phase = "serving" /\ phase' = "serving" /\ stage' = stage
    BY <1>1 DEF Requests, Commit, DeleteProject, RestoreLive, uploads
  <2> QED
    BY <1>a, <2>1 DEF CleanInv, CleanStopKeepsAll
<1>2. ASSUME NEW j \in Jobs, JobStep(j)
      PROVE  CleanInv'
  <2>1. CASE phase = "serving"
    <3>1. j # Final
      BY <1>2, <2>1, JobActive DEF CleanInv, MayStart
    <3>2. stage'[Final] = "idle" /\ phase' = "serving"
      BY <1>0, <1>2, <2>1, <3>1, JobActive DEF CleanInv
    <3> QED
      BY <1>a, <3>2 DEF CleanInv, CleanStopKeepsAll
  <2>2. CASE phase = "stopping" /\ ~straggler
    <3>1. j = Final
      BY <1>2, <2>2, JobActive DEF CleanInv, FinalAlone, MayStart
    <3>2. FinalAlone' /\ phase' = "stopping"
      BY <1>2, <2>2, <3>1, FinalStep, JobActive DEF CleanInv
    <3> QED
      BY <1>a, <3>2 DEF CleanInv, CleanStopKeepsAll
  <2>3. CASE phase = "stopping" /\ straggler
    <3>1. phase' = "stopping" /\ straggler'
      BY <1>2, <2>3, JobActive
    <3> QED
      BY <1>a, <3>1 DEF CleanInv, CleanStopKeepsAll
  <2>4. CASE phase \in {"stopped", "down"}
    BY <1>2, <2>4, JobActive DEF CleanInv, Quiet, MayStart
  <2> QED
    BY <2>1, <2>2, <2>3, <2>4 DEF TypeOK
<1>3. CASE Stop
  <2>1. /\ phase' = "stopping" /\ final' = "none" /\ phase = "serving"
        /\ \A j \in Manual : stage[j] = "idle"
        /\ UNCHANGED reading
    BY <1>3 DEF Stop
  <2>2. ASSUME ~straggler'
        PROVE  FinalAlone'
    <3>1. /\ stage' = [stage EXCEPT ![Scheduled] = "idle"]
          /\ stage[Final] = "idle"
      BY <1>3, <2>1, <2>2 DEF Stop, CleanInv
    <3>2. \A j \in Jobs : stage'[j] = "idle"
      BY <1>0, <2>1, <3>1 DEF Jobs, TypeOK
    <3>3. reading'[Final] = None /\ None \notin Projects
      BY <1>0, <2>1, <3>1, NothingRead, SyncAssumption DEF Files
    <3> QED
      BY <1>0, <2>1, <3>2, <3>3 DEF FinalAlone
  <2> QED
    BY <1>a, <2>1, <2>2 DEF CleanInv, CleanStopKeepsAll
<1>4. CASE NoFinalSync
  <2>1. /\ phase = "stopping" /\ phase' = "stopping" /\ final = "none" /\ final' = "failed"
        /\ stage[Final] = "idle" /\ UNCHANGED <<disk, bucket, uploads, straggler>>
    BY <1>4 DEF NoFinalSync, history
  <2>2. ~straggler' => FinalAlone'
    BY <2>1 DEF CleanInv, FinalAlone, Saved, disk, uploads
  <2> QED
    BY <1>a, <2>1, <2>2 DEF CleanInv, CleanStopKeepsAll
<1>5. CASE Exit
  <2>1. /\ phase = "stopping" /\ phase' = "stopped"
        /\ UNCHANGED <<local, bucket, final, straggler>>
    BY <1>5 DEF Exit, disk, history
  <2>2. CleanStopKeepsAll'
    BY <2>1 DEF CleanInv, FinalAlone, Saved, CleanStopKeepsAll
  <2> QED
    BY <1>a, <2>1, <2>2 DEF CleanInv
<1>6. CASE Crash
  BY <1>a, <1>6 DEF Crash, CleanInv, CleanStopKeepsAll
<1>7. ASSUME NEW wiped \in BOOLEAN, NEW fetched \in SUBSET Files, Start(wiped, fetched)
      PROVE  CleanInv'
  <2>1. phase' = "serving" /\ stage'[Final] = "idle"
    BY <1>0, <1>7 DEF Start, CleanInv, Quiet, uploads
  <2> QED
    BY <1>a, <2>1 DEF CleanInv, CleanStopKeepsAll
<1>8. CASE UNCHANGED vars
  BY <1>a, <1>8 DEF CleanInv, CleanStopKeepsAll, FinalAlone, Saved, vars, disk, uploads, history
<1> QED
  BY <1>1, <1>2, <1>3, <1>4, <1>5, <1>6, <1>7, <1>8 DEF Next, Process

(* A final sync that reports no error, with no upload left over from the   *)
(* loop, leaves the bucket equal to the disk.                              *)
THEOREM CleanStop == Spec => []CleanStopKeepsAll
<1>1. Init => SyncInv /\ CleanInv
  BY InitSyncInv, InitCleanInv
<1>2. SyncInv /\ CleanInv /\ [Next]_vars => SyncInv' /\ CleanInv'
  BY NextSyncInv, NextCleanInv DEF SyncInv
<1>3. CleanInv => CleanStopKeepsAll
  BY DEF CleanInv
<1> QED
  BY <1>1, <1>2, <1>3, PTL DEF Spec

=============================================================================
