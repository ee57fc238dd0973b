--------------------------- MODULE StartUpProofs ---------------------------
(***************************************************************************)
(* Proofs about StartUp for any number of migrations, tables and requests. *)
(***************************************************************************)
EXTENDS StartUp, WellFoundedInduction, TLAPS

USE DEF hvars

-----------------------------------------------------------------------------
(* The first of the pending migrations.                                    *)

LEMMA LessThanWellFounded == IsWellFoundedOn({ss \in Nat \X Nat : ss[1] < ss[2]}, Nat)
BY NatLessThanWellFounded DEF OpToRel

LEMMA MinimalElement == \A R, S, T :
  IsWellFoundedOn(R, S) /\ T \subseteq S /\ T # {}
    => \E x \in T : \A y \in T : ~ (<<y, x>> \in R)
BY WFMin

LEMMA LeastNumber ==
  ASSUME NEW T, T \subseteq Nat, T # {}
  PROVE  \E x \in T : \A y \in T : x <= y
<1> DEFINE R == {ss \in Nat \X Nat : ss[1] < ss[2]}
<1>1. IsWellFoundedOn(R, Nat)
  BY LessThanWellFounded
<1> HIDE DEF R
<1>2. \E x \in T : \A y \in T : ~ (<<y, x>> \in R)
  BY <1>1, MinimalElement, Zenon
<1>3. PICK x \in T : \A y \in T : ~ (<<y, x>> \in R)
  BY <1>2
<1>4. ASSUME NEW y \in T PROVE x <= y
  <2>1. x \in Nat /\ y \in Nat
    OBVIOUS
  <2>2. y < x => <<y, x>> \in R
    BY <2>1 DEF R
  <2> QED
    BY <1>3, <2>1, <2>2
<1> QED
  BY <1>3, <1>4

LEMMA FirstIsLeast ==
  ASSUME NEW P \in SUBSET Migs, P # {}
  PROVE  FirstOf(P) \in P /\ \A n \in P : FirstOf(P) <= n
<1>1. P \subseteq Nat
  BY DEF Migs
<1>2. \E m \in P : \A n \in P : m <= n
  BY <1>1, LeastNumber
<1> QED
  BY <1>2 DEF FirstOf

-----------------------------------------------------------------------------
(* The inductive invariant.                                                *)

HistoryTypeOK ==
  /\ backup \in Database \cup {Absent}
  /\ life \in {"unborn", "made", "rowless", "unlinked", "past"}
  /\ mishaps \in SUBSET {"replaced", "crossed", "misread"}

(* A process that does not serve has no request and no upload, and nothing *)
(* has happened under it.                                                  *)
QuietOK == phase # "serving" =>
  /\ ~cached /\ push = "idle"
  /\ life \notin {"rowless", "unlinked"} /\ "replaced" \notin mishaps
  /\ \A r \in Requests : job[r] = Idle /\ ~open[r]

(* What a run of migrations no longer has to do is done: the ids in a file *)
(* that stays where it is only become more, unless a backup takes it back. *)
JobOK(a) == job[a] # Idle =>
  /\ a = Cli => job[a].db = Meta
  /\ a \in Requests => job[a].db = Proj
  /\ a = Server => \/ job[a].db = Meta /\ phase = "migrating"
                   \/ job[a].db = Proj /\ phase = "adopting"
  /\ disk[job[a].db] # Absent
  /\ a # Cli \/ "crossed" \notin mishaps =>
       Migs \ job[a].pending \subseteq disk[job[a].db].applied
  /\ job[a].step = "begun" => job[a].pending # {}

Current(f) == disk[f] # Absent /\ disk[f].applied = Migs

(* What the start has reached at each phase, and what requests rely on.    *)
PhaseOK ==
  /\ phase \in {"adopting", "copying", "marking", "serving"} =>
       disk[Meta] # Absent /\ ("replaced" \notin mishaps => Current(Meta))
  /\ phase \in {"copying", "marking"} => disk[Proj] # Absent
  /\ /\ phase \in {"copying", "marking"} \/ (phase = "adopting" /\ job[Server] # Idle)
     /\ "misread" \notin mishaps
     => ~disk[Meta].marker
  /\ phase = "marking" =>
       \A t \in Tables : disk[Meta].tables[t] = "legacy" => disk[Proj].tables[t] # "none"
  /\ cached /\ life # "unlinked" => Current(Proj)
  /\ \A r \in Requests : open[r] =>
       disk[Proj] # Absent /\ (life # "unlinked" => Current(Proj))

ImageOK(d) == d # Absent =>
  /\ d.applied \subseteq d.schema
  /\ "crossed" \notin mishaps => (\A m \in d.applied : 1 .. m \subseteq d.applied)

ImagesOK == ImageOK(backup) /\ \A f \in Dbs : ImageOK(disk[f]) /\ ImageOK(bucket[f])

(* Tables of the legacy plane in m have been copied to p, if m says so.    *)
Covered(m, p) == m.marker => \A t \in Tables :
  m.tables[t] = "legacy" => p # Absent /\ (t \in dropped \/ p.tables[t] # "none")

(* The two files belong together, and so do the objects of a whole upload. *)
HistoryOK == ~torn =>
  /\ life \in {"unborn", "made"}
  /\ disk[Proj] # Absent => disk[Meta] # Absent
  /\ disk[Proj] # Absent /\ "misread" \notin mishaps =>
       \A t \in dropped : disk[Proj].tables[t] # "legacy"
  /\ disk[Meta] # Absent =>
       /\ Covered(disk[Meta], disk[Proj])
       /\ \A t \in dropped : disk[Meta].tables[t] = "legacy" => disk[Meta].marker
  /\ push = "projects" =>
       /\ ~whole /\ disk[Meta] # Absent /\ bucket[Meta] # Absent
       /\ bucket[Meta].marker => disk[Meta].marker
       /\ Covered(bucket[Meta], disk[Proj])
  /\ whole => bucket[Meta] # Absent /\ Covered(bucket[Meta], bucket[Proj])

IInv == /\ TypeOK /\ QuietOK /\ PhaseOK /\ ImagesOK /\ HistoryOK
        /\ \A a \in Actors : JobOK(a)

LEMMA JobFacts ==
  /\ Idle \in Jobs /\ Idle.step = "idle"
  /\ \A j \in Jobs : j # Idle => j \in [db : Dbs, pending : SUBSET Migs, step : {"listed", "begun"}]
  /\ \A j \in Jobs : j.step \in {"listed", "begun"} => j # Idle
BY DEF Jobs, Idle

LEMMA ActorFacts ==
  /\ Server \in Actors /\ Cli \in Actors /\ Requests \subseteq Actors
  /\ Meta \in Dbs /\ Proj \in Dbs /\ Meta # Proj
  /\ \A a \in Actors : a # None
BY StartAssumption DEF Actors, Dbs

LEMMA FreshFacts ==
  /\ Fresh \in Database /\ Fresh # Absent /\ ImageOK(Fresh)
  /\ Fresh.marker = FALSE /\ \A t \in Tables : Fresh.tables[t] = "none"
<1>1. Fresh \in Database
  <2>1. [t \in Tables |-> "none"] \in [Tables -> {"none", "legacy", "scoped"}]
    OBVIOUS
  <2> QED
    BY <2>1 DEF Fresh, Database
<1>2. Fresh # Absent
  BY <1>1, AbsentAssumption
<1>3. Fresh.marker = FALSE /\ \A t \in Tables : Fresh.tables[t] = "none"
  BY DEF Fresh
<1>4. ImageOK(Fresh)
  BY DEF Fresh, ImageOK
<1> QED
  BY <1>1, <1>2, <1>3, <1>4

LEMMA InitIInv == Init => IInv
<1> SUFFICES ASSUME Init PROVE IInv
  OBVIOUS
<1>1. /\ phase = "down" /\ lock = [f \in Dbs |-> None] /\ job = [a \in Actors |-> Idle]
      /\ cached = FALSE /\ open = [r \in Requests |-> FALSE]
      /\ bucket = [f \in Dbs |-> Absent] /\ push = "idle" /\ whole = FALSE /\ torn = FALSE
      /\ dropped = {} /\ mishaps = {} /\ life \in {"unborn", "made"}
      /\ backup \in {Absent, disk[Meta]}
  BY DEF Init
<1> DEFINE Good == /\ disk \in [Dbs -> Database \cup {Absent}] /\ disk[Proj] = Absent
                   /\ disk[Meta] # Absent => disk[Meta].marker = FALSE /\ ImageOK(disk[Meta])
<1>2. Good
  <2>1. CASE disk = [f \in Dbs |-> Absent]
    BY <2>1, ActorFacts
  <2>2. CASE \E k \in Migs, patched \in SUBSET Migs,
                tabs \in [Tables -> {"none", "legacy"}], p \in BOOLEAN :
               disk = [f \in Dbs |->
                    IF f = Meta
                    THEN [applied |-> 1 .. k, schema |-> (1 .. k) \cup patched,
                          tables |-> tabs, marker |-> FALSE, project |-> p]
                    ELSE Absent]
    <3>1. PICK k \in Migs, patched \in SUBSET Migs,
               tabs \in [Tables -> {"none", "legacy"}], p \in BOOLEAN :
               disk = [f \in Dbs |->
                    IF f = Meta
                    THEN [applied |-> 1 .. k, schema |-> (1 .. k) \cup patched,
                          tables |-> tabs, marker |-> FALSE, project |-> p]
                    ELSE Absent]
      BY <2>2
    <3> DEFINE d == [applied |-> 1 .. k, schema |-> (1 .. k) \cup patched,
                     tables |-> tabs, marker |-> FALSE, project |-> p]
    <3>2. k \in Nat /\ 1 .. k \subseteq Migs
      BY <3>1, StartAssumption DEF Migs
    <3>3. tabs \in [Tables -> {"none", "legacy", "scoped"}]
      BY <3>1
    <3>4. d \in Database
      BY <3>1, <3>2, <3>3 DEF Database
    <3>5. ImageOK(d)
      BY <3>2 DEF ImageOK
    <3>6. d.marker = FALSE
      OBVIOUS
    <3>7. disk = [f \in Dbs |-> IF f = Meta THEN d ELSE Absent]
      BY <3>1
    <3> HIDE DEF d
    <3>8. disk[Meta] = d /\ disk[Proj] = Absent /\ disk \in [Dbs -> Database \cup {Absent}]
      BY <3>7, <3>4, ActorFacts
    <3> QED
      BY <3>5, <3>6, <3>8
  <2> QED
    BY <2>1, <2>2 DEF Init
<1>3. TypeOK
  BY <1>1, <1>2, JobFacts, ActorFacts, AbsentAssumption DEF TypeOK
<1>4. QuietOK /\ PhaseOK
  BY <1>1, ActorFacts DEF QuietOK, PhaseOK
<1>5. ImagesOK
  BY <1>1, <1>2, ActorFacts DEF ImagesOK, Dbs, ImageOK
<1>6. HistoryOK
  BY <1>1, <1>2 DEF HistoryOK, Covered
<1>7. \A a \in Actors : JobOK(a)
  BY <1>1 DEF JobOK
<1> QED
  BY <1>3, <1>4, <1>5, <1>6, <1>7 DEF IInv

-----------------------------------------------------------------------------
(* What most steps leave alone.                                            *)

(* A file stays where it is and its ids only become more.                  *)
Keeps == \A f \in Dbs : disk[f] # Absent =>
  disk'[f] # Absent /\ disk[f].applied \subseteq disk'[f].applied

(* No step of the adoption, no request has changed what a file holds.      *)
SameContent == \A f \in Dbs :
  /\ disk[f] = Absent => disk'[f] \in {Absent, Fresh}
  /\ disk[f] # Absent =>
       disk'[f] # Absent /\ disk'[f].tables = disk[f].tables /\ disk'[f].marker = disk[f].marker

LEMMA CurrentKeeps ==
  ASSUME NEW f \in Dbs, Keeps, Current(f), disk' \in [Dbs -> Database \cup {Absent}]
  PROVE  Current(f)'
<1>1. disk'[f] # Absent /\ disk[f].applied \subseteq disk'[f].applied /\ disk[f].applied = Migs
  BY DEF Keeps, Current
<1>2. disk'[f] \in Database
  BY <1>1
<1>3. disk'[f].applied \subseteq Migs
  BY <1>2 DEF Database
<1> QED
  BY <1>1, <1>3 DEF Current

LEMMA JobsFrame ==
  ASSUME NEW a \in Actors, TypeOK, \A b \in Actors : JobOK(b), Keeps,
         \A b \in Actors \ {a} : job'[b] = job[b],
         a # Server => phase' = phase \/ job[Server] = Idle, JobOK(a)',
         mishaps \subseteq mishaps'
  PROVE  \A b \in Actors : JobOK(b)'
<1> SUFFICES ASSUME NEW b \in Actors, b # a, job[b] # Idle PROVE JobOK(b)'
  BY DEF JobOK
<1>1. job'[b] = job[b] /\ (b = Server => phase' = phase)
  OBVIOUS
<1>2. job[b].db \in Dbs
  BY JobFacts DEF TypeOK
<1>3. JobOK(b)
  OBVIOUS
<1>4. /\ disk'[job[b].db] # Absent
      /\ b # Cli \/ "crossed" \notin mishaps' =>
           Migs \ job[b].pending \subseteq disk'[job[b].db].applied
  BY <1>2, <1>3 DEF JobOK, Keeps
<1> QED
  BY <1>1, <1>3, <1>4 DEF JobOK

LEMMA JobsStay ==
  ASSUME IInv, Keeps, job' = job, phase' = phase \/ job[Server] = Idle,
         mishaps \subseteq mishaps'
  PROVE  \A b \in Actors : JobOK(b)'
<1> USE DEF IInv
<1>1. JobOK(Server)'
  <2> SUFFICES ASSUME job[Server] # Idle PROVE JobOK(Server)'
    BY DEF JobOK
  <2>1. job[Server].db \in Dbs
    BY JobFacts, ActorFacts DEF TypeOK
  <2> QED
    BY <2>1, ActorFacts DEF JobOK, Keeps
<1> QED
  BY <1>1, JobsFrame, ActorFacts

LEMMA HistoryFrame ==
  ASSUME TypeOK, HistoryOK, SameContent, push' \in {push, "idle"},
         ~torn => (disk'[Proj] # Absent => disk'[Meta] # Absent),
         life' \in {life, "made"}, mishaps \subseteq mishaps',
         UNCHANGED <<bucket, whole, torn, dropped>>
  PROVE  HistoryOK'
<1> SUFFICES ASSUME ~torn PROVE HistoryOK'
  BY DEF HistoryOK
<1>1. disk'[Proj] # Absent /\ "misread" \notin mishaps' =>
        \A t \in dropped : disk'[Proj].tables[t] # "legacy"
  <2>1. CASE disk[Proj] = Absent
    <3>1. disk'[Proj] # Absent => disk'[Proj] = Fresh
      BY <2>1, ActorFacts DEF SameContent
    <3>2. dropped \subseteq Tables
      BY DEF TypeOK
    <3> QED
      BY <3>1, <3>2, FreshFacts
  <2>2. CASE disk[Proj] # Absent
    BY <2>2, ActorFacts DEF SameContent, HistoryOK
  <2> QED
    BY <2>1, <2>2
<1>2. ASSUME NEW m, Covered(m, disk[Proj]), NEW t \in Tables, m.marker, m.tables[t] = "legacy"
      PROVE  disk'[Proj] # Absent /\ (t \in dropped \/ disk'[Proj].tables[t] # "none")
  BY <1>2, ActorFacts DEF Covered, SameContent
<1>3. disk'[Meta] # Absent =>
        /\ Covered(disk'[Meta], disk'[Proj])
        /\ \A t \in dropped : disk'[Meta].tables[t] = "legacy" => disk'[Meta].marker
  <2>1. CASE disk[Meta] = Absent
    <3>1. disk'[Meta] # Absent => disk'[Meta] = Fresh
      BY <2>1, ActorFacts DEF SameContent
    <3>2. dropped \subseteq Tables
      BY DEF TypeOK
    <3> QED
      BY <3>1, <3>2, FreshFacts DEF Covered
  <2>2. CASE disk[Meta] # Absent
    <3>1. disk'[Meta].tables = disk[Meta].tables /\ disk'[Meta].marker = disk[Meta].marker
      BY <2>2, ActorFacts DEF SameContent
    <3>2. Covered(disk[Meta], disk[Proj])
      BY <2>2 DEF HistoryOK
    <3>3. ASSUME NEW t \in Tables, disk'[Meta].marker, disk'[Meta].tables[t] = "legacy"
          PROVE  disk'[Proj] # Absent /\ (t \in dropped \/ disk'[Proj].tables[t] # "none")
      BY <3>1, <3>2, <3>3, <1>2
    <3> QED
      BY <3>1, <3>3, <2>2 DEF HistoryOK, Covered
  <2> QED
    BY <2>1, <2>2
<1>4. push' = "projects" =>
       /\ ~whole /\ disk'[Meta] # Absent /\ bucket[Meta] # Absent
       /\ bucket[Meta].marker => disk'[Meta].marker
       /\ Covered(bucket[Meta], disk'[Proj])
  <2> SUFFICES ASSUME push' = "projects"
               PROVE  /\ ~whole /\ disk'[Meta] # Absent /\ bucket[Meta] # Absent
                      /\ bucket[Meta].marker => disk'[Meta].marker
                      /\ Covered(bucket[Meta], disk'[Proj])
    OBVIOUS
  <2>1. push = "projects"
    OBVIOUS
  <2>2. /\ ~whole /\ disk[Meta] # Absent /\ bucket[Meta] # Absent
        /\ bucket[Meta].marker => disk[Meta].marker
        /\ Covered(bucket[Meta], disk[Proj])
    BY <2>1 DEF HistoryOK
  <2>3. disk'[Meta] # Absent /\ disk'[Meta].marker = disk[Meta].marker
    BY <2>2, ActorFacts DEF SameContent
  <2>4. Covered(bucket[Meta], disk'[Proj])
    BY <2>2, <1>2 DEF Covered
  <2> QED
    BY <2>2, <2>3, <2>4
<1>5. whole => bucket[Meta] # Absent /\ Covered(bucket[Meta], bucket[Proj])
  BY DEF HistoryOK
<1> QED
  BY <1>1, <1>3, <1>4, <1>5 DEF HistoryOK, Covered

LEMMA ImagesFrame ==
  ASSUME ImagesOK, UNCHANGED <<bucket, backup>>, mishaps \subseteq mishaps',
         \A f \in Dbs : ImageOK(disk[f]) => ImageOK(disk'[f])
  PROVE  ImagesOK'
BY DEF ImagesOK, ImageOK

-----------------------------------------------------------------------------
(* A run of migrations.                                                    *)

LEMMA ConnectStep ==
  ASSUME TypeOK, NEW f \in Dbs, disk' = [disk EXCEPT ![f] = Connected(f)]
  PROVE  /\ disk' \in [Dbs -> Database \cup {Absent}]
         /\ disk'[f] = Connected(f) /\ disk'[f] # Absent /\ Keeps /\ SameContent
         /\ \A g \in Dbs : ImageOK(disk[g]) => ImageOK(disk'[g])
<1>1. Connected(f) \in Database /\ Connected(f) # Absent /\ disk \in [Dbs -> Database \cup {Absent}]
  BY FreshFacts, AbsentAssumption DEF TypeOK, Connected
<1>2. disk' \in [Dbs -> Database \cup {Absent}] /\ disk'[f] = Connected(f)
      /\ \A g \in Dbs \ {f} : disk'[g] = disk[g]
  BY <1>1
<1>3. disk'[f] = IF disk[f] = Absent THEN Fresh ELSE disk[f]
  BY <1>2 DEF Connected
<1>4. \A g \in Dbs : disk'[g] = disk[g] \/ (disk[g] = Absent /\ disk'[g] = Fresh)
  BY <1>2, <1>3
<1>5. Keeps /\ SameContent /\ \A g \in Dbs : ImageOK(disk[g]) => ImageOK(disk'[g])
  BY <1>4, FreshFacts DEF Keeps, SameContent
<1> QED
  BY <1>1, <1>2, <1>5

LEMMA ListStep ==
  ASSUME TypeOK, NEW a \in Actors, NEW f \in Dbs, List(a, f)
  PROVE  /\ disk' \in [Dbs -> Database \cup {Absent}] /\ job' \in [Actors -> Jobs]
         /\ disk'[f] # Absent /\ Keeps /\ SameContent
         /\ \A g \in Dbs : ImageOK(disk[g]) => ImageOK(disk'[g])
         /\ \A b \in Actors \ {a} : job'[b] = job[b]
         /\ job[a] = Idle /\ job'[a] # Idle
         /\ job'[a].db = f /\ job'[a].step = "listed"
         /\ Migs \ job'[a].pending \subseteq disk'[f].applied
<1>1. job[a] = Idle /\ disk' = [disk EXCEPT ![f] = Connected(f)]
  BY DEF List
<1>4. /\ disk' \in [Dbs -> Database \cup {Absent}] /\ disk'[f] = Connected(f) /\ disk'[f] # Absent
      /\ Keeps /\ SameContent /\ \A g \in Dbs : ImageOK(disk[g]) => ImageOK(disk'[g])
  BY <1>1, ConnectStep
<1>5. PICK applied \in {Connected(f).applied, {}} :
        job' = [job EXCEPT ![a] = [db |-> f, pending |-> Migs \ applied, step |-> "listed"]]
  BY DEF List
<1> DEFINE j == [db |-> f, pending |-> Migs \ applied, step |-> "listed"]
<1>6. j \in Jobs /\ j # Idle
  <2>1. j \in [db : Dbs, pending : SUBSET Migs, step : {"listed", "begun"}]
    OBVIOUS
  <2>2. j \in Jobs
    BY <2>1 DEF Jobs
  <2>3. j.step = "listed"
    OBVIOUS
  <2> QED
    BY <2>2, <2>3, JobFacts
<1>7. Migs \ j.pending \subseteq Connected(f).applied
  BY <1>5
<1>8. j.db = f /\ j.step = "listed"
  OBVIOUS
<1>9. job' = [job EXCEPT ![a] = j]
  BY <1>5
<1> HIDE DEF j
<1>10. job' \in [Actors -> Jobs] /\ job'[a] = j /\ \A b \in Actors \ {a} : job'[b] = job[b]
  BY <1>6, <1>9 DEF TypeOK
<1> QED
  BY <1>1, <1>4, <1>6, <1>7, <1>8, <1>10

LEMMA TypeAfterList ==
  ASSUME TypeOK, NEW a \in Actors, NEW f \in Dbs, List(a, f), UNCHANGED <<lock, bucket, whole, torn, dropped>>,
         HistoryTypeOK',
         phase' \in {"down", "starting", "migrating", "adopting", "copying", "marking", "serving"},
         cached' \in BOOLEAN, open' \in [Requests -> BOOLEAN], push' \in {"idle", "projects"}
  PROVE  TypeOK'
<1>1. \A g \in Dbs, b \in Actors : job'[b].step = "begun" /\ job'[b].db = g <=> job[b].step = "begun" /\ job[b].db = g
  BY ListStep, JobFacts
<1> QED
  BY <1>1, ListStep DEF TypeOK, HistoryTypeOK

LEMMA PushKeeps ==
  ASSUME IInv, Push
  PROVE  IInv'
<1> USE DEF IInv
<1>1. List(Cli, Meta) /\ UNCHANGED <<phase, lock, cached, open, bucket, push, whole, torn, dropped, hvars>>
  BY DEF Push
<1>2. TypeOK'
  BY <1>1, TypeAfterList, ActorFacts DEF TypeOK, HistoryTypeOK
<1>3. QuietOK'
  BY <1>1, ListStep, ActorFacts, StartAssumption DEF QuietOK
<1>4. PhaseOK'
  BY <1>1, ListStep, CurrentKeeps, ActorFacts, StartAssumption DEF PhaseOK, SameContent, Keeps, Current
<1>5. ImagesOK'
  BY <1>1, ListStep, ImagesFrame, ActorFacts
<1>6. HistoryOK'
  BY <1>1, ListStep, HistoryFrame, ActorFacts
<1>7. JobOK(Cli)'
  BY <1>1, ListStep, ActorFacts, StartAssumption DEF JobOK
<1>8. \A b \in Actors : JobOK(b)'
  BY <1>1, <1>7, ListStep, JobsFrame, ActorFacts
<1> QED
  BY <1>2, <1>3, <1>4, <1>5, <1>6, <1>8

LEMMA MigrateKeeps ==
  ASSUME IInv, Migrate
  PROVE  IInv'
<1> USE DEF IInv
<1>1. /\ phase = "starting" /\ phase' = "migrating" /\ List(Server, Meta)
      /\ UNCHANGED <<lock, cached, open, bucket, push, whole, torn, dropped, hvars>>
  BY DEF Migrate
<1>2. TypeOK'
  BY <1>1, TypeAfterList, ActorFacts DEF TypeOK, HistoryTypeOK
<1>3. QuietOK'
  BY <1>1, ListStep, ActorFacts, StartAssumption DEF QuietOK
<1>4. PhaseOK'
  BY <1>1, <1>3 DEF PhaseOK, QuietOK
<1>5. ImagesOK'
  BY <1>1, ListStep, ImagesFrame, ActorFacts
<1>6. HistoryOK'
  BY <1>1, ListStep, HistoryFrame, ActorFacts
<1>7. JobOK(Server)'
  BY <1>1, ListStep, ActorFacts, StartAssumption DEF JobOK
<1>8. \A b \in Actors : JobOK(b)'
  BY <1>1, <1>7, ListStep, JobsFrame, ActorFacts
<1> QED
  BY <1>2, <1>3, <1>4, <1>5, <1>6, <1>8

LEMMA AdoptKeeps ==
  ASSUME IInv, Adopt
  PROVE  IInv'
<1> USE DEF IInv
<1>1. /\ phase = "adopting" /\ List(Server, Proj)
      /\ UNCHANGED <<phase, lock, cached, open, bucket, push, whole, torn, dropped, backup, life>>
      /\ mishaps' \in {mishaps, mishaps \cup {"misread"}}
      /\ "misread" \notin mishaps' => ~disk[Meta].marker
  BY DEF Adopt, Adopts
<1>2. TypeOK'
  BY <1>1, TypeAfterList, ActorFacts DEF TypeOK, HistoryTypeOK
<1>3. QuietOK'
  BY <1>1, ListStep, ActorFacts, StartAssumption DEF QuietOK
<1>4. disk'[Meta] # Absent /\ ("replaced" \notin mishaps' => Current(Meta)')
  BY <1>1, ListStep, CurrentKeeps, ActorFacts DEF PhaseOK, Keeps
<1>5. PhaseOK'
  <2>1. disk'[Meta].marker = disk[Meta].marker
    BY <1>1, ListStep, ActorFacts DEF PhaseOK, Current, SameContent
  <2> QED
    BY <1>1, <1>3, <1>4, <2>1 DEF PhaseOK, QuietOK
<1>6. ImagesOK'
  BY <1>1, ListStep, ImagesFrame, ActorFacts
<1>7. HistoryOK'
  BY <1>1, <1>4, ListStep, HistoryFrame, ActorFacts DEF Current
<1>8. JobOK(Server)'
  BY <1>1, ListStep, ActorFacts, StartAssumption DEF JobOK
<1>9. \A b \in Actors : JobOK(b)'
  BY <1>1, <1>8, ListStep, JobsFrame, ActorFacts
<1> QED
  BY <1>2, <1>3, <1>5, <1>6, <1>7, <1>9

LEMMA OpenKeeps ==
  ASSUME IInv, NEW r \in Requests, Open(r)
  PROVE  IInv'
<1> USE DEF IInv
<1>1. /\ phase = "serving" /\ ~open[r] /\ job[r] = Idle
      /\ UNCHANGED <<phase, lock, cached, bucket, push, whole, torn, dropped, hvars>>
  BY DEF Open
<1>2. CASE cached
  <2>1. open' = [open EXCEPT ![r] = TRUE] /\ disk' = [disk EXCEPT ![Proj] = Connected(Proj)] /\ job' = job
    BY <1>2 DEF Open
  <2>2. /\ disk' \in [Dbs -> Database \cup {Absent}] /\ disk'[Proj] # Absent
        /\ Keeps /\ SameContent /\ \A g \in Dbs : ImageOK(disk[g]) => ImageOK(disk'[g])
    BY <2>1, ConnectStep, ActorFacts
  <2>3. open' \in [Requests -> BOOLEAN]
    BY <2>1 DEF TypeOK
  <2>4. TypeOK'
    <3>1. \A g \in Dbs, b \in Actors : lock'[g] = b <=> job'[b].step = "begun" /\ job'[b].db = g
      BY <1>1, <2>1 DEF TypeOK
    <3> QED
      BY <1>1, <2>1, <2>2, <2>3, <3>1 DEF TypeOK
  <2>5. QuietOK'
    BY <1>1 DEF QuietOK
  <2>6. PhaseOK'
    <3>1. \A g \in Dbs : Current(g) => Current(g)'
      BY <2>2, CurrentKeeps
    <3>2. disk'[Meta] # Absent
      BY <1>1, <2>2, ActorFacts DEF PhaseOK, Keeps
    <3>3. life' # "unlinked" => Current(Proj)'
      BY <1>1, <1>2, <3>1, ActorFacts DEF PhaseOK
    <3> QED
      BY <1>1, <2>2, <3>1, <3>2, <3>3, ActorFacts DEF PhaseOK
  <2>7. ImagesOK'
    BY <1>1, <2>2, ImagesFrame
  <2>8. HistoryOK'
    <3>1. disk'[Meta] # Absent
      BY <1>1, <2>2, ActorFacts DEF PhaseOK, Keeps
    <3> QED
      BY <1>1, <2>2, <3>1, HistoryFrame
  <2>9. \A b \in Actors : JobOK(b)'
    BY <1>1, <2>1, <2>2, JobsStay
  <2> QED
    BY <2>4, <2>5, <2>6, <2>7, <2>8, <2>9
<1>3. CASE ~cached
  <2>1. List(r, Proj) /\ UNCHANGED open
    BY <1>3 DEF Open
  <2>2. TypeOK'
    BY <1>1, <2>1, TypeAfterList, ActorFacts DEF TypeOK, HistoryTypeOK
  <2>3. QuietOK'
    BY <1>1 DEF QuietOK
  <2>4. disk'[Meta] # Absent /\ (Current(Meta) => Current(Meta)')
    BY <1>1, <2>1, ListStep, CurrentKeeps, ActorFacts DEF PhaseOK, Keeps
  <2>5. PhaseOK'
    BY <1>1, <2>1, <2>4, ListStep, CurrentKeeps, ActorFacts DEF PhaseOK, Keeps
  <2>6. ImagesOK'
    BY <1>1, <2>1, ListStep, ImagesFrame, ActorFacts
  <2>7. HistoryOK'
    BY <1>1, <2>1, <2>4, ListStep, HistoryFrame, ActorFacts DEF Current
  <2>8. JobOK(r)'
    BY <1>1, <2>1, ListStep, ActorFacts, StartAssumption DEF JobOK
  <2>9. \A b \in Actors : JobOK(b)'
    BY <1>1, <2>1, <2>8, ListStep, JobsFrame, ActorFacts
  <2> QED
    BY <2>2, <2>3, <2>5, <2>6, <2>7, <2>9
<1> QED
  BY <1>2, <1>3

LEMMA BeginKeeps ==
  ASSUME IInv, NEW a \in Actors, Begin(a)
  PROVE  IInv'
<1> USE DEF IInv
<1>1. PICK f \in Dbs : f = job[a].db
  BY JobFacts DEF Begin, TypeOK
<1>2. /\ job[a].step = "listed" /\ job[a].pending # {} /\ lock[f] = None
      /\ lock' = [lock EXCEPT ![f] = a] /\ job' = [job EXCEPT ![a].step = "begun"]
      /\ UNCHANGED <<phase, disk, cached, open, bucket, push, whole, torn, dropped, hvars>>
  BY <1>1 DEF Begin
<1>3. job[a] # Idle /\ job[a] \in [db : Dbs, pending : SUBSET Migs, step : {"listed", "begun"}]
  BY <1>2, JobFacts DEF TypeOK
<1>4. /\ job'[a].db = f /\ job'[a].pending = job[a].pending /\ job'[a].step = "begun"
      /\ \A b \in Actors \ {a} : job'[b] = job[b]
      /\ job' \in [Actors -> Jobs]
  BY <1>1, <1>2, <1>3 DEF TypeOK, Jobs
<1>5. Keeps
  BY <1>2 DEF Keeps
<1>6. TypeOK'
  <2>1. lock' \in [Dbs -> Actors \cup {None}]
    BY <1>2 DEF TypeOK
  <2>2. ASSUME NEW g \in Dbs, NEW b \in Actors
        PROVE  lock'[g] = b <=> job'[b].step = "begun" /\ job'[b].db = g
    BY <1>2, <1>3, <1>4, <1>1, ActorFacts DEF TypeOK
  <2> QED
    BY <1>2, <1>4, <2>1, <2>2 DEF TypeOK
<1>7. job'[a] # Idle
  BY <1>4, JobFacts
<1>8. QuietOK'
  BY <1>2, <1>3, <1>4, <1>7, ActorFacts DEF QuietOK
<1>9. PhaseOK'
  BY <1>2, <1>3, <1>4, ActorFacts DEF PhaseOK, Current
<1>10. ImagesOK'
  BY <1>2 DEF ImagesOK, ImageOK
<1>11. HistoryOK'
  BY <1>2 DEF HistoryOK, Covered
<1>12. JobOK(a)'
  BY <1>1, <1>2, <1>3, <1>4 DEF JobOK
<1>13. \A b \in Actors : JobOK(b)'
  BY <1>2, <1>4, <1>5, <1>12, JobsFrame
<1> QED
  BY <1>6, <1>8, <1>9, <1>10, <1>11, <1>13

LEMMA CommitKeeps ==
  ASSUME IInv, NEW a \in Actors, Commit(a)
  PROVE  IInv'
<1> USE DEF IInv
<1>1. PICK f \in Dbs, pending \in SUBSET Migs : f = job[a].db /\ pending = job[a].pending
  BY JobFacts DEF Commit, TypeOK
<1>2. PICK m : m = FirstOf(pending)
  OBVIOUS
<1>3. /\ job[a].step = "begun"
      /\ disk' = [disk EXCEPT ![f] = Migrated(@, m)]
      /\ lock' = [lock EXCEPT ![f] = None]
      /\ job' = [job EXCEPT ![a].step = "listed", ![a].pending = @ \ {m}]
      /\ UNCHANGED <<phase, cached, open, bucket, push, whole, torn, dropped, hvars>>
  BY <1>1, <1>2 DEF Commit
<1>4. job[a] # Idle /\ job[a] \in [db : Dbs, pending : SUBSET Migs, step : {"listed", "begun"}]
  BY <1>3, JobFacts DEF TypeOK
<1>5. /\ pending # {} /\ disk[f] # Absent
      /\ "crossed" \notin mishaps => Migs \ pending \subseteq disk[f].applied
      /\ a # Cli => Migs \ pending \subseteq disk[f].applied
  BY <1>1, <1>3, <1>4 DEF JobOK
<1>6. m \in pending /\ \A n \in pending : m <= n
  BY <1>2, <1>5, FirstIsLeast
<1>7. PICK d \in Database : d = disk[f]
  BY <1>5 DEF TypeOK
<1>8. PICK e : e = Migrated(d, m)
  OBVIOUS
<1>9. /\ e \in Database /\ e # Absent
      /\ e.applied = d.applied \cup {m} /\ e.schema = d.schema \cup {m}
      /\ e.tables = d.tables /\ e.marker = d.marker
  <2>1. m \in Migs
    BY <1>6
  <2>2. e \in Database
    BY <2>1, <1>7, <1>8 DEF Migrated, Database
  <2>3. e # Absent
    BY <2>2, AbsentAssumption
  <2> QED
    BY <2>2, <2>3, <1>7, <1>8 DEF Migrated, Database
<1>10. disk'[f] = e /\ \A g \in Dbs \ {f} : disk'[g] = disk[g]
  BY <1>3, <1>7, <1>8 DEF TypeOK
<1>11. disk' \in [Dbs -> Database \cup {Absent}]
  BY <1>3, <1>7, <1>8, <1>9 DEF TypeOK
<1>12. Keeps /\ SameContent
  <2>1. ASSUME NEW g \in Dbs, g # f PROVE disk'[g] = disk[g]
    BY <2>1, <1>10
  <2>2. Keeps
    BY <2>1, <1>7, <1>9, <1>10 DEF Keeps
  <2>3. disk[f] # Absent /\ disk'[f] # Absent
        /\ disk'[f].tables = disk[f].tables /\ disk'[f].marker = disk[f].marker
    BY <1>5, <1>7, <1>9, <1>10
  <2>4. SameContent
    BY <2>1, <2>3 DEF SameContent
  <2> QED
    BY <2>2, <2>4
<1>13. ImageOK(e)
  <2>1. ImageOK(d)
    BY <1>7 DEF ImagesOK
  <2>2. e.applied \subseteq e.schema
    BY <2>1, <1>9, <1>5, <1>7 DEF ImageOK
  <2>3. ASSUME "crossed" \notin mishaps, NEW n \in 1 .. m PROVE n \in e.applied
    <3>1. m \in Nat /\ m \in 1 .. Last /\ Last \in Nat
      BY <1>6, StartAssumption DEF Migs
    <3>2. n \in Migs /\ (n = m \/ n < m) /\ n \in Nat
      BY <3>1 DEF Migs
    <3>3. n < m => n \notin pending
      BY <3>1, <3>2, <1>6
    <3> QED
      BY <2>3, <3>2, <3>3, <1>5, <1>7, <1>9
  <2>4. ASSUME "crossed" \notin mishaps, NEW n \in e.applied PROVE 1 .. n \subseteq e.applied
    BY <2>1, <2>3, <2>4, <1>9, <1>5, <1>7 DEF ImageOK
  <2> QED
    BY <2>2, <2>4 DEF ImageOK
<1>14. /\ job'[a].db = f /\ job'[a].pending = pending \ {m} /\ job'[a].step = "listed"
       /\ \A b \in Actors \ {a} : job'[b] = job[b]
       /\ job' \in [Actors -> Jobs]
  <2>1. PICK j \in [db : Dbs, pending : SUBSET Migs, step : {"listed", "begun"}] : j = job[a]
    BY <1>4
  <2>2. PICK i : i = [j EXCEPT !.step = "listed", !.pending = pending \ {m}]
    OBVIOUS
  <2>3. pending \ {m} \in SUBSET Migs
    BY <1>1
  <2>4. /\ i \in [db : Dbs, pending : SUBSET Migs, step : {"listed", "begun"}]
        /\ i.db = j.db /\ i.pending = pending \ {m} /\ i.step = "listed"
    BY <2>1, <2>2, <2>3
  <2>5. job' = [job EXCEPT ![a] = i]
    BY <1>1, <1>3, <2>1, <2>2
  <2> QED
    BY <1>1, <2>1, <2>4, <2>5 DEF TypeOK, Jobs
<1>15. TypeOK'
  <2>1. lock' \in [Dbs -> Actors \cup {None}]
    BY <1>3 DEF TypeOK
  <2>2. ASSUME NEW g \in Dbs, NEW b \in Actors
        PROVE  lock'[g] = b <=> job'[b].step = "begun" /\ job'[b].db = g
    BY <1>1, <1>3, <1>14, ActorFacts DEF TypeOK
  <2> QED
    BY <1>3, <1>11, <1>14, <2>1, <2>2 DEF TypeOK
<1>16. job'[a] # Idle
  BY <1>14, JobFacts
<1>17. QuietOK'
  BY <1>3, <1>4, <1>14, ActorFacts DEF QuietOK
<1>18. PhaseOK'
  <2>1. \A g \in Dbs : Current(g) => Current(g)'
    BY <1>11, <1>12, CurrentKeeps
  <2>2. \A g \in Dbs : disk[g] # Absent =>
          disk'[g] # Absent /\ disk'[g].tables = disk[g].tables /\ disk'[g].marker = disk[g].marker
    BY <1>12 DEF SameContent
  <2>3. job[Server] = Idle <=> job'[Server] = Idle
    BY <1>4, <1>14, <1>16, ActorFacts
  <2>4. phase \in {"adopting", "copying", "marking", "serving"} => disk[Meta] # Absent
    BY DEF PhaseOK, Current
  <2> QED
    BY <1>3, <2>1, <2>2, <2>3, <2>4, ActorFacts DEF PhaseOK
<1>19. ImagesOK'
  BY <1>3, <1>10, <1>13, ImagesFrame
<1>20. HistoryOK'
  <2>1. disk'[Proj] # Absent => disk[Proj] # Absent
    BY <1>5, <1>10, ActorFacts
  <2>2. disk[Meta] # Absent => disk'[Meta] # Absent
    BY <1>12, ActorFacts DEF Keeps
  <2>3. ~torn => (disk'[Proj] # Absent => disk'[Meta] # Absent)
    BY <2>1, <2>2 DEF HistoryOK
  <2> QED
    BY <1>3, <1>12, <2>3, HistoryFrame
<1>21. JobOK(a)'
  BY <1>1, <1>3, <1>4, <1>5, <1>7, <1>9, <1>10, <1>14 DEF JobOK
<1>22. \A b \in Actors : JobOK(b)'
  BY <1>3, <1>12, <1>14, <1>21, JobsFrame
<1> QED
  BY <1>15, <1>17, <1>18, <1>19, <1>20, <1>22

(* The end of a run, whether it succeeds or not.                           *)
LEMMA EndedKeeps ==
  ASSUME IInv, NEW a \in Actors, NEW ok \in BOOLEAN, job[a] # Idle,
         job' = [job EXCEPT ![a] = Idle], Ended(a, job[a].db, ok),
         ok /\ a # Cli => disk[job[a].db].applied = Migs,
         lock' \in [Dbs -> Actors \cup {None}],
         \A g \in Dbs, b \in Actors : lock'[g] = b <=> lock[g] = b /\ b # a,
         UNCHANGED <<disk, bucket, push, whole, torn, dropped, hvars>>
  PROVE  IInv'
<1> USE DEF IInv
<1>1. PICK f \in Dbs : f = job[a].db
  BY JobFacts DEF TypeOK
<1>2. /\ a = Cli => f = Meta
      /\ a \in Requests => f = Proj
      /\ a = Server => \/ f = Meta /\ phase = "migrating"
                       \/ f = Proj /\ phase = "adopting"
      /\ disk[f] # Absent
  BY <1>1 DEF JobOK
<1>3. /\ job' \in [Actors -> Jobs] /\ job'[a] = Idle
      /\ \A b \in Actors \ {a} : job'[b] = job[b]
  BY JobFacts DEF TypeOK
<1>4. /\ a # Server => phase' = phase
      /\ a = Server /\ f = Meta => phase' = IF ok THEN "adopting" ELSE "down"
      /\ a = Server /\ f # Meta => phase' = IF ok THEN "copying" ELSE "serving"
  BY <1>1 DEF Ended
<1>5. /\ a \notin Requests => open' = open
      /\ a \in Requests => open' = [open EXCEPT ![a] = ok]
      /\ cached' = (cached \/ (a \in Requests /\ ok))
  BY DEF Ended
<1>6. ok /\ a # Cli => Current(f)
  BY <1>1, <1>2 DEF Current
<1>7. open' \in [Requests -> BOOLEAN] /\ \A r \in Requests : open'[r] => open[r] \/ (a = r /\ ok)
  <2>1. CASE a \in Requests
    <3>1. \A r \in Requests : open'[r] = IF r = a THEN ok ELSE open[r]
      BY <2>1, <1>5 DEF TypeOK
    <3>2. open' \in [Requests -> BOOLEAN]
      BY <2>1, <1>5 DEF TypeOK
    <3> QED
      BY <3>1, <3>2
  <2>2. CASE a \notin Requests
    BY <2>2, <1>5 DEF TypeOK
  <2> QED
    BY <2>1, <2>2
<1>8. TypeOK'
  <2>1. \A g \in Dbs, b \in Actors : lock'[g] = b <=> job'[b].step = "begun" /\ job'[b].db = g
    BY <1>3, JobFacts DEF TypeOK
  <2>2. cached' \in BOOLEAN
    BY <1>5 DEF TypeOK
  <2>3. phase' \in {"down", "starting", "migrating", "adopting", "copying", "marking", "serving"}
    BY <1>1, <1>4 DEF TypeOK
  <2> QED
    BY <1>3, <1>7, <2>1, <2>2, <2>3 DEF TypeOK
<1>9. a \in Requests => phase = "serving"
  BY DEF QuietOK
<1>10. QuietOK'
  <2>1. CASE a = Server
    <3>1. a \notin Requests /\ phase # "serving"
      BY <2>1, <1>2, StartAssumption
    <3>2. \A r \in Requests : job'[r] = job[r]
      BY <3>1, <1>3, ActorFacts
    <3> QED
      BY <3>1, <3>2, <1>5 DEF QuietOK
  <2>2. CASE a # Server
    <3>1. phase' = phase
      BY <2>2, <1>4
    <3>2. phase # "serving" => a \notin Requests
      BY <1>9
    <3>3. phase # "serving" => \A r \in Requests : job'[r] = job[r]
      BY <3>2, <1>3, ActorFacts
    <3> QED
      BY <3>1, <3>2, <3>3, <1>5 DEF QuietOK
  <2> QED
    BY <2>1, <2>2
<1>11. PhaseOK'
  <2>1. /\ cached' /\ life' # "unlinked" => Current(Proj)'
        /\ \A r \in Requests : open'[r] => disk'[Proj] # Absent /\ (life' # "unlinked" => Current(Proj)')
    <3>1. cached /\ life # "unlinked" => Current(Proj)
      BY DEF PhaseOK
    <3>2. a \in Requests /\ ok => Current(Proj)
      BY <1>2, <1>6, StartAssumption
    <3>3. (Current(Proj)' <=> Current(Proj)) /\ (Current(Proj) => disk[Proj] # Absent)
      BY DEF Current
    <3>4. \A r \in Requests : open[r] => disk[Proj] # Absent /\ (life # "unlinked" => Current(Proj))
      BY DEF PhaseOK
    <3> QED
      BY <3>1, <3>2, <3>3, <3>4, <1>5, <1>7
  <2>2. CASE a # Server
    <3>1. phase' = phase /\ job'[Server] = job[Server]
      BY <2>2, <1>3, <1>4, ActorFacts
    <3> QED
      BY <2>1, <3>1 DEF PhaseOK, Current
  <2>3. CASE a = Server /\ f = Meta
    <3>1. phase' = IF ok THEN "adopting" ELSE "down"
      BY <2>3, <1>4
    <3>2. job'[Server] = Idle
      BY <2>3, <1>3
    <3>3. phase' = "adopting" => disk'[Meta] # Absent /\ Current(Meta)'
      BY <3>1, <2>3, <1>6, StartAssumption DEF Current
    <3> QED
      BY <2>1, <3>1, <3>2, <3>3 DEF PhaseOK
  <2>4. CASE a = Server /\ f = Proj
    <3>1. phase' = IF ok THEN "copying" ELSE "serving"
      BY <2>4, <1>4, ActorFacts
    <3>2. phase = "adopting"
      BY <2>4, <1>2, ActorFacts
    <3>3. disk[Meta] # Absent /\ ("replaced" \notin mishaps => Current(Meta))
          /\ ("misread" \notin mishaps => ~disk[Meta].marker)
      BY <3>2, <2>4 DEF PhaseOK
    <3>4. /\ disk'[Meta] # Absent /\ ("replaced" \notin mishaps' => Current(Meta)')
          /\ ("misread" \notin mishaps' => ~disk'[Meta].marker) /\ disk'[Proj] # Absent
      BY <3>3, <1>2, <2>4 DEF Current, Dbs
    <3> QED
      BY <2>1, <3>1, <3>4 DEF PhaseOK
  <2> QED
    BY <2>2, <2>3, <2>4, <1>1 DEF Dbs
<1>12. ImagesOK'
  BY DEF ImagesOK, ImageOK
<1>13. HistoryOK'
  BY DEF HistoryOK, Covered
<1>14. JobOK(a)'
  BY <1>3 DEF JobOK
<1>15. \A b \in Actors : JobOK(b)'
  <2>1. Keeps
    BY DEF Keeps
  <2> QED
    BY <2>1, <1>3, <1>4, <1>14, JobsFrame
<1> QED
  BY <1>8, <1>10, <1>11, <1>12, <1>13, <1>15

LEMMA FailKeeps ==
  ASSUME IInv, NEW a \in Actors, Fail(a)
  PROVE  IInv'
<1>1. job[a] # Idle
  BY JobFacts DEF Fail, IInv, TypeOK
<1>2. PICK f \in Dbs : f = job[a].db
  BY <1>1, JobFacts DEF IInv, TypeOK
<1>3. lock' = (IF lock[f] = a THEN [lock EXCEPT ![f] = None] ELSE lock)
      /\ job' = [job EXCEPT ![a] = Idle] /\ Ended(a, job[a].db, FALSE)
      /\ UNCHANGED <<disk, bucket, push, whole, torn, dropped, hvars>>
  BY <1>2 DEF Fail
<1>4. \A g \in Dbs : lock[g] = a => g = f
  BY <1>2 DEF IInv, TypeOK
<1>5. lock' \in [Dbs -> Actors \cup {None}]
  BY <1>3 DEF IInv, TypeOK
<1>6. \A g \in Dbs, b \in Actors : lock'[g] = b <=> lock[g] = b /\ b # a
  BY <1>3, <1>4, ActorFacts DEF IInv, TypeOK
<1> QED
  BY <1>1, <1>3, <1>5, <1>6, EndedKeeps

LEMMA DoneKeeps ==
  ASSUME IInv, NEW a \in Actors, Done(a)
  PROVE  IInv'
<1>1. job[a] # Idle
  BY JobFacts DEF Done, IInv, TypeOK
<1>2. PICK f \in Dbs : f = job[a].db
  BY <1>1, JobFacts DEF IInv, TypeOK
<1>3. /\ lock' = lock /\ job' = [job EXCEPT ![a] = Idle] /\ Ended(a, job[a].db, TRUE)
      /\ UNCHANGED <<disk, bucket, push, whole, torn, dropped, hvars>>
      /\ job[a].step = "listed" /\ job[a].pending = {}
  BY DEF Done
<1>4. ASSUME a # Cli PROVE disk[f].applied = Migs
  <2>1. disk[f] # Absent /\ Migs \subseteq disk[f].applied
    BY <1>1, <1>2, <1>3, <1>4 DEF IInv, JobOK
  <2>2. disk[f] \in Database
    BY <2>1 DEF IInv, TypeOK
  <2> QED
    BY <2>1, <2>2 DEF Database
<1>5. lock' \in [Dbs -> Actors \cup {None}]
  BY <1>3 DEF IInv, TypeOK
<1>6. \A g \in Dbs, b \in Actors : lock'[g] = b <=> lock[g] = b /\ b # a
  BY <1>3 DEF IInv, TypeOK
<1> QED
  BY <1>1, <1>2, <1>3, <1>4, <1>5, <1>6, EndedKeeps

-----------------------------------------------------------------------------
(* Writes to one file that leave its migrations alone.                     *)

LEMMA WriteStep ==
  ASSUME IInv, NEW f \in Dbs, NEW d \in Database, d = disk[f],
         NEW e \in Database, e.applied = d.applied, e.schema = d.schema,
         disk' = [disk EXCEPT ![f] = e], job' = job, phase' = phase \/ job[Server] = Idle,
         mishaps \subseteq mishaps'
  PROVE  /\ disk' \in [Dbs -> Database \cup {Absent}]
         /\ disk'[f] = e /\ e # Absent /\ d # Absent
         /\ \A g \in Dbs : g # f => disk'[g] = disk[g]
         /\ \A g \in Dbs : disk[g] = Absent <=> disk'[g] = Absent
         /\ Keeps /\ \A g \in Dbs : Current(g) => Current(g)'
         /\ \A g \in Dbs : ImageOK(disk[g]) => ImageOK(disk'[g])
         /\ \A b \in Actors : JobOK(b)'
<1>1. disk' \in [Dbs -> Database \cup {Absent}] /\ disk'[f] = e
      /\ \A g \in Dbs : g # f => disk'[g] = disk[g]
  BY DEF IInv, TypeOK
<1>2. e # Absent /\ d # Absent
  BY AbsentAssumption
<1>3. Keeps
  BY <1>1, <1>2 DEF Keeps
<1>4. \A g \in Dbs : Current(g) => Current(g)'
  BY <1>1, <1>3, CurrentKeeps
<1>5. \A g \in Dbs : ImageOK(disk[g]) => ImageOK(disk'[g])
  BY <1>1, <1>2 DEF ImageOK
<1>6. \A b \in Actors : JobOK(b)'
  BY <1>3, JobsStay
<1> QED
  BY <1>1, <1>2, <1>3, <1>4, <1>5, <1>6

LEMMA TypeAfterWrite ==
  ASSUME TypeOK, disk' \in [Dbs -> Database \cup {Absent}],
         phase' \in {"down", "starting", "migrating", "adopting", "copying", "marking", "serving"},
         dropped' \in SUBSET Tables, torn' \in BOOLEAN,
         HistoryTypeOK', UNCHANGED <<lock, job, cached, open, bucket, push, whole>>
  PROVE  TypeOK'
<1>1. \A g \in Dbs, b \in Actors : lock'[g] = b <=> job'[b].step = "begun" /\ job'[b].db = g
  BY DEF TypeOK
<1> QED
  BY <1>1 DEF TypeOK, HistoryTypeOK

LEMMA CopyKeeps ==
  ASSUME IInv, Copy
  PROVE  IInv'
<1> USE DEF IInv
<1>1. /\ phase = "copying" /\ phase' = "marking"
      /\ disk' = [disk EXCEPT ![Proj].tables = Copied(disk[Meta].tables, @)]
      /\ UNCHANGED <<lock, job, cached, open, bucket, push, whole, torn, dropped, hvars>>
  BY DEF Copy
<1>2. /\ disk[Meta] # Absent /\ ("replaced" \notin mishaps => Current(Meta))
      /\ disk[Proj] # Absent /\ ("misread" \notin mishaps => ~disk[Meta].marker)
  BY <1>1 DEF PhaseOK
<1>3. PICK m \in Database, d \in Database : m = disk[Meta] /\ d = disk[Proj]
  BY <1>2, ActorFacts DEF TypeOK, Current
<1>4. PICK tabs : tabs = Copied(m.tables, d.tables)
  OBVIOUS
<1>5. tabs \in [Tables -> {"none", "legacy", "scoped"}]
      /\ \A t \in Tables : tabs[t] = IF d.tables[t] = "none" THEN m.tables[t] ELSE d.tables[t]
  BY <1>3, <1>4 DEF Copied, Database
<1>6. PICK e : e = [d EXCEPT !.tables = tabs]
  OBVIOUS
<1>7. e \in Database /\ e.applied = d.applied /\ e.schema = d.schema /\ e.tables = tabs
  BY <1>3, <1>5, <1>6 DEF Database
<1>8. disk' = [disk EXCEPT ![Proj] = e]
  BY <1>1, <1>3, <1>4, <1>6
<1>9. job[Server] = Idle
  BY <1>1, ActorFacts DEF JobOK
<1>10. /\ disk' \in [Dbs -> Database \cup {Absent}]
       /\ disk'[Proj] = e /\ e # Absent /\ disk'[Meta] = m /\ m # Absent
       /\ (Current(Meta) => Current(Meta)') /\ (Current(Proj) => Current(Proj)')
       /\ \A g \in Dbs : ImageOK(disk[g]) => ImageOK(disk'[g])
       /\ \A b \in Actors : JobOK(b)'
  <2>1. job' = job /\ (phase' = phase \/ job[Server] = Idle) /\ mishaps \subseteq mishaps'
    BY <1>1, <1>9
  <2>2. /\ disk' \in [Dbs -> Database \cup {Absent}]
        /\ disk'[Proj] = e /\ e # Absent /\ d # Absent
        /\ \A g \in Dbs : g # Proj => disk'[g] = disk[g]
        /\ \A g \in Dbs : Current(g) => Current(g)'
        /\ \A g \in Dbs : ImageOK(disk[g]) => ImageOK(disk'[g])
        /\ \A b \in Actors : JobOK(b)'
    BY <2>1, <1>3, <1>7, <1>8, WriteStep, ActorFacts
  <2> QED
    BY <2>2, <1>2, <1>3, ActorFacts, AbsentAssumption
<1>11. TypeOK'
  BY <1>1, <1>10, TypeAfterWrite DEF TypeOK, HistoryTypeOK
<1>12. QuietOK'
  BY <1>1 DEF QuietOK
<1>13. PhaseOK'
  <2>1. \A t \in Tables : m.tables[t] = "legacy" => e.tables[t] # "none"
    BY <1>5, <1>7
  <2> QED
    BY <1>1, <1>2, <1>3, <1>10, <2>1 DEF PhaseOK
<1>14. ImagesOK'
  BY <1>1, <1>10, ImagesFrame
<1>15. HistoryOK'
  <2> SUFFICES ASSUME ~torn PROVE HistoryOK'
    BY <1>1 DEF HistoryOK
  <2>1. push = "idle"
    BY <1>1 DEF QuietOK
  <2>2. ASSUME "misread" \notin mishaps, NEW t \in dropped PROVE m.tables[t] # "legacy" /\ e.tables[t] # "legacy"
    <3>1. t \in Tables /\ d.tables[t] # "legacy" /\ m.tables[t] # "legacy"
      BY <2>2, <1>2, <1>3, AbsentAssumption DEF HistoryOK, TypeOK
    <3> QED
      BY <3>1, <1>5, <1>7
  <2>3. ASSUME NEW t \in Tables, m.marker, m.tables[t] = "legacy"
        PROVE  t \in dropped \/ e.tables[t] # "none"
    <3>1. t \in dropped \/ d.tables[t] # "none"
      BY <2>3, <1>2, <1>3 DEF HistoryOK, Covered
    <3> QED
      BY <3>1, <1>5, <1>7
  <2>4. \A t \in dropped : m.tables[t] = "legacy" => m.marker
    BY <1>2, <1>3 DEF HistoryOK
  <2>5. life \in {"unborn", "made"} /\ (whole => bucket[Meta] # Absent /\ Covered(bucket[Meta], bucket[Proj]))
    BY DEF HistoryOK
  <2> QED
    BY <1>1, <1>2, <1>3, <1>10, <2>1, <2>2, <2>3, <2>4, <2>5 DEF HistoryOK, Covered
<1> QED
  BY <1>10, <1>11, <1>12, <1>13, <1>14, <1>15

LEMMA MarkKeeps ==
  ASSUME IInv, Mark
  PROVE  IInv'
<1> USE DEF IInv
<1>1. /\ phase = "marking" /\ phase' = "serving"
      /\ disk' = [disk EXCEPT ![Meta].marker = TRUE]
      /\ UNCHANGED <<lock, job, cached, open, bucket, push, whole, torn, dropped, hvars>>
  BY DEF Mark
<1>2. disk[Meta] # Absent /\ disk[Proj] # Absent
      /\ \A t \in Tables : disk[Meta].tables[t] = "legacy" => disk[Proj].tables[t] # "none"
  BY <1>1 DEF PhaseOK
<1>3. PICK m \in Database : m = disk[Meta]
  BY <1>2, ActorFacts DEF TypeOK, Current
<1>4. PICK e : e = [m EXCEPT !.marker = TRUE]
  OBVIOUS
<1>5. e \in Database /\ e.applied = m.applied /\ e.schema = m.schema /\ e.tables = m.tables /\ e.marker
  BY <1>3, <1>4 DEF Database
<1>6. disk' = [disk EXCEPT ![Meta] = e]
  BY <1>1, <1>3, <1>4
<1>7. job[Server] = Idle
  BY <1>1, ActorFacts DEF JobOK
<1>8. /\ disk' \in [Dbs -> Database \cup {Absent}]
      /\ disk'[Meta] = e /\ e # Absent /\ disk'[Proj] = disk[Proj]
      /\ (Current(Meta) => Current(Meta)') /\ (Current(Proj) => Current(Proj)')
      /\ \A g \in Dbs : ImageOK(disk[g]) => ImageOK(disk'[g])
      /\ \A b \in Actors : JobOK(b)'
  <2>1. job' = job /\ (phase' = phase \/ job[Server] = Idle) /\ mishaps \subseteq mishaps'
    BY <1>1, <1>7
  <2>2. /\ disk' \in [Dbs -> Database \cup {Absent}]
        /\ disk'[Meta] = e /\ e # Absent /\ m # Absent
        /\ \A g \in Dbs : g # Meta => disk'[g] = disk[g]
        /\ \A g \in Dbs : Current(g) => Current(g)'
        /\ \A g \in Dbs : ImageOK(disk[g]) => ImageOK(disk'[g])
        /\ \A b \in Actors : JobOK(b)'
    BY <2>1, <1>3, <1>5, <1>6, WriteStep, ActorFacts
  <2> QED
    BY <2>2, <1>2, ActorFacts
<1>9. TypeOK'
  BY <1>1, <1>8, TypeAfterWrite DEF TypeOK, HistoryTypeOK
<1>10. QuietOK'
  BY <1>1 DEF QuietOK
<1>11. PhaseOK'
  BY <1>1, <1>7, <1>8 DEF PhaseOK
<1>12. ImagesOK'
  BY <1>1, <1>8, ImagesFrame
<1>13. HistoryOK'
  <2> SUFFICES ASSUME ~torn PROVE HistoryOK'
    BY <1>1 DEF HistoryOK
  <2>1. push = "idle"
    BY <1>1 DEF QuietOK
  <2> QED
    BY <1>1, <1>2, <1>3, <1>5, <1>8, <2>1 DEF HistoryOK, Covered
<1> QED
  BY <1>8, <1>9, <1>10, <1>11, <1>12, <1>13

LEMMA CreateProjectKeeps ==
  ASSUME IInv, CreateProject
  PROVE  IInv'
<1> USE DEF IInv
<1>1. /\ phase = "serving"
      /\ disk' = [disk EXCEPT ![Meta].project = TRUE]
      /\ life = "unborn" /\ life' = "made"
      /\ UNCHANGED <<phase, lock, job, cached, open, bucket, push, whole, torn, dropped, backup, mishaps>>
  BY DEF CreateProject
<1>2. disk[Meta] # Absent
  BY <1>1 DEF PhaseOK
<1>3. PICK m \in Database : m = disk[Meta]
  BY <1>2, ActorFacts DEF TypeOK, Current
<1>4. PICK e : e = [m EXCEPT !.project = TRUE]
  OBVIOUS
<1>5. e \in Database /\ e.applied = m.applied /\ e.schema = m.schema /\ e.tables = m.tables /\ e.marker = m.marker
  BY <1>3, <1>4 DEF Database
<1>6. disk' = [disk EXCEPT ![Meta] = e]
  BY <1>1, <1>3, <1>4
<1>7. /\ disk' \in [Dbs -> Database \cup {Absent}]
      /\ disk'[Meta] = e /\ e # Absent /\ m # Absent /\ disk'[Proj] = disk[Proj]
      /\ (Current(Meta) => Current(Meta)') /\ (Current(Proj) => Current(Proj)')
      /\ \A g \in Dbs : ImageOK(disk[g]) => ImageOK(disk'[g])
      /\ \A b \in Actors : JobOK(b)'
  <2>1. job' = job /\ (phase' = phase \/ job[Server] = Idle) /\ mishaps \subseteq mishaps'
    BY <1>1
  <2>2. /\ disk' \in [Dbs -> Database \cup {Absent}]
        /\ disk'[Meta] = e /\ e # Absent /\ m # Absent
        /\ \A g \in Dbs : g # Meta => disk'[g] = disk[g]
        /\ \A g \in Dbs : Current(g) => Current(g)'
        /\ \A g \in Dbs : ImageOK(disk[g]) => ImageOK(disk'[g])
        /\ \A b \in Actors : JobOK(b)'
    BY <2>1, <1>3, <1>5, <1>6, WriteStep, ActorFacts
  <2> QED
    BY <2>2, <1>2, ActorFacts
<1>8. TypeOK'
  BY <1>1, <1>7, TypeAfterWrite DEF TypeOK, HistoryTypeOK
<1>9. QuietOK'
  BY <1>1 DEF QuietOK
<1>10. PhaseOK'
  BY <1>1, <1>7 DEF PhaseOK
<1>11. ImagesOK'
  BY <1>1, <1>7, ImagesFrame
<1>12. HistoryOK'
  <2>1. SameContent
    BY <1>3, <1>5, <1>7 DEF SameContent, Dbs
  <2> QED
    BY <1>1, <1>7, <2>1, HistoryFrame
<1> QED
  BY <1>7, <1>8, <1>9, <1>10, <1>11, <1>12

LEMMA DropLegacyKeeps ==
  ASSUME IInv, NEW t \in Tables, DropLegacy(t)
  PROVE  IInv'
<1> USE DEF IInv
<1>1. /\ phase = "serving"
      /\ disk' = [disk EXCEPT ![Meta].tables[t] = "none"]
      /\ UNCHANGED <<phase, lock, job, cached, open, bucket, push, whole, torn, dropped, hvars>>
  BY DEF DropLegacy
<1>2. disk[Meta] # Absent
  BY <1>1 DEF PhaseOK
<1>3. PICK m \in Database : m = disk[Meta]
  BY <1>2, ActorFacts DEF TypeOK, Current
<1>4. PICK tabs : tabs = [m.tables EXCEPT ![t] = "none"]
  OBVIOUS
<1>5. tabs \in [Tables -> {"none", "legacy", "scoped"}]
      /\ \A u \in Tables : tabs[u] = "legacy" => m.tables[u] = "legacy"
  BY <1>3, <1>4 DEF Database
<1>6. PICK e : e = [m EXCEPT !.tables = tabs]
  OBVIOUS
<1>7. e \in Database /\ e.applied = m.applied /\ e.schema = m.schema /\ e.tables = tabs /\ e.marker = m.marker
  BY <1>3, <1>5, <1>6 DEF Database
<1>8. disk' = [disk EXCEPT ![Meta] = e]
  BY <1>1, <1>3, <1>4, <1>6
<1>9. /\ disk' \in [Dbs -> Database \cup {Absent}]
      /\ disk'[Meta] = e /\ e # Absent /\ m # Absent /\ disk'[Proj] = disk[Proj]
      /\ (Current(Meta) => Current(Meta)') /\ (Current(Proj) => Current(Proj)')
      /\ \A g \in Dbs : ImageOK(disk[g]) => ImageOK(disk'[g])
      /\ \A b \in Actors : JobOK(b)'
  <2>1. job' = job /\ (phase' = phase \/ job[Server] = Idle) /\ mishaps \subseteq mishaps'
    BY <1>1
  <2>2. /\ disk' \in [Dbs -> Database \cup {Absent}]
        /\ disk'[Meta] = e /\ e # Absent /\ m # Absent
        /\ \A g \in Dbs : g # Meta => disk'[g] = disk[g]
        /\ \A g \in Dbs : Current(g) => Current(g)'
        /\ \A g \in Dbs : ImageOK(disk[g]) => ImageOK(disk'[g])
        /\ \A b \in Actors : JobOK(b)'
    BY <2>1, <1>3, <1>7, <1>8, WriteStep, ActorFacts
  <2> QED
    BY <2>2, <1>2, ActorFacts
<1>10. TypeOK'
  BY <1>1, <1>9, TypeAfterWrite DEF TypeOK, HistoryTypeOK
<1>11. QuietOK'
  BY <1>1 DEF QuietOK
<1>12. PhaseOK'
  BY <1>1, <1>9 DEF PhaseOK
<1>13. ImagesOK'
  BY <1>1, <1>9, ImagesFrame
<1>14. HistoryOK'
  <2> SUFFICES ASSUME ~torn PROVE HistoryOK'
    BY <1>1 DEF HistoryOK
  <2>1. dropped \subseteq Tables
    BY DEF TypeOK
  <2>2. Covered(m, disk[Proj]) /\ \A u \in dropped : m.tables[u] = "legacy" => m.marker
    BY <1>3, <1>9 DEF HistoryOK
  <2>3. Covered(e, disk[Proj]) /\ \A u \in dropped : e.tables[u] = "legacy" => e.marker
    BY <2>1, <2>2, <1>5, <1>7 DEF Covered
  <2>4. Covered(e, disk[Proj])' /\ (Covered(bucket[Meta], disk[Proj]) => Covered(bucket[Meta], disk[Proj])')
        /\ (Covered(bucket[Meta], bucket[Proj]) => Covered(bucket[Meta], bucket[Proj])')
    BY <2>3, <1>1, <1>9 DEF Covered
  <2>5. Covered(disk'[Meta], disk'[Proj])
    BY <2>3, <1>9
  <2> QED
    BY <1>1, <1>3, <1>7, <1>9, <2>3, <2>4, <2>5 DEF HistoryOK, Covered
<1> QED
  BY <1>9, <1>10, <1>11, <1>12, <1>13, <1>14

LEMMA ChangeKeeps ==
  ASSUME IInv, NEW r \in Requests, NEW t \in Tables, NEW v \in {"none", "scoped"}, Change(r, t, v)
  PROVE  IInv'
<1> USE DEF IInv
<1>1. /\ open[r]
      /\ disk' = [disk EXCEPT ![Proj].tables[t] = v]
      /\ dropped' = (IF v = "none" /\ disk[Meta].marker /\ disk[Proj].tables[t] # "none"
                     THEN dropped \cup {t} ELSE dropped)
      /\ UNCHANGED <<phase, lock, job, cached, open, bucket, push, whole, torn, hvars>>
  BY DEF Change
<1>2. phase = "serving" /\ disk[Proj] # Absent /\ disk[Meta] # Absent
  BY <1>1 DEF PhaseOK, QuietOK
<1>3. PICK d \in Database : d = disk[Proj]
  BY <1>2, ActorFacts DEF TypeOK, Current
<1>4. PICK tabs : tabs = [d.tables EXCEPT ![t] = v]
  OBVIOUS
<1>5. tabs \in [Tables -> {"none", "legacy", "scoped"}] /\ tabs[t] = v
      /\ \A u \in Tables : u # t => tabs[u] = d.tables[u]
  BY <1>3, <1>4 DEF Database
<1>6. PICK e : e = [d EXCEPT !.tables = tabs]
  OBVIOUS
<1>7. e \in Database /\ e.applied = d.applied /\ e.schema = d.schema /\ e.tables = tabs
  BY <1>3, <1>5, <1>6 DEF Database
<1>8. disk' = [disk EXCEPT ![Proj] = e]
  BY <1>1, <1>3, <1>4, <1>6
<1>9. /\ disk' \in [Dbs -> Database \cup {Absent}]
      /\ disk'[Proj] = e /\ e # Absent /\ d # Absent /\ disk'[Meta] = disk[Meta]
      /\ (Current(Meta) => Current(Meta)') /\ (Current(Proj) => Current(Proj)')
      /\ \A g \in Dbs : ImageOK(disk[g]) => ImageOK(disk'[g])
      /\ \A b \in Actors : JobOK(b)'
  <2>1. job' = job /\ (phase' = phase \/ job[Server] = Idle) /\ mishaps \subseteq mishaps'
    BY <1>1
  <2>2. /\ disk' \in [Dbs -> Database \cup {Absent}]
        /\ disk'[Proj] = e /\ e # Absent /\ d # Absent
        /\ \A g \in Dbs : g # Proj => disk'[g] = disk[g]
        /\ \A g \in Dbs : Current(g) => Current(g)'
        /\ \A g \in Dbs : ImageOK(disk[g]) => ImageOK(disk'[g])
        /\ \A b \in Actors : JobOK(b)'
    BY <2>1, <1>3, <1>7, <1>8, WriteStep, ActorFacts
  <2> QED
    BY <2>2, <1>2, ActorFacts
<1>10. TypeOK'
  <2>1. dropped' \in SUBSET Tables
    BY <1>1 DEF TypeOK
  <2> QED
    BY <1>1, <1>9, <2>1, TypeAfterWrite DEF TypeOK, HistoryTypeOK
<1>11. QuietOK'
  BY <1>1 DEF QuietOK
<1>12. PhaseOK'
  BY <1>1, <1>2, <1>9 DEF PhaseOK
<1>13. ImagesOK'
  BY <1>1, <1>9, ImagesFrame
<1>14. HistoryOK'
  <2> SUFFICES ASSUME ~torn PROVE HistoryOK'
    BY <1>1 DEF HistoryOK
  <2>1. dropped \subseteq dropped' /\ \A u \in dropped' : u \in dropped \/ (u = t /\ disk[Meta].marker)
    BY <1>1
  <2>2. ASSUME "misread" \notin mishaps, NEW u \in dropped' PROVE e.tables[u] # "legacy"
    <3>1. u \in dropped => u \in Tables /\ d.tables[u] # "legacy"
      BY <2>2, <1>3, <1>9 DEF HistoryOK, TypeOK
    <3> QED
      BY <2>1, <2>2, <3>1, <1>5, <1>7
  <2>3. ASSUME NEW m, Covered(m, d), m.marker => disk[Meta].marker,
               NEW u \in Tables, m.marker, m.tables[u] = "legacy"
        PROVE  u \in dropped' \/ e.tables[u] # "none"
    <3>1. u \in dropped \/ d.tables[u] # "none"
      BY <2>3 DEF Covered
    <3>2. u = t /\ v = "none" /\ d.tables[t] # "none" => t \in dropped'
      BY <1>1, <1>3, <2>3
    <3> QED
      BY <3>1, <3>2, <2>1, <1>5, <1>7
  <2>4. disk[Meta] # Absent /\ Covered(disk[Meta], d)
        /\ \A u \in dropped : disk[Meta].tables[u] = "legacy" => disk[Meta].marker
    BY <1>2, <1>3 DEF HistoryOK, Current
  <2>5. \A u \in dropped' : disk[Meta].tables[u] = "legacy" => disk[Meta].marker
    BY <2>1, <2>4
  <2>6. ASSUME NEW u \in Tables, disk[Meta].marker, disk[Meta].tables[u] = "legacy"
        PROVE  u \in dropped' \/ e.tables[u] # "none"
    BY <2>3, <2>4, <2>6
  <2>7. push = "projects" =>
          /\ ~whole /\ bucket[Meta] # Absent
          /\ bucket[Meta].marker => disk[Meta].marker
          /\ \A u \in Tables : bucket[Meta].marker /\ bucket[Meta].tables[u] = "legacy"
                                 => u \in dropped' \/ e.tables[u] # "none"
    <3> SUFFICES ASSUME push = "projects"
                 PROVE  /\ ~whole /\ bucket[Meta] # Absent
                        /\ bucket[Meta].marker => disk[Meta].marker
                        /\ \A u \in Tables : bucket[Meta].marker /\ bucket[Meta].tables[u] = "legacy"
                                               => u \in dropped' \/ e.tables[u] # "none"
      OBVIOUS
    <3>1. /\ ~whole /\ bucket[Meta] # Absent
          /\ bucket[Meta].marker => disk[Meta].marker
          /\ Covered(bucket[Meta], d)
      BY <1>3 DEF HistoryOK
    <3> QED
      BY <3>1, <2>3
  <2>8. whole => bucket[Meta] # Absent /\
          (bucket[Meta].marker => \A u \in Tables :
             bucket[Meta].tables[u] = "legacy" =>
               bucket[Proj] # Absent /\ (u \in dropped' \/ bucket[Proj].tables[u] # "none"))
    BY <2>1 DEF HistoryOK, Covered
  <2>9. life \in {"unborn", "made"}
    BY DEF HistoryOK
  <2> QED
    BY <1>1, <1>9, <2>9, <2>2, <2>4, <2>5, <2>6, <2>7, <2>8 DEF HistoryOK, Covered
<1> QED
  BY <1>9, <1>10, <1>11, <1>12, <1>13, <1>14

-----------------------------------------------------------------------------
(* Steps that write to no file.                                            *)

LEMMA ServingKeeps ==
  ASSUME IInv, NothingToAdopt \/ AdoptionFails
  PROVE  IInv'
<1> USE DEF IInv
<1>1. /\ phase \in {"adopting", "copying", "marking"} /\ phase' = "serving"
      /\ UNCHANGED <<disk, lock, job, cached, open, bucket, push, whole, torn, dropped, hvars>>
  BY DEF NothingToAdopt, AdoptionFails
<1>2. job[Server] = Idle
  <2>1. NothingToAdopt => job[Server] = Idle
    BY DEF NothingToAdopt
  <2>2. AdoptionFails => job[Server] = Idle
    BY ActorFacts DEF AdoptionFails, JobOK
  <2> QED
    BY <2>1, <2>2
<1>3. TypeOK'
  BY <1>1, TypeAfterWrite DEF TypeOK, HistoryTypeOK
<1>4. QuietOK'
  BY <1>1 DEF QuietOK
<1>5. PhaseOK'
  BY <1>1 DEF PhaseOK, Current
<1>6. ImagesOK'
  BY <1>1 DEF ImagesOK, ImageOK
<1>7. HistoryOK'
  BY <1>1 DEF HistoryOK, Covered
<1>8. Keeps
  BY <1>1 DEF Keeps
<1>9. \A b \in Actors : JobOK(b)'
  BY <1>1, <1>2, <1>8, JobsStay
<1> QED
  BY <1>3, <1>4, <1>5, <1>6, <1>7, <1>9

LEMMA CloseKeeps ==
  ASSUME IInv, NEW r \in Requests, Close(r)
  PROVE  IInv'
<1> USE DEF IInv
<1>1. /\ open[r] /\ open' = [open EXCEPT ![r] = FALSE]
      /\ UNCHANGED <<phase, disk, lock, job, cached, bucket, push, whole, torn, dropped, hvars>>
  BY DEF Close
<1>2. open' \in [Requests -> BOOLEAN] /\ \A q \in Requests : open'[q] => open[q]
  BY <1>1 DEF TypeOK
<1>3. TypeOK'
  <2>1. \A g \in Dbs, b \in Actors : lock'[g] = b <=> job'[b].step = "begun" /\ job'[b].db = g
    BY <1>1 DEF TypeOK
  <2> QED
    BY <1>1, <1>2, <2>1 DEF TypeOK
<1>4. QuietOK'
  BY <1>1, <1>2 DEF QuietOK
<1>5. PhaseOK'
  BY <1>1, <1>2 DEF PhaseOK, Current
<1>6. ImagesOK'
  BY <1>1 DEF ImagesOK, ImageOK
<1>7. HistoryOK'
  BY <1>1 DEF HistoryOK, Covered
<1>8. Keeps
  BY <1>1 DEF Keeps
<1>9. \A b \in Actors : JobOK(b)'
  BY <1>1, <1>8, JobsStay
<1> QED
  BY <1>3, <1>4, <1>5, <1>6, <1>7, <1>9

(* What is about the bucket and the history is left to the uploads.        *)
LEMMA UploadStep ==
  ASSUME IInv, UNCHANGED <<phase, disk, lock, job, cached, open, torn, dropped, hvars>>,
         bucket' \in [Dbs -> Database \cup {Absent}], push' \in {"idle", "projects"}, whole' \in BOOLEAN,
         push' = "idle" \/ phase = "serving", \A f \in Dbs : ImageOK(bucket'[f]), HistoryOK'
  PROVE  IInv'
<1> USE DEF IInv
<1>1. TypeOK'
  <2>1. \A g \in Dbs, b \in Actors : lock'[g] = b <=> job'[b].step = "begun" /\ job'[b].db = g
    BY DEF TypeOK
  <2> QED
    BY <2>1 DEF TypeOK
<1>2. QuietOK'
  BY DEF QuietOK
<1>3. PhaseOK'
  BY DEF PhaseOK, Current
<1>4. ImagesOK'
  BY DEF ImagesOK, ImageOK
<1>5. Keeps
  BY DEF Keeps
<1>6. \A b \in Actors : JobOK(b)'
  BY <1>5, JobsStay
<1> QED
  BY <1>1, <1>2, <1>3, <1>4, <1>6

LEMMA PushMetaKeeps ==
  ASSUME IInv, PushMeta
  PROVE  IInv'
<1> USE DEF IInv
<1>1. /\ phase = "serving" /\ bucket' = [bucket EXCEPT ![Meta] = disk[Meta]]
      /\ push' = "projects" /\ whole' = FALSE
      /\ UNCHANGED <<phase, disk, lock, job, cached, open, torn, dropped, hvars>>
  BY DEF PushMeta
<1>2. disk[Meta] # Absent
  BY <1>1 DEF PhaseOK, Current
<1>3. bucket' \in [Dbs -> Database \cup {Absent}] /\ bucket'[Meta] = disk[Meta] /\ bucket'[Proj] = bucket[Proj]
  BY <1>1, ActorFacts DEF TypeOK
<1>4. \A f \in Dbs : ImageOK(bucket'[f])
  BY <1>3 DEF ImagesOK, Dbs
<1>5. HistoryOK'
  BY <1>1, <1>2, <1>3 DEF HistoryOK, Covered
<1> QED
  BY <1>1, <1>3, <1>4, <1>5, UploadStep

LEMMA PushProjectKeeps ==
  ASSUME IInv, PushProject
  PROVE  IInv'
<1> USE DEF IInv
<1>1. /\ push = "projects"
      /\ bucket' = [bucket EXCEPT ![Proj] = IF disk[Proj] = Absent THEN bucket[Proj] ELSE disk[Proj]]
      /\ push' = "idle" /\ whole' = TRUE
      /\ UNCHANGED <<phase, disk, lock, job, cached, open, torn, dropped, hvars>>
  BY DEF PushProject
<1>2. /\ bucket' \in [Dbs -> Database \cup {Absent}] /\ bucket'[Meta] = bucket[Meta]
      /\ bucket'[Proj] = IF disk[Proj] = Absent THEN bucket[Proj] ELSE disk[Proj]
  BY <1>1, ActorFacts DEF TypeOK
<1>3. \A f \in Dbs : ImageOK(bucket'[f])
  BY <1>2 DEF ImagesOK, Dbs
<1>4. HistoryOK'
  <2> SUFFICES ASSUME ~torn PROVE HistoryOK'
    BY <1>1 DEF HistoryOK
  <2>1. bucket[Meta] # Absent /\ Covered(bucket[Meta], disk[Proj])
    BY <1>1 DEF HistoryOK
  <2>2. Covered(bucket[Meta], bucket'[Proj])
    BY <2>1, <1>2 DEF Covered
  <2>3. HistoryOK => /\ life \in {"unborn", "made"}
                     /\ disk[Proj] # Absent => disk[Meta] # Absent
                     /\ disk[Proj] # Absent /\ "misread" \notin mishaps =>
                          \A t \in dropped : disk[Proj].tables[t] # "legacy"
                     /\ disk[Meta] # Absent =>
                          /\ Covered(disk[Meta], disk[Proj])
                          /\ \A t \in dropped : disk[Meta].tables[t] = "legacy" => disk[Meta].marker
    BY DEF HistoryOK
  <2> QED
    BY <1>1, <1>2, <2>1, <2>2, <2>3 DEF HistoryOK, Covered
<1> QED
  BY <1>1, <1>2, <1>3, <1>4, UploadStep

LEMMA PushFailsKeeps ==
  ASSUME IInv, PushFails
  PROVE  IInv'
<1> USE DEF IInv
<1>1. CASE push = "projects" /\ push' = "idle"
           /\ UNCHANGED <<phase, disk, lock, job, cached, open, bucket, whole, torn, dropped, hvars>>
  <2>1. HistoryOK'
    BY <1>1 DEF HistoryOK, Covered
  <2>2. \A f \in Dbs : ImageOK(bucket'[f])
    BY <1>1 DEF ImagesOK
  <2> QED
    BY <1>1, <2>1, <2>2, UploadStep DEF TypeOK
<1>2. CASE /\ phase = "serving" /\ push = "idle"
           /\ disk[Proj] # Absent
           /\ bucket' = [bucket EXCEPT ![Proj] = disk[Proj]]
           /\ whole' = FALSE
           /\ UNCHANGED <<phase, disk, lock, job, cached, open, push, torn, dropped, hvars>>
  <2>1. bucket' \in [Dbs -> Database \cup {Absent}] /\ bucket'[Meta] = bucket[Meta] /\ bucket'[Proj] = disk[Proj]
    BY <1>2, ActorFacts DEF TypeOK
  <2>2. \A f \in Dbs : ImageOK(bucket'[f])
    BY <2>1 DEF ImagesOK, Dbs
  <2>3. HistoryOK'
    BY <1>2, <2>1 DEF HistoryOK, Covered
  <2> QED
    BY <1>2, <2>1, <2>2, <2>3, UploadStep DEF TypeOK
<1> QED
  BY <1>1, <1>2 DEF PushFails

LEMMA CrashKeeps ==
  ASSUME IInv, Crash
  PROVE  IInv'
<1> USE DEF IInv
<1>1. /\ phase' = "down"
      /\ lock' = [f \in Dbs |-> IF lock[f] = Cli THEN Cli ELSE None]
      /\ job' = [a \in Actors |-> IF a = Cli THEN job[a] ELSE Idle]
      /\ cached' = FALSE /\ open' = [r \in Requests |-> FALSE] /\ push' = "idle"
      /\ life' = (IF life \in {"rowless", "unlinked"} THEN "past" ELSE life)
      /\ mishaps' = mishaps \ {"replaced"}
      /\ UNCHANGED <<disk, bucket, whole, torn, dropped, backup>>
  BY DEF Crash
<1>2. /\ job' \in [Actors -> Jobs] /\ job'[Cli] = job[Cli]
      /\ \A a \in Actors : a # Cli => job'[a] = Idle
  BY <1>1, JobFacts, ActorFacts DEF TypeOK
<1>3. TypeOK'
  <2>1. lock' \in [Dbs -> Actors \cup {None}]
    BY <1>1, ActorFacts
  <2>2. ASSUME NEW g \in Dbs, NEW b \in Actors
        PROVE  lock'[g] = b <=> job'[b].step = "begun" /\ job'[b].db = g
    <3>1. CASE b = Cli
      BY <3>1, <1>1, <1>2, ActorFacts DEF TypeOK
    <3>2. CASE b # Cli
      BY <3>2, <1>1, <1>2, ActorFacts, JobFacts
    <3> QED
      BY <3>1, <3>2
  <2> QED
    BY <1>1, <1>2, <2>1, <2>2 DEF TypeOK
<1>4. QuietOK'
  BY <1>1, <1>2, ActorFacts, StartAssumption DEF QuietOK
<1>5. PhaseOK'
  BY <1>1 DEF PhaseOK
<1>6. ImagesOK'
  BY <1>1 DEF ImagesOK, ImageOK
<1>7. HistoryOK'
  BY <1>1 DEF HistoryOK, Covered
<1>8. ASSUME NEW b \in Actors PROVE JobOK(b)'
  <2>1. CASE b # Cli
    BY <2>1, <1>2 DEF JobOK
  <2>2. CASE b = Cli
    BY <2>2, <1>1, <1>2, ActorFacts, StartAssumption DEF JobOK
  <2> QED
    BY <2>1, <2>2
<1> QED
  BY <1>3, <1>4, <1>5, <1>6, <1>7, <1>8

LEMMA WipeKeeps ==
  ASSUME IInv, Wipe
  PROVE  IInv'
<1> USE DEF IInv
<1>1. /\ phase = "down" /\ job[Cli] = Idle /\ disk' = [f \in Dbs |-> Absent]
      /\ backup' = Absent
      /\ UNCHANGED <<phase, lock, job, cached, open, bucket, push, whole, torn, dropped, life, mishaps>>
  BY DEF Wipe
<1>2. disk' \in [Dbs -> Database \cup {Absent}] /\ disk'[Meta] = Absent /\ disk'[Proj] = Absent
  BY <1>1, ActorFacts
<1>3. TypeOK'
  BY <1>1, <1>2, TypeAfterWrite DEF TypeOK, HistoryTypeOK
<1>4. QuietOK'
  BY <1>1 DEF QuietOK
<1>5. PhaseOK'
  BY <1>1, <1>4 DEF PhaseOK, QuietOK
<1>6. ImagesOK'
  BY <1>1, <1>2 DEF ImagesOK, ImageOK
<1>7. HistoryOK'
  BY <1>1, <1>2 DEF HistoryOK, Covered, QuietOK
<1>8. ASSUME NEW b \in Actors PROVE JobOK(b)'
  <2>1. job[b] = Idle
    <3>1. b = Server => job[b] = Idle
      BY <1>1, ActorFacts DEF JobOK
    <3>2. b \in Requests => job[b] = Idle
      BY <1>1 DEF QuietOK
    <3> QED
      BY <1>1, <3>1, <3>2 DEF Actors
  <2> QED
    BY <1>1, <2>1 DEF JobOK
<1> QED
  BY <1>3, <1>4, <1>5, <1>6, <1>7, <1>8

-----------------------------------------------------------------------------
(* The restore.                                                            *)

LEMMA StartKeeps ==
  ASSUME IInv, NEW fetched \in SUBSET Dbs, Start(fetched)
  PROVE  IInv'
<1> USE DEF IInv
<1>1. PICK remote : remote = {f \in Objects : disk[f] = Absent}
  OBVIOUS
<1>2. /\ phase = "down" /\ phase' = "starting" /\ fetched \subseteq remote
      /\ disk' = [f \in Dbs |-> IF f \in fetched THEN bucket[f] ELSE disk[f]]
      /\ torn' = (torn \/ (remote # {} /\ ~(whole /\ fetched = Objects)))
      /\ dropped' = (IF fetched = {} THEN dropped
                     ELSE {t \in dropped : disk'[Meta] # Absent /\ disk'[Meta].marker
                                           /\ disk'[Proj] # Absent /\ disk'[Proj].tables[t] = "none"})
      /\ UNCHANGED <<lock, job, cached, open, bucket, push, whole, hvars>>
  BY <1>1 DEF Start
<1>3. \A f \in Dbs : /\ f \in fetched => disk'[f] = bucket[f] /\ disk[f] = Absent /\ bucket[f] # Absent
                     /\ f \notin fetched => disk'[f] = disk[f]
  BY <1>1, <1>2 DEF Objects
<1>4. disk' \in [Dbs -> Database \cup {Absent}]
  BY <1>2 DEF TypeOK
<1>5. Keeps
  BY <1>3 DEF Keeps
<1>6. TypeOK'
  <2>1. dropped' \in SUBSET Tables
    BY <1>2 DEF TypeOK
  <2>2. torn' \in BOOLEAN
    BY <1>2 DEF TypeOK
  <2> QED
    BY <1>2, <1>4, <2>1, <2>2, TypeAfterWrite DEF TypeOK, HistoryTypeOK
<1>7. QuietOK'
  BY <1>2 DEF QuietOK
<1>8. PhaseOK'
  BY <1>2, <1>7 DEF PhaseOK, QuietOK
<1>9. ImagesOK'
  <2>1. \A f \in Dbs : ImageOK(disk'[f])
    BY <1>3 DEF ImagesOK
  <2> QED
    BY <1>2, <2>1 DEF ImagesOK, ImageOK
<1>10. job[Server] = Idle
  BY <1>2, ActorFacts DEF JobOK
<1>11. \A b \in Actors : JobOK(b)'
  BY <1>2, <1>5, <1>10, JobsStay
<1>12. HistoryOK'
  <2> SUFFICES ASSUME ~torn' PROVE HistoryOK'
    BY DEF HistoryOK
  <2>1. ~torn /\ (remote = {} \/ (whole /\ fetched = Objects)) /\ push = "idle"
    BY <1>2 DEF QuietOK
  <2>2. CASE fetched = {}
    <3>1. disk'[Meta] = disk[Meta] /\ disk'[Proj] = disk[Proj] /\ dropped' = dropped
      BY <1>2, <1>3, <2>2, ActorFacts
    <3> QED
      BY <1>2, <2>1, <3>1 DEF HistoryOK, Covered
  <2>3. CASE fetched # {}
    <3>1. whole /\ fetched = Objects
      BY <1>2, <2>1, <2>3
    <3>2. bucket[Meta] # Absent /\ Covered(bucket[Meta], bucket[Proj])
      BY <2>1, <3>1 DEF HistoryOK
    <3>3. disk'[Meta] = bucket[Meta] /\ disk[Meta] = Absent
      BY <1>3, <3>1, <3>2, ActorFacts DEF Objects
    <3>4. disk[Proj] = Absent
      BY <2>1, <3>3 DEF HistoryOK
    <3>5. disk'[Proj] = bucket[Proj]
      BY <1>3, <3>1, <3>4, ActorFacts DEF Objects
    <3>6. \A t : t \in dropped' <=> t \in dropped /\ bucket[Meta].marker
                                    /\ bucket[Proj] # Absent /\ bucket[Proj].tables[t] = "none"
      BY <1>2, <2>3, <3>2, <3>3, <3>5
    <3>7. bucket[Meta].marker => \A t \in Tables :
            bucket[Meta].tables[t] = "legacy" =>
              bucket[Proj] # Absent /\ (t \in dropped' \/ bucket[Proj].tables[t] # "none")
      BY <3>2, <3>6 DEF Covered
    <3> QED
      BY <1>2, <2>1, <3>2, <3>3, <3>5, <3>6, <3>7 DEF HistoryOK, Covered
  <2> QED
    BY <2>2, <2>3
<1> QED
  BY <1>6, <1>7, <1>8, <1>9, <1>11, <1>12

-----------------------------------------------------------------------------
(* By an administrator's hand.                                             *)

LEMMA DeleteRowKeeps ==
  ASSUME IInv, DeleteRow
  PROVE  IInv'
<1> USE DEF IInv
<1>1. /\ phase = "serving" /\ life = "made" /\ life' = "rowless" /\ torn' = TRUE
      /\ disk' = [disk EXCEPT ![Meta].project = FALSE]
      /\ UNCHANGED <<phase, lock, job, cached, open, bucket, push, whole, dropped, backup, mishaps>>
  BY DEF DeleteRow
<1>2. disk[Meta] # Absent
  BY <1>1 DEF PhaseOK
<1>3. PICK m \in Database : m = disk[Meta]
  BY <1>2, ActorFacts DEF TypeOK
<1>4. PICK e : e = [m EXCEPT !.project = FALSE]
  OBVIOUS
<1>5. e \in Database /\ e.applied = m.applied /\ e.schema = m.schema
  BY <1>3, <1>4 DEF Database
<1>6. disk' = [disk EXCEPT ![Meta] = e] /\ job' = job /\ phase' = phase /\ mishaps \subseteq mishaps'
  BY <1>1, <1>3, <1>4
<1>7. /\ disk' \in [Dbs -> Database \cup {Absent}]
      /\ disk'[Meta] # Absent /\ disk'[Proj] = disk[Proj]
      /\ (Current(Meta) => Current(Meta)') /\ (Current(Proj) => Current(Proj)')
      /\ \A g \in Dbs : ImageOK(disk[g]) => ImageOK(disk'[g])
      /\ \A b \in Actors : JobOK(b)'
  <2>1. /\ disk' \in [Dbs -> Database \cup {Absent}]
        /\ disk'[Meta] = e /\ e # Absent
        /\ \A g \in Dbs : g # Meta => disk'[g] = disk[g]
        /\ \A g \in Dbs : Current(g) => Current(g)'
        /\ \A g \in Dbs : ImageOK(disk[g]) => ImageOK(disk'[g])
        /\ \A b \in Actors : JobOK(b)'
    BY <1>3, <1>5, <1>6, WriteStep, ActorFacts
  <2> QED
    BY <2>1, ActorFacts
<1>8. TypeOK'
  BY <1>1, <1>7, TypeAfterWrite DEF TypeOK, HistoryTypeOK
<1>9. QuietOK' /\ HistoryOK'
  BY <1>1 DEF QuietOK, HistoryOK
<1>10. PhaseOK'
  BY <1>1, <1>7 DEF PhaseOK
<1>11. ImagesOK'
  BY <1>1, <1>7, ImagesFrame
<1> QED
  BY <1>7, <1>8, <1>9, <1>10, <1>11

LEMMA UnlinkKeeps ==
  ASSUME IInv, Unlink
  PROVE  IInv'
<1> USE DEF IInv
<1>1. /\ life = "rowless" /\ life' = "unlinked"
      /\ disk' = [disk EXCEPT ![Proj] = Absent]
      /\ lock' = [lock EXCEPT ![Proj] = None]
      /\ job' = [a \in Actors |-> IF job[a].db = Proj THEN Idle ELSE job[a]]
      /\ open' = [r \in Requests |-> FALSE]
      /\ UNCHANGED <<phase, cached, bucket, push, whole, torn, dropped, backup, mishaps>>
  BY DEF Unlink
<1>2. phase = "serving" /\ torn
  BY <1>1 DEF QuietOK, HistoryOK
<1>3. disk' \in [Dbs -> Database \cup {Absent}] /\ disk'[Proj] = Absent /\ disk'[Meta] = disk[Meta]
  BY <1>1, ActorFacts DEF TypeOK
<1>4. /\ job' \in [Actors -> Jobs] /\ \A a \in Actors : job'[a] \in {Idle, job[a]}
      /\ \A a \in Actors : job'[a] # Idle => job'[a] = job[a] /\ job[a].db # Proj
  BY <1>1, JobFacts DEF TypeOK
<1>5. TypeOK'
  <2>1. lock' \in [Dbs -> Actors \cup {None}]
    BY <1>1 DEF TypeOK
  <2>2. ASSUME NEW g \in Dbs, NEW b \in Actors
        PROVE  lock'[g] = b <=> job'[b].step = "begun" /\ job'[b].db = g
    <3>1. job'[b] = IF job[b].db = Proj THEN Idle ELSE job[b]
      BY <1>1
    <3>2. lock[g] = b <=> job[b].step = "begun" /\ job[b].db = g
      BY DEF TypeOK
    <3>3. lock'[g] = IF g = Proj THEN None ELSE lock[g]
      BY <1>1 DEF TypeOK
    <3> QED
      BY <3>1, <3>2, <3>3, ActorFacts, JobFacts
  <2> QED
    BY <1>1, <1>3, <1>4, <2>1, <2>2 DEF TypeOK
<1>6. QuietOK' /\ HistoryOK'
  BY <1>1, <1>2 DEF QuietOK, HistoryOK
<1>7. PhaseOK'
  BY <1>1, <1>2, <1>3 DEF PhaseOK, Current
<1>8. ImagesOK'
  BY <1>1, <1>3 DEF ImagesOK, ImageOK, Dbs
<1>9. ASSUME NEW b \in Actors PROVE JobOK(b)'
  <2> SUFFICES ASSUME job'[b] # Idle PROVE JobOK(b)'
    BY DEF JobOK
  <2>1. job'[b] = job[b] /\ job[b].db = Meta
    BY <1>4, JobFacts DEF TypeOK, Dbs
  <2> QED
    BY <1>1, <1>3, <2>1 DEF JobOK
<1> QED
  BY <1>5, <1>6, <1>7, <1>8, <1>9

LEMMA RememberKeeps ==
  ASSUME IInv, Remember
  PROVE  IInv'
<1> USE DEF IInv
<1>1. /\ life = "unlinked" /\ cached' = TRUE
      /\ UNCHANGED <<phase, disk, lock, job, open, bucket, push, whole, torn, dropped, hvars>>
  BY DEF Remember
<1>2. TypeOK'
  <2>1. \A g \in Dbs, b \in Actors : lock'[g] = b <=> job'[b].step = "begun" /\ job'[b].db = g
    BY <1>1 DEF TypeOK
  <2> QED
    BY <1>1, <2>1 DEF TypeOK
<1>3. QuietOK'
  BY <1>1 DEF QuietOK
<1>4. PhaseOK' /\ ImagesOK' /\ HistoryOK'
  BY <1>1 DEF PhaseOK, Current, ImagesOK, ImageOK, HistoryOK, Covered
<1>5. Keeps
  BY <1>1 DEF Keeps
<1>6. \A b \in Actors : JobOK(b)'
  BY <1>1, <1>5, JobsStay
<1> QED
  BY <1>2, <1>3, <1>4, <1>6

LEMMA BackupKeeps ==
  ASSUME IInv, Backup
  PROVE  IInv'
<1> USE DEF IInv
<1>1. /\ disk[Meta] # Absent /\ backup' = disk[Meta]
      /\ UNCHANGED <<phase, disk, lock, job, cached, open, bucket, push, whole, torn, dropped, life, mishaps>>
  BY DEF Backup
<1>2. TypeOK'
  <2>1. backup' \in Database \cup {Absent}
    BY <1>1, ActorFacts DEF TypeOK
  <2> QED
    BY <1>1, <2>1, TypeAfterWrite DEF TypeOK, HistoryTypeOK
<1>3. QuietOK' /\ PhaseOK' /\ HistoryOK'
  BY <1>1 DEF QuietOK, PhaseOK, Current, HistoryOK, Covered
<1>4. ImagesOK'
  BY <1>1, ActorFacts DEF ImagesOK, ImageOK
<1>5. Keeps
  BY <1>1 DEF Keeps
<1>6. \A b \in Actors : JobOK(b)'
  BY <1>1, <1>5, JobsStay
<1> QED
  BY <1>2, <1>3, <1>4, <1>6

(* A run that a backup crosses is one of `db push'.                        *)
LEMMA PutBackKeeps ==
  ASSUME IInv, PutBack
  PROVE  IInv'
<1> USE DEF IInv
<1>1. /\ backup # Absent
      /\ phase = "serving" \/ (phase = "down" /\ job[Cli] = Idle)
      /\ disk' = [disk EXCEPT ![Meta] = backup]
      /\ torn' = TRUE
      /\ mishaps' = mishaps \cup (IF phase = "serving" THEN {"replaced"} ELSE {})
                            \cup (IF job[Cli] = Idle THEN {} ELSE {"crossed"})
      /\ UNCHANGED <<phase, lock, job, cached, open, bucket, push, whole, dropped, backup, life>>
  BY DEF PutBack
<1>2. /\ disk' \in [Dbs -> Database \cup {Absent}] /\ disk'[Meta] = backup /\ disk'[Proj] = disk[Proj]
  BY <1>1, ActorFacts DEF TypeOK
<1>3. /\ mishaps' \in SUBSET {"replaced", "crossed", "misread"} /\ mishaps \subseteq mishaps'
      /\ phase = "serving" => "replaced" \in mishaps'
      /\ job[Cli] # Idle => "crossed" \in mishaps'
      /\ phase # "serving" => ("replaced" \in mishaps' => "replaced" \in mishaps)
  BY <1>1 DEF TypeOK
<1>4. TypeOK'
  BY <1>1, <1>2, <1>3, TypeAfterWrite DEF TypeOK, HistoryTypeOK
<1>5. QuietOK' /\ HistoryOK'
  BY <1>1, <1>3 DEF QuietOK, HistoryOK
<1>6. PhaseOK'
  <2>1. Current(Proj)' <=> Current(Proj)
    BY <1>2 DEF Current
  <2> QED
    BY <1>1, <1>2, <1>3, <1>5, <2>1 DEF PhaseOK, QuietOK
<1>7. ImagesOK'
  BY <1>1, <1>2, <1>3 DEF ImagesOK, ImageOK, Dbs
<1>8. job[Server] = Idle
  BY <1>1, ActorFacts DEF JobOK
<1>9. ASSUME NEW b \in Actors PROVE JobOK(b)'
  <2> SUFFICES ASSUME job[b] # Idle PROVE JobOK(b)'
    BY <1>1 DEF JobOK
  <2>1. CASE b = Cli
    BY <1>1, <1>2, <1>3, <2>1, StartAssumption DEF JobOK
  <2>2. CASE b \in Requests
    BY <1>1, <1>2, <1>3, <2>2, StartAssumption DEF JobOK
  <2> QED
    BY <1>8, <2>1, <2>2 DEF Actors
<1> QED
  BY <1>4, <1>5, <1>6, <1>7, <1>9

LEMMA StepIInv == IInv /\ [Next]_vars => IInv'
<1> SUFFICES ASSUME IInv, [Next]_vars PROVE IInv'
  OBVIOUS
<1>1. CASE \E fetched \in SUBSET Dbs : Start(fetched)
  BY <1>1, StartKeeps
<1>2. ASSUME NEW a \in Actors, Run(a) PROVE IInv'
  BY <1>2, BeginKeeps, CommitKeeps, FailKeeps, DoneKeeps DEF Run
<1>3. CASE Lifespan
  BY <1>2, <1>3, MigrateKeeps, ServingKeeps, AdoptKeeps, CopyKeeps, MarkKeeps, ActorFacts DEF Lifespan
<1>4. CASE Push
  BY <1>4, PushKeeps
<1>5. CASE Use
  <2>1. CASE CreateProject \/ PushMeta \/ PushProject \/ PushFails
    BY <2>1, CreateProjectKeeps, PushMetaKeeps, PushProjectKeeps, PushFailsKeeps
  <2>2. CASE \E r \in Requests : Open(r) \/ Close(r)
    BY <2>2, OpenKeeps, CloseKeeps
  <2>3. CASE \E r \in Requests, t \in Tables, v \in {"none", "scoped"} : Change(r, t, v)
    BY <2>3, ChangeKeeps
  <2>4. CASE \E t \in Tables : DropLegacy(t)
    BY <2>4, DropLegacyKeeps
  <2>5. CASE DeleteRow \/ Unlink \/ Remember \/ Backup \/ PutBack
    BY <2>5, DeleteRowKeeps, UnlinkKeeps, RememberKeeps, BackupKeeps, PutBackKeeps
  <2> QED
    BY <1>5, <2>1, <2>2, <2>3, <2>4, <2>5 DEF Use
<1>6. CASE Crash
  BY <1>6, CrashKeeps
<1>7. CASE Wipe
  BY <1>7, WipeKeeps
<1>8. CASE UNCHANGED vars
  <2>1. TypeOK'
    BY <1>8, TypeAfterWrite DEF vars, IInv, TypeOK, HistoryTypeOK
  <2>2. QuietOK' /\ PhaseOK' /\ ImagesOK' /\ HistoryOK'
    BY <1>8 DEF vars, IInv, QuietOK, PhaseOK, Current, ImagesOK, ImageOK, HistoryOK, Covered
  <2>3. Keeps
    BY <1>8 DEF vars, Keeps
  <2>4. \A b \in Actors : JobOK(b)'
    BY <1>8, <2>3, JobsStay DEF vars
  <2> QED
    BY <2>1, <2>2, <2>4 DEF IInv
<1> QED
  BY <1>1, <1>2, <1>3, <1>4, <1>5, <1>6, <1>7, <1>8 DEF Next

LEMMA Invariance == Spec => []IInv
<1> QED
  BY InitIInv, StepIInv, PTL DEF Spec

-----------------------------------------------------------------------------
(* Types, and a write lock is held by the run that has begun a migration   *)
(* of that file: run_pending_migrations.                                   *)
THEOREM TypeCorrect == Spec => []TypeOK
<1>1. IInv => TypeOK
  BY DEF IInv
<1> QED
  BY <1>1, Invariance, PTL

(* apply_migration: no file and no object has the id of a migration        *)
(* without its schema, however many migrations there are.                  *)
THEOREM Atomic == Spec => []RecordedMeansApplied
<1>1. IInv => RecordedMeansApplied
  BY DEF IInv, ImagesOK, ImageOK, RecordedMeansApplied, Images
<1> QED
  BY <1>1, Invariance, PTL

(* run_pending_migrations: the ids in a file are those of a prefix of the  *)
(* migrations, also when two processes have worked off stale lists, unless *)
(* restore_into_live has put a backup back under one of them.              *)
THEOREM Ordered == Spec => []AppliedInOrder
<1>1. IInv => AppliedInOrder
  BY DEF IInv, ImagesOK, ImageOK, AppliedInOrder, Images
<1> QED
  BY <1>1, Invariance, PTL

(* lifespan and open_data_db_for_project: what is served has been migrated *)
(* as far as there are migrations, except, until the process ends, a meta  *)
(* database that a backup has replaced and a project file that is made     *)
(* anew where a deletion has unlinked the first.                           *)
THEOREM UpToDate == Spec => []ServedUpToDate
<1>1. IInv => ServedUpToDate
  BY DEF IInv, PhaseOK, Current, ServedUpToDate
<1> QED
  BY <1>1, Invariance, PTL

(* run_legacy_adoption: what a project has dropped since its adoption is   *)
(* not copied again, as long as no adoption goes on over a marker that is  *)
(* there and could not be read, and the two files belong together.         *)
THEOREM OncePerSlug == Spec => []AdoptedOnce
<1>1. IInv => AdoptedOnce
  BY DEF IInv, HistoryOK, AdoptedOnce
<1> QED
  BY <1>1, Invariance, PTL

(* run_legacy_adoption: the marker in the one file speaks the truth about  *)
(* the tables in the other.                                                *)
THEOREM MarkerTrue == Spec => []MarkerMeansAdopted
<1>1. IInv => MarkerMeansAdopted
  BY DEF IInv, HistoryOK, Covered, MarkerMeansAdopted
<1> QED
  BY <1>1, Invariance, PTL

LEMMA CommitKeepsTables ==
  ASSUME IInv, NEW a \in Actors, Commit(a)
  PROVE  disk'[Proj] = disk[Proj] \/ disk'[Proj].tables = disk[Proj].tables
<1>1. job[a] # Idle
  BY JobFacts DEF Commit, IInv, TypeOK
<1>2. PICK f \in Dbs : f = job[a].db
  BY <1>1, JobFacts DEF IInv, TypeOK
<1>3. PICK m : m = FirstOf(job[a].pending)
  OBVIOUS
<1>4. disk' = [disk EXCEPT ![f] = Migrated(@, m)]
  BY <1>2, <1>3 DEF Commit
<1>5. disk[f] # Absent
  BY <1>1, <1>2 DEF IInv, JobOK
<1>6. PICK d \in Database : d = disk[f]
  BY <1>5 DEF IInv, TypeOK
<1>7. PICK e : e = Migrated(d, m)
  OBVIOUS
<1>8. e.tables = d.tables
  BY <1>6, <1>7 DEF Migrated, Database
<1>9. disk'[f] = e /\ \A g \in Dbs : g # f => disk'[g] = disk[g]
  BY <1>4, <1>6, <1>7 DEF IInv, TypeOK
<1> QED
  BY <1>6, <1>8, <1>9, ActorFacts

LEMMA CopyKeepsScoped ==
  ASSUME IInv, Copy, NEW t \in Tables, disk[Proj].tables[t] = "scoped"
  PROVE  disk'[Proj].tables[t] = "scoped"
<1>1. disk[Proj] # Absent /\ disk' = [disk EXCEPT ![Proj].tables = Copied(disk[Meta].tables, @)]
  BY DEF Copy, IInv, PhaseOK
<1>2. PICK d \in Database : d = disk[Proj]
  BY <1>1, ActorFacts DEF IInv, TypeOK
<1>3. PICK tabs : tabs = Copied(disk[Meta].tables, d.tables)
  OBVIOUS
<1>4. tabs[t] = "scoped"
  BY <1>2, <1>3 DEF Copied
<1>5. PICK e : e = [d EXCEPT !.tables = tabs]
  OBVIOUS
<1>6. e.tables = tabs
  BY <1>2, <1>5 DEF Database
<1>7. disk' = [disk EXCEPT ![Proj] = e]
  BY <1>1, <1>2, <1>3, <1>5
<1>8. disk'[Proj] = e
  BY <1>7, ActorFacts DEF IInv, TypeOK
<1> QED
  BY <1>4, <1>6, <1>8

(* run_legacy_adoption: a start never replaces what a project has made of  *)
(* a table, with any number of tables and migrations.                      *)
THEOREM NeverClobbers == Spec => ScopedDataWins
<1>1. IInv /\ [Next]_vars =>
        [phase \notin {"down", "serving"} =>
           \A t \in Tables :
             disk[Proj] # Absent /\ disk[Proj].tables[t] = "scoped"
               => disk'[Proj].tables[t] = "scoped"]_vars
  <2> SUFFICES ASSUME IInv, Next, phase \notin {"down", "serving"},
                      NEW t \in Tables, disk[Proj] # Absent, disk[Proj].tables[t] = "scoped"
               PROVE  disk'[Proj].tables[t] = "scoped"
    BY DEF vars
  <2>1. \A r \in Requests : ~open[r] /\ job[r] = Idle
    BY DEF IInv, QuietOK
  <2>2. ASSUME NEW a \in Actors, NEW f \in Dbs, List(a, f) PROVE disk'[Proj].tables[t] = "scoped"
    BY <2>2, ListStep, ActorFacts DEF IInv, SameContent
  <2>3. ASSUME NEW a \in Actors, Run(a) PROVE disk'[Proj].tables[t] = "scoped"
    <3>1. CASE Commit(a)
      BY <3>1, CommitKeepsTables
    <3>2. CASE Begin(a) \/ Fail(a) \/ Done(a)
      BY <3>2 DEF Begin, Fail, Done
    <3> QED
      BY <2>3, <3>1, <3>2 DEF Run
  <2>4. CASE Lifespan
    <3>1. CASE Migrate \/ Adopt
      BY <3>1, <2>2, ActorFacts DEF Migrate, Adopt
    <3>2. CASE NothingToAdopt \/ AdoptionFails
      BY <3>2 DEF NothingToAdopt, AdoptionFails
    <3>3. CASE Mark
      BY <3>3, ActorFacts DEF Mark, IInv, TypeOK
    <3> QED
      BY <2>3, <2>4, <3>1, <3>2, <3>3, CopyKeepsScoped, ActorFacts DEF Lifespan
  <2>5. CASE Push
    BY <2>5, <2>2, ActorFacts DEF Push
  <2>6. CASE Use
    <3>1. CASE \/ CreateProject \/ (\E u \in Tables : DropLegacy(u)) \/ PushMeta \/ PushProject \/ PushFails
               \/ DeleteRow \/ Unlink \/ Remember \/ Backup
      BY <3>1 DEF CreateProject, DropLegacy, PushMeta, PushProject, PushFails,
                  DeleteRow, Unlink, Remember, Backup, IInv, QuietOK
    <3>2. CASE \E r \in Requests : Open(r) \/ Close(r)
      BY <3>2, <2>1 DEF Open, Close
    <3>3. CASE \E r \in Requests, u \in Tables, v \in {"none", "scoped"} : Change(r, u, v)
      BY <3>3, <2>1 DEF Change
    <3>4. CASE PutBack
      BY <3>4 DEF PutBack
    <3> QED
      BY <2>6, <3>1, <3>2, <3>3, <3>4 DEF Use
  <2>7. CASE Crash
    BY <2>7 DEF Crash
  <2>8. CASE (\E fetched \in SUBSET Dbs : Start(fetched)) \/ Wipe
    BY <2>8 DEF Start, Wipe
  <2> QED
    BY <2>3, <2>4, <2>5, <2>6, <2>7, <2>8 DEF Next
<1> QED
  BY <1>1, Invariance, PTL DEF Spec, ScopedDataWins

-----------------------------------------------------------------------------
(* The refinement: a file goes through the versions one by one.            *)

LEMMA IntervalsDiffer ==
  ASSUME NEW m \in 0 .. Last, NEW n \in 0 .. Last, 1 .. m = 1 .. n
  PROVE  m = n
<1> USE StartAssumption
<1>1. m <= n
  <2> SUFFICES ASSUME m > n PROVE FALSE
    OBVIOUS
  <2> m \in 1 .. m /\ m \notin 1 .. n
    OBVIOUS
  <2> QED
    OBVIOUS
<1>2. n <= m
  <2> SUFFICES ASSUME n > m PROVE FALSE
    OBVIOUS
  <2> n \in 1 .. n /\ n \notin 1 .. m
    OBVIOUS
  <2> QED
    OBVIOUS
<1> QED
  BY <1>1, <1>2

LEMMA VersionIs ==
  ASSUME NEW d \in Database, NEW n \in 0 .. Last, IsVersion(d, n)
  PROVE  Version(d) = n /\ n # Absent
<1>1. d # Absent /\ n # Absent
  BY AbsentAssumption
<1>2. \A m \in 0 .. Last : IsVersion(d, m) => m = n
  BY IntervalsDiffer DEF IsVersion
<1>3. (CHOOSE m \in 0 .. Last : IsVersion(d, m)) = n
  BY <1>2
<1> QED
  BY <1>1, <1>3 DEF Version

(* The ids of a prefix of the migrations, all with their schema, make a    *)
(* version: the one before the first that is not there.                    *)
LEMMA HasVersion ==
  ASSUME NEW d \in Database, ImageOK(d), "crossed" \notin mishaps
  PROVE  \E n \in 0 .. Last : IsVersion(d, n) /\ Version(d) = n
<1> USE StartAssumption DEF Migs
<1>1. d.applied \subseteq Migs /\ d.applied \subseteq d.schema
      /\ \A m \in d.applied : 1 .. m \subseteq d.applied
  BY AbsentAssumption DEF ImageOK, Database
<1>2. \E n \in 0 .. Last : d.applied = 1 .. n
  <2>1. CASE Migs \ d.applied = {}
    <3>1. d.applied = 1 .. Last
      BY <1>1, <2>1
    <3>2. Last \in 0 .. Last
      OBVIOUS
    <3> QED
      BY <3>1, <3>2
  <2>2. CASE Migs \ d.applied # {}
    <3>1. PICK m \in Migs \ d.applied : \A k \in Migs \ d.applied : m <= k
      BY <2>2, FirstIsLeast
    <3>2. m - 1 \in 0 .. Last /\ m \in Nat /\ m >= 1
      BY <3>1
    <3>3. ASSUME NEW k \in d.applied PROVE k \in 1 .. m - 1
      <4>1. k \in 1 .. Last /\ m \notin 1 .. k
        BY <1>1, <3>1
      <4> QED
        BY <3>2, <4>1
    <3>4. ASSUME NEW k \in 1 .. m - 1 PROVE k \in d.applied
      <4>1. k \in Migs /\ k < m
        BY <3>1, <3>2
      <4> QED
        BY <3>1, <3>2, <4>1
    <3> QED
      BY <3>2, <3>3, <3>4
  <2> QED
    BY <2>1, <2>2
<1> QED
  BY <1>1, <1>2, VersionIs DEF IsVersion

LEMMA SameVersion ==
  ASSUME NEW d \in Database, NEW e \in Database, ImageOK(d), "crossed" \notin mishaps,
         e.applied = d.applied, e.schema = d.schema
  PROVE  Version(e) = Version(d)
<1>1. PICK n \in 0 .. Last : IsVersion(d, n) /\ Version(d) = n
  BY HasVersion
<1>2. IsVersion(e, n)
  BY <1>1 DEF IsVersion
<1> QED
  BY <1>1, <1>2, VersionIs

LEMMA NoVersion == Version(Absent) = Absent
BY DEF Version

LEMMA PresentHasVersion ==
  ASSUME ImagesOK, TypeOK, NEW f \in Dbs, "crossed" \notin mishaps
  PROVE  /\ disk[f] # Absent => Version(disk[f]) # Absent
         /\ bucket[f] # Absent => Version(bucket[f]) # Absent
         /\ backup # Absent => Version(backup) # Absent
<1>1. disk[f] # Absent => disk[f] \in Database /\ ImageOK(disk[f])
  BY DEF TypeOK, ImagesOK
<1>2. bucket[f] # Absent => bucket[f] \in Database /\ ImageOK(bucket[f])
  BY DEF TypeOK, ImagesOK
<1>3. backup # Absent => backup \in Database /\ ImageOK(backup)
  BY DEF TypeOK, ImagesOK
<1> QED
  BY <1>1, <1>2, <1>3, HasVersion, AbsentAssumption

LEMMA CurrentIsLast ==
  ASSUME ImagesOK, TypeOK, NEW f \in Dbs, Current(f)
  PROVE  Version(disk[f]) = Last
<1>1. disk[f] \in Database /\ ImageOK(disk[f]) /\ disk[f].applied = 1 .. Last
  BY DEF Current, TypeOK, ImagesOK, Migs
<1>2. IsVersion(disk[f], Last)
  BY <1>1, AbsentAssumption DEF ImageOK, IsVersion
<1> QED
  BY <1>1, <1>2, VersionIs, StartAssumption

(* Nothing that shows in SchemaVersions, but for versions and users.       *)
Unseen == /\ UNCHANGED <<bucket, backup>>
          /\ life' = "unlinked" <=> life = "unlinked"
          /\ "crossed" \notin mishaps /\ "crossed" \notin mishaps'

Stutter == UNCHANGED Schema!svars

SchemaStep == Schema!Next \/ Stutter

LEMMA Stutters ==
  ASSUME \A f \in Dbs : Version(disk'[f]) = Version(disk[f]),
         \A f \in Dbs : UsersOf(f)' = UsersOf(f),
         Unseen
  PROVE  SchemaStep
BY DEF SchemaStep, Stutter, Schema!svars, Unseen

LEMMA UsersActors == \A f \in Dbs : UsersOf(f) \subseteq Actors
BY ActorFacts DEF UsersOf

LEMMA DetachMaps ==
  ASSUME UNCHANGED <<disk, bucket, backup>>, "crossed" \notin mishaps, "crossed" \notin mishaps',
         life' = "unlinked" => life = "unlinked",
         \A f \in Dbs : UsersOf(f)' \subseteq UsersOf(f)
  PROVE  SchemaStep
<1>1. [f \in Dbs |-> UsersOf(f)]' \in [Dbs -> SUBSET Actors]
  BY UsersActors
<1> QED
  BY <1>1 DEF SchemaStep, Schema!Next, Schema!Detach

(* Whoever begins to work on a file finds it at the last version.          *)
LEMMA AttachMaps ==
  ASSUME IInv, UNCHANGED disk, Unseen, NEW u \in Actors, NEW f \in Dbs, Current(f),
         UsersOf(f)' = UsersOf(f) \cup {u},
         \A g \in Dbs \ {f} : UsersOf(g)' = UsersOf(g)
  PROVE  SchemaStep
<1>1. Version(disk[f]) = Last
  BY CurrentIsLast DEF IInv, Unseen
<1>2. [g \in Dbs |-> UsersOf(g)]' = [[g \in Dbs |-> UsersOf(g)] EXCEPT ![f] = @ \cup {u}]
  OBVIOUS
<1>3. Schema!Attach(u, f)
  BY <1>1, <1>2 DEF Schema!Attach, Unseen
<1> QED
  BY <1>3 DEF SchemaStep, Schema!Next

(* A file that a run of migrations does not find is made at version 0.     *)
LEMMA ListMaps ==
  ASSUME IInv, NEW a \in Actors, NEW f \in Dbs, List(a, f),
         \A g \in Dbs : UsersOf(g)' = UsersOf(g), Unseen
  PROVE  SchemaStep
<1>1. disk' = [disk EXCEPT ![f] = Connected(f)] /\ disk \in [Dbs -> Database \cup {Absent}]
  BY DEF List, IInv, TypeOK
<1>2. CASE disk[f] # Absent
  <2>1. disk' = disk
    BY <1>1, <1>2 DEF Connected
  <2> QED
    BY <2>1, Stutters
<1>3. CASE disk[f] = Absent
  <2>1. 0 \in 0 .. Last /\ IsVersion(Fresh, 0)
    BY StartAssumption DEF IsVersion, Fresh
  <2>2. Version(Fresh) = 0
    BY <2>1, VersionIs, FreshFacts
  <2>3. \A g \in Dbs : Version(disk'[g]) = IF g = f THEN 0 ELSE Version(disk[g])
    BY <1>1, <1>3, <2>2 DEF Connected
  <2>4. [g \in Dbs |-> Version(disk[g])]' = [[g \in Dbs |-> Version(disk[g])] EXCEPT ![f] = 0]
    BY <2>3
  <2>5. Version(disk[f]) = Absent
    BY <1>3, NoVersion
  <2>6. Schema!Create(f)
    BY <2>4, <2>5 DEF Schema!Create, Unseen
  <2> QED
    BY <2>6 DEF SchemaStep, Schema!Next
<1> QED
  BY <1>2, <1>3

(* A commit takes the file from its version to the next: what is pending   *)
(* is at least all that the file lacks.                                    *)
LEMMA CommitMaps ==
  ASSUME IInv, NEW a \in Actors, Commit(a), "crossed" \notin mishaps
  PROVE  SchemaStep
<1> USE DEF IInv
<1>1. job[a] # Idle
  BY JobFacts DEF Commit, TypeOK
<1>2. PICK f \in Dbs, pending \in SUBSET Migs : f = job[a].db /\ pending = job[a].pending
  BY <1>1, JobFacts DEF TypeOK
<1>3. PICK m : m = FirstOf(pending)
  OBVIOUS
<1>4. /\ disk' = [disk EXCEPT ![f] = Migrated(@, m)]
      /\ UNCHANGED <<phase, open, bucket, backup, life, mishaps>>
      /\ pending # {} /\ disk[f] # Absent /\ Migs \ pending \subseteq disk[f].applied
  BY <1>1, <1>2, <1>3 DEF Commit, JobOK
<1>5. m \in pending /\ m \in Migs /\ \A k \in pending : m <= k
  BY <1>2, <1>3, <1>4, FirstIsLeast
<1>6. PICK d \in Database : d = disk[f] /\ ImageOK(d)
  BY <1>4 DEF TypeOK, ImagesOK
<1>7. PICK e : e = Migrated(d, m)
  OBVIOUS
<1>8. e \in Database /\ e.applied = d.applied \cup {m} /\ e.schema = d.schema \cup {m}
  BY <1>5, <1>6, <1>7 DEF Migrated, Database
<1>9. disk'[f] = e /\ \A g \in Dbs \ {f} : disk'[g] = disk[g]
  BY <1>4, <1>6, <1>7 DEF TypeOK
<1>10. \A g \in Dbs : UsersOf(g)' = UsersOf(g)
  BY <1>4 DEF UsersOf
<1>11. PICK n \in 0 .. Last : IsVersion(d, n) /\ Version(d) = n
  BY <1>6, HasVersion
<1>12. CASE m \in d.applied
  <2>1. IsVersion(e, n)
    BY <1>8, <1>11, <1>12 DEF IsVersion
  <2>2. Version(e) = n
    BY <1>8, <2>1, VersionIs
  <2> QED
    BY <1>4, <1>6, <1>9, <1>10, <1>11, <2>2, Stutters DEF Unseen
<1>13. CASE m \notin d.applied
  <2>1. m \in 1 .. Last /\ Last \in Nat /\ d.applied = 1 .. n
    BY <1>5, <1>11, StartAssumption DEF Migs, IsVersion
  <2>2. n + 1 \in 1 .. Last /\ n + 1 \notin d.applied
    BY <1>13, <2>1
  <2>3. n + 1 \in pending
    BY <1>4, <1>6, <2>2 DEF Migs
  <2>4. m = n + 1
    BY <1>5, <1>13, <2>1, <2>3
  <2>5. n + 1 \in 0 .. Last /\ n \in 0 .. Last - 1 /\ IsVersion(e, n + 1)
    BY <1>8, <1>11, <2>1, <2>2, <2>4 DEF IsVersion
  <2>6. Version(e) = n + 1
    BY <1>8, <2>5, VersionIs
  <2>7. [g \in Dbs |-> Version(disk[g])]' = [[g \in Dbs |-> Version(disk[g])] EXCEPT ![f] = @ + 1]
    BY <1>6, <1>9, <1>11, <2>6
  <2>8. Schema!Migrate(f)
    BY <1>4, <1>6, <1>10, <1>11, <2>5, <2>7 DEF Schema!Migrate
  <2> QED
    BY <2>8 DEF SchemaStep, Schema!Next
<1> QED
  BY <1>12, <1>13

LEMMA DoneMaps ==
  ASSUME IInv, NEW a \in Actors, Done(a), "crossed" \notin mishaps
  PROVE  SchemaStep
<1> USE DEF IInv
<1>1. PICK f \in Dbs : f = job[a].db
  BY JobFacts DEF Done, TypeOK
<1>2. job[a] # Idle /\ Current(f) /\ UNCHANGED disk /\ Unseen
  <2>1. job[a] # Idle /\ job[a].pending = {} /\ UNCHANGED disk /\ Unseen
    BY JobFacts DEF Done, TypeOK, Unseen
  <2>2. disk[f] # Absent /\ Migs \subseteq disk[f].applied
    BY <1>1, <2>1 DEF JobOK
  <2>3. disk[f] \in Database
    BY <2>2 DEF TypeOK
  <2>4. disk[f].applied \subseteq Migs
    BY <2>3 DEF Database
  <2> QED
    BY <2>1, <2>2, <2>4 DEF Current
<1>3. Ended(a, f, TRUE)
  BY <1>1 DEF Done
<1>4. CASE a = Server /\ f = Meta
  <2>1. phase' = "adopting" /\ open' = open
    BY <1>3, <1>4, ActorFacts, StartAssumption DEF Ended
  <2>2. phase = "migrating"
    BY <1>1, <1>2, <1>4, ActorFacts DEF JobOK
  <2>3. UsersOf(f)' = UsersOf(f) \cup {a} /\ \A g \in Dbs \ {f} : UsersOf(g)' = UsersOf(g)
    BY <1>4, <2>1, <2>2 DEF UsersOf
  <2> QED
    BY <1>2, <2>3, AttachMaps
<1>5. CASE a = Server /\ f # Meta
  <2>1. phase' = "copying" /\ open' = open
    BY <1>3, <1>5, StartAssumption DEF Ended
  <2>2. phase = "adopting"
    BY <1>1, <1>2, <1>5, ActorFacts DEF JobOK
  <2>3. \A g \in Dbs : UsersOf(g)' = UsersOf(g)
    BY <2>1, <2>2 DEF UsersOf
  <2> QED
    BY <1>2, <2>3, Stutters
<1>6. CASE a \in Requests
  <2>1. phase' = phase /\ open' = [open EXCEPT ![a] = TRUE]
    BY <1>3, <1>6, StartAssumption DEF Ended
  <2>2. f = Proj
    BY <1>1, <1>2, <1>6 DEF JobOK
  <2>3. UsersOf(f)' = UsersOf(f) \cup {a} /\ \A g \in Dbs \ {f} : UsersOf(g)' = UsersOf(g)
    BY <1>6, <2>1, <2>2, ActorFacts DEF UsersOf, Dbs, TypeOK
  <2> QED
    BY <1>2, <2>3, AttachMaps
<1>7. CASE a = Cli
  <2>1. phase' = phase /\ open' = open
    BY <1>3, <1>7, StartAssumption DEF Ended
  <2>2. \A g \in Dbs : UsersOf(g)' = UsersOf(g)
    BY <2>1 DEF UsersOf
  <2> QED
    BY <1>2, <2>2, Stutters
<1> QED
  BY <1>4, <1>5, <1>6, <1>7 DEF Actors

LEMMA FailMaps ==
  ASSUME IInv, NEW a \in Actors, Fail(a), "crossed" \notin mishaps
  PROVE  SchemaStep
<1> USE DEF IInv
<1>1. PICK f \in Dbs : f = job[a].db
  BY JobFacts DEF Fail, TypeOK
<1>2. job[a] # Idle /\ UNCHANGED <<disk, bucket, hvars>> /\ Ended(a, f, FALSE)
  BY <1>1, JobFacts DEF Fail, TypeOK
<1>3. \A r \in Requests : open'[r] => open[r]
  BY <1>2 DEF Ended, TypeOK
<1>4. phase' = phase \/ (phase = "adopting" /\ phase' = "serving") \/ phase' = "down"
  BY <1>1, <1>2, ActorFacts DEF Ended, JobOK
<1>5. \A g \in Dbs : UsersOf(g)' \subseteq UsersOf(g)
  BY <1>3, <1>4 DEF UsersOf
<1> QED
  BY <1>2, <1>5, DetachMaps

(* Somebody may still open a file that has been removed, or was made anew. *)
LEMMA AnewMaps ==
  ASSUME IInv, NEW r \in Requests, disk' = [disk EXCEPT ![Proj] = Connected(Proj)], Unseen,
         life = "unlinked", UsersOf(Proj)' = UsersOf(Proj) \cup {r},
         \A g \in Dbs \ {Proj} : UsersOf(g)' = UsersOf(g)
  PROVE  SchemaStep
<1>1. disk[Proj] = Absent <=> Version(disk[Proj]) = Absent
  BY NoVersion, PresentHasVersion, ActorFacts DEF IInv, Unseen
<1>2. 0 \in 0 .. Last /\ IsVersion(Fresh, 0)
  BY StartAssumption DEF IsVersion, Fresh
<1>3. Version(Fresh) = 0
  BY <1>2, VersionIs, FreshFacts
<1>4. disk'[Proj] = (IF disk[Proj] = Absent THEN Fresh ELSE disk[Proj])
      /\ \A g \in Dbs \ {Proj} : disk'[g] = disk[g]
  BY ActorFacts DEF IInv, TypeOK, Connected
<1>5. \A g \in Dbs : Version(disk'[g]) =
        IF g = Proj /\ Version(disk[Proj]) = Absent THEN 0 ELSE Version(disk[g])
  BY <1>1, <1>3, <1>4
<1>6. [g \in Dbs |-> Version(disk[g])]' =
        [[g \in Dbs |-> Version(disk[g])] EXCEPT ![Proj] = IF @ = Absent THEN 0 ELSE @]
  BY <1>5, ActorFacts
<1>7. [g \in Dbs |-> UsersOf(g)]' = [[g \in Dbs |-> UsersOf(g)] EXCEPT ![Proj] = @ \cup {r}]
  BY ActorFacts
<1>8. Schema!AttachAnew(r, Proj)
  BY <1>6, <1>7 DEF Schema!AttachAnew, Unseen
<1> QED
  BY <1>8, ActorFacts DEF SchemaStep, Schema!Next

LEMMA OpenMaps ==
  ASSUME IInv, NEW r \in Requests, Open(r), "crossed" \notin mishaps
  PROVE  SchemaStep
<1>1. Unseen
  BY DEF Open, Unseen
<1>2. CASE cached
  <2>1. disk' = [disk EXCEPT ![Proj] = Connected(Proj)] /\ UNCHANGED phase /\ open' = [open EXCEPT ![r] = TRUE]
    BY <1>2 DEF Open
  <2>2. UsersOf(Proj)' = UsersOf(Proj) \cup {r} /\ \A g \in Dbs \ {Proj} : UsersOf(g)' = UsersOf(g)
    BY <2>1, ActorFacts DEF UsersOf, Dbs, IInv, TypeOK
  <2>3. CASE life = "unlinked"
    BY <1>1, <2>1, <2>2, <2>3, AnewMaps
  <2>4. CASE life # "unlinked"
    <3>1. Current(Proj)
      BY <1>2, <2>4 DEF IInv, PhaseOK
    <3>2. Connected(Proj) = disk[Proj] /\ disk \in [Dbs -> Database \cup {Absent}]
      BY <3>1 DEF Connected, Current, IInv, TypeOK
    <3>3. UNCHANGED disk
      BY <2>1, <3>2
    <3> QED
      BY <1>1, <2>2, <3>1, <3>3, AttachMaps, ActorFacts
  <2> QED
    BY <2>3, <2>4
<1>3. CASE ~cached
  <2>1. \A g \in Dbs : UsersOf(g)' = UsersOf(g)
    BY <1>3 DEF Open, UsersOf
  <2> QED
    BY <1>1, <1>3, <2>1, ListMaps, ActorFacts DEF Open
<1> QED
  BY <1>2, <1>3

(* Writes that leave the migrations of a file alone.                       *)
LEMMA WriteMaps ==
  ASSUME IInv, NEW f \in Dbs, NEW d \in Database, d = disk[f],
         NEW e \in Database, e.applied = d.applied, e.schema = d.schema,
         disk' = [disk EXCEPT ![f] = e],
         \A g \in Dbs : UsersOf(g)' = UsersOf(g), Unseen
  PROVE  SchemaStep
<1>1. ImageOK(d) /\ disk'[f] = e /\ \A g \in Dbs \ {f} : disk'[g] = disk[g]
  BY DEF IInv, ImagesOK, TypeOK
<1>2. \A g \in Dbs : Version(disk'[g]) = Version(disk[g])
  BY <1>1, SameVersion DEF Unseen
<1> QED
  BY <1>2, Stutters

LEMMA CopyMaps ==
  ASSUME IInv, Copy, "crossed" \notin mishaps
  PROVE  SchemaStep
<1>1. disk[Proj] # Absent /\ disk[Meta] # Absent
  BY DEF Copy, IInv, PhaseOK, Current
<1>2. PICK m \in Database, d \in Database : m = disk[Meta] /\ d = disk[Proj]
  BY <1>1, ActorFacts DEF IInv, TypeOK
<1>3. PICK tabs : tabs = Copied(m.tables, d.tables)
  OBVIOUS
<1>4. tabs \in [Tables -> {"none", "legacy", "scoped"}]
  BY <1>2, <1>3 DEF Copied, Database
<1>5. PICK e : e = [d EXCEPT !.tables = tabs]
  OBVIOUS
<1>6. e \in Database /\ e.applied = d.applied /\ e.schema = d.schema
  BY <1>2, <1>4, <1>5 DEF Database
<1>7. disk' = [disk EXCEPT ![Proj] = e]
  BY <1>2, <1>3, <1>5 DEF Copy
<1>8. \A g \in Dbs : UsersOf(g)' = UsersOf(g)
  BY DEF Copy, UsersOf
<1> QED
  BY <1>2, <1>6, <1>7, <1>8, WriteMaps, ActorFacts DEF Copy, Unseen

LEMMA MetaWritesMap ==
  ASSUME IInv, "crossed" \notin mishaps,
         Mark \/ CreateProject \/ DeleteRow \/ \E t \in Tables : DropLegacy(t)
  PROVE  SchemaStep
<1>1. disk[Meta] # Absent
  BY DEF Mark, CreateProject, DeleteRow, DropLegacy, IInv, PhaseOK
<1>2. PICK d \in Database : d = disk[Meta]
  BY <1>1, ActorFacts DEF IInv, TypeOK
<1>3. \A g \in Dbs : UsersOf(g)' = UsersOf(g)
  BY DEF Mark, CreateProject, DeleteRow, DropLegacy, UsersOf
<1>4. CASE Mark
  <2>1. PICK e : e = [d EXCEPT !.marker = TRUE]
    OBVIOUS
  <2>2. e \in Database /\ e.applied = d.applied /\ e.schema = d.schema
    BY <2>1 DEF Database
  <2>3. disk' = [disk EXCEPT ![Meta] = e]
    BY <1>2, <1>4, <2>1 DEF Mark
  <2> QED
    BY <1>2, <1>3, <1>4, <2>2, <2>3, WriteMaps, ActorFacts DEF Mark, Unseen
<1>5. CASE CreateProject
  <2>1. PICK e : e = [d EXCEPT !.project = TRUE]
    OBVIOUS
  <2>2. e \in Database /\ e.applied = d.applied /\ e.schema = d.schema
    BY <2>1 DEF Database
  <2>3. disk' = [disk EXCEPT ![Meta] = e]
    BY <1>2, <1>5, <2>1 DEF CreateProject
  <2> QED
    BY <1>2, <1>3, <1>5, <2>2, <2>3, WriteMaps, ActorFacts DEF CreateProject, Unseen
<1>7. CASE DeleteRow
  <2>1. PICK e : e = [d EXCEPT !.project = FALSE]
    OBVIOUS
  <2>2. e \in Database /\ e.applied = d.applied /\ e.schema = d.schema
    BY <2>1 DEF Database
  <2>3. disk' = [disk EXCEPT ![Meta] = e]
    BY <1>2, <1>7, <2>1 DEF DeleteRow
  <2> QED
    BY <1>2, <1>3, <1>7, <2>2, <2>3, WriteMaps, ActorFacts DEF DeleteRow, Unseen
<1>6. ASSUME NEW t \in Tables, DropLegacy(t)
      PROVE  SchemaStep
  <2>1. PICK tabs : tabs = [d.tables EXCEPT ![t] = "none"]
    OBVIOUS
  <2>2. PICK e : e = [d EXCEPT !.tables = tabs]
    OBVIOUS
  <2>3. tabs \in [Tables -> {"none", "legacy", "scoped"}]
    BY <2>1 DEF Database
  <2>4. e \in Database /\ e.applied = d.applied /\ e.schema = d.schema
    BY <2>2, <2>3 DEF Database
  <2>5. disk' = [disk EXCEPT ![Meta] = e]
    BY <1>2, <1>6, <2>1, <2>2 DEF DropLegacy
  <2> QED
    BY <1>2, <1>3, <1>6, <2>4, <2>5, WriteMaps, ActorFacts DEF DropLegacy, Unseen
<1> QED
  BY <1>4, <1>5, <1>6, <1>7

LEMMA ChangeMaps ==
  ASSUME IInv, NEW r \in Requests, NEW t \in Tables, NEW v \in {"none", "scoped"}, Change(r, t, v),
         "crossed" \notin mishaps
  PROVE  SchemaStep
<1>1. disk[Proj] # Absent
  BY DEF Change, IInv, PhaseOK
<1>2. PICK d \in Database : d = disk[Proj]
  BY <1>1, ActorFacts DEF IInv, TypeOK
<1>3. PICK tabs : tabs = [d.tables EXCEPT ![t] = v]
  OBVIOUS
<1>4. PICK e : e = [d EXCEPT !.tables = tabs]
  OBVIOUS
<1>5. tabs \in [Tables -> {"none", "legacy", "scoped"}]
  BY <1>3 DEF Database
<1>6. e \in Database /\ e.applied = d.applied /\ e.schema = d.schema
  BY <1>4, <1>5 DEF Database
<1>7. disk' = [disk EXCEPT ![Proj] = e]
  BY <1>2, <1>3, <1>4 DEF Change
<1>8. \A g \in Dbs : UsersOf(g)' = UsersOf(g)
  BY DEF Change, UsersOf
<1> QED
  BY <1>2, <1>6, <1>7, <1>8, WriteMaps, ActorFacts DEF Change, Unseen

(* An upload copies a file as it is.                                       *)
LEMMA SaveMaps ==
  ASSUME IInv, NEW f \in Dbs, disk[f] # Absent,
         bucket' = [bucket EXCEPT ![f] = disk[f]], UNCHANGED <<disk, phase, open, hvars>>,
         "crossed" \notin mishaps
  PROVE  SchemaStep
<1>1. [g \in Dbs |-> Version(bucket[g])]' =
        [[g \in Dbs |-> Version(bucket[g])] EXCEPT ![f] = Version(disk[f])]
  BY DEF IInv, TypeOK
<1>2. Version(disk[f]) # Absent
  BY PresentHasVersion DEF IInv
<1>3. \A g \in Dbs : UsersOf(g)' = UsersOf(g)
  BY DEF UsersOf
<1>4. Schema!Save(f)
  BY <1>1, <1>2, <1>3 DEF Schema!Save
<1> QED
  BY <1>4 DEF SchemaStep, Schema!Next

LEMMA UploadMaps ==
  ASSUME IInv, "crossed" \notin mishaps, PushMeta \/ PushProject \/ PushFails
  PROVE  SchemaStep
<1> USE ActorFacts
<1>1. UNCHANGED <<disk, phase, open, hvars>> /\ \A g \in Dbs : UsersOf(g)' = UsersOf(g)
  BY DEF PushMeta, PushProject, PushFails, UsersOf
<1>2. CASE UNCHANGED bucket
  BY <1>1, <1>2, Stutters DEF Unseen
<1>3. CASE PushMeta
  <2>1. disk[Meta] # Absent
    BY <1>3 DEF PushMeta, IInv, PhaseOK
  <2> QED
    BY <1>1, <1>3, <2>1, SaveMaps DEF PushMeta
<1>4. CASE bucket' = [bucket EXCEPT ![Proj] = disk[Proj]] /\ disk[Proj] # Absent
  BY <1>1, <1>4, SaveMaps
<1>5. PushProject \/ PushFails =>
        \/ UNCHANGED bucket
        \/ bucket' = [bucket EXCEPT ![Proj] = disk[Proj]] /\ disk[Proj] # Absent
  BY DEF PushProject, PushFails, IInv, TypeOK
<1> QED
  BY <1>2, <1>3, <1>4, <1>5

LEMMA StartMaps ==
  ASSUME IInv, NEW fetched \in SUBSET Dbs, Start(fetched), "crossed" \notin mishaps
  PROVE  SchemaStep
<1>1. /\ phase = "down" /\ phase' = "starting" /\ UNCHANGED <<bucket, open, hvars>>
      /\ \A f \in fetched : disk[f] = Absent /\ bucket[f] # Absent
      /\ disk' = [f \in Dbs |-> IF f \in fetched THEN bucket[f] ELSE disk[f]]
  BY DEF Start, Objects
<1>2. \A f \in Dbs : UsersOf(f) = {} /\ UsersOf(f)' = {}
  BY <1>1 DEF UsersOf, IInv, QuietOK
<1>3. \A f \in fetched : Version(disk[f]) = Absent /\ Version(bucket[f]) # Absent
  BY <1>1, NoVersion, PresentHasVersion DEF IInv
<1>4. [f \in Dbs |-> Version(disk[f])]' =
        [f \in Dbs |-> IF f \in fetched THEN Version(bucket[f]) ELSE Version(disk[f])]
  <2>1. \A f \in Dbs : Version(disk'[f]) =
          IF f \in fetched THEN Version(bucket[f]) ELSE Version(disk[f])
    <3> SUFFICES ASSUME NEW f \in Dbs
                 PROVE  Version(disk'[f]) =
                          IF f \in fetched THEN Version(bucket[f]) ELSE Version(disk[f])
      OBVIOUS
    <3>1. CASE f \in fetched
      <4>1. disk'[f] = bucket[f]
        BY <1>1, <3>1
      <4> QED
        BY <3>1, <4>1
    <3>2. CASE f \notin fetched
      <4>1. disk'[f] = disk[f]
        BY <1>1, <3>2
      <4> QED
        BY <3>2, <4>1
    <3> QED
      BY <3>1, <3>2
  <2> QED
    BY <2>1
<1>5. Schema!Restore(fetched)
  BY <1>1, <1>2, <1>3, <1>4 DEF Schema!Restore
<1> QED
  BY <1>5 DEF SchemaStep, Schema!Next

LEMMA WipeMaps ==
  ASSUME IInv, Wipe, "crossed" \notin mishaps
  PROVE  SchemaStep
<1>1. phase = "down" /\ UNCHANGED <<bucket, open, phase, life, mishaps>> /\ backup' = Absent /\ disk' = [f \in Dbs |-> Absent]
  BY DEF Wipe
<1>2. \A f \in Dbs : UsersOf(f) = {} /\ UsersOf(f)' = {}
  BY <1>1 DEF UsersOf, IInv, QuietOK
<1>3. /\ [f \in Dbs |-> Version(disk[f])]' = [f \in Dbs |-> Absent]
      /\ [f \in Dbs |-> IF f = Meta THEN Version(backup) ELSE Absent]' = [f \in Dbs |-> Absent]
  BY <1>1, NoVersion
<1>4. Schema!Wipe
  BY <1>1, <1>2, <1>3 DEF Schema!Wipe
<1> QED
  BY <1>4 DEF SchemaStep, Schema!Next

(* The users of the meta database do not depend on its content.            *)
LEMMA ByHandMaps ==
  ASSUME IInv, "crossed" \notin mishaps, Unlink \/ Remember \/ Backup \/ PutBack
  PROVE  SchemaStep
<1> USE ActorFacts
<1> DEFINE v == [f \in Dbs |-> Version(disk[f])]
           b == [f \in Dbs |-> IF f = Meta THEN Version(backup) ELSE Absent]
           w == [f \in Dbs |-> UsersOf(f)]
<1>1. CASE Unlink
  <2>1. /\ disk' = [disk EXCEPT ![Proj] = Absent] /\ open' = [r \in Requests |-> FALSE]
        /\ life = "rowless" /\ life' = "unlinked" /\ UNCHANGED <<phase, bucket, backup, mishaps>>
    BY <1>1 DEF Unlink
  <2>2. \A g \in Dbs : Version(disk'[g]) = IF g = Proj THEN Absent ELSE Version(disk[g])
    BY <2>1, NoVersion DEF IInv, TypeOK
  <2>3. v' = [v EXCEPT ![Proj] = Absent]
    BY <2>2
  <2>4. UsersOf(Proj)' = {} /\ UsersOf(Meta)' = UsersOf(Meta)
    BY <2>1 DEF UsersOf
  <2>5. w' = [w EXCEPT ![Proj] = {}]
    BY <2>4 DEF Dbs
  <2>6. Schema!Remove(Proj)
    BY <2>1, <2>3, <2>5 DEF Schema!Remove
  <2> QED
    BY <2>6 DEF SchemaStep, Schema!Next
<1>2. CASE Remember
  <2>1. UNCHANGED disk /\ Unseen /\ \A g \in Dbs : UsersOf(g)' = UsersOf(g)
    BY <1>2 DEF Remember, Unseen, UsersOf
  <2> QED
    BY <2>1, Stutters
<1>3. CASE Backup
  <2>1. disk[Meta] # Absent /\ backup' = disk[Meta] /\ UNCHANGED <<phase, disk, open, bucket, life, mishaps>>
    BY <1>3 DEF Backup
  <2>2. Version(disk[Meta]) # Absent
    BY <2>1, PresentHasVersion DEF IInv
  <2>3. b' = [b EXCEPT ![Meta] = v[Meta]]
    BY <2>1
  <2>4. \A g \in Dbs : UsersOf(g)' = UsersOf(g)
    BY <2>1 DEF UsersOf
  <2>5. Schema!Backup(Meta)
    BY <2>1, <2>2, <2>3, <2>4 DEF Schema!Backup
  <2> QED
    BY <2>5 DEF SchemaStep, Schema!Next
<1>4. CASE PutBack
  <2>1. backup # Absent /\ disk' = [disk EXCEPT ![Meta] = backup] /\ UNCHANGED <<phase, open, bucket, backup, life>>
    BY <1>4 DEF PutBack
  <2>2. Version(backup) # Absent
    BY <2>1, PresentHasVersion DEF IInv
  <2>3. \A g \in Dbs : Version(disk'[g]) = IF g = Meta THEN Version(backup) ELSE Version(disk[g])
    BY <2>1 DEF IInv, TypeOK
  <2>4. v' = [v EXCEPT ![Meta] = b[Meta]]
    BY <2>3
  <2>5. \A g \in Dbs : UsersOf(g)' = UsersOf(g)
    BY <2>1 DEF UsersOf
  <2>6. Schema!PutBack(Meta)
    BY <2>1, <2>2, <2>4, <2>5 DEF Schema!PutBack
  <2> QED
    BY <2>6 DEF SchemaStep, Schema!Next
<1> QED
  BY <1>1, <1>2, <1>3, <1>4

LEMMA InitSchema == Init => Schema!Init
<1> SUFFICES ASSUME Init PROVE Schema!Init
  OBVIOUS
<1>1. IInv
  BY InitIInv
<1>2. \A f \in Dbs : Version(disk[f]) \in (0 .. Last) \cup {Absent}
  <2> SUFFICES ASSUME NEW f \in Dbs PROVE Version(disk[f]) \in (0 .. Last) \cup {Absent}
    OBVIOUS
  <2>1. disk[f] = Absent \/ (disk[f] \in Database /\ ImageOK(disk[f]))
    BY <1>1 DEF IInv, TypeOK, ImagesOK
  <2> QED
    BY <2>1, NoVersion, HasVersion DEF Init
<1>3. \A f \in Dbs : Version(bucket[f]) = Absent
  BY NoVersion DEF Init
<1>5. Version(backup) \in (0 .. Last) \cup {Absent}
  BY <1>2, NoVersion, ActorFacts DEF Init
<1>4. \A f \in Dbs : UsersOf(f) = {}
  BY DEF Init, UsersOf
<1> QED
  BY <1>2, <1>3, <1>4, <1>5 DEF Schema!Init, Init

LEMMA MishapsStay ==
  ASSUME [Next]_vars, "crossed" \in mishaps
  PROVE  "crossed" \in mishaps'
<1>1. CASE (\E fetched \in SUBSET Dbs : Start(fetched)) \/ Push \/ Crash \/ Wipe \/ UNCHANGED vars
  BY <1>1 DEF Start, Push, Crash, Wipe, vars
<1>2. ASSUME NEW a \in Actors, Run(a) PROVE "crossed" \in mishaps'
  BY <1>2 DEF Run, Begin, Commit, Fail, Done
<1>3. CASE Lifespan
  BY <1>2, <1>3, ActorFacts DEF Lifespan, Migrate, NothingToAdopt, Adopt, Copy, Mark, AdoptionFails
<1>4. CASE Use
  BY <1>4 DEF Use, CreateProject, Open, Close, Change, DropLegacy, DeleteRow, Unlink, Remember,
              Backup, PutBack, PushMeta, PushProject, PushFails
<1> QED
  BY <1>1, <1>2, <1>3, <1>4 DEF Next

LEMMA StepSchema ==
  ASSUME IInv, [Next]_vars
  PROVE  [Schema!Next]_(Schema!svars)
<1>9. "crossed" \in mishaps => "crossed" \in mishaps'
  BY MishapsStay
<1>10. CASE "crossed" \in mishaps
  BY <1>9, <1>10 DEF Schema!Next
<1> SUFFICES ASSUME "crossed" \notin mishaps PROVE SchemaStep
  BY <1>10 DEF SchemaStep, Stutter
<1>1. CASE \E fetched \in SUBSET Dbs : Start(fetched)
  BY <1>1, StartMaps
<1>2. ASSUME NEW a \in Actors, Run(a) PROVE SchemaStep
  <2>1. CASE Begin(a)
    <3>1. UNCHANGED disk /\ Unseen /\ \A g \in Dbs : UsersOf(g)' = UsersOf(g)
      BY <2>1 DEF Begin, UsersOf, Unseen
    <3> QED
      BY <3>1, Stutters
  <2> QED
    BY <1>2, <2>1, CommitMaps, FailMaps, DoneMaps DEF Run
<1>3. CASE Migrate \/ Adopt \/ Push
  <2>1. Unseen /\ \A g \in Dbs : UsersOf(g)' = UsersOf(g)
    BY <1>3 DEF Migrate, Adopt, Push, UsersOf, Unseen
  <2> QED
    BY <1>3, <2>1, ListMaps, ActorFacts DEF Migrate, Adopt, Push
<1>4. CASE NothingToAdopt \/ AdoptionFails \/ UNCHANGED vars
  <2>1. UNCHANGED disk /\ Unseen /\ \A g \in Dbs : UsersOf(g)' = UsersOf(g)
    BY <1>4 DEF NothingToAdopt, AdoptionFails, vars, UsersOf, Unseen
  <2> QED
    BY <2>1, Stutters
<1>5. CASE Lifespan
  BY <1>2, <1>3, <1>4, <1>5, CopyMaps, MetaWritesMap, ActorFacts DEF Lifespan
<1>6. CASE Use
  <2>1. ASSUME NEW r \in Requests, Close(r) PROVE SchemaStep
    <3>1. UNCHANGED <<disk, bucket, hvars>> /\ \A g \in Dbs : UsersOf(g)' \subseteq UsersOf(g)
      BY <2>1 DEF Close, UsersOf, IInv, TypeOK
    <3> QED
      BY <3>1, DetachMaps
  <2> QED
    BY <1>6, <2>1, OpenMaps, ChangeMaps, MetaWritesMap, UploadMaps, ByHandMaps DEF Use
<1>7. CASE Crash
  <2>1. /\ UNCHANGED <<disk, bucket, backup>> /\ "crossed" \notin mishaps'
        /\ life' = "unlinked" => life = "unlinked"
        /\ \A g \in Dbs : UsersOf(g)' \subseteq UsersOf(g)
    BY <1>7 DEF Crash, UsersOf
  <2> QED
    BY <2>1, DetachMaps
<1>8. CASE Wipe
  BY <1>8, WipeMaps
<1> QED
  BY <1>1, <1>2, <1>3, <1>4, <1>5, <1>6, <1>7, <1>8 DEF Next

(* run_pending_migrations and its callers implement SchemaVersions: with   *)
(* any number of migrations and requests, racing runs and stale lists, a   *)
(* file's schema is one of the versions and goes up by one, and nobody     *)
(* begins to work on a file that is not at the last one, save one that was *)
(* removed in the life of this process; back it goes only by a backup put  *)
(* back, and not even that is promised after one was put back under a run. *)
THEOREM OneByOne == Spec => SchemaUpByOne
<1>1. IInv /\ [Next]_vars => [Schema!Next]_(Schema!svars)
  BY StepSchema
<1> QED
  BY <1>1, InitSchema, Invariance, PTL DEF Spec, SchemaUpByOne, Schema!Spec

(* Every file and copy has a version: the first n migrations, no more.     *)
Versioned == "crossed" \notin mishaps =>
  /\ Version(backup) \in (0 .. Last) \cup {Absent}
  /\ \A f \in Dbs : {Version(disk[f]), Version(bucket[f])} \subseteq (0 .. Last) \cup {Absent}

LEMMA VersionMeans ==
  ASSUME NEW d, d # Absent, Version(d) \in (0 .. Last) \cup {Absent}
  PROVE  d.applied \subseteq d.schema /\ \A m \in d.applied : 1 .. m \subseteq d.applied
<1>1. PICK n \in 0 .. Last : IsVersion(d, n)
  BY AbsentAssumption DEF Version
<1>2. d.applied = 1 .. n /\ n \in Nat
  BY <1>1, StartAssumption DEF IsVersion
<1>3. \A m \in 1 .. n : 1 .. m \subseteq 1 .. n
  BY <1>2
<1> QED
  BY <1>1, <1>2, <1>3 DEF IsVersion

LEMMA VersionedStep == Versioned /\ [Schema!Next]_(Schema!svars) => Versioned'
<1> SUFFICES ASSUME Versioned, [Schema!Next]_(Schema!svars) PROVE Versioned'
  OBVIOUS
<1> DEFINE v == [f \in Dbs |-> Version(disk[f])]
           c == [f \in Dbs |-> Version(bucket[f])]
           b == [f \in Dbs |-> IF f = Meta THEN Version(backup) ELSE Absent]
           o == "crossed" \notin mishaps
           V == (0 .. Last) \cup {Absent}
           Typed == v \in [Dbs -> V] /\ c \in [Dbs -> V] /\ b \in [Dbs -> V]
<1>1. o => Typed
  BY DEF Versioned
<1>2. o' => Typed'
  <2>1. CASE v' = v /\ c' = c /\ b' = b /\ o' = o
    BY <1>1, <2>1
  <2>2. ASSUME NEW f \in Dbs, Schema!Create(f) \/ Schema!Migrate(f) \/ Schema!Save(f)
        PROVE  o' => Typed'
    <3>1. 0 \in V /\ (v[f] \in 0 .. Last - 1 => v[f] + 1 \in V)
      BY StartAssumption
    <3> QED
      BY <1>1, <2>2, <3>1 DEF Schema!Create, Schema!Migrate, Schema!Save
  <2>3. ASSUME NEW f \in Dbs, Schema!Backup(f) \/ Schema!PutBack(f) \/ Schema!Remove(f)
        PROVE  o' => Typed'
    BY <1>1, <2>3 DEF Schema!Backup, Schema!PutBack, Schema!Remove
  <2>4. ASSUME NEW f \in Dbs, NEW u, Schema!AttachAnew(u, f)
        PROVE  o' => Typed'
    <3>1. 0 \in V
      BY StartAssumption
    <3> QED
      BY <1>1, <2>4, <3>1 DEF Schema!AttachAnew
  <2>5. ASSUME NEW fs \in SUBSET Dbs, Schema!Restore(fs)
        PROVE  o' => Typed'
    BY <1>1, <2>5 DEF Schema!Restore
  <2>6. CASE Schema!Wipe
    BY <1>1, <2>6 DEF Schema!Wipe
  <2>7. CASE (\E u \in Actors, f \in Dbs : Schema!Attach(u, f)) \/ Schema!Detach \/ UNCHANGED Schema!svars
    BY <2>1, <2>7 DEF Schema!Attach, Schema!Detach, Schema!svars
  <2>8. CASE o = FALSE /\ o' = FALSE
    BY <2>8
  <2> QED
    BY <2>2, <2>3, <2>4, <2>5, <2>6, <2>7, <2>8 DEF Schema!Next
<1> SUFFICES ASSUME ("crossed" \notin mishaps)'
             PROVE  /\ Version(backup)' \in V
                    /\ \A f \in Dbs : {Version(disk[f])', Version(bucket[f])'} \subseteq V
  BY DEF Versioned
<1>3. v' \in [Dbs -> V] /\ c' \in [Dbs -> V] /\ b' \in [Dbs -> V]
  BY <1>2
<1>4. /\ \A f \in Dbs : v'[f] = Version(disk[f])' /\ c'[f] = Version(bucket[f])'
      /\ b'[Meta] = Version(backup)'
  BY ActorFacts
<1> HIDE DEF v, c, b, o, V
<1> QED
  BY <1>3, <1>4, ActorFacts

(* What SchemaVersions is worth: whoever implements it has, in every file  *)
(* and copy, no id in _migrations without its schema and no gap in the     *)
(* ids, however run_migrations, restores and wipes interleave, until a     *)
(* backup is put back under a run.                                         *)
THEOREM VersionsSuffice ==
  SchemaUpByOne => []("crossed" \notin mishaps => RecordedMeansApplied /\ AppliedInOrder)
<1>1. Schema!Init => Versioned
  BY ActorFacts DEF Schema!Init, Versioned
<1>2. Versioned => ("crossed" \notin mishaps => RecordedMeansApplied /\ AppliedInOrder)
  <2> SUFFICES ASSUME Versioned, "crossed" \notin mishaps, NEW d \in Images
               PROVE  d.applied \subseteq d.schema /\ \A m \in d.applied : 1 .. m \subseteq d.applied
    BY DEF RecordedMeansApplied, AppliedInOrder
  <2>1. d # Absent /\ Version(d) \in (0 .. Last) \cup {Absent}
    BY DEF Images, Versioned
  <2> QED
    BY <2>1, VersionMeans
<1> QED
  BY <1>1, <1>2, VersionedStep, PTL DEF SchemaUpByOne, Schema!Spec

=============================================================================
