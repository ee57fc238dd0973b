----------------------- MODULE ProjectRegistryProofs -----------------------
(* What ProjectRegistry guarantees for any number of users, keys, requests *)
(* and projects.                                                           *)
EXTENDS ProjectRegistry, FiniteSetTheorems, TLAPS

USE RegistryAssumption

-----------------------------------------------------------------------------
(* Type correctness.                                                       *)

LEMMA InitTypeOK == Init => TypeOK
BY DEF Init, TypeOK, Ids, Contexts, FileStates

(* A new row is the next in creation order, and there was none in its place. *)
LEMMA InsertType ==
  ASSUME TypeOK, NEW p \in Ids, NEW u \in Users, NEW s \in Slugs, Insert(p, u, s)
  PROVE  /\ next' \in 0 .. MaxIds
         /\ status' \in [Ids -> {"none", "active", "archived"}]
         /\ slug' \in [Ids -> Slugs \cup {None}]
         /\ owner' \in [Ids -> Users \cup {None}]
         /\ renamed' \in SUBSET Ids
         /\ adopted' \in SUBSET Ids
         /\ \A q \in Ids : status'[q] = "none" <=> slug'[q] = None
         /\ \A q \in Ids : status'[q] # "none" => q <= next'
         /\ p \notin Rows
<1>1. /\ p = next + 1 /\ next' = p
      /\ status' = [status EXCEPT ![p] = "active"]
      /\ slug' = [slug EXCEPT ![p] = s]
      /\ owner' = [owner EXCEPT ![p] = u]
      /\ UNCHANGED <<renamed, adopted>>
      /\ next \in 0 .. MaxIds
  BY DEF Insert, TypeOK
<1>2. next' \in 0 .. MaxIds /\ renamed' \in SUBSET Ids /\ adopted' \in SUBSET Ids
  BY <1>1 DEF TypeOK, Ids
<1>3. /\ status' \in [Ids -> {"none", "active", "archived"}]
      /\ slug' \in [Ids -> Slugs \cup {None}]
      /\ owner' \in [Ids -> Users \cup {None}]
  BY <1>1 DEF TypeOK
<1>4. \A q \in Ids : status'[q] = "none" <=> slug'[q] = None
  BY <1>1 DEF TypeOK
<1>5. \A q \in Ids : status'[q] # "none" => q <= next'
  BY <1>1 DEF TypeOK, Ids
<1>6. p \notin Rows
  BY <1>1 DEF TypeOK, Ids, Rows
<1> QED
  BY <1>2, <1>3, <1>4, <1>5, <1>6

LEMMA StoreKeyType ==
  ASSUME TypeOK, NEW k \in Keys, NEW p \in Ids, NEW b \in Slugs \cup Ids,
         NEW pl \in {"legacy", "scoped"}, StoreKey(k, p, b, pl)
  PROVE  /\ key' \in [Keys -> {"none", "live", "revoked"}]
         /\ binding' \in [Keys -> Slugs \cup Ids \cup {None}]
         /\ plane' \in [Keys -> {"legacy", "scoped"}]
         /\ madeFor' \in [Keys -> Ids \cup {None}]
BY DEF TypeOK, StoreKey

LEMMA DropType ==
  ASSUME TypeOK, NEW S
  PROVE  /\ DropKeys(S) => /\ key' \in [Keys -> {"none", "live", "revoked"}]
                           /\ UNCHANGED <<binding, plane, madeFor>>
         /\ DropRows(S) =>
              /\ next' \in 0 .. MaxIds
              /\ status' \in [Ids -> {"none", "active", "archived"}]
              /\ slug' \in [Ids -> Slugs \cup {None}]
              /\ owner' \in [Ids -> Users \cup {None}]
              /\ renamed' \in SUBSET Ids
              /\ adopted' \in SUBSET Ids
              /\ \A q \in Ids : status'[q] = "none" <=> slug'[q] = None
              /\ \A q \in Ids : status'[q] # "none" => q <= next'
<1>1. DropKeys(S) => /\ key' \in [Keys -> {"none", "live", "revoked"}]
                     /\ UNCHANGED <<binding, plane, madeFor>>
  BY DEF TypeOK, DropKeys
<1>2. ASSUME DropRows(S)
      PROVE  /\ next' \in 0 .. MaxIds
             /\ status' \in [Ids -> {"none", "active", "archived"}]
             /\ slug' \in [Ids -> Slugs \cup {None}]
             /\ owner' \in [Ids -> Users \cup {None}]
             /\ renamed' \in SUBSET Ids
             /\ adopted' \in SUBSET Ids
             /\ \A q \in Ids : status'[q] = "none" <=> slug'[q] = None
             /\ \A q \in Ids : status'[q] # "none" => q <= next'
  BY <1>2 DEF TypeOK, DropRows
<1> QED
  BY <1>1, <1>2

LEMMA UnlinkType ==
  ASSUME TypeOK, NEW S, Unlink(S)
  PROVE  /\ file' \in [Ids -> FileStates]
         /\ rows' \in [Ids \cup {Meta} -> SUBSET Ids]
         /\ split' \in SUBSET Ids
         /\ ctx' \in [Requests -> Contexts \cup {None}]
<1> DEFINE gone == {p \in S : file[p] = "present"}
<1>1. /\ file' = [p \in Ids |-> IF p \in gone THEN "unlinked" ELSE file[p]]
      /\ rows' = [f \in Ids \cup {Meta} |-> IF f \in gone THEN {} ELSE rows[f]]
      /\ ctx' = [r \in Requests |->
                   IF ctx[r] # None /\ ctx[r].file \in gone
                   THEN [ctx[r] EXCEPT !.file = Lost] ELSE ctx[r]]
  BY DEF Unlink
<1>5. split' \in SUBSET Ids
  BY DEF Unlink, TypeOK
<1> HIDE DEF gone
<1>2. file' \in [Ids -> FileStates]
  BY <1>1 DEF TypeOK, FileStates
<1>3. rows' \in [Ids \cup {Meta} -> SUBSET Ids]
  BY <1>1 DEF TypeOK
<1>4. ctx' \in [Requests -> Contexts \cup {None}]
  <2>1. ASSUME NEW r \in Requests, ctx[r] # None
        PROVE  [ctx[r] EXCEPT !.file = Lost] \in Contexts
    <3>1. ctx[r] \in Contexts
      BY <2>1 DEF TypeOK
    <3> QED
      BY <3>1 DEF Contexts
  <2> QED
    BY <1>1, <2>1 DEF TypeOK
<1> QED
  BY <1>2, <1>3, <1>4, <1>5

LEMMA RestartedType ==
  ASSUME TypeOK, NEW gone, Restarted(gone)
  PROVE  /\ file' \in [Ids -> FileStates]
         /\ split' \in SUBSET Ids
         /\ ctx' \in [Requests -> Contexts \cup {None}]
<1>1. PICK made \in SUBSET Ids :
        /\ file' = [p \in Ids |->
                      IF p \in made THEN "present"
                      ELSE IF p \in gone \/ file[p] = "unlinked" THEN "absent" ELSE file[p]]
        /\ split' = split \cup {p \in made : IsLegacyDefault(slug'[p], p)}
  BY DEF Restarted
<1>2. file' \in [Ids -> FileStates]
  BY <1>1 DEF TypeOK, FileStates
<1>3. split' \in SUBSET Ids
  BY <1>1 DEF TypeOK
<1>4. ctx' \in [Requests -> Contexts \cup {None}]
  BY DEF Restarted
<1> QED
  BY <1>2, <1>3, <1>4

LEMMA NextTypeOK == TypeOK /\ [Next]_vars => TypeOK'
<1> SUFFICES ASSUME TypeOK, [Next]_vars
             PROVE  TypeOK'
  OBVIOUS
<1>1. ASSUME NEW u \in Users, NEW p \in Ids, SignInToOwn(u, p)
      PROVE  TypeOK'
  BY <1>1 DEF SignInToOwn, SignsIn, TypeOK, registry, data, keys
<1>2. ASSUME NEW u \in Users, SignInAtLimit(u)
      PROVE  TypeOK'
  BY <1>2 DEF SignInAtLimit, SignsIn, TypeOK, registry, data, keys
<1>3. ASSUME NEW u \in Users, NEW p \in Ids, SignInAdopt(u, p)
      PROVE  TypeOK'
  BY <1>3 DEF SignInAdopt, SignsIn, Orphans, Rows, TypeOK, data, keys
<1>4. ASSUME NEW u \in Users, NEW p \in Ids, SignInCreate(u, p)
      PROVE  TypeOK'
  <2> PICK s \in Slugs : Insert(p, u, s)
    BY <1>4 DEF SignInCreate
  <2> QED
    BY <1>4, InsertType DEF SignInCreate, SignsIn, TypeOK, data, keys
<1>5. ASSUME NEW u \in Users, NEW p \in Ids, CreateProject(u, p)
      PROVE  TypeOK'
  <2> PICK s \in Slugs :
        /\ Insert(p, u, s)
        /\ \/ UNCHANGED <<file, keys>>
           \/ /\ file' = [file EXCEPT ![p] = "present"]
              /\ UNCHANGED keys
           \/ /\ file' = [file EXCEPT ![p] = "present"]
              /\ \E k \in Keys : StoreKey(k, p, s, "legacy")
    BY <1>5 DEF CreateProject
  <2>1. file' \in [Ids -> FileStates]
    BY DEF TypeOK, FileStates
  <2>2. /\ key' \in [Keys -> {"none", "live", "revoked"}]
        /\ binding' \in [Keys -> Slugs \cup Ids \cup {None}]
        /\ plane' \in [Keys -> {"legacy", "scoped"}]
        /\ madeFor' \in [Keys -> Ids \cup {None}]
    BY StoreKeyType DEF TypeOK, keys
  <2> QED
    BY <1>5, <2>1, <2>2, InsertType DEF CreateProject, TypeOK
<1>6. ASSUME NEW u \in Users, NEW p \in Ids, CreateProjectCrash(u, p)
      PROVE  TypeOK'
  <2> PICK s \in Slugs : Insert(p, u, s)
    BY <1>6 DEF CreateProjectCrash
  <2> QED
    BY <1>6, InsertType, RestartedType DEF CreateProjectCrash, TypeOK, people, keys
<1>7. ASSUME NEW u \in Users, NEW p \in Ids, Select(u, p)
      PROVE  TypeOK'
  BY <1>7 DEF Select, TypeOK, registry, data, keys
<1>8. ASSUME NEW u \in Users, NEW p \in Ids, Rename(u, p)
      PROVE  TypeOK'
  <2> PICK s \in Slugs : /\ slug' = [slug EXCEPT ![p] = s]
                         /\ renamed' = IF s = slug[p] THEN renamed ELSE renamed \cup {p}
    BY <1>8 DEF Rename
  <2>1. renamed' \in SUBSET Ids
    BY DEF TypeOK
  <2>2. /\ slug' \in [Ids -> Slugs \cup {None}]
        /\ \A q \in Ids : slug[q] = None <=> slug'[q] = None
    BY <1>8 DEF Rename, MayManage, Rows, TypeOK
  <2> QED
    BY <1>8, <2>1, <2>2 DEF Rename, TypeOK, people, data, keys
<1>9. ASSUME NEW u \in Users, NEW p \in Ids, Archive(u, p) \/ Restore(u, p)
      PROVE  TypeOK'
  <2>1. PICK s \in {"active", "archived"} : status' = [status EXCEPT ![p] = s]
    BY <1>9 DEF Archive, Restore
  <2>2. /\ status' \in [Ids -> {"none", "active", "archived"}]
        /\ \A q \in Ids : status[q] = "none" <=> status'[q] = "none"
    BY <1>9, <2>1 DEF Archive, Restore, MayManage, Rows, TypeOK
  <2>3. UNCHANGED <<people, next, slug, owner, renamed, adopted, data, keys, ctx>>
    BY <1>9 DEF Archive, Restore
  <2> QED
    BY <2>2, <2>3 DEF TypeOK, people, data, keys
<1>10. ASSUME NEW u \in Users, NEW p \in Ids, HardDelete(u, p)
       PROVE  TypeOK'
  <2>1. /\ file' \in [Ids -> FileStates]
        /\ rows' \in [Ids \cup {Meta} -> SUBSET Ids]
        /\ split' \in SUBSET Ids
        /\ ctx' \in [Requests -> Contexts \cup {None}]
    BY <1>10, UnlinkType DEF HardDelete, TypeOK, data
  <2> QED
    BY <1>10, <2>1, DropType DEF HardDelete, TypeOK, people
<1>11. ASSUME NEW u \in Users, NEW p \in Ids, HardDeleteCrash(u, p)
       PROVE  TypeOK'
  <2>1. CASE DropRows({p})
    BY <1>11, <2>1, DropType, RestartedType DEF HardDeleteCrash, TypeOK, people
  <2>2. CASE UNCHANGED registry
    BY <1>11, <2>2, DropType, RestartedType DEF HardDeleteCrash, TypeOK, people, registry
  <2> QED
    BY <1>11, <2>1, <2>2 DEF HardDeleteCrash
<1>12. ASSUME NEW u \in Users, DeleteAccount(u)
       PROVE  TypeOK'
  BY <1>12, DropType, UnlinkType DEF DeleteAccount, Leave, TypeOK
<1>13. ASSUME NEW u \in Users, DeleteAccountCrash(u)
       PROVE  TypeOK'
  <2> PICK n \in ActiveOf(u) :
        LET done == {p \in ActiveOf(u) : p <= n} IN
          /\ DropKeys(done)
          /\ DropRows(done)
          /\ Restarted(done)
          /\ rows' = [f \in Ids \cup {Meta} |-> IF f \in done THEN {} ELSE rows[f]]
    BY <1>13 DEF DeleteAccountCrash
  <2>1. rows' \in [Ids \cup {Meta} -> SUBSET Ids]
    BY DEF TypeOK
  <2> QED
    BY <1>13, <2>1, DropType, RestartedType DEF DeleteAccountCrash, TypeOK, people
<1>14. ASSUME NEW u \in Users, RemoveUser(u)
       PROVE  TypeOK'
  BY <1>14 DEF RemoveUser, Leave, TypeOK, registry, data, keys
<1>15. ASSUME NEW u \in Users, NEW p \in Ids, NEW k \in Keys, IssueKey(u, p, k)
       PROVE  TypeOK'
  BY <1>15, StoreKeyType DEF IssueKey, TypeOK, people, registry, data
<1>16. ASSUME NEW u \in Users, NEW k \in Keys, RevokeKey(u, k)
       PROVE  TypeOK'
  BY <1>16 DEF RevokeKey, TypeOK, people, registry, data
<1>17. ASSUME NEW r \in Requests, NEW p \in Ids, Resolve(r, p)
       PROVE  TypeOK'
  <2>1. [id |-> p, slug |-> slug[p], file |-> None] \in Contexts
    BY <1>17 DEF Resolve, TypeOK, Contexts
  <2> QED
    BY <1>17, <2>1 DEF Resolve, TypeOK, people, registry, data, keys
<1>18. ASSUME NEW r \in Requests, OpenData(r)
       PROVE  TypeOK'
  <2>1. ctx[r] \in Contexts
    BY <1>18 DEF OpenData, TypeOK
  <2>2. \A f \in Ids \cup {Meta, Lost, None} : [ctx[r] EXCEPT !.file = f] \in Contexts
    BY <2>1 DEF Contexts
  <2>3. DataFile(ctx[r].slug, ctx[r].id) \in Ids \cup {Meta}
    BY <2>1 DEF DataFile, IsLegacyDefault, Contexts
  <2>4. PICK f \in Ids \cup {Meta, Lost, None} :
          ctx' = [ctx EXCEPT ![r] = [ctx[r] EXCEPT !.file = f]]
    BY <1>18, <2>3 DEF OpenData
  <2>6. ctx' \in [Requests -> Contexts \cup {None}]
    <3>1. [ctx[r] EXCEPT !.file = f] \in Contexts
      BY <2>2
    <3>2. ctx \in [Requests -> Contexts \cup {None}]
      BY DEF TypeOK
    <3> QED
      BY <2>4, <3>1, <3>2
  <2>5. file' \in [Ids -> FileStates]
    BY <1>18 DEF OpenData, TypeOK, FileStates
  <2> QED
    BY <1>18, <2>5, <2>6 DEF OpenData, TypeOK, people, registry, keys
<1>19. ASSUME NEW r \in Requests, Write(r)
       PROVE  TypeOK'
  <2>1. ctx[r].id \in Ids
    BY <1>19 DEF Write, Opened, TypeOK, Contexts
  <2>2. rows' \in [Ids \cup {Meta} -> SUBSET Ids]
    BY <1>19, <2>1 DEF Write, TypeOK
  <2> QED
    BY <1>19, <2>2 DEF Write, TypeOK, people, registry, keys
<1>20. ASSUME NEW r \in Requests, NEW k \in Keys, IssueScopedKey(r, k)
       PROVE  TypeOK'
  <2>1. ctx[r].id \in Ids
    BY <1>20 DEF IssueScopedKey, Opened, TypeOK, Contexts
  <2> QED
    BY <1>20, <2>1, StoreKeyType DEF IssueScopedKey, TypeOK, people, registry, data
<1>21. ASSUME NEW r \in Requests, NEW k \in Keys, RevokeScopedKey(r, k)
       PROVE  TypeOK'
  BY <1>21 DEF RevokeScopedKey, TypeOK, people, registry, data
<1>22. ASSUME NEW r \in Requests, Finish(r)
       PROVE  TypeOK'
  BY <1>22 DEF Finish, TypeOK, people, registry, data, keys
<1>23. CASE Restart
  BY <1>23, RestartedType DEF Restart, TypeOK, people, registry, keys
<1>24. CASE UNCHANGED vars
  BY <1>24 DEF vars, TypeOK, people, registry, data, keys
<1> QED
  BY <1>1, <1>2, <1>3, <1>4, <1>5, <1>6, <1>7, <1>8, <1>9, <1>10, <1>11, <1>12,
     <1>13, <1>14, <1>15, <1>16, <1>17, <1>18, <1>19, <1>20, <1>21, <1>22, <1>23,
     <1>24 DEF Next, SignIn, Manage, Accounts, Scoped

(* Every step keeps the shape of the registry: a slug per row and only     *)
(* then, rows in creation order, contexts and files of known kinds.        *)
THEOREM TypeCorrect == Spec => []TypeOK
BY InitTypeOK, NextTypeOK, PTL DEF Spec

-----------------------------------------------------------------------------
(* Isolation of the project files.                                         *)

SlugsUnique == \A p, q \in Rows : slug[p] = slug[q] => p = q

(* A slug _unique_slug returns is nobody else's.                           *)
LEMMA UniqueSlugIsFree ==
  ASSUME NEW base \in Slugs, NEW p, NEW s, IsUniqueSlug(base, p, s)
  PROVE  ~Taken(s, p)
BY DEF IsUniqueSlug, FreeVariants

(* What a step does to the slugs: rows go, or one row, new or old, gets a  *)
(* slug nobody else has.                                                   *)
LosesRows == Rows' \subseteq Rows /\ \A q \in Rows' : slug'[q] = slug[q]

GivesSlug(p, s) == /\ ~Taken(s, p)
                   /\ Rows' = Rows \cup {p}
                   /\ slug' = [slug EXCEPT ![p] = s]

SlugStep == LosesRows \/ \E p \in Ids, s \in Slugs : GivesSlug(p, s)

LEMMA InsertSlug ==
  ASSUME TypeOK, NEW p \in Ids, NEW u \in Users, NEW s \in Slugs,
         Insert(p, u, s), ~Taken(s, p)
  PROVE  SlugStep
<1>1. Rows' = Rows \cup {p}
  BY DEF Insert, Rows, TypeOK
<1> QED
  BY <1>1 DEF Insert, SlugStep, GivesSlug

LEMMA DropRowsSlug ==
  ASSUME TypeOK, NEW S, DropRows(S)
  PROVE  SlugStep
<1>1. Rows' \subseteq Rows
  BY DEF DropRows, Rows, TypeOK
<1>2. \A q \in Rows' : slug'[q] = slug[q]
  BY DEF DropRows, Rows, TypeOK
<1> QED
  BY <1>1, <1>2 DEF SlugStep, LosesRows

LEMMA NextSlugStep ==
  ASSUME TypeOK, [Next]_vars
  PROVE  SlugStep
<1>1. ASSUME UNCHANGED <<status, slug>>
      PROVE  SlugStep
  BY <1>1 DEF SlugStep, LosesRows, Rows
<1>2. ASSUME NEW u \in Users, NEW p \in Ids, SignInCreate(u, p)
      PROVE  SlugStep
  BY <1>2, UniqueSlugIsFree, InsertSlug DEF SignInCreate
<1>3. ASSUME NEW u \in Users, NEW p \in Ids, CreateProject(u, p)
      PROVE  SlugStep
  BY <1>3, UniqueSlugIsFree, InsertSlug DEF CreateProject
<1>4. ASSUME NEW u \in Users, NEW p \in Ids, CreateProjectCrash(u, p)
      PROVE  SlugStep
  BY <1>4, UniqueSlugIsFree, InsertSlug DEF CreateProjectCrash
<1>5. ASSUME NEW u \in Users, NEW p \in Ids, Rename(u, p)
      PROVE  SlugStep
  <2>1. PICK s \in Slugs : ~Taken(s, p) /\ slug' = [slug EXCEPT ![p] = s]
    BY <1>5, UniqueSlugIsFree DEF Rename
  <2>2. Rows' = Rows \cup {p}
    BY <1>5 DEF Rename, MayManage, Rows
  <2> QED
    BY <2>1, <2>2 DEF SlugStep, GivesSlug
<1>6. ASSUME NEW u \in Users, NEW p \in Ids,
             SignInAdopt(u, p) \/ Archive(u, p) \/ Restore(u, p)
      PROVE  SlugStep
  <2>1. p \in Rows /\ slug' = slug
    BY <1>6 DEF SignInAdopt, Orphans, Archive, Restore, MayManage
  <2>2. PICK s \in {"active", "archived"} : status' = [status EXCEPT ![p] = s]
    BY <1>6 DEF SignInAdopt, Archive, Restore
  <2>3. Rows' = Rows
    BY <2>1, <2>2 DEF Rows, TypeOK
  <2> QED
    BY <2>1, <2>3 DEF SlugStep, LosesRows
<1>7. ASSUME NEW u \in Users, NEW p \in Ids, HardDelete(u, p) \/ HardDeleteCrash(u, p)
      PROVE  SlugStep
  BY <1>1, <1>7, DropRowsSlug DEF HardDelete, HardDeleteCrash, registry
<1>8. ASSUME NEW u \in Users, DeleteAccount(u) \/ DeleteAccountCrash(u)
      PROVE  SlugStep
  BY <1>8, DropRowsSlug DEF DeleteAccount, DeleteAccountCrash
<1>9. CASE UNCHANGED registry
  BY <1>1, <1>9 DEF registry
<1> QED
  BY <1>2, <1>3, <1>4, <1>5, <1>6, <1>7, <1>8, <1>9
     DEF Next, SignIn, SignInToOwn, SignInAtLimit, Manage, Select,
         Accounts, RemoveUser, IssueKey, RevokeKey, Scoped, Resolve, OpenData,
         Write, IssueScopedKey, RevokeScopedKey, Finish, Restart, vars

LEMMA SlugsStayUnique ==
  ASSUME TypeOK, SlugsUnique, SlugStep
  PROVE  SlugsUnique'
<1>1. CASE LosesRows
  BY <1>1 DEF LosesRows, SlugsUnique
<1>2. ASSUME NEW p \in Ids, NEW s \in Slugs, GivesSlug(p, s)
      PROVE  SlugsUnique'
  <2>1. slug'[p] = s /\ \A q \in Ids \ {p} : slug'[q] = slug[q]
    BY <1>2 DEF GivesSlug, TypeOK
  <2>2. \A q \in Rows \ {p} : slug[q] # s
    BY <1>2 DEF GivesSlug, Taken
  <2> QED
    BY <1>2, <2>1, <2>2 DEF GivesSlug, SlugsUnique, Rows
<1> QED
  BY <1>1, <1>2 DEF SlugStep

LEMMA InitSlugsUnique == Init => SlugsUnique
BY DEF Init, SlugsUnique, Rows, Ids

(* Two projects never resolve to one database file: only one row can have  *)
(* the slug that selects the meta database.                                *)
THEOREM IsolatedFiles == Spec => []FilesIsolated
<1>1. Init => SlugsUnique
  BY InitSlugsUnique
<1>2. TypeOK /\ SlugsUnique /\ [Next]_vars => SlugsUnique'
  BY NextSlugStep, SlugsStayUnique
<1>3. TypeOK /\ SlugsUnique => FilesIsolated
  <2> SUFFICES ASSUME TypeOK, SlugsUnique, NEW p \in Rows, NEW q \in Rows,
                      DataFile(slug[p], p) = DataFile(slug[q], q)
               PROVE  p = q
    BY DEF FilesIsolated
  <2>1. p \in Ids /\ q \in Ids
    BY DEF Rows
  <2>2. CASE IsLegacyDefault(slug[p], p) /\ IsLegacyDefault(slug[q], q)
    BY <2>2 DEF IsLegacyDefault, SlugsUnique
  <2>3. CASE ~IsLegacyDefault(slug[p], p) \/ ~IsLegacyDefault(slug[q], q)
    BY <2>1, <2>3 DEF DataFile
  <2> QED
    BY <2>2, <2>3
<1> QED
  BY <1>1, <1>2, <1>3, TypeCorrect, PTL DEF Spec

-----------------------------------------------------------------------------
(* Ownership.                                                              *)

OwnerKept == \A p \in Rows : owner[p] # None /\ status'[p] # "none"
                                => owner'[p] = owner[p]

(* Signing in gives an owner to rows that have none, and no other step     *)
(* changes the owner of a row that stays.                                  *)
THEOREM OwnersStay == Spec => ProjectsStayWithOwner
<1>1. ASSUME TypeOK, Next
      PROVE  OwnerKept
  <2>1. ASSUME NEW u \in Users, NEW p \in Ids, NEW s \in Slugs, Insert(p, u, s)
        PROVE  OwnerKept
    <3>1. p \notin Rows
      BY <1>1, <2>1, InsertType
    <3> QED
      BY <1>1, <2>1, <3>1 DEF Insert, OwnerKept, TypeOK, Rows
  <2>2. ASSUME NEW S, DropRows(S)
        PROVE  OwnerKept
    BY <2>2 DEF DropRows, OwnerKept, Rows
  <2>3. ASSUME NEW u \in Users, NEW p \in Ids, SignInAdopt(u, p)
        PROVE  OwnerKept
    BY <1>1, <2>3 DEF SignInAdopt, Orphans, OwnerKept, TypeOK, Rows
  <2>4. CASE UNCHANGED owner
    BY <2>4 DEF OwnerKept
  <2> QED
    BY <1>1, <2>1, <2>2, <2>3, <2>4
       DEF Next, SignIn, SignInToOwn, SignInAtLimit, SignInCreate, Manage,
           CreateProject, CreateProjectCrash, Select, Rename, Archive, Restore,
           HardDelete, HardDeleteCrash, Accounts, DeleteAccount,
           DeleteAccountCrash, RemoveUser, IssueKey, RevokeKey, Scoped, Resolve,
           OpenData, Write, IssueScopedKey, RevokeScopedKey, Finish, Restart,
           registry
<1>2. TypeOK /\ [Next]_vars => [OwnerKept]_vars
  BY <1>1
<1>3. [][OwnerKept]_vars => ProjectsStayWithOwner
  BY PTL DEF ProjectsStayWithOwner, OwnerKept
<1> QED
  BY <1>2, <1>3, TypeCorrect, PTL DEF Spec

-----------------------------------------------------------------------------
(* Keys of the unscoped plane.                                             *)

(* A key row is created for a project that exists, by its uuid, unless it  *)
(* is bound to a slug or comes from a project-scoped request.              *)
StoresKey == \E k \in Keys, p \in Ids, b \in Slugs \cup Ids, pl \in {"legacy", "scoped"} :
               /\ StoreKey(k, p, b, pl)
               /\ pl = "scoped" \/ b \notin Ids \/ b \in Rows
               /\ Rows \subseteq Rows'

DropsKeys == \E S : DropKeys(S) /\ Rows \ S \subseteq Rows'

OnlyRevokes == /\ \A k \in Keys : key'[k] = "live" => key[k] = "live"
               /\ UNCHANGED <<binding, plane>>
               /\ Rows \subseteq Rows'

KeyStep == StoresKey \/ DropsKeys \/ OnlyRevokes

LEMMA NextKeyStep ==
  ASSUME TypeOK, [Next]_vars
  PROVE  KeyStep
<1>1. ASSUME UNCHANGED keys, Rows \subseteq Rows'
      PROVE  KeyStep
  BY <1>1 DEF KeyStep, OnlyRevokes, keys
<1>2. ASSUME NEW u \in Users, NEW p \in Ids, NEW s \in Slugs, Insert(p, u, s)
      PROVE  Rows \subseteq Rows'
  BY <1>2 DEF Insert, Rows, TypeOK
<1>3. ASSUME NEW S, DropRows(S)
      PROVE  Rows \ S \subseteq Rows'
  BY <1>3 DEF DropRows, Rows
<1>4. ASSUME NEW p \in Ids, NEW s \in {"active", "archived"},
             status' = [status EXCEPT ![p] = s]
      PROVE  Rows \subseteq Rows'
  BY <1>4 DEF Rows, TypeOK
<1>5. ASSUME UNCHANGED status
      PROVE  Rows' = Rows
  BY <1>5 DEF Rows
<1>6. ASSUME NEW u \in Users, NEW p \in Ids, CreateProject(u, p)
      PROVE  KeyStep
  <2> PICK s \in Slugs : /\ Insert(p, u, s)
                         /\ \/ UNCHANGED keys
                            \/ \E k \in Keys : StoreKey(k, p, s, "legacy")
    BY <1>6 DEF CreateProject
  <2>1. ASSUME NEW k \in Keys, StoreKey(k, p, s, "legacy")
        PROVE  StoresKey
    BY <1>2, <2>1 DEF StoresKey
  <2> QED
    BY <1>1, <1>2, <2>1 DEF KeyStep
<1>7. ASSUME NEW u \in Users, NEW p \in Ids, HardDelete(u, p) \/ HardDeleteCrash(u, p)
      PROVE  KeyStep
  <2>1. DropKeys({p}) /\ Rows \ {p} \subseteq Rows'
    BY <1>3, <1>5, <1>7 DEF HardDelete, HardDeleteCrash, registry
  <2> QED
    BY <2>1 DEF KeyStep, DropsKeys
<1>8. ASSUME NEW u \in Users, DeleteAccount(u) \/ DeleteAccountCrash(u)
      PROVE  KeyStep
  <2>1. PICK S : DropKeys(S) /\ DropRows(S)
    BY <1>8 DEF DeleteAccount, DeleteAccountCrash
  <2> QED
    BY <1>3, <2>1 DEF KeyStep, DropsKeys
<1>9. ASSUME NEW u \in Users, NEW p \in Ids, NEW k \in Keys, IssueKey(u, p, k)
      PROVE  KeyStep
  <2>1. StoreKey(k, p, p, "legacy") /\ p \in Rows /\ Rows' = Rows
    BY <1>5, <1>9 DEF IssueKey, MayManage, registry
  <2> QED
    BY <2>1 DEF KeyStep, StoresKey
<1>10. ASSUME NEW r \in Requests, NEW k \in Keys, IssueScopedKey(r, k)
       PROVE  KeyStep
  <2>1. StoreKey(k, ctx[r].id, ctx[r].id, "scoped") /\ Rows' = Rows
    BY <1>5, <1>10 DEF IssueScopedKey, registry
  <2>2. ctx[r].id \in Ids
    BY <1>10 DEF IssueScopedKey, Opened, TypeOK, Contexts
  <2> QED
    BY <2>1, <2>2 DEF KeyStep, StoresKey
<1>11. ASSUME NEW k \in Keys, key' = [key EXCEPT ![k] = "revoked"],
              UNCHANGED <<registry, binding, plane>>
       PROVE  KeyStep
  BY <1>5, <1>11 DEF KeyStep, OnlyRevokes, registry, TypeOK
<1>12. CASE UNCHANGED <<registry, keys>>
  BY <1>1, <1>5, <1>12 DEF registry
<1>13. ASSUME NEW u \in Users, NEW p \in Ids,
              \/ SignInAdopt(u, p) \/ Archive(u, p) \/ Restore(u, p) \/ Rename(u, p)
              \/ SignInCreate(u, p) \/ CreateProjectCrash(u, p)
       PROVE  KeyStep
  BY <1>1, <1>2, <1>4, <1>5, <1>13
     DEF SignInAdopt, Archive, Restore, Rename, SignInCreate, CreateProjectCrash
<1> QED
  BY <1>6, <1>7, <1>8, <1>9, <1>10, <1>11, <1>12, <1>13
     DEF Next, SignIn, SignInToOwn, SignInAtLimit, Manage, Select, Accounts,
         RemoveUser, RevokeKey, Scoped, Resolve, OpenData, Write,
         RevokeScopedKey, Finish, Restart, vars

(* A key of the unscoped plane that names a project by uuid does not       *)
(* outlive the project, however the project was renamed and by whatever    *)
(* path it is deleted, a crash in the middle of the deletion included.     *)
THEOREM LegacyKeysDie == Spec => []LegacyKeysDieWithProject
<1>1. Init => LegacyKeysDieWithProject
  BY DEF Init, LegacyKeysDieWithProject
<1>2. ASSUME TypeOK, LegacyKeysDieWithProject, [Next]_vars
      PROVE  LegacyKeysDieWithProject'
  <2> USE <1>2 DEF LegacyKeysDieWithProject
  <2>1. CASE StoresKey
    BY <2>1 DEF StoresKey, StoreKey, TypeOK
  <2>2. CASE DropsKeys
    BY <2>2 DEF DropsKeys, DropKeys, TypeOK
  <2>3. CASE OnlyRevokes
    BY <2>3 DEF OnlyRevokes
  <2> QED
    BY <2>1, <2>2, <2>3, NextKeyStep DEF KeyStep
<1> QED
  BY <1>1, <1>2, TypeCorrect, PTL DEF Spec

-----------------------------------------------------------------------------
(* Data follows the slug.                                                  *)

Files == Ids \cup {Meta}

(* The projects that still have the slug they were created with.           *)
Settled == Rows \ renamed

(* Nothing is left from before a row exists: ids are never used again.     *)
FreshIds == \A p \in Ids : p > next =>
              file[p] = "absent" /\ \A f \in Files : p \notin rows[f]

(* A request of a settled project has the slug the project has now, and    *)
(* the file the next request would open.                                   *)
ContextCurrent(r) ==
  ctx[r] # None =>
    /\ ctx[r].id <= next
    /\ ctx[r].id \in Settled =>
         /\ ctx[r].slug = slug[ctx[r].id]
         /\ ctx[r].file \in Files => ctx[r].file = DataFile(slug[ctx[r].id], ctx[r].id)

DataInv == /\ TypeOK
           /\ FreshIds
           /\ \A r \in Requests : ContextCurrent(r)
           /\ DataKeptWithSlug

LEMMA InitDataInv == Init => DataInv
<1> SUFFICES ASSUME Init PROVE DataInv
  OBVIOUS
<1>1. FreshIds
  BY DEF Init, FreshIds, Files
<1>2. \A r \in Requests : ContextCurrent(r)
  BY DEF Init, ContextCurrent
<1>3. DataKeptWithSlug
  BY DEF Init, DataKeptWithSlug, Reachable
<1> QED
  BY <1>1, <1>2, <1>3, InitTypeOK DEF DataInv

(* The file of project q is there, or not, as before; or it is not asked   *)
(* for, as q does not have Default's slug; or a start has made it, when no *)
(* request is in flight.                                                   *)
FileKept(q) ==
  \/ (file'[q] = "present") <=> (file[q] = "present")
  \/ slug'[q] # Default
  \/ /\ file'[q] = "present" /\ q \in split'
     /\ \A r \in Requests : ctx'[r] = None

(* A settled project after the step was settled before it, with its file   *)
(* and its rows as they were, or is a new row.                             *)
SettledKept ==
  \A p \in Settled' :
    \/ /\ p \in Settled
       /\ slug'[p] = slug[p]
       /\ FileKept(p)
       /\ \A f \in Files : p \in rows'[f] => p \in rows[f]
    \/ /\ p > next
       /\ \A f \in Files : p \notin rows'[f]

(* Requests end or lose their file; none comes or opens one.               *)
ContextsKept ==
  \A r \in Requests : ctx'[r] # None =>
    /\ ctx[r] # None
    /\ ctx'[r].id = ctx[r].id
    /\ ctx'[r].slug = ctx[r].slug
    /\ ctx'[r].file \in {ctx[r].file, Lost}

LEMMA DataFrame ==
  ASSUME DataInv, TypeOK', next <= next', FreshIds', SettledKept, ContextsKept,
         split \subseteq split'
  PROVE  DataInv'
<1>1. ASSUME NEW p \in Settled', p \in Settled
      PROVE  /\ \/ DataFile(slug[p], p)' = DataFile(slug[p], p)
                \/ /\ DataFile(slug[p], p)' = p /\ p \in split'
                   /\ \A r \in Requests : ctx'[r] = None
             /\ \A f \in Files : p \in rows'[f] => p \in rows[f]
             /\ slug'[p] = slug[p]
  <2>1. p \in Ids /\ p <= next
    BY <1>1 DEF Settled, Rows, DataInv, TypeOK
  <2>2. ~(p > next)
    BY <2>1 DEF DataInv, TypeOK, Ids
  <2>3. /\ slug'[p] = slug[p]
        /\ FileKept(p)
        /\ \A f \in Files : p \in rows'[f] => p \in rows[f]
    BY <1>1, <2>2 DEF SettledKept
  <2> QED
    BY <2>3 DEF FileKept, DataFile, IsLegacyDefault
<1>2. DataKeptWithSlug'
  <2> SUFFICES ASSUME NEW p \in Settled', NEW f \in Files, p \in rows'[f]
               PROVE  f = DataFile(slug[p], p)' \/ (f = Meta /\ p \in split')
    BY DEF DataKeptWithSlug, Reachable, Settled, Files
  <2>1. p \in Settled
    BY DEF SettledKept
  <2>2. /\ p \in rows[f]
        /\ \/ DataFile(slug[p], p)' = DataFile(slug[p], p)
           \/ DataFile(slug[p], p)' = p /\ p \in split'
    BY <1>1, <2>1
  <2>3. f = DataFile(slug[p], p) \/ (f = Meta /\ p \in split')
    BY <2>1, <2>2 DEF DataInv, DataKeptWithSlug, Reachable, Settled, Files
  <2>4. DataFile(slug[p], p) \in {p, Meta}
    BY DEF DataFile
  <2> QED
    BY <2>2, <2>3, <2>4
<1>3. ASSUME NEW r \in Requests
      PROVE  ContextCurrent(r)'
  <2> SUFFICES ASSUME ctx'[r] # None PROVE ContextCurrent(r)'
    BY DEF ContextCurrent
  <2>1. /\ ctx[r] # None /\ ctx'[r].id = ctx[r].id /\ ctx'[r].slug = ctx[r].slug
        /\ ctx'[r].file \in {ctx[r].file, Lost}
        /\ ctx[r].id \in Ids /\ ctx[r].id <= next
    BY DEF ContextsKept, DataInv, ContextCurrent, TypeOK, Contexts
  <2>2. ctx'[r].id <= next'
    BY <2>1 DEF DataInv, TypeOK, Ids
  <2>3. ASSUME ctx'[r].id \in Settled'
        PROVE  /\ ctx'[r].slug = slug'[ctx'[r].id]
               /\ ctx'[r].file \in Files =>
                    ctx'[r].file = DataFile(slug[ctx[r].id], ctx[r].id)'
    <3> PICK p \in Ids : p = ctx[r].id /\ p = ctx'[r].id
      BY <2>1
    <3>1. p \in Settled' /\ p \in Settled
      <4>1. ~(p > next)
        BY <2>1 DEF DataInv, TypeOK, Ids
      <4> QED
        BY <2>3, <4>1 DEF SettledKept
    <3>2. ctx[r].slug = slug[p] /\ (ctx[r].file \in Files => ctx[r].file = DataFile(slug[p], p))
      BY <2>1, <3>1 DEF DataInv, ContextCurrent
    <3>3. ctx'[r].file \in Files => ctx'[r].file = DataFile(slug[p], p)'
      <4>1. Lost \notin Files
        BY DEF Files
      <4> QED
        BY <1>1, <2>1, <3>1, <3>2, <4>1
    <3>4. ctx'[r].slug = slug'[p]
      BY <1>1, <2>1, <3>1, <3>2
    <3> QED
      BY <3>3, <3>4 DEF DataFile, IsLegacyDefault
  <2> QED
    BY <2>2, <2>3 DEF ContextCurrent
<1> QED
  BY <1>2, <1>3 DEF DataInv

(* A step that leaves files and rows alone, adds no row, and settles none. *)
LEMMA QuietData ==
  ASSUME DataInv, TypeOK', UNCHANGED <<next, file, rows, split, slug>>, ContextsKept,
         Settled' \subseteq Settled
  PROVE  DataInv'
<1>1. FreshIds' /\ SettledKept /\ next <= next'
  BY DEF DataInv, FreshIds, SettledKept, FileKept, TypeOK
<1> QED
  BY <1>1, DataFrame

LEMMA SameContexts ==
  ASSUME UNCHANGED ctx
  PROVE  ContextsKept
BY DEF ContextsKept

(* A start ends the requests.  The files it makes are those of rows, and   *)
(* it puts a Default whose file it makes into split.                       *)
LEMMA NoContexts ==
  ASSUME TypeOK, TypeOK', NEW gone, Restarted(gone)
  PROVE  /\ ContextsKept
         /\ split \subseteq split'
         /\ \A q \in Ids \ Rows' : file[q] = "absent" => file'[q] = "absent"
         /\ \A q \in Ids \ gone : FileKept(q)
<1>1. PICK made \in SUBSET {p \in Ids : status'[p] # "none" /\ slug'[p] \in AdoptionMap} :
        /\ file' = [p \in Ids |->
                      IF p \in made THEN "present"
                      ELSE IF p \in gone \/ file[p] = "unlinked" THEN "absent" ELSE file[p]]
        /\ split' = split \cup {p \in made : IsLegacyDefault(slug'[p], p)}
  BY DEF Restarted
<1>2. \A r \in Requests : ctx'[r] = None
  BY DEF Restarted
<1>3. ContextsKept /\ split \subseteq split'
  BY <1>1, <1>2 DEF ContextsKept
<1>4. \A q \in Ids \ Rows' : file[q] = "absent" => file'[q] = "absent"
  BY <1>1 DEF Rows
<1>5. ASSUME NEW q \in Ids \ gone
      PROVE  FileKept(q)
  <2>1. CASE q \in made
    BY <1>1, <1>2, <2>1 DEF FileKept, IsLegacyDefault
  <2>2. CASE q \notin made
    BY <1>1, <2>2 DEF FileKept
  <2> QED
    BY <2>1, <2>2
<1> QED
  BY <1>3, <1>4, <1>5

LEMMA InsertData ==
  ASSUME DataInv, TypeOK', NEW p \in Ids, NEW u \in Users, NEW s \in Slugs,
         Insert(p, u, s), ContextsKept, UNCHANGED rows, split \subseteq split',
         \A q \in Ids \ {p} : FileKept(q),
         \A q \in Ids \ Rows' : file[q] = "absent" => file'[q] = "absent"
  PROVE  DataInv'
<1>1. /\ p = next + 1 /\ next' = p /\ next \in Nat
      /\ slug' = [slug EXCEPT ![p] = s]
      /\ Rows' = Rows \cup {p}
      /\ renamed' = renamed
  BY DEF DataInv, TypeOK, Insert, Rows
<1>2. FreshIds'
  BY <1>1 DEF DataInv, FreshIds, Ids, TypeOK, Rows
<1>3. SettledKept
  <2> SUFFICES ASSUME NEW q \in Settled', q # p
               PROVE  /\ q \in Settled
                      /\ slug'[q] = slug[q]
                      /\ FileKept(q)
    BY <1>1 DEF SettledKept, DataInv, FreshIds, Ids
  <2>1. q \in Ids
    BY DEF Settled, Rows
  <2>2. q \in Settled /\ slug'[q] = slug[q]
    BY <1>1, <2>1 DEF Settled, DataInv, TypeOK
  <2>3. FileKept(q)
    BY <2>1
  <2> QED
    BY <2>2, <2>3
<1> QED
  BY <1>1, <1>2, <1>3, DataFrame

(* Rows, their files and their data go; whatever else the files hold stays. *)
LEMMA DropData ==
  ASSUME DataInv, TypeOK', NEW S, DropRows(S), ContextsKept, split \subseteq split',
         \A q \in Ids \ S : FileKept(q),
         \A q \in Ids \ Rows' : file[q] = "absent" => file'[q] = "absent",
         \A f \in Files : rows'[f] \subseteq rows[f]
  PROVE  DataInv'
<1>1. next' = next /\ Settled' = Settled \ S
  BY DEF DropRows, Settled, Rows
<1>2. FreshIds'
  BY <1>1 DEF DataInv, FreshIds, Ids, TypeOK, Rows
<1>3. SettledKept
  <2> SUFFICES ASSUME NEW q \in Settled'
               PROVE  /\ q \in Settled
                      /\ slug'[q] = slug[q]
                      /\ FileKept(q)
                      /\ \A f \in Files : q \in rows'[f] => q \in rows[f]
    BY DEF SettledKept
  <2>1. q \in Ids /\ q \notin S /\ q \in Settled
    BY <1>1 DEF Settled, Rows
  <2> QED
    BY <2>1 DEF DropRows
<1> QED
  BY <1>1, <1>2, <1>3, DataFrame DEF DataInv, TypeOK

LEMMA UnlinkData ==
  ASSUME TypeOK, NEW S, Unlink(S)
  PROVE  /\ \A q \in Ids \ S : FileKept(q)
         /\ \A q \in Ids : file[q] = "absent" => file'[q] = "absent"
         /\ UNCHANGED split
         /\ \A f \in Files : rows'[f] \subseteq rows[f]
         /\ ContextsKept
<1>1. /\ \A q \in Ids \ S : FileKept(q)
      /\ \A q \in Ids : file[q] = "absent" => file'[q] = "absent"
      /\ UNCHANGED split
  BY DEF Unlink, FileKept
<1>2. \A f \in Files : rows'[f] \subseteq rows[f]
  BY DEF Unlink, Files
<1>3. ContextsKept
  <2> SUFFICES ASSUME NEW r \in Requests, ctx'[r] # None
               PROVE  /\ ctx[r] # None
                      /\ ctx'[r].id = ctx[r].id
                      /\ ctx'[r].slug = ctx[r].slug
                      /\ ctx'[r].file \in {ctx[r].file, Lost}
    BY DEF ContextsKept
  <2>1. ctx'[r] = ctx[r] \/ (ctx[r] # None /\ ctx'[r] = [ctx[r] EXCEPT !.file = Lost])
    BY DEF Unlink
  <2>2. CASE ctx'[r] = ctx[r]
    BY <2>2
  <2>3. CASE ctx[r] # None /\ ctx'[r] = [ctx[r] EXCEPT !.file = Lost]
    <3>1. ctx[r] \in Contexts
      BY <2>3 DEF TypeOK
    <3> QED
      BY <2>3, <3>1 DEF Contexts
  <2> QED
    BY <2>1, <2>2, <2>3
<1> QED
  BY <1>1, <1>2, <1>3

LEMMA ResolvingKeepsData ==
  ASSUME DataInv, TypeOK', NEW r \in Requests, NEW p \in Ids, Resolve(r, p)
  PROVE  DataInv'
<1>1. /\ ctx' = [ctx EXCEPT ![r] = [id |-> p, slug |-> slug[p], file |-> None]]
      /\ UNCHANGED <<next, status, slug, renamed, file, rows, split>>
      /\ p <= next
  BY DEF Resolve, registry, data, DataInv, TypeOK
<1>2. FreshIds' /\ DataKeptWithSlug'
  BY <1>1 DEF DataInv, FreshIds, DataKeptWithSlug, Reachable, DataFile,
              IsLegacyDefault, Rows
<1>3. ASSUME NEW q \in Requests
      PROVE  ContextCurrent(q)'
  <2>1. CASE q = r
    <3>1. ctx'[q] = [id |-> p, slug |-> slug[p], file |-> None]
      BY <1>1, <2>1 DEF DataInv, TypeOK
    <3>2. None \notin Files
      BY DEF Files
    <3> QED
      BY <1>1, <3>1, <3>2 DEF ContextCurrent
  <2>2. CASE q # r
    <3>1. ctx'[q] = ctx[q]
      BY <1>1, <2>2 DEF DataInv, TypeOK
    <3> QED
      BY <1>1, <3>1 DEF DataInv, ContextCurrent, Settled, Rows, DataFile, IsLegacyDefault
  <2> QED
    BY <2>1, <2>2
<1> QED
  BY <1>2, <1>3 DEF DataInv

(* The file a request creates is its own project's, and a settled project  *)
(* whose file a request creates was already resolving to it.               *)
LEMMA OpeningKeepsData ==
  ASSUME DataInv, TypeOK', NEW r \in Requests, OpenData(r)
  PROVE  DataInv'
<1> PICK f \in Files \cup {Lost} :
      /\ ctx' = [ctx EXCEPT ![r].file = f]
      /\ \/ /\ f = DataFile(ctx[r].slug, ctx[r].id)
            /\ file' = [p \in Ids |-> IF p = f THEN "present" ELSE file[p]]
         \/ /\ f = Lost
            /\ UNCHANGED file
  <2>1. ctx[r] \in Contexts
    BY DEF OpenData, DataInv, TypeOK
  <2>2. DataFile(ctx[r].slug, ctx[r].id) \in Files
    BY <2>1 DEF DataFile, IsLegacyDefault, Contexts, Files
  <2> QED
    BY <2>2 DEF OpenData
<1>1. /\ ctx[r] # None /\ ctx[r] \in Contexts /\ ctx[r].id \in Ids /\ ctx[r].id <= next
      /\ UNCHANGED <<next, status, slug, renamed, rows, split>>
      /\ Settled' = Settled
  BY DEF OpenData, registry, DataInv, TypeOK, ContextCurrent, Contexts, Settled, Rows
<1> PICK c \in Ids : c = ctx[r].id
  BY <1>1
<1>2. f \in Ids => f = c
  BY DEF DataFile, Files
<1>3. \A p \in Ids \ {c} : file'[p] = file[p]
  BY <1>2 DEF DataInv, TypeOK
<1>4. c \in Settled => /\ ctx[r].slug = slug[c]
                       /\ DataFile(slug[c], c)' = DataFile(slug[c], c)
  <2>1. c \in Settled => ctx[r].slug = slug[c]
    BY <1>1 DEF DataInv, ContextCurrent
  <2>2. ASSUME c \in Settled, UNCHANGED file
        PROVE  DataFile(slug[c], c)' = DataFile(slug[c], c)
    BY <1>1, <2>2 DEF DataFile, IsLegacyDefault
  <2>3. ASSUME c \in Settled, f = DataFile(slug[c], c),
               file' = [p \in Ids |-> IF p = f THEN "present" ELSE file[p]]
        PROVE  DataFile(slug[c], c)' = DataFile(slug[c], c)
    <3>1. CASE f = c
      BY <1>1, <2>3, <3>1 DEF DataFile, IsLegacyDefault, DataInv, TypeOK
    <3>2. CASE f # c
      BY <1>1, <2>3, <3>2 DEF DataFile, IsLegacyDefault, DataInv, TypeOK
    <3> QED
      BY <3>1, <3>2
  <2> QED
    BY <2>1, <2>2, <2>3
<1>5. \A p \in Settled : DataFile(slug[p], p)' = DataFile(slug[p], p)
  BY <1>1, <1>3, <1>4 DEF DataFile, IsLegacyDefault, Settled, Rows
<1>6. FreshIds'
  <2>1. ~(c > next)
    BY <1>1 DEF DataInv, TypeOK, Ids
  <2> QED
    BY <1>1, <1>3, <2>1 DEF DataInv, FreshIds
<1>7. DataKeptWithSlug'
  BY <1>1, <1>5 DEF DataInv, DataKeptWithSlug, Reachable, Settled
<1>8. ASSUME NEW q \in Requests
      PROVE  ContextCurrent(q)'
  <2>1. CASE q = r
    <3>1. ctx'[q] = [ctx[r] EXCEPT !.file = f]
      BY <2>1 DEF DataInv, TypeOK
    <3>2. ctx'[q].id = c /\ ctx'[q].slug = ctx[r].slug /\ ctx'[q].file = f
      BY <1>1, <3>1 DEF Contexts
    <3>3. ASSUME c \in Settled, f \in Files
          PROVE  f = DataFile(slug[c], c)'
      <4>1. f # Lost
        BY <3>3 DEF Files
      <4> QED
        BY <1>4, <3>3, <4>1
    <3> QED
      BY <1>1, <1>4, <3>2, <3>3 DEF ContextCurrent, DataFile, IsLegacyDefault
  <2>2. CASE q # r
    <3>1. ctx'[q] = ctx[q]
      BY <2>2 DEF DataInv, TypeOK
    <3> SUFFICES ASSUME ctx[q] # None PROVE ContextCurrent(q)'
      BY <3>1 DEF ContextCurrent
    <3> PICK d \in Ids : d = ctx[q].id /\ d = ctx'[q].id
      BY <3>1 DEF DataInv, TypeOK, Contexts
    <3>2. d <= next'
      BY <1>1 DEF DataInv, ContextCurrent
    <3>3. d \in Settled' => /\ ctx'[q].slug = slug'[d]
                            /\ ctx'[q].file \in Files => ctx'[q].file = DataFile(slug[d], d)'
      BY <1>1, <1>5, <3>1 DEF DataInv, ContextCurrent
    <3> QED
      BY <3>2, <3>3 DEF ContextCurrent, DataFile, IsLegacyDefault
  <2> QED
    BY <2>1, <2>2
<1> QED
  BY <1>6, <1>7, <1>8 DEF DataInv

LEMMA WritingKeepsData ==
  ASSUME DataInv, TypeOK', NEW r \in Requests, Write(r)
  PROVE  DataInv'
<1>1. /\ ctx[r] \in Contexts /\ ctx[r].id \in Ids /\ ctx[r].id <= next
      /\ ctx[r].file \in Files
      /\ rows' = [rows EXCEPT ![ctx[r].file] = @ \cup {ctx[r].id}]
      /\ UNCHANGED <<next, status, slug, renamed, file, split, ctx>>
  BY DEF Write, Opened, registry, DataInv, TypeOK, ContextCurrent, Contexts, Files
<1>2. \A f \in Files : \A p \in rows'[f] :
        p \in rows[f] \/ (p = ctx[r].id /\ f = ctx[r].file)
  BY <1>1 DEF DataInv, TypeOK, Files
<1>3. FreshIds'
  <2>1. ~(ctx[r].id > next)
    BY <1>1 DEF DataInv, TypeOK, Ids
  <2> QED
    BY <1>1, <1>2, <2>1 DEF DataInv, FreshIds
<1>4. DataKeptWithSlug'
  <2>1. ctx[r].id \in Settled => ctx[r].file = DataFile(slug[ctx[r].id], ctx[r].id)
    BY <1>1 DEF Write, Opened, DataInv, ContextCurrent
  <2>2. \A p \in Settled, f \in Files : p \in rows'[f] =>
          f = DataFile(slug[p], p) \/ (f = Meta /\ p \in split)
    BY <1>2, <2>1 DEF DataInv, DataKeptWithSlug, Reachable, Settled, Files
  <2> QED
    BY <1>1, <2>2 DEF DataKeptWithSlug, Reachable, Settled, Files, Rows,
                      DataFile, IsLegacyDefault
<1>5. \A q \in Requests : ContextCurrent(q)'
  BY <1>1 DEF DataInv, ContextCurrent, Settled, Rows, DataFile, IsLegacyDefault
<1> QED
  BY <1>3, <1>4, <1>5 DEF DataInv

LEMMA NextDataInv == DataInv /\ [Next]_vars => DataInv'
<1> SUFFICES ASSUME DataInv, [Next]_vars PROVE DataInv'
  OBVIOUS
<1> TypeOK /\ TypeOK'
  BY NextTypeOK DEF DataInv
<1>1. ASSUME UNCHANGED <<registry, data>>, ContextsKept
      PROVE  DataInv'
  BY <1>1, QuietData DEF registry, data, Settled, Rows
<1>2. ASSUME UNCHANGED <<next, status, slug, renamed, rows>>, Restarted({})
      PROVE  DataInv'
  <2>1. /\ \A q \in Ids : FileKept(q)
        /\ \A q \in Ids \ Rows' : file[q] = "absent" => file'[q] = "absent"
        /\ ContextsKept /\ split \subseteq split'
    BY <1>2, NoContexts
  <2>2. FreshIds'
    BY <1>2, <2>1 DEF DataInv, FreshIds, Rows, TypeOK, Ids
  <2>3. SettledKept /\ next <= next'
    BY <1>2, <2>1 DEF DataInv, SettledKept, Settled, Rows, TypeOK
  <2> QED
    BY <2>1, <2>2, <2>3, DataFrame
<1>3. ASSUME NEW u \in Users, NEW p \in Ids, SignInAdopt(u, p)
      PROVE  DataInv'
  <2>1. Settled' = Settled
    BY <1>3 DEF SignInAdopt, Orphans, Settled, Rows, TypeOK
  <2> QED
    BY <1>3, <2>1, QuietData, SameContexts DEF SignInAdopt, data
<1>4. ASSUME NEW u \in Users, NEW p \in Ids, SignInCreate(u, p)
      PROVE  DataInv'
  <2> PICK s \in Slugs : Insert(p, u, s)
    BY <1>4 DEF SignInCreate
  <2>1. UNCHANGED <<file, rows, split, ctx>>
    BY <1>4 DEF SignInCreate, data
  <2>2. ContextsKept /\ \A q \in Ids : FileKept(q)
    BY <2>1, SameContexts DEF FileKept
  <2> QED
    BY <2>1, <2>2, InsertData
<1>5. ASSUME NEW u \in Users, NEW p \in Ids, CreateProject(u, p)
      PROVE  DataInv'
  <2> PICK s \in Slugs : /\ Insert(p, u, s)
                         /\ file' = file \/ file' = [file EXCEPT ![p] = "present"]
    BY <1>5 DEF CreateProject
  <2>1. \A q \in Ids \ {p} : FileKept(q) /\ file'[q] = file[q]
    BY DEF TypeOK, FileKept
  <2>2. ContextsKept /\ UNCHANGED <<rows, split>> /\ p \in Rows'
    BY <1>5, SameContexts DEF CreateProject, Insert, Rows, TypeOK
  <2> QED
    BY <2>1, <2>2, InsertData
<1>6. ASSUME NEW u \in Users, NEW p \in Ids, CreateProjectCrash(u, p)
      PROVE  DataInv'
  <2> PICK s \in Slugs : Insert(p, u, s)
    BY <1>6 DEF CreateProjectCrash
  <2>1. /\ \A q \in Ids : FileKept(q)
        /\ \A q \in Ids \ Rows' : file[q] = "absent" => file'[q] = "absent"
        /\ ContextsKept /\ UNCHANGED rows /\ split \subseteq split'
    BY <1>6, NoContexts DEF CreateProjectCrash
  <2> QED
    BY <2>1, InsertData
<1>7. ASSUME NEW u \in Users, NEW p \in Ids, Archive(u, p) \/ Restore(u, p)
      PROVE  DataInv'
  <2>1. Settled' = Settled
    BY <1>7 DEF Archive, Restore, MayManage, Settled, Rows, TypeOK
  <2> QED
    BY <1>7, <2>1, QuietData, SameContexts DEF Archive, Restore, data
<1>8. ASSUME NEW u \in Users, NEW p \in Ids, Rename(u, p)
      PROVE  DataInv'
  <2> PICK s \in Slugs : /\ slug' = [slug EXCEPT ![p] = s]
                         /\ renamed' = IF s = slug[p] THEN renamed ELSE renamed \cup {p}
    BY <1>8 DEF Rename
  <2>1. UNCHANGED <<next, status, file, rows, split, ctx>>
    BY <1>8 DEF Rename, data
  <2>2. Settled' \subseteq Settled /\ \A q \in Settled' : slug'[q] = slug[q]
    BY <2>1 DEF Settled, Rows, TypeOK
  <2>3. FreshIds' /\ SettledKept /\ next <= next'
    BY <2>1, <2>2 DEF DataInv, FreshIds, SettledKept, FileKept, TypeOK
  <2> QED
    BY <2>1, <2>3, SameContexts, DataFrame
<1>9. ASSUME NEW u \in Users, NEW p \in Ids, HardDelete(u, p)
      PROVE  DataInv'
  <2>1. DropRows({p})
    BY <1>9 DEF HardDelete
  <2>2. CASE Unlink({p})
    BY <2>1, <2>2, UnlinkData, DropData
  <2>3. CASE UNCHANGED <<data, ctx>>
    BY <2>1, <2>3, SameContexts, DropData DEF FileKept, data
  <2> QED
    BY <1>9, <2>2, <2>3 DEF HardDelete
<1>10. ASSUME NEW u \in Users, NEW p \in Ids, HardDeleteCrash(u, p)
       PROVE  DataInv'
  <2>1. CASE DropRows({p})
    <3>1. /\ \A q \in Ids : FileKept(q)
          /\ \A q \in Ids \ Rows' : file[q] = "absent" => file'[q] = "absent"
          /\ ContextsKept /\ UNCHANGED rows /\ split \subseteq split'
      BY <1>10, NoContexts DEF HardDeleteCrash
    <3> QED
      BY <2>1, <3>1, DropData
  <2>2. CASE UNCHANGED registry
    BY <1>2, <1>10, <2>2 DEF HardDeleteCrash, registry
  <2> QED
    BY <1>10, <2>1, <2>2 DEF HardDeleteCrash
<1>11. ASSUME NEW u \in Users, DeleteAccount(u)
       PROVE  DataInv'
  BY <1>11, UnlinkData, DropData DEF DeleteAccount
<1>12. ASSUME NEW u \in Users, DeleteAccountCrash(u)
       PROVE  DataInv'
  <2> PICK S :
        /\ DropRows(S)
        /\ Restarted(S)
        /\ rows' = [f \in Ids \cup {Meta} |-> IF f \in S THEN {} ELSE rows[f]]
    BY <1>12 DEF DeleteAccountCrash
  <2>1. /\ \A q \in Ids \ S : FileKept(q)
        /\ \A q \in Ids \ Rows' : file[q] = "absent" => file'[q] = "absent"
        /\ ContextsKept /\ split \subseteq split'
    BY NoContexts
  <2>2. \A f \in Files : rows'[f] \subseteq rows[f]
    BY DEF Files
  <2> QED
    BY <2>1, <2>2, DropData
<1>13. ASSUME NEW r \in Requests, NEW p \in Ids, Resolve(r, p)
       PROVE  DataInv'
  BY <1>13, ResolvingKeepsData
<1>14. ASSUME NEW r \in Requests, OpenData(r) \/ Write(r)
       PROVE  DataInv'
  BY <1>14, OpeningKeepsData, WritingKeepsData
<1>15. ASSUME NEW r \in Requests, Finish(r)
       PROVE  DataInv'
  <2>1. ContextsKept
    BY <1>15 DEF Finish, ContextsKept, TypeOK
  <2> QED
    BY <1>1, <1>15, <2>1 DEF Finish
<1>16. CASE Restart
  BY <1>2, <1>16 DEF Restart, registry
<1>17. CASE UNCHANGED <<registry, data, ctx>>
  BY <1>1, <1>17, SameContexts
<1> QED
  BY <1>3, <1>4, <1>5, <1>6, <1>7, <1>8, <1>9, <1>10, <1>11, <1>12, <1>13,
     <1>14, <1>15, <1>16, <1>17
     DEF Next, SignIn, SignInToOwn, SignInAtLimit, Manage, Select, Accounts,
         RemoveUser, IssueKey, RevokeKey, Scoped, IssueScopedKey,
         RevokeScopedKey, vars

(* As long as a project keeps its slug, what its requests have written is  *)
(* in the file its next request opens, whatever happens to other projects, *)
(* whichever requests are in flight, and wherever the process stops; only  *)
(* a Default that LEGACY_ADOPTION_MAP names leaves tables in the meta      *)
(* database behind.                                                        *)
THEOREM DataKept == Spec => []DataKeptWithSlug
<1>1. DataInv => DataKeptWithSlug
  BY DEF DataInv
<1> QED
  BY <1>1, InitDataInv, NextDataInv, PTL DEF Spec

-----------------------------------------------------------------------------
(* The limit on a user's projects.                                         *)

(* What counts against the limit: the rows that were not adopted.          *)
Counted(u) == Owned(u) \ adopted

(* It shrinks, or a row is added while the user is below the limit.        *)
LimitStep(u) == \/ Counted(u)' \subseteq Counted(u)
                \/ /\ Count(u) < MaxProjects
                   /\ \E p \in Ids : Counted(u)' \subseteq Counted(u) \cup {p}

LEMMA InsertLimit ==
  ASSUME TypeOK, NEW v \in Users, NEW p \in Ids, NEW s \in Slugs, Insert(p, v, s),
         Count(v) < MaxProjects, NEW u \in Users
  PROVE  LimitStep(u)
<1>1. /\ owner'[p] = v
      /\ \A q \in Ids \ {p} : owner'[q] = owner[q] /\ status'[q] = status[q]
      /\ adopted' = adopted
  BY DEF Insert, TypeOK
<1>2. Counted(u)' \subseteq Counted(u) \cup (IF u = v THEN {p} ELSE {})
  BY <1>1 DEF Counted, Owned, Rows
<1> QED
  BY <1>2 DEF LimitStep

LEMMA DropLimit ==
  ASSUME TypeOK, NEW S, DropRows(S), NEW u \in Users
  PROVE  LimitStep(u)
BY DEF DropRows, LimitStep, Counted, Owned, Rows

LEMMA AdoptLimit ==
  ASSUME TypeOK, NEW v \in Users, NEW p \in Ids, SignInAdopt(v, p), NEW u \in Users
  PROVE  LimitStep(u)
<1>1. /\ adopted' = adopted \cup {p}
      /\ \A q \in Ids \ {p} : owner'[q] = owner[q] /\ status'[q] = status[q]
  BY DEF SignInAdopt, TypeOK
<1> QED
  BY <1>1 DEF LimitStep, Counted, Owned, Rows

LEMMA StatusLimit ==
  ASSUME TypeOK, NEW p \in Rows, NEW st, status' = [status EXCEPT ![p] = st],
         UNCHANGED <<owner, adopted>>, NEW u \in Users
  PROVE  LimitStep(u)
<1>1. \A q \in Ids \ {p} : status'[q] = status[q]
  BY DEF TypeOK, Rows
<1> QED
  BY <1>1 DEF LimitStep, Counted, Owned, Rows

LEMMA NextLimitStep ==
  ASSUME TypeOK, [Next]_vars, NEW u \in Users
  PROVE  LimitStep(u)
<1>1. CASE UNCHANGED <<status, owner, adopted>>
  BY <1>1 DEF LimitStep, Counted, Owned, Rows
<1>2. ASSUME NEW v \in Users, NEW p \in Ids, SignInCreate(v, p)
      PROVE  LimitStep(u)
  BY <1>2, InsertLimit DEF SignInCreate
<1>3. ASSUME NEW v \in Users, NEW p \in Ids, CreateProject(v, p)
      PROVE  LimitStep(u)
  BY <1>3, InsertLimit DEF CreateProject
<1>4. ASSUME NEW v \in Users, NEW p \in Ids, CreateProjectCrash(v, p)
      PROVE  LimitStep(u)
  BY <1>4, InsertLimit DEF CreateProjectCrash
<1>5. ASSUME NEW v \in Users, NEW p \in Ids, Archive(v, p) \/ Restore(v, p)
      PROVE  LimitStep(u)
  BY <1>5, StatusLimit DEF Archive, Restore, MayManage
<1>6. ASSUME NEW v \in Users, NEW p \in Ids, HardDelete(v, p) \/ HardDeleteCrash(v, p)
      PROVE  LimitStep(u)
  BY <1>1, <1>6, DropLimit DEF HardDelete, HardDeleteCrash, registry
<1>7. ASSUME NEW v \in Users, DeleteAccount(v) \/ DeleteAccountCrash(v)
      PROVE  LimitStep(u)
  BY <1>7, DropLimit DEF DeleteAccount, DeleteAccountCrash
<1>8. ASSUME NEW v \in Users, NEW p \in Ids, Rename(v, p)
      PROVE  LimitStep(u)
  BY <1>1, <1>8 DEF Rename
<1>9. CASE UNCHANGED registry
  BY <1>1, <1>9 DEF registry
<1> QED
  BY <1>2, <1>3, <1>4, <1>5, <1>6, <1>7, <1>8, <1>9, AdoptLimit
     DEF Next, SignIn, SignInToOwn, SignInAtLimit, Manage, Select,
         Accounts, RemoveUser, IssueKey, RevokeKey, Scoped, Resolve, OpenData,
         Write, IssueScopedKey, RevokeScopedKey, Finish, Restart, vars

(* Only Ids bounds what a user may own, so every count is a number.        *)
LEMMA CountedFinite ==
  ASSUME NEW T \in SUBSET Ids
  PROVE  IsFiniteSet(T) /\ Cardinality(T) \in Nat
<1>1. IsFiniteSet(Ids)
  BY FS_Interval DEF Ids
<1>2. IsFiniteSet(T)
  BY <1>1, FS_Subset
<1> QED
  BY <1>2, FS_CardinalityType

(* No sequence of creating, archiving, restoring, renaming and deleting    *)
(* takes a user past the limit; only the rows adopted at sign-in come on   *)
(* top of it.                                                              *)
THEOREM LimitHolds == Spec => []ProjectLimit
<1>1. Init => ProjectLimit
  <2> SUFFICES ASSUME Init, NEW u \in Users
               PROVE  Cardinality(Owned(u) \ adopted) <= MaxProjects
    BY DEF ProjectLimit
  <2>1. Owned(u) \ adopted = {}
    BY DEF Init, Owned, Rows
  <2>2. Cardinality(Owned(u) \ adopted) = 0
    BY <2>1, FS_EmptySet
  <2> QED
    BY <2>2
<1>2. ASSUME TypeOK, ProjectLimit, [Next]_vars, NEW u \in Users
      PROVE  Cardinality(Counted(u)') <= MaxProjects
  <2>1. /\ Counted(u) \in SUBSET Ids /\ Counted(u)' \in SUBSET Ids
        /\ Owned(u) \in SUBSET Ids /\ Counted(u) \subseteq Owned(u)
    BY DEF Counted, Owned, Rows
  <2>2. /\ IsFiniteSet(Counted(u)) /\ IsFiniteSet(Owned(u))
        /\ Cardinality(Counted(u)) \in Nat /\ Cardinality(Counted(u)') \in Nat
        /\ Cardinality(Owned(u)) \in Nat
    BY <2>1, CountedFinite
  <2>3. Cardinality(Counted(u)) <= MaxProjects
    BY <1>2 DEF ProjectLimit, Counted
  <2>4. CASE Counted(u)' \subseteq Counted(u)
    BY <2>2, <2>3, <2>4, FS_Subset
  <2>5. ASSUME NEW p \in Ids, Cardinality(Owned(u)) < MaxProjects,
               Counted(u)' \subseteq Counted(u) \cup {p}
        PROVE  Cardinality(Counted(u)') <= MaxProjects
    <3>1. Cardinality(Counted(u)) <= Cardinality(Owned(u))
      BY <2>1, <2>2, FS_Subset
    <3>2. /\ IsFiniteSet(Counted(u) \cup {p})
          /\ Cardinality(Counted(u) \cup {p}) <= Cardinality(Counted(u)) + 1
          /\ Cardinality(Counted(u) \cup {p}) \in Nat
      <4>1. /\ IsFiniteSet(Counted(u) \cup {p})
            /\ Cardinality(Counted(u) \cup {p}) =
                 IF p \in Counted(u) THEN Cardinality(Counted(u))
                 ELSE Cardinality(Counted(u)) + 1
        BY <2>2, FS_AddElement
      <4> QED
        BY <2>2, <4>1
    <3>3. Cardinality(Counted(u)') <= Cardinality(Counted(u) \cup {p})
      BY <2>5, <3>2, FS_Subset
    <3> QED
      BY <2>2, <2>5, <3>1, <3>2, <3>3
  <2> QED
    BY <1>2, <2>4, <2>5, NextLimitStep DEF LimitStep, Count
<1>3. TypeOK /\ ProjectLimit /\ [Next]_vars => ProjectLimit'
  BY <1>2 DEF ProjectLimit, Counted
<1> QED
  BY <1>1, <1>3, TypeCorrect, PTL DEF Spec

-----------------------------------------------------------------------------
(* Keys of both planes.                                                    *)

(* A live key of a settled project names it by its uuid or its slug.       *)
KeyNames == \A k \in Keys : key[k] = "live" =>
  /\ madeFor[k] \in Ids /\ madeFor[k] <= next
  /\ madeFor[k] \in Settled => binding[k] \in {madeFor[k], slug[madeFor[k]]}

(* What a step does to keys and rows: rows go with their keys, a key is    *)
(* made, or keys are revoked.                                              *)
Removes == \E S : DropKeys(S) /\ DropRows(S)

Makes == \E k \in Keys, p \in Ids, b \in Slugs \cup Ids, pl \in {"legacy", "scoped"} :
  /\ StoreKey(k, p, b, pl)
  /\ p <= next' /\ b \in {p, slug'[p]}
  /\ Rows \subseteq Rows'

Revokes == /\ \A k \in Keys : key'[k] = "live" => key[k] = "live"
           /\ UNCHANGED <<binding, madeFor>>
           /\ Rows \subseteq Rows'

(* A settled project was settled before, under the same slug, or is new.   *)
StaysSettled == /\ next <= next'
                /\ \A p \in Settled' : p <= next => p \in Settled /\ slug'[p] = slug[p]

LEMMA InsertSettled ==
  ASSUME TypeOK, NEW p \in Ids, NEW u \in Users, NEW s \in Slugs, Insert(p, u, s)
  PROVE  /\ StaysSettled /\ Rows \subseteq Rows'
         /\ p <= next' /\ slug'[p] = s
<1>1. /\ p = next + 1 /\ next' = p /\ next \in 0 .. MaxIds
      /\ slug'[p] = s
      /\ \A q \in Ids \ {p} : slug'[q] = slug[q] /\ status'[q] = status[q]
      /\ renamed' = renamed
      /\ status'[p] = "active"
  BY DEF Insert, TypeOK
<1>2. \A q \in Ids : q <= next => q # p
  BY <1>1
<1>3. \A q \in Settled' : q <= next => q \in Settled /\ slug'[q] = slug[q]
  BY <1>1, <1>2 DEF Settled, Rows
<1>4. next <= next' /\ p <= next'
  BY <1>1
<1>5. Rows \subseteq Rows'
  BY <1>1 DEF Rows
<1> QED
  BY <1>1, <1>3, <1>4, <1>5 DEF StaysSettled

LEMMA DropSettled ==
  ASSUME TypeOK, NEW S, DropRows(S)
  PROVE  StaysSettled
BY DEF TypeOK, DropRows, StaysSettled, Settled, Rows

LEMMA SameSettled ==
  ASSUME TypeOK, UNCHANGED registry
  PROVE  StaysSettled /\ Rows' = Rows
BY DEF TypeOK, registry, StaysSettled, Settled, Rows

LEMMA NextKeyFate ==
  ASSUME DataInv, [Next]_vars
  PROVE  StaysSettled /\ (Removes \/ Makes \/ Revokes)
<1> DEFINE Fate == StaysSettled /\ (Removes \/ Makes \/ Revokes)
<1>0. TypeOK
  BY DEF DataInv
<1>1. ASSUME UNCHANGED keys, StaysSettled, Rows \subseteq Rows'
      PROVE  Fate
  BY <1>1 DEF Revokes, keys
<1>2. ASSUME NEW k \in Keys, key' = [key EXCEPT ![k] = "revoked"],
             UNCHANGED <<binding, madeFor>>, StaysSettled, Rows \subseteq Rows'
      PROVE  Fate
  BY <1>0, <1>2 DEF Revokes, TypeOK
<1>3. ASSUME NEW u \in Users, NEW p \in Ids, SignInCreate(u, p) \/ CreateProjectCrash(u, p)
      PROVE  Fate
  BY <1>0, <1>1, <1>3, InsertSettled DEF SignInCreate, CreateProjectCrash
<1>4. ASSUME NEW u \in Users, NEW p \in Ids, CreateProject(u, p)
      PROVE  Fate
  <2> PICK s \in Slugs : /\ Insert(p, u, s)
                         /\ \/ UNCHANGED keys
                            \/ \E k \in Keys : StoreKey(k, p, s, "legacy")
    BY <1>4 DEF CreateProject
  <2>1. StaysSettled /\ Rows \subseteq Rows' /\ p <= next' /\ slug'[p] = s
    BY <1>0, InsertSettled
  <2>2. ASSUME NEW k \in Keys, StoreKey(k, p, s, "legacy")
        PROVE  Makes
    BY <2>1, <2>2 DEF Makes
  <2> QED
    BY <1>1, <2>1, <2>2
<1>5. ASSUME NEW u \in Users, NEW p \in Ids,
             SignInAdopt(u, p) \/ Archive(u, p) \/ Restore(u, p)
      PROVE  Fate
  <2>1. /\ p \in Rows /\ UNCHANGED <<next, slug, renamed, keys>>
        /\ \E st \in {"active", "archived"} : status' = [status EXCEPT ![p] = st]
    BY <1>5 DEF SignInAdopt, Orphans, Archive, Restore, MayManage
  <2>2. Rows' = Rows
    BY <1>0, <2>1 DEF Rows, TypeOK
  <2>3. StaysSettled
    BY <1>0, <2>1, <2>2 DEF StaysSettled, Settled, TypeOK
  <2> QED
    BY <1>1, <2>1, <2>2, <2>3
<1>6. ASSUME NEW u \in Users, NEW p \in Ids, Rename(u, p)
      PROVE  Fate
  <2>1. PICK s \in Slugs : /\ slug' = [slug EXCEPT ![p] = s]
                           /\ renamed' = IF s = slug[p] THEN renamed ELSE renamed \cup {p}
    BY <1>6 DEF Rename
  <2>2. UNCHANGED <<next, status, keys>> /\ Rows' = Rows
    BY <1>6 DEF Rename, Rows
  <2>3. StaysSettled
    BY <1>0, <2>1, <2>2 DEF StaysSettled, Settled, TypeOK, Rows
  <2> QED
    BY <1>1, <2>2, <2>3
<1>7. ASSUME NEW S, DropKeys(S), DropRows(S)
      PROVE  Fate
  BY <1>0, <1>7, DropSettled DEF Removes
<1>8. ASSUME NEW S, DropKeys(S), UNCHANGED registry
      PROVE  Fate
  <2>1. Revokes
    BY <1>0, <1>8, SameSettled DEF Revokes, DropKeys
  <2> QED
    BY <1>0, <1>8, <2>1, SameSettled
<1>9. ASSUME NEW u \in Users, NEW p \in Ids, HardDelete(u, p) \/ HardDeleteCrash(u, p)
      PROVE  Fate
  BY <1>7, <1>8, <1>9 DEF HardDelete, HardDeleteCrash
<1>10. ASSUME NEW u \in Users, DeleteAccount(u) \/ DeleteAccountCrash(u)
       PROVE  Fate
  BY <1>7, <1>10 DEF DeleteAccount, DeleteAccountCrash
<1>11. ASSUME NEW u \in Users, NEW p \in Ids, NEW k \in Keys, IssueKey(u, p, k)
       PROVE  Fate
  <2>1. StoreKey(k, p, p, "legacy") /\ p \in Rows /\ UNCHANGED registry
    BY <1>11 DEF IssueKey, MayManage
  <2>2. p <= next'
    BY <1>0, <2>1 DEF TypeOK, Rows, registry
  <2>3. Makes
    BY <1>0, <2>1, <2>2, SameSettled DEF Makes
  <2> QED
    BY <1>0, <2>1, <2>3, SameSettled
<1>12. ASSUME NEW r \in Requests, NEW k \in Keys, IssueScopedKey(r, k)
       PROVE  Fate
  <2>1. StoreKey(k, ctx[r].id, ctx[r].id, "scoped") /\ UNCHANGED registry
    BY <1>12 DEF IssueScopedKey
  <2>2. ctx[r].id \in Ids /\ ctx[r].id <= next'
    BY <1>0, <1>12, <2>1
       DEF IssueScopedKey, Opened, TypeOK, Contexts, DataInv, ContextCurrent, registry
  <2>3. Makes
    BY <1>0, <2>1, <2>2, SameSettled DEF Makes
  <2> QED
    BY <1>0, <2>1, <2>3, SameSettled
<1>13. ASSUME NEW k \in Keys, key' = [key EXCEPT ![k] = "revoked"],
              UNCHANGED <<registry, binding, madeFor>>
       PROVE  Fate
  BY <1>0, <1>2, <1>13, SameSettled
<1>14. CASE UNCHANGED <<registry, keys>>
  BY <1>0, <1>1, <1>14, SameSettled
<1>15. CASE SignIn
  BY <1>3, <1>5, <1>14, <1>15 DEF SignIn, SignInToOwn, SignInAtLimit
<1>16. CASE Manage
  BY <1>3, <1>4, <1>5, <1>6, <1>9, <1>14, <1>16 DEF Manage, Select
<1>17. CASE Accounts
  BY <1>10, <1>11, <1>13, <1>14, <1>17 DEF Accounts, RemoveUser, RevokeKey
<1>18. CASE Scoped
  BY <1>12, <1>13, <1>14, <1>18
     DEF Scoped, Resolve, OpenData, Write, RevokeScopedKey, Finish
<1>19. CASE Restart \/ UNCHANGED vars
  BY <1>14, <1>19 DEF Restart, vars
<1> QED
  BY <1>15, <1>16, <1>17, <1>18, <1>19 DEF Next

LEMMA NextKeyNames ==
  ASSUME DataInv, KeyNames, [Next]_vars
  PROVE  KeyNames'
<1>0. /\ TypeOK /\ StaysSettled
      /\ Removes \/ Makes \/ Revokes
  BY NextKeyFate DEF DataInv
<1>1. ASSUME NEW k \in Keys, key[k] = "live", madeFor'[k] = madeFor[k], binding'[k] = binding[k]
      PROVE  /\ madeFor'[k] \in Ids /\ madeFor'[k] <= next'
             /\ madeFor'[k] \in Settled' => binding'[k] \in {madeFor'[k], slug'[madeFor'[k]]}
  <2>1. madeFor[k] \in Ids /\ madeFor[k] <= next
    BY <1>1 DEF KeyNames
  <2>2. madeFor[k] <= next'
    <3>1. next \in Int /\ next' \in Int
      BY <1>0, NextTypeOK DEF TypeOK
    <3> QED
      BY <1>0, <2>1, <3>1 DEF StaysSettled, Ids
  <2> QED
    BY <1>0, <1>1, <2>1, <2>2 DEF KeyNames, StaysSettled
<1>2. CASE Removes
  BY <1>0, <1>1, <1>2 DEF Removes, DropKeys, KeyNames
<1>3. CASE Revokes
  BY <1>1, <1>3 DEF Revokes, KeyNames
<1>4. ASSUME NEW k \in Keys, NEW p \in Ids, NEW b \in Slugs \cup Ids,
             NEW pl \in {"legacy", "scoped"}, StoreKey(k, p, b, pl),
             p <= next', b \in {p, slug'[p]}
      PROVE  KeyNames'
  <2>1. /\ madeFor'[k] = p /\ binding'[k] = b
        /\ \A j \in Keys \ {k} : /\ key'[j] = key[j] /\ madeFor'[j] = madeFor[j]
                                 /\ binding'[j] = binding[j]
    BY <1>0, <1>4 DEF StoreKey, TypeOK
  <2> QED
    BY <1>1, <1>4, <2>1 DEF KeyNames
<1> QED
  BY <1>0, <1>2, <1>3, <1>4 DEF Makes

(* Whatever path a project is deleted by, the keys that were issued for it *)
(* go first: by uuid, and by slug as long as it has the slug it began with.*)
THEOREM KeysDie == Spec => KeysDieWithProject
<1>1. Init => KeyNames
  BY DEF Init, KeyNames
<1>2. ASSUME DataInv, KeyNames, [Next]_vars, NEW p \in Rows \ renamed, NEW k \in Keys,
             status'[p] = "none", madeFor'[k] = p
      PROVE  key'[k] # "live"
  <2>1. /\ TypeOK /\ (Removes \/ Makes \/ Revokes)
    BY <1>2, NextKeyFate DEF DataInv
  <2>2. p \notin Rows' /\ p \in Rows /\ p \in Settled
    BY <1>2 DEF Rows, Settled
  <2>3. PICK S : DropKeys(S) /\ DropRows(S)
    BY <2>1, <2>2 DEF Removes, Makes, Revokes
  <2>4. p \in S
    BY <1>2, <2>3, <2>2 DEF DropRows, Rows
  <2>5. key[k] = "live" => binding[k] \in {p, slug[p]}
    BY <1>2, <2>2, <2>3 DEF DropKeys, KeyNames
  <2> QED
    BY <2>3, <2>4, <2>5 DEF DropKeys
<1>3. DataInv /\ KeyNames /\ [Next]_vars =>
        [\A p \in Rows \ renamed, k \in Keys :
           status'[p] = "none" /\ madeFor'[k] = p => key'[k] # "live"]_vars
  BY <1>2
<1>4. DataInv /\ KeyNames /\ [Next]_vars => KeyNames'
  BY NextKeyNames
<1> QED
  BY <1>1, <1>3, <1>4, InitDataInv, NextDataInv, PTL DEF Spec, KeysDieWithProject

-----------------------------------------------------------------------------
(* What an account leaves behind.                                          *)

(* An active project of v was one before, or v is there to have it.        *)
LifeStep(v) == account'[v] = "deleted" /\ account[v] = "deleted" => ActiveOf(v)' \subseteq ActiveOf(v)

LEMMA InsertLife ==
  ASSUME TypeOK, NEW u \in Users, NEW p \in Ids, NEW s \in Slugs, Insert(p, u, s),
         NEW v \in Users \ {u}
  PROVE  ActiveOf(v)' \subseteq ActiveOf(v)
BY DEF Insert, ActiveOf, Owned, Rows, TypeOK

LEMMA NextLifeStep ==
  ASSUME TypeOK, [Next]_vars, NEW v \in Users
  PROVE  LifeStep(v)
<1>1. CASE UNCHANGED <<status, owner>>
  BY <1>1 DEF LifeStep, ActiveOf, Owned, Rows
<1>2. ASSUME NEW u \in Users, NEW p \in Ids, SignInAdopt(u, p)
      PROVE  LifeStep(v)
  <2>1. CASE u = v
    BY <1>2, <2>1 DEF SignInAdopt, SignsIn, LifeStep
  <2>2. CASE u # v
    BY <1>2, <2>2 DEF SignInAdopt, LifeStep, ActiveOf, Owned, Rows, Orphans, TypeOK
  <2> QED
    BY <2>1, <2>2
<1>3. ASSUME NEW u \in Users, NEW p \in Ids,
             SignInCreate(u, p) \/ CreateProject(u, p) \/ CreateProjectCrash(u, p)
      PROVE  LifeStep(v)
  <2>1. account[u] # "deleted" /\ \E s \in Slugs : Insert(p, u, s)
    BY <1>3 DEF SignInCreate, SignsIn, CreateProject, CreateProjectCrash
  <2> QED
    BY <2>1, InsertLife DEF LifeStep
<1>4. ASSUME NEW u \in Users, NEW p \in Ids, Restore(u, p)
      PROVE  LifeStep(v)
  <2>1. account[u] = "live" /\ owner[p] \in {u, None} /\ v # None
    BY <1>4 DEF Restore, MayManage
  <2> QED
    BY <1>4, <2>1 DEF Restore, LifeStep, ActiveOf, Owned, Rows, TypeOK
<1>5. ASSUME NEW u \in Users, NEW p \in Ids, Archive(u, p)
      PROVE  LifeStep(v)
  BY <1>5 DEF Archive, MayManage, LifeStep, ActiveOf, Owned, Rows, TypeOK
<1>6. ASSUME NEW S, DropRows(S)
      PROVE  LifeStep(v)
  BY <1>6 DEF DropRows, LifeStep, ActiveOf, Owned, Rows, TypeOK
<1> QED
  BY <1>1, <1>2, <1>3, <1>4, <1>5, <1>6
     DEF Next, SignIn, SignInToOwn, SignInAtLimit, Manage, Select, Rename, HardDelete,
         HardDeleteCrash, Accounts, DeleteAccount, DeleteAccountCrash, RemoveUser,
         IssueKey, RevokeKey, Scoped, Resolve, OpenData, Write, IssueScopedKey,
         RevokeScopedKey, Finish, Restart, registry, vars

(* Only delete_account makes an account "deleted", once its projects went. *)
LEMMA NextGone ==
  ASSUME TypeOK, [Next]_vars, NEW v \in Users, account[v] # "deleted", account'[v] = "deleted"
  PROVE  ActiveOf(v)' = {}
<1>1. DeleteAccount(v)
  <2>1. ASSUME NEW u \in Users, SignsIn(u)
        PROVE  FALSE
    BY <2>1 DEF SignsIn, TypeOK
  <2>2. ASSUME NEW u \in Users, Leave(u, "deleted")
        PROVE  u = v
    BY <2>2 DEF Leave, TypeOK
  <2>3. ASSUME NEW u \in Users, RemoveUser(u)
        PROVE  FALSE
    BY <2>3 DEF RemoveUser, Leave, TypeOK
  <2> QED
    BY <2>1, <2>2, <2>3
       DEF Next, SignIn, SignInToOwn, SignInAdopt, SignInCreate, SignInAtLimit, Manage,
           CreateProject, CreateProjectCrash, Select, Rename, Archive, Restore,
           HardDelete, HardDeleteCrash, Accounts, DeleteAccount, DeleteAccountCrash,
           IssueKey, RevokeKey, Scoped, Resolve, OpenData, Write, IssueScopedKey,
           RevokeScopedKey, Finish, Restart, people, vars
<1> QED
  BY <1>1 DEF DeleteAccount, DropRows, ActiveOf, Owned, Rows, TypeOK

(* After the deletion of an account, whatever else happens, none of its    *)
(* projects is active: only those it had archived are left.                *)
THEOREM NothingActiveStays == Spec => []OnlyArchivedStay
<1>1. Init => OnlyArchivedStay
  BY DEF Init, OnlyArchivedStay
<1>2. TypeOK /\ OnlyArchivedStay /\ [Next]_vars => OnlyArchivedStay'
  BY NextLifeStep, NextGone DEF OnlyArchivedStay, LifeStep
<1> QED
  BY <1>1, <1>2, TypeCorrect, PTL DEF Spec

=============================================================================
