-------------------------- MODULE ProjectRegistry --------------------------
(***************************************************************************)
(* The multi-project registry: the rows of `projects', `users' and         *)
(* `api_keys' in the meta database, the SQLite files under data/projects,  *)
(* and the project-scoped requests that use them.  backend/core/           *)
(* projects.py, backend/api/{projects,project_deps,apikeys,auth}.py.       *)
(*                                                                         *)
(* A management handler is an `async def' that never awaits between its    *)
(* database calls: it is one action.  A project-scoped request is three:   *)
(* get_project_context resolves the row and opens the file in a thread of  *)
(* the pool (Resolve, OpenData), the handler runs later on the event loop, *)
(* with the row it was given (Write, IssueScopedKey, RevokeScopedKey).     *)
(*                                                                         *)
(* Abstractions: a project's uuid is its rank in creation order; uuids and *)
(* slugs are disjoint; project_id is always equal to slug and the two are  *)
(* one variable; names, intervals and time stamps are left out.            *)
(***************************************************************************)
EXTENDS Integers, Sequences, FiniteSets

CONSTANTS Users, Keys, Requests,
          Slugs,
          Default,      \* the slug "default"
          Variants,     \* Variants[base]: base, base-2, base-3, ... of _unique_slug
          MaxProjects,  \* MAX_PROJECTS_PER_USER
          MaxIds,       \* bound: project rows ever inserted
          MaxOrphans,   \* bound: rows that predate owner_id (migration 0006)
          AdoptionMap,  \* the slugs that LEGACY_ADOPTION_MAP names
          Meta,         \* the meta database file
          Lost,         \* an open connection to a file that has been unlinked
          None

Ids == 1 .. MaxIds

ASSUME RegistryAssumption ==
  /\ MaxProjects \in Nat /\ MaxIds \in Nat /\ MaxOrphans \in Nat
  /\ MaxOrphans <= MaxIds
  /\ Default \in Slugs /\ AdoptionMap \in SUBSET Slugs
  /\ Variants \in [Slugs -> Seq(Slugs)]
  /\ None \notin Users \cup Slugs \cup Ids \cup Keys
  /\ Meta \notin Ids /\ Lost \notin Ids /\ Meta # Lost /\ None \notin {Meta, Lost}
  /\ Slugs \cap Ids = {}

VARIABLES
  account,  \* account[u]: "new", "live", "deleted" (by its owner), "removed" (by an admin)
  last,     \* users.last_project_id
  next,     \* project rows inserted so far
  status,   \* projects.status, "none" when there is no row
  slug,     \* projects.slug = projects.project_id
  owner,    \* projects.owner_id, None for NULL
  file,     \* file[p]: data/projects/p.db
  rows,     \* rows[f]: the projects whose requests have written rows file f holds
  split,    \* history: the Defaults that a start has given a file of their own
  key,      \* api_keys: "none" (no row), "live", "revoked"
  binding,  \* api_keys.project_id: a slug or a uuid
  plane,    \* api_keys.plane
  madeFor,  \* history: the project the key was created for
  ctx,      \* ctx[r]: the project context of request r, None when it has none
  renamed,  \* history: the rows whose slug has been changed
  adopted   \* history: the rows that came to their owner by adoption

people == <<account, last>>
registry == <<next, status, slug, owner, renamed, adopted>>
data == <<file, rows, split>>
keys == <<key, binding, plane, madeFor>>
vars == <<people, registry, data, keys, ctx>>

FileStates == {"absent", "present", "unlinked"}

Contexts == [id : Ids, slug : Slugs, file : Ids \cup {Meta, Lost, None}]

(* The shape of the state.                                                 *)
TypeOK ==
  /\ account \in [Users -> {"new", "live", "deleted", "removed"}]
  /\ last \in [Users -> Ids \cup {None}]
  /\ next \in 0 .. MaxIds
  /\ status \in [Ids -> {"none", "active", "archived"}]
  /\ slug \in [Ids -> Slugs \cup {None}]
  /\ owner \in [Ids -> Users \cup {None}]
  /\ file \in [Ids -> FileStates]
  /\ rows \in [Ids \cup {Meta} -> SUBSET Ids]
  /\ split \in SUBSET Ids
  /\ key \in [Keys -> {"none", "live", "revoked"}]
  /\ binding \in [Keys -> Slugs \cup Ids \cup {None}]
  /\ plane \in [Keys -> {"legacy", "scoped"}]
  /\ madeFor \in [Keys -> Ids \cup {None}]
  /\ ctx \in [Requests -> Contexts \cup {None}]
  /\ renamed \in SUBSET Ids
  /\ adopted \in SUBSET Ids
  /\ \A p \in Ids : status[p] = "none" <=> slug[p] = None
  /\ \A p \in Ids : status[p] # "none" => p <= next

-----------------------------------------------------------------------------
(* Queries.                                                                *)

Rows == {p \in Ids : status[p] # "none"}

Owned(u) == {p \in Rows : owner[p] = u}

ActiveOf(u) == {p \in Owned(u) : status[p] = "active"}

(* Mutant: the projects of a removed user are up for adoption.             *)
OrphansOfRemoved == {p \in Rows : owner[p] = None \/ account[owner[p]] = "removed"}

Orphans == {p \in Rows : owner[p] = None}

(* Mutant: an archived project does not count.                             *)
CountActive(u) == Cardinality(ActiveOf(u))

Count(u) == Cardinality(Owned(u))

(* The handlers refuse a project of another user; one without an owner is  *)
(* anybody's.                                                              *)
MayManage(u, p) == account[u] = "live" /\ p \in Rows /\ owner[p] \in {u, None}

Taken(s, p) == \E q \in Rows \ {p} : slug[q] = s

(* _unique_slug: the first free candidate, for a new row or for row p.     *)
FreeVariants(base, p) == {i \in DOMAIN Variants[base] : ~Taken(Variants[base][i], p)}

IsUniqueSlug(base, p, s) ==
  \E i \in FreeVariants(base, p) :
    s = Variants[base][i] /\ \A j \in FreeVariants(base, p) : i <= j

(* Mutant: Default is not asked for its slug.                              *)
NoFileMeansMeta(s, p) == file[p] # "present"

IsLegacyDefault(s, p) == s = Default /\ file[p] # "present"

(* The file open_data_db_for_project opens for project p, given the slug   *)
(* of the row it was handed.                                               *)
DataFile(s, p) == IF IsLegacyDefault(s, p) THEN Meta ELSE p

-----------------------------------------------------------------------------
Init ==
  /\ account = [u \in Users |-> "new"]
  /\ last = [u \in Users |-> None]
  /\ next \in 0 .. MaxOrphans
  /\ status = [p \in Ids |-> IF p <= next THEN "active" ELSE "none"]
  /\ \E s \in [Ids -> Slugs] :
       /\ \A p, q \in 1 .. next : s[p] = s[q] => p = q
       /\ slug = [p \in Ids |-> IF p <= next THEN s[p] ELSE None]
  /\ owner = [p \in Ids |-> None]
  /\ file = [p \in Ids |-> "absent"]
  /\ rows = [f \in Ids \cup {Meta} |-> {}]
  /\ split = {}
  /\ key = [k \in Keys |-> "none"]
  /\ binding = [k \in Keys |-> None]
  /\ plane = [k \in Keys |-> "legacy"]
  /\ madeFor = [k \in Keys |-> None]
  /\ ctx = [r \in Requests |-> None]
  /\ renamed = {}
  /\ adopted = {}

Insert(p, u, s) ==
  /\ p = next + 1
  /\ p <= MaxIds
  /\ next' = p
  /\ status' = [status EXCEPT ![p] = "active"]
  /\ slug' = [slug EXCEPT ![p] = s]
  /\ owner' = [owner EXCEPT ![p] = u]
  /\ UNCHANGED <<renamed, adopted>>

-----------------------------------------------------------------------------
(* Signup, and login with a password: ensure_default_project.              *)

SignsIn(u) ==
  /\ account[u] \in {"new", "live"}
  /\ account' = [account EXCEPT ![u] = "live"]

(* list_projects_for_owner orders by creation.                             *)
SignInToOwn(u, p) ==
  /\ SignsIn(u)
  /\ p \in ActiveOf(u)
  /\ \A q \in ActiveOf(u) : p <= q
  /\ last' = [last EXCEPT ![u] = p]
  /\ UNCHANGED <<registry, data, keys, ctx>>

SignInAdopt(u, p) ==
  /\ SignsIn(u)
  /\ ActiveOf(u) = {}
  /\ p \in Orphans
  /\ owner' = [owner EXCEPT ![p] = u]
  /\ status' = [status EXCEPT ![p] = "active"]
  /\ last' = [last EXCEPT ![u] = p]
  /\ adopted' = adopted \cup {p}
  /\ UNCHANGED <<next, slug, renamed, data, keys, ctx>>

(* create_project(use_meta_db=True): no file is made.                      *)
SignInCreate(u, p) ==
  /\ SignsIn(u)
  /\ ActiveOf(u) = {} /\ Orphans = {}
  /\ Count(u) < MaxProjects
  /\ \E s \in Slugs : Insert(p, u, s) /\ IsUniqueSlug(Default, p, s)
  /\ last' = [last EXCEPT ![u] = p]
  /\ UNCHANGED <<data, keys, ctx>>

(* The handler swallows "project limit reached".                           *)
SignInAtLimit(u) ==
  /\ SignsIn(u)
  /\ ActiveOf(u) = {} /\ Orphans = {}
  /\ Count(u) >= MaxProjects
  /\ UNCHANGED <<last, registry, data, keys, ctx>>

SignIn == \E u \in Users :
            \/ SignInAtLimit(u)
            \/ \E p \in Ids : SignInToOwn(u, p) \/ SignInAdopt(u, p) \/ SignInCreate(u, p)

-----------------------------------------------------------------------------
(* Project management.                                                     *)

(* A new process: no request in flight, no pooled connection.  The files   *)
(* in gone were unlinked before the last one stopped.  run_legacy_adoption *)
(* opens, and so creates, the file of a project the map names, Default's   *)
(* too; what Default has in the meta database does not move with it.  The  *)
(* marker that ends the adoption of a slug is in StartUp.                  *)
Restarted(gone) ==
  /\ ctx' = [r \in Requests |-> None]
  /\ \E made \in SUBSET {p \in Ids : status'[p] # "none" /\ slug'[p] \in AdoptionMap} :
       /\ file' = [p \in Ids |->
                     IF p \in made THEN "present"
                     ELSE IF p \in gone \/ file[p] = "unlinked" THEN "absent" ELSE file[p]]
       /\ split' = split \cup {p \in made : IsLegacyDefault(slug'[p], p)}

StoreKey(k, p, b, pl) ==
  /\ key[k] = "none" /\ binding[k] = None
  /\ key' = [key EXCEPT ![k] = "live"]
  /\ binding' = [binding EXCEPT ![k] = b]
  /\ plane' = [plane EXCEPT ![k] = pl]
  /\ madeFor' = [madeFor EXCEPT ![k] = p]

(* The row, last_project_id, the file, then a first key bound to the slug. *)
(* An error at the file or at the key answers 500 and undoes nothing.      *)
CreateProject(u, p) ==
  /\ account[u] = "live"
  /\ Count(u) < MaxProjects
  /\ last' = [last EXCEPT ![u] = p]
  /\ \E base, s \in Slugs :
       /\ Insert(p, u, s)
       /\ IsUniqueSlug(base, p, s)
       /\ \/ UNCHANGED <<file, keys>>
          \/ /\ file' = [file EXCEPT ![p] = "present"]
             /\ UNCHANGED keys
          \/ /\ file' = [file EXCEPT ![p] = "present"]
             /\ \E k \in Keys : StoreKey(k, p, s, "legacy")
  /\ UNCHANGED <<account, rows, split, ctx>>

(* The process stops after the INSERT.                                     *)
CreateProjectCrash(u, p) ==
  /\ account[u] = "live"
  /\ Count(u) < MaxProjects
  /\ \E base, s \in Slugs : Insert(p, u, s) /\ IsUniqueSlug(base, p, s)
  /\ Restarted({})
  /\ UNCHANGED <<people, rows, keys>>

Select(u, p) ==
  /\ MayManage(u, p)
  /\ last' = [last EXCEPT ![u] = p]
  /\ UNCHANGED <<account, registry, data, keys, ctx>>

(* update_project with a slug.                                             *)
Rename(u, p) ==
  /\ MayManage(u, p)
  /\ \E base, s \in Slugs : /\ IsUniqueSlug(base, p, s)
                            /\ slug' = [slug EXCEPT ![p] = s]
                            /\ renamed' = IF s = slug[p] THEN renamed ELSE renamed \cup {p}
  /\ UNCHANGED <<people, next, status, owner, adopted, data, keys, ctx>>

Archive(u, p) ==
  /\ MayManage(u, p)
  /\ status' = [status EXCEPT ![p] = "archived"]
  /\ UNCHANGED <<people, next, slug, owner, renamed, adopted, data, keys, ctx>>

Restore(u, p) ==
  /\ MayManage(u, p)
  /\ status[p] = "archived"
  /\ status' = [status EXCEPT ![p] = "active"]
  /\ UNCHANGED <<people, next, slug, owner, renamed, adopted, data, keys, ctx>>

(* Mutant: only the keys that name the slug.                               *)
DropSlugKeys(S) ==
  /\ key' = [k \in Keys |-> IF \E p \in S : binding[k] = slug[p]
                            THEN "none" ELSE key[k]]
  /\ UNCHANGED <<binding, plane, madeFor>>

(* Mutant: only the keys that name the uuid.                               *)
DropUuidKeys(S) ==
  /\ key' = [k \in Keys |-> IF binding[k] \in S THEN "none" ELSE key[k]]
  /\ UNCHANGED <<binding, plane, madeFor>>

(* DELETE FROM api_keys WHERE project_id is the project's slug or uuid.    *)
DropKeys(S) ==
  /\ key' = [k \in Keys |-> IF \E p \in S : binding[k] \in {p, slug[p]}
                            THEN "none" ELSE key[k]]
  /\ UNCHANGED <<binding, plane, madeFor>>

(* Mutant: the row keeps its slug.                                         *)
DropRowsKeepSlug(S) ==
  /\ status' = [p \in Ids |-> IF p \in S THEN "none" ELSE status[p]]
  /\ owner' = [p \in Ids |-> IF p \in S THEN None ELSE owner[p]]
  /\ renamed' = renamed \ S
  /\ adopted' = adopted \ S
  /\ UNCHANGED <<next, slug>>

DropRows(S) ==
  /\ status' = [p \in Ids |-> IF p \in S THEN "none" ELSE status[p]]
  /\ slug' = [p \in Ids |-> IF p \in S THEN None ELSE slug[p]]
  /\ owner' = [p \in Ids |-> IF p \in S THEN None ELSE owner[p]]
  /\ renamed' = renamed \ S
  /\ adopted' = adopted \ S
  /\ UNCHANGED next

(* path.unlink(): a request that has the file open keeps the dead inode.   *)
Unlink(S) ==
  LET gone == {p \in S : file[p] = "present"} IN
  /\ file' = [p \in Ids |-> IF p \in gone THEN "unlinked" ELSE file[p]]
  /\ rows' = [f \in Ids \cup {Meta} |-> IF f \in gone THEN {} ELSE rows[f]]
  /\ ctx' = [r \in Requests |->
               IF ctx[r] # None /\ ctx[r].file \in gone
               THEN [ctx[r] EXCEPT !.file = Lost] ELSE ctx[r]]
  /\ UNCHANGED split

(* The guard of hard_delete_project: an active row is taken off the        *)
(* caller's count whoever owns it.                                         *)
KeepsOneActive(u, p) ==
  Cardinality(ActiveOf(u)) - (IF status[p] = "active" THEN 1 ELSE 0) >= 1

(* The last disjunct is an OSError at unlink(), logged and ignored.        *)
HardDelete(u, p) ==
  /\ MayManage(u, p)
  /\ KeepsOneActive(u, p)
  /\ DropKeys({p})
  /\ DropRows({p})
  /\ Unlink({p}) \/ UNCHANGED <<data, ctx>>
  /\ UNCHANGED people

(* The process stops between the statements, which commit one by one.      *)
HardDeleteCrash(u, p) ==
  /\ MayManage(u, p)
  /\ KeepsOneActive(u, p)
  /\ DropKeys({p})
  /\ UNCHANGED registry \/ DropRows({p})
  /\ Restarted({})
  /\ UNCHANGED <<people, rows>>

Manage == \E u \in Users, p \in Ids :
            \/ CreateProject(u, p) \/ Select(u, p) \/ Rename(u, p)
            \/ Archive(u, p) \/ Restore(u, p)
            \/ HardDelete(u, p) \/ HardDeleteCrash(u, p)
            \/ CreateProjectCrash(u, p)

-----------------------------------------------------------------------------
(* Leaving.                                                                *)

Leave(u, how) ==
  /\ account[u] = "live"
  /\ account' = [account EXCEPT ![u] = how]
  /\ last' = [last EXCEPT ![u] = None]

(* delete_account: list_projects_for_owner, hard_delete_project(force) on  *)
(* each.  Revoking the keys that name those projects finds none left.      *)
DeleteAccount(u) ==
  /\ Leave(u, "deleted")
  /\ DropKeys(ActiveOf(u))
  /\ DropRows(ActiveOf(u))
  /\ Unlink(ActiveOf(u))

(* The process stops in the loop, which goes from the oldest project on.   *)
DeleteAccountCrash(u) ==
  /\ account[u] = "live"
  /\ \E n \in ActiveOf(u) :
       LET done == {p \in ActiveOf(u) : p <= n} IN
       /\ DropKeys(done)
       /\ DropRows(done)
       /\ Restarted(done)
       /\ rows' = [f \in Ids \cup {Meta} |-> IF f \in done THEN {} ELSE rows[f]]
  /\ UNCHANGED people

(* An administrator's DELETE /users/{id}: the row alone.                   *)
RemoveUser(u) ==
  /\ Leave(u, "removed")
  /\ UNCHANGED <<registry, data, keys, ctx>>

-----------------------------------------------------------------------------
(* API keys.                                                               *)

IssueKey(u, p, k) ==
  /\ MayManage(u, p)
  /\ StoreKey(k, p, p, "legacy")
  /\ UNCHANGED <<people, registry, data, ctx>>

(* The key's binding has to resolve to a project of the caller.            *)
RevokeKey(u, k) ==
  /\ key[k] # "none"
  /\ \E p \in Rows : binding[k] \in {p, slug[p]} /\ MayManage(u, p)
  /\ key' = [key EXCEPT ![k] = "revoked"]
  /\ UNCHANGED <<people, registry, data, binding, plane, madeFor, ctx>>

-----------------------------------------------------------------------------
(* Project-scoped requests.                                                *)

Resolve(r, p) ==
  /\ ctx[r] = None
  /\ status[p] = "active"
  /\ ctx' = [ctx EXCEPT ![r] = [id |-> p, slug |-> slug[p], file |-> None]]
  /\ UNCHANGED <<people, registry, data, keys>>

(* Mutant: the dedicated file is created before the Default check uses it. *)
OpenDataTouches(r) ==
  /\ ctx[r] # None /\ ctx[r].file = None
  /\ ctx' = [ctx EXCEPT ![r].file = DataFile(ctx[r].slug, ctx[r].id)]
  /\ file' = [file EXCEPT ![ctx[r].id] = "present"]
  /\ UNCHANGED <<people, registry, rows, split, keys>>

(* The file is created if it is missing.  After an unlink the pool may     *)
(* still have a connection for the path, to the dead inode.                *)
OpenData(r) ==
  /\ ctx[r] # None /\ ctx[r].file = None
  /\ LET f == DataFile(ctx[r].slug, ctx[r].id) IN
     \/ /\ ctx' = [ctx EXCEPT ![r].file = f]
        /\ file' = [p \in Ids |-> IF p = f THEN "present" ELSE file[p]]
     \/ /\ f # Meta /\ file[f] = "unlinked"
        /\ ctx' = [ctx EXCEPT ![r].file = Lost]
        /\ UNCHANGED file
  /\ UNCHANGED <<people, registry, rows, split, keys>>

Opened(r) == ctx[r] # None /\ ctx[r].file # None

Write(r) ==
  /\ Opened(r) /\ ctx[r].file # Lost
  /\ rows' = [rows EXCEPT ![ctx[r].file] = @ \cup {ctx[r].id}]
  /\ UNCHANGED <<people, registry, file, split, keys, ctx>>

IssueScopedKey(r, k) ==
  /\ Opened(r)
  /\ StoreKey(k, ctx[r].id, ctx[r].id, "scoped")
  /\ UNCHANGED <<people, registry, data, ctx>>

RevokeScopedKey(r, k) ==
  /\ Opened(r)
  /\ key[k] # "none"
  /\ binding[k] \in {ctx[r].id, ctx[r].slug}
  /\ key' = [key EXCEPT ![k] = "revoked"]
  /\ UNCHANGED <<people, registry, data, binding, plane, madeFor, ctx>>

Finish(r) ==
  /\ Opened(r)
  /\ ctx' = [ctx EXCEPT ![r] = None]
  /\ UNCHANGED <<people, registry, data, keys>>

Restart ==
  /\ UNCHANGED <<people, registry, rows, keys>>
  /\ Restarted({})

Scoped == \E r \in Requests :
            \/ OpenData(r) \/ Write(r) \/ Finish(r)
            \/ \E p \in Ids : Resolve(r, p)
            \/ \E k \in Keys : IssueScopedKey(r, k) \/ RevokeScopedKey(r, k)

Accounts == \E u \in Users :
              \/ DeleteAccount(u) \/ DeleteAccountCrash(u) \/ RemoveUser(u)
              \/ \E k \in Keys : RevokeKey(u, k) \/ \E p \in Ids : IssueKey(u, p, k)

Next == SignIn \/ Manage \/ Accounts \/ Scoped \/ Restart

Spec == Init /\ [][Next]_vars

-----------------------------------------------------------------------------
(* project_deps.py, "Isolation rules": two projects never resolve to the   *)
(* same database file, whatever has been created, adopted, renamed,        *)
(* archived, restored and deleted.                                         *)
FilesIsolated ==
  \A p, q \in Rows : DataFile(slug[p], p) = DataFile(slug[q], q) => p = q

(* MAX_PROJECTS_PER_USER: archiving and restoring never takes a user past  *)
(* the limit, with only the rows adopted at sign-in on top of it.          *)
ProjectLimit == \A u \in Users : Cardinality(Owned(u) \ adopted) <= MaxProjects

(* A key issued on the unscoped plane names its project by uuid and is     *)
(* gone with it, whatever the project was called in between.               *)
LegacyKeysDieWithProject ==
  \A k \in Keys : key[k] = "live" /\ plane[k] = "legacy" /\ binding[k] \in Ids
                    => binding[k] \in Rows

(* ARCHITECTURE.md 4b: "Keys for that project are removed explicitly       *)
(* before the project row".  A deletion leaves no key that was issued for  *)
(* the project, by slug or uuid, on either plane, as long as it has its    *)
(* first slug; the keys of one that was renamed may name the old slug.     *)
KeysDieWithProject ==
  [][\A p \in Rows \ renamed, k \in Keys :
       status'[p] = "none" /\ madeFor'[k] = p => key'[k] # "live"]_vars

(* A project that has an owner never changes hands: signing in adopts      *)
(* none but the rows without one, also after an owner has left.            *)
ProjectsStayWithOwner ==
  [][\A p \in Rows : owner[p] # None /\ status'[p] # "none"
                         => owner'[p] = owner[p]]_vars

(* hard_delete_project: "full account deletion, where every project must   *)
(* go".  A user who deleted the account owns no project.                   *)
AccountDeletionComplete ==
  \A u \in Users : account[u] = "deleted" => Owned(u) = {}

(* All it may leave behind is what was archived: no other handler, nor an  *)
(* adoption or a restore by somebody else, brings a project back to life   *)
(* whose owner has gone.                                                   *)
OnlyArchivedStay ==
  \A u \in Users : account[u] = "deleted" => ActiveOf(u) = {}

(* What a project's requests have written is in the file its next request  *)
(* opens, or in the meta database when it is a Default that a start has    *)
(* given a file of its own.                                                *)
Reachable(p) ==
  \A f \in Ids \cup {Meta} :
    p \in rows[f] => f = DataFile(slug[p], p) \/ (f = Meta /\ p \in split)

(* A project that keeps its slug keeps its data, through deletions of      *)
(* others, requests in flight and restarts; the one exception is a Default *)
(* that LEGACY_ADOPTION_MAP names, which leaves its tables behind.         *)
DataKeptWithSlug == \A p \in Rows \ renamed : Reachable(p)

=============================================================================
