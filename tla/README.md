# PyroCore / Pyronites: models, checks and proofs

PyroCore is a backend-as-a-service in one Python process: FastAPI on one uvicorn
worker, SQLite files as its only store, an optional S3 bucket as the durable
copy of those files, and a Python client library, `pyronites`. This directory
holds TLA+ modules translated from that code, the TLC configurations that check
small instances of them, and TLAPS proofs for every instance.

    tlc -workers 2 -config ProjectRegistry.cfg MCProjectRegistry.tla
    tlapm ProjectRegistryProofs.tla

`PROJECT.json` lists the runs, maps every definition to the lines it models,
names the mutation of the model that each property rules out, and lists the
findings and the hazards.

## 1. The system

### Who runs concurrently

* `async def` handlers run on the event loop. The database is called without
  `await`, so a handler is atomic between its awaits.
* Generator dependencies (`get_db`, `get_project_context`) run in threads of
  the anyio pool, before and after the handler and concurrently with other
  handlers.
* `asyncio.to_thread` runs backups, restores and all S3 traffic in worker
  threads, which a cancelled `await` does not stop.
* SQLite's write lock is per file. Each statement of `db.execute` commits on
  its own; several rows change together only in `with db.transaction()`, which
  most multi-statement operations (project deletion, account deletion) do not
  use.
* The process may be killed between any two commits. On the hosting described
  in `docs/DEPLOY.md` the disk may be empty at the next start.

### Components

| component | state | operations | what makes it correct |
|---|---|---|---|
| connection pool, transactions (`core/db.py`) | idle connections per file, transaction state of each | acquire, release, close all, execute, transaction | a connection is with one request; an answer agrees with the file; locks are held briefly |
| project registry (`core/projects.py`, `api/projects.py`) | rows of `projects`, project files | sign-in default, create, rename, archive, restore, delete | two projects never share a file; limit of ten; an owner keeps what is theirs; deletion is complete |
| project-scoped requests (`api/project_deps.py`, `api/project_scoped.py`) | the context of each request | resolve, open, read/write | what was written is in the file the next request opens |
| API keys (`auth/api_keys.py`, `api/apikeys.py`) | `api_keys` | issue, revoke, drop with the project | no key outlives what it opens |
| users, sessions, reset (`auth/users.py`, `sessions.py`, `password_reset.py`, `api/auth.py`) | `users`, `sessions`, `password_reset_tokens` | signup, login, logout, forgot, reset, delete account, administration | one user per address; a used token is refused; a session ends with its user and with a reset of the password it was opened under |
| OAuth (`auth/oauth.py`, `api/oauth.py`) | `oauth_states`, `oauth_identities` | start, callback: consume state, resolve, link | a redeemed state is refused; a link has one user, found by a verified address, and is never moved |
| backups (`core/backup.py`, `api/system.py`) | backup directory | snapshot, prune, restore | a snapshot is whole and restorable |
| S3 sync, lifespan (`core/s3_sync.py`, `app.py`) | bucket, local files | upload all, download all, start, stop | what was uploaded is never lost; a clean stop loses nothing |
| migrations (`core/migrations.py`, `pyrocore db push`) | `migrations` rows, schema of each file | list, apply one in a transaction, run pending | an id is recorded only with its schema; ids in order; nothing is served from an outdated schema |
| legacy adoption (`core/legacy_adoption.py`) | marker in the meta database, tables in a project file | adopt once per slug | copies once, never over a project's own tables, never blocks a start |
| file storage (`core/storage.py`, `api/storage.py`) | blobs, `storage_files`, both under the project's slug | save, read, delete | what was answered stays true under the slug it was answered under; a failed delete can be repeated |
| row API (`api/tables.py`) | the rows of user tables | list, get, create, update, delete row; create, drop table | one call, one effect |
| Python client (`pyronites/`) | requests in flight, local copy | request, retry, select, mutate, pull, push | an answer is one the server gave; the copy agrees with the server; every call ends |
| SQL editors (`api/sql_editor.py`, `api/project_scoped.py`) | none of their own | a batch in a transaction block | all or nothing, but for a batch with transaction statements of its own (in the pool model) |
| rate limiter, metrics (`core/rate_limit.py`, `metrics.py`) | `rate_limit_hits`, a buffer in memory | check and record; buffer, flush | of those it records, never more than the limit in a window (a check that fails lets its request in unrecorded); who waits as told is let in; no sample lost or counted twice |
| command line, dashboard, mail, log ring, templates, scripts | none that another part relies on | | left out, but for `pyrocore db push` |

How they meet: every handler takes a connection of the meta database from the
pool; a scoped handler a second one, of the project's file, chosen by the
registry. Sign-in calls the registry (`ensure_default_project`); account
deletion walks it; the registry deletes rows of `api_keys` and unlinks files.
Backups read the meta database beside the pool; the sync pushes the snapshot and
then the project files, whatever the requests are doing to them; the blobs go the
same way. A start restores what is missing from the bucket, migrates the meta
database, adopts legacy tables into project files, and only then serves; a
project file is migrated by the first request that opens it. The client talks to
the row API over HTTP and may repeat what it is not sure of.

### What is hard here

Connections handed between threads with a transaction still open; three-step
deletions without a transaction; a request that resolves a project in one thread
and uses the file later; identities and files bound to a slug that can be renamed;
overlapping upload threads without a lock; shutdown next to a thread that cannot
be cancelled; a start that cannot tell "no object" from "no answer"; two
migrators with stale lists of the same pending files; a copy and its marker in
different databases; a backup put back under a server that remembers what it has
migrated; handlers that read a user in one transaction and refer to
it in another; a blob and its row; a retry of a request that was carried out; a
count and an insert that are one step only because a deletion comes first.
Every
such place is a hazard in `PROJECT.json`, at its line, with its properties.

## 2. Modules

| module | models | state ↔ code | actions ↔ code |
|---|---|---|---|
| `ConnectionPool` | `core/db.py` | `idle` = `_POOL`, `path`/`holder` = open `Database` objects and who has them, `txn` = SQLite's transaction, `body` = the `with db.transaction()` block, `batch` what that block has executed and `pending` what of it is in the open transaction | one action per call on one connection: `AcquireIdle/New`, `ReleaseToPool/AndClose`, `CloseShared`, `Execute*` by outcome, `Begin*`, `Body*`; `Script*` for a batch of a SQL editor that commits, rolls back or begins by itself |
| `StatementService` | what a handler may rely on when it writes through `Database.execute` or in a transaction block; no connections, no pool | `batch[s]`, `owner[s]` the statements of an open block and whose it is, `block[s]` those neither in the file nor undone, `file` what is in each database, `answer` what each caller was told | `Execute`, `Refuse` for a statement on its own; `Join`, `Publish`, `Withdraw` for a block, `JoinAlone`, `Divide` for a batch with transaction statements |
| `ConnectionPoolProofs` | its theorems | | |
| `ProjectRegistry` | registry, scoped requests, keys, account deletion | a variable per column; `file` the project files; `rows` whose data each file holds; `ctx` the context of a request in flight | one action per management handler; `...Crash` stops a handler after each commit but the last; a scoped request is `Resolve`, `OpenData`, `Write`/keys, `Finish` |
| `ProjectRegistryProofs` | its theorems | | |
| `BackupSync` | backups, S3 sync, lifespan | `local`/`main` a database with and without its WAL, `bucket` the objects, `stage/snap/todo/reading/seen` a job inside `upload_all` | `BackUp`, `PushMeta`, `PushProject`, `Put`/`PutFails`, `Finish` for each of the scheduled, manual and final jobs; `Stop`, `Exit`, `Crash`, `Start` |
| `BackupSyncProofs` | its theorems | | |
| `StartUp` | `core/migrations.py`, `core/legacy_adoption.py`, restore and lifespan up to the first request, `pyrocore db push`, first opening of a project file, the restore of a backup under the server, the deletion of a project | `disk[f]` a database file (recorded ids, schema, tables, marker), `lock` SQLite's write lock, `job` a run of `run_pending_migrations`, `cached` = `_MIGRATED_PATHS`, `bucket` the objects, `backup` a file of the backups directory, `life` how far the project's deletion is | `List`, `Begin`, `Commit`, `Fail`, `Done` of a run; `Start`, `Migrate`, `Adopt`, `Copy`, `Mark`, `AdoptionFails` of the lifespan; `Open`, `Change`, ... of requests; `DeleteRow`, `Unlink`, `Remember` of a deletion; `Backup`, `PutBack`; `PushMeta`, `PushProject` of an upload; `Crash`, `Wipe` |
| `SchemaVersions` | what the migrations promise to those who work on a database; no ids, no locks, no runs | `version[f]` of a file, `copy[f]` of its object and `backup[f]` of a backup, `users[f]` who works on it, `removed` files unlinked under their users | `Create`, `Migrate` (by one), `Attach` (at the last version), `Detach`, `Save`, `Restore`, `Wipe`; by hand `Backup`, `PutBack`, `Remove` and `AttachAnew` |
| `StartUpProofs` | its theorems | | |
| `Accounts` | sign-up, login, logout, reset, OAuth callback, account deletion, administration | a variable per table; `job[w]` the statement a handler is at, with what it has read | one action per transaction: `AddUser`, `InsertUser`, `OpenSession`, `BurnState`, `Profile`, `ByEmail`, `Link`, `BurnToken`, `SetPassword`, `Revoke`, `DeleteUser`, ...; `Signup`, `Login`, `Callback`, `Reset` and the other first steps take a worker; `Interrupt` ends a handler between two |
| `AccountsProofs` | its theorems | | |
| `FileStorage` | `core/storage.py`, the upload and restore of blobs | `rows` = `storage_files`, `blobs` the files, `home[f]` the slug in row and path, `slug` the project's, `held` those that requests under way have looked up, `object`/`remote` the bucket, `stage/image/todo/reading/seen` an `upload_all` | `Save`, `WriteDone`, `InsertRow`, `Delete`, `DeleteRow` and their failures, `Rename`; `TakeImage`, `PushDatabase`, `ReadBlob`, `PutBlob`, `Finish` of an upload; `Crash` and `Start` |
| `FileService` | what a client of the storage API may rely on; no blobs, no rows, no bucket, no uploads | `told[f]` the last answer, `shown[f]` what a listed file downloads as under the slug of its upload, `safe` what outlives an empty disk, `up`, and the slugs | `Upload`, then `Accept` or `Reject`; `Remove`, then `Removed`; `Rename`, `Settle`, `Stop`, `Start` |
| `FileStorageProofs` | its theorems, the refinement among them | | |
| `TableService` | `api/tables.py`, and what a caller of the client may rely on | `rows`, `exists` the table; `call`, `given`, `told`, `result` the promise | the handlers `ListTableRows`, `CreateTableRow`, ...; `Invoke`, `Serve`, `ServeLate`, `Succeed`, `Fail`, `Repeat` |
| `PyronitesClient` | `http.py`, `table.py`, `local.py`, `client.py` of the client | the variables of `TableService`, and `inflight`, `attempt`, `reply`, `late`, `todo` (a push), `cache` (the local copy) | `Request` (with `Begin`, which has looked into `_inflight`), `Send` (which overwrites the entry), `Receive`, `Retry`, `GiveUp` of the transport; `Call`, `LocalHit`, `LocalWrite`, `Push`, `PushRow` of handles; `Serve`, `ServeLate` of the server |
| `PyronitesClientProofs` | its theorems | | |
| `RateLimit` | `core/rate_limit.py`, the 429 answer of `api/_session.py` | `hits`/`stamp` = rows of `rate_limit_hits`, `lock` SQLite's write lock, `job[w]` the locals of `check_and_record`, `answer[w]` what it returned | `Check` (time and `BEGIN`), `Clean` (`DELETE`), `Count`, `Admit`/`Refuse` (up to the commit), `Fail`, `Crash`, `Tick` |
| `SlidingWindow` | what the limit promises; no rows that are deleted, no lock | `last`, `stamp` the hits, `asked[w]` when the request came, `verdict[w]` | `Ask`, then `Admit` or `Refuse` in one step, `GiveUp`, `Tick` |
| `RateLimitProofs` | its theorems | | |
| `MC...` | constants for TLC | | |

`PyronitesClient` contains `Service == INSTANCE TableService` over its own
variables and implements it: the run `client` checks `Service!Spec` as a
property, the theorem `Implements` proves it. `TableService` says what is left
of "a call is carried out once" by a client that retries and remembers: a call
that succeeds returns an answer the server gave to this call, or the last answer
to one with the same method, path and parameters; a call that fails may have been
carried out, now or later, and even answered: a thread that may not use the
local store fails when it stores the answer (`Outcome`), and whoever calls with the
same key after it is given that answer.

Four more modules are abstract specifications, and the module of the component
contains the refinement mapping:

* `ConnectionPool` implements `StatementService` (`StatementsAtomic`). A slot is a
  connection; its batch is what the block open there has executed, and belongs to
  the request that holds the connection (`Writer`), and what of it is not committed
  (`pending`) is the block; a file holds the committed statements addressed to it
  (`Content`). A batch with transaction statements of its own may divide what it
  has written (`Divide`) and end in a failure with some of it in the file; every
  other block is all or nothing, whoever else sends such a batch. The lists of the pool, read
  transactions, locks, and the transaction that a failed statement leaves open on
  a connection that is handed on, are not there any more.
* `StartUp` implements `SchemaVersions` (`SchemaUpByOne`). A file has version *n*
  when its ids are 1 .. *n* and their schema is there (`Version`); one with any
  other part of the migrations has no version that the specification knows. The
  server works on the meta database from the end of its migrations, a request on a
  project file from its opening (`UsersOf`). Three things that an administrator
  does are steps of the specification: a backup put back takes the version of a
  file down while it is worked on, a file that a deletion has unlinked may be made
  anew and is not migrated, and a backup put back under a run of `db push` ends
  every promise (`orderly`).
* `RateLimit` implements `SlidingWindow` (`OneStep`). A request is asked from
  `now = time.time()` on; reading, waiting, deleting and counting are stutters,
  and the commit is the one step that admits or refuses it, by a set of hits which
  may leave out those whose own window ended while it waited (`Countable`).
* `FileStorage` implements `FileService` (`StorageService`). A file shows what its
  blob holds if it has a row and nothing otherwise (`Shown`), and is safe once it
  is sealed. Writing the blob of a new file and reading, putting and fetching are
  stutters; the row is what makes an upload visible, in the step that answers it,
  under the slug that its request had looked up.
  The service lets a start forget what was neither on the disk nor safe, and then
  whatever is left of the file may show; of the others nothing changes, but that
  the content of a listed file whose blob had gone may be back.

`StartUp`, `BackupSync` and `FileStorage` look at the same lifespan and the same
`upload_all`, each at the data it is about: `BackupSync` at overlapping jobs and
contents of files, `FileStorage` at blobs and their rows, `StartUp` at what two
databases say of each other after a restore.

Operators whose comment begins with "Mutant:" are not part of a model. Each is a
wrong version of the definition below it, named in `PROJECT.json`, under which
TLC finds a property violated.

### Abstractions and bounds

* **ConnectionPool.** What SQLite does is modelled from how `db.py` relies on
  it (implicit transactions, deferred `BEGIN`, stale snapshots, rollback on
  close). Waiting for `busy_timeout` is "no step, or a timeout". `execute_many`
  has the outcomes of `execute` and no action of its own, as its one caller (the
  metrics) inserts rows that no constraint refuses; a `COMMIT` that fails on a
  full disk is left out; the
  `PYROCORE_NO_POOL` mode of the tests has no pool. A batch of a SQL editor is
  executed as it is given (`sql_editor.py:216-221`, `project_scoped.py:744-747`);
  what is told apart is whether it has `COMMIT`, `ROLLBACK`, `BEGIN` or the like
  among its statements (`Scripted`). *Instance:* two requests, three connections, a
  pool of two per file, three statements for the meta database, of which one comes
  in such a batch, and a second file that is only opened and read. Three
  connections are what overflows a list of two; two statements on one file are what
  it takes for one caller's commit to publish another's; the second file shows that
  lists do not mix. `Focus`: one connection of the second file at a time, and next
  to a batch with transaction statements one other connection. Connections and
  requests are symmetric.
* **ProjectRegistry.** A uuid is the rank of a row; `project_id` and `slug`
  never differ in the code and are one variable; names and time are left out.
  `AdoptionMap` has the slugs of `LEGACY_ADOPTION_MAP`: a start opens, and so
  creates, the files of the projects with one of them. `MaxIds` bounds the
  rows ever inserted and `MaxOrphans` those older than
  `owner_id`; the limit per user is 2 instead of 10. *Instance:* two users, one
  key, three rows of which one may predate owners, one scoped request, crashes, and
  `default` in the adoption map (the run `account_deletion` has an empty map).
  Three rows are what it takes for one user to leave rows another could adopt,
  for a slug to be reused, and for the limit to be reached by creating, adopting
  and restoring. The constraint `Focus` of the MC module lets the third row, and
  the slug only it can take, in as long as no request runs, nothing has been
  written and no key has been issued; with requests, writes or keys there are
  two rows and one of the users, which is what a write into the wrong file and a
  key that outlives its project need, and a key and rows of data are not there
  together, as no step relates them. The theorems have no such bound. `CHECK_DEADLOCK FALSE`:
  when every user has left and every row has been used, nothing more can happen.
* **BackupSync.** A content is the set of writes committed to it, `Absent`, or
  `Torn` (a copy of two states of a file). Sync is enabled. Uploaded blobs,
  which behave as project files without a WAL, and a failed snapshot in a job
  that goes on with its next round are left out. A push has two steps; the object
  is torn if the source changed in between. `prune_backups` shows in what an
  upload finds: a snapshot is there for certain as long as fewer than `Keep`
  backups are newer (`newer`, `Prunable`), and may be gone after that
  (`SnapshotMissing`); a restore may still choose any backup ever taken. *Instance:* `Keep` is 1 instead of
  10, one write to the meta database, one to a project, one manual backup at a time, the loop
  and the final sync. One write per file gives each file an older and a newer
  content, which is all that "an older copy replaces a newer" and "torn" need;
  two jobs overlap, or three as long as no project has been deleted and no start
  has gone on without an object that was there (`Focus`, which also ends a
  behaviour when no database is promised anything any more). No symmetry, as
  liveness is checked.
  The history variables `durable`, `blind`, `deleted`, `straggler` record what
  the properties speak of and are read by no guard except
  `Commit`, which does not write to a project whose registry row is gone.

* **StartUp.** Migrations are numbers; what a file comes in to the parser is
  left out, its statements are applied in one transaction whose failure is one
  action for every cause. One slug of the adoption map; a table is as the legacy
  plane has it ("legacy") or as the project has changed it ("scoped"). A new
  disk, or one of an older release with any prefix of the migrations and any
  schema patched by hand. The project has one id and one file: a project made anew
  under the slug has another file. A file that is unlinked while it is open has no
  name and is not followed; the new one that a request makes at its path is. The
  restore of the command line swaps files, and is here a step while nothing runs. Overlapping uploads are `BackupSync`'s: here one
  `upload_all` at a time fails or succeeds per object. `whole`, `torn` and
  `dropped` are history: whether the objects belong together, whether a start
  has gone on with files that do not, a backup has been put back or the project
  deleted, and what a project has dropped since its adoption; `mishaps` says which
  exceptions of a property have happened. *Instance:* two migrations, one table, two requests. Two migrations
  are what "in order" and a stale list need; two requests race to migrate one
  file, which they do before the first upload and backup; after it, one at a time
  is there (`Focus`). A backup and a deletion are each followed without the bucket
  and without the other, and what comes of a backup put back under a `db push` is
  not followed. No symmetry, as liveness is checked.
* **Accounts.** A handler is a sequence of transactions. The handlers of one
  process contain no `await` between most of them, so that a single uvicorn
  worker runs them one after another; the model lets the handlers of several
  workers, which share the meta database, interleave at every transaction, and a
  single worker's behaviours are among those. Hashes, cookies and the provider's
  HTTP are choices of their outcomes; an expiry is a step of the clock; a freed
  session row stands for a new token. *Instance:* two handlers, two users, two
  addresses, two sessions, one reset token, one state, one provider account, so
  that any two handlers race over any one row; `MaxRedeemed` is 2, the redemptions
  that two handlers come to; `Focus` keeps the second session for behaviours
  without a sign-in through the provider or with one user, and lets one handler
  run at a time once such a sign-in, a reset token and two users are all there.
  Handlers, users, addresses and sessions are symmetric. `CHECK_DEADLOCK FALSE`: users that are gone stay gone.
* **FileStorage.** One database with its directory stands for either plane. A
  blob is absent, partial or whole; a file id is never used twice. A project may be
  renamed at any time, between two requests or under one. Archived and deleted
  projects, and rows that the owner's SQL changes, are out. *Instance:* two slugs,
  two files, so that what happens to one is seen in the copy taken for the
  other, and two upload threads, so that an older list or image is pushed after
  a newer one. Files, jobs and slugs are symmetric.
* **TableService, PyronitesClient.** One table, a row with an id and one other
  column. A time-out, a network error, 429, 502, 503 and 504 are one outcome, no
  answer; a request given up may reach the server later, at any time.
  `MaxRetries` is 1 instead of 2; `MaxCalls` bounds the calls of a behaviour per
  policy of the table: two for `remote` and `local`, three for `cache` (to fill
  the copy, lose an answer, and read). *Instance:* two threads, of which one opened
  the local store, two ids, one body (so that rows are told apart by their ids and by
  being there or not; what a row holds is compared in the proofs only); `Focus` has
  one late request at a time, a table that exists while there is one and from the
  third call on, and three calls from one thread only. `CHECK_DEADLOCK FALSE`: the calls are used up.

* **RateLimit.** One key and one endpoint: no statement touches the rows of
  another. The table is shared by workers, says the module, and so several
  connections check at once, also where one uvicorn worker would not. Time is in
  ticks, `Second` of them to a second, and does not go back; `math.ceil` and `int()`
  make whole seconds of it (`Ceil`, `RetryAfter`); a transaction reads `now` before
  it waits for the write lock. `taken` is history: when the request of a hit got
  the lock. A check that fails lets its request in and records nothing
  (`rate_limit.py:159-162`): such requests are in the model (`Fail`), and no
  property counts them. *Instance:* two connections, a limit of two in a window of
  two seconds of two ticks, three hits, six ticks: two hits fill the window, the
  third is counted while they are cleaned up, and a time may lie within a second. Connections are symmetric. `CHECK_DEADLOCK FALSE`: when the hits
  are recorded and the clock has stopped, a check that would be let in has no
  number left.

A `Focus` in an MC module is the CONSTRAINT of its passing run: TLC goes no
further from a state outside it, but checks that state. In every state inside, a
step that fairness asks for can be taken without leaving it (the loop's and the
lifespan's never do, and an attempt without an answer need not be late), so that
a liveness property is checked for the behaviours inside. Every safety property is also proved
(section 4), with no such bound.

### Fairness

* `BackupSync`: `WF(JobStep(Scheduled))`: the loop is a task of the event loop
  that catches every exception, and its worker threads run.
  `SF(PushMeta(Scheduled))`: it does not happen again and again that ten manual
  backups come in between a backup of the loop and its upload. `SF(Put of the
  snapshot)`: an assumption about the environment, that a bucket which can be
  reached again and again accepts an upload in the end.
* `StartUp`: `WF(Lifespan)`: the lifespan is straight-line code that waits for
  nobody; a lock that is not released ends its wait in a time-out, which is a
  failure of the step it waits in.
* `PyronitesClient`: `WF(Send \/ Receive \/ Retry \/ GiveUp)` per thread: an attempt
  ends with an answer or with the transport's own time-out; `WF(PushRow)`: the
  loop of a push goes on. Nothing is assumed of the server or the network.

Nothing is assumed of requests, manual backups, the shutdown, restarts or the
command line. The safety properties need no fairness.

## 3. Runs

Passing:

| run | shows |
|---|---|
| `pool` | `CheckedOutOnce`: every open connection is with one request or once in the right idle list. `StatementsAtomic`: the pool implements `StatementService`. A caller told "ok" finds its write in the file, one told of a failure never does; the writes of a block are those of one request, appear together, and nobody else's come in between, also when a connection has gone on to another request with a transaction left open. A SQL editor's batch with transaction statements of its own is the exception: it may fail and leave in the file what it has committed itself, and it divides its own writes only, nobody else's. |
| `registry` | `FilesIsolated`: no two projects resolve to one file. `ProjectLimit`: only adoption at sign-in exceeds the limit. `LegacyKeysDieWithProject`, `KeysDieWithProject`: a key bound to a uuid goes with its project, and so does any key of a project that kept its first slug. `ProjectsStayWithOwner`: signing in adopts rows without an owner and no others. `DataKeptWithSlug`: what a project has written is in the file its next request opens, as long as it is not renamed; or in the meta database, when it is a Default to which a start has given a file of its own since (`split`). |
| `backup` | `MetaCopyWhole`: the object of the meta database is never torn. `SettledSurvives`: what the bucket had when no job was running stays in it. `CleanStopKeepsAll`: a final sync without error, and without an upload left over from the loop, leaves the bucket equal to the disk, although a snapshot that was pruned is no error. `WritesReachBucket`: a committed write reaches the bucket or the process ends. |
| `startup` | `SchemaUpByOne`: the start implements `SchemaVersions`. Whoever migrates, races, fails or crashes, a file has a prefix of the ids, each with its schema; it goes from one to the next; a copy is one of what the file was, and nobody begins to work on a file that is not at the last version, but for one that a deletion has unlinked. `ServedUpToDate`: no request sees an outdated schema, unless in this process a backup has been put back into the live file or the project's file was unlinked. `AdoptedOnce`, `MarkerMeansAdopted`, `ScopedDataWins`: the adoption copies once per slug and never over the project's tables, with the marker and the tables in different files that crash and are restored separately, as long as the two belong together and, for `AdoptedOnce`, a marker that is there can be read. `StartEnds`: it never blocks a start. |
| `accounts` | `RowsHaveTheirUser`: what a handler read some transactions ago no longer needs to hold, and the constraints of the schema do. `RedeemedOnce`: a reset token or state that was consumed is refused ever after, and a second handler gets through with it only if both had read the row before either marked it. `OldSessionsEnd`: a session of an old password is there only while a reset has still to come to the sessions or was cut off before it did, or if a login that had checked the old password inserted it after the revocation. `LinkedByVerifiedEmail`, `IdentityStays`: which account a provider signs in. |
| `files` | `SavedReadable`: what the client was told of an upload stays true under the slug it was told for, through renames of the project, crashes, overlapping uploads and starts from the bucket. `DeleteRecoverable`: the promise of the order unlink, then row. `StorageService`: storage implements `FileService`. Nothing shows of an upload before its answer; what shows under the slug of its upload goes only by a request to delete it, while another slug shows nothing of it; and what was answered as deleted does not come back unless a start has lost it altogether. |
| `client` | `ServiceSpec`: the client implements `TableService`. `CacheHoldsServerRows`: the local copy shows no row that the server never had. `CallsEnd`: every call, and every push of many rows, ends. |
| `rate_limit` | `WithinLimit`: with any number of checks at once, no request is let in and recorded beyond the limit of its window; only hits whose own window ended while it waited for the lock may be missing from its count. Requests that a failing check lets in are not counted. `OneStep`: the check implements `SlidingWindow`. `RetryLongEnough`: whoever waits as told finds a place, unless others came in between, if the second of the request was not over yet when it was answered; if it was, one second more is enough. |

Findings (each run checks one property that a document or comment states and the
code does not keep; the quotations are in `PROJECT.json`):

| run | what happens |
|---|---|
| `account_deletion` | An archived project, its file and its keys survive the deletion of the account. |
| `cold_start` | A start on an empty disk that gets no answer from the bucket begins with an empty database; the first backup puts it over the object. |
| `graceful_stop` | The upload of the loop that runs on in its thread ends after the final sync and puts its older snapshot last. |
| `client_repeat` | The second insert into a table returns the first one's row and is not sent: the table of requests in flight keeps what is finished, and its key leaves the body out. |

More such disagreements show in the models and have no run of their own:

* `ProjectRegistry`: a project's first key is bound to its slug, so that after a
  rename the deletion of the project leaves it (`KeysDieWithProject` speaks of
  projects that kept theirs); and renaming a Default project that lives in the
  meta database makes its next request open an empty file (`DataKeptWithSlug`
  holds as long as it is not renamed).
* `ConnectionPool`: the comment on `busy_timeout` (`core/db.py:100`) says it
  prevents spurious "database is locked" errors. A caller can be told so although
  no request is writing: after `ExecuteRejected` and `ReleaseToPool` the write
  lock belongs to an idle connection whose transaction the rejected statement
  left open.
  And "no partial commit" (`api/sql_editor.py:212-213`) does not hold of a batch
  with a `COMMIT` of its own: after `INSERT; COMMIT; bad` the caller is answered 400
  and the row is there (`ScriptCommit`, then `BodyRaise`; or a change of the schema
  after the `COMMIT`, `ScriptWrite`). `AnswerMatchesFile` and `StatementService` say
  of such a batch only that what is in the file was executed by it.
* `ProjectRegistry`, with `default` in `LEGACY_ADOPTION_MAP`: the start creates
  Default's own file (`core/legacy_adoption.py:158`), from which on its requests
  open that file (`api/project_deps.py:65-71`) and what it has in tables outside
  the map stays behind in the meta database. `DataKeptWithSlug` excepts it (`split`).
* `StartUp`: "the copy runs exactly once per slug" (`core/legacy_adoption.py`)
  does not hold if the marker cannot be read, which counts as "not applied"
  (`core/legacy_adoption.py:148`): tables that the project has dropped come back
  (`Adopts` with `unread`, in `mishaps` "misread").
* `StartUp`: `POST /api/backup/restore` puts an older schema under a server that
  migrates at its start only (`PutBack`, "replaced"): it is served until the next
  start. Put back while a `pyrocore db push` is on its way, a backup may leave a gap in
  the ids (`PutBack`, "crossed"), against "always applied in the correct order".
* `StartUp`: `hard_delete_project` unlinks the file (`core/projects.py:416`) and
  leaves its path in `_MIGRATED_PATHS` (`api/project_deps.py:94-106`), so that a
  request which had resolved the project before makes a new file there that is
  used without a schema (`Unlink`, `Remember`, `Open`).
* `Accounts`: "two concurrent redemptions of the same state cannot both win"
  (`auth/oauth.py:168-171`) holds in one process, which runs no other handler in
  between; of two that share the meta database, the second marks no row and goes on, as
  nobody looks at the number of rows (`BurnState`); a reset token is read and marked
  in two transactions in any case (`BurnToken`). `raced` records it.
* `Accounts`: a reset leaves two gaps (`api/auth.py:288-297`): cut off between the new
  password and the revocation, it leaves the sessions of the old one until the next
  reset, as its token is used (`cutOff`); and a login that has checked the old
  password inserts its session after the revocation ("late").
* `FileStorage`: a project that is renamed does not find its files, which are listed
  and stored under the slug of their upload (`api/project_scoped.py:138-142`,
  `core/storage.py:251`): they are 404 until it is given that slug back. An upload
  that had looked the slug up before lands under the old one.
* `RateLimit`: `Retry-After` is the whole window from the refusal (`RetryAt`),
  not "exactly how long to wait" (`README.md:210` of the repository); the wait
  until the oldest hit leaves the window is computed and dropped
  (`core/rate_limit.py:148`). And "Sleep this long" (`docs/DEBUGGING_429.md:54`) can be
  a second short: the end of the window is rounded up when the request is checked,
  what is left of it is cut when the answer is written, and if the second has
  changed in between, the header may be less than the window.

## 4. Proofs

Constants are arbitrary apart from the named assumptions (`PoolAssumption`,
`RegistryAssumption`, `SyncAssumption`, `StartAssumption`, `AbsentAssumption`,
`AccountAssumption`, `RowAssumption`, `StorageAssumption`, `ClientAssumption`,
`LimitAssumption`):
disjointness of sentinels from values and the types of the parameters. Every
safety property of a passing run, the five refinements among them, is proved for
all of them. An inductive
invariant is checked with TLC before it is proved; each proof has one lemma per
action.

* **ConnectionPool.** `TypeCorrect`; `ExclusiveCheckout` (`CheckedOutOnce`,
  inductive with the type invariant; `PopLast` is the lemma about
  `list.pop()`); `AnswersAreTrue` (`AnswerMatchesFile`: an answer agrees with the file, but for a
  batch with transaction statements, of which nothing is in the file that it has not
  executed). The last is not inductive alone: `PendingIsInBody` adds that executed
  statements belong to exactly one open block whose callers still wait, and that
  outside such a batch all of them are uncommitted; so a transaction left open by a
  failed call has a lock but no rows to publish.
  `ImplementsService` (`StatementsAtomic`) rests on one more invariant,
  `BlocksWrite`: a connection with uncommitted statements has SQLite's write lock
  on its file, and so is the only one there that has any, and all that its block
  has executed is addressed to that file. Each call then maps to one step of the service or to
  none: a connection that changes hands has nothing uncommitted.
  `ServiceSuffices` goes the other way: `StatementService`, with the types of the
  state, implies `AnswerMatchesFile`, so a caller needs to know nothing else of
  the pool (`ServiceAnswers` is the inductive part, over steps of the service).
* **ProjectRegistry.** `TypeCorrect`; `IsolatedFiles`, from the uniqueness of
  slugs (`SlugsUnique`, which `_unique_slug` keeps); `OwnersStay`;
  `LegacyKeysDie`, kept by each crash point because the keys are deleted before
  the row; `DataKept`, from `DataInv`: ids are never used again, and the context
  of a request in flight, of a project that was never renamed, has the slug of
  the row and, unless the file was unlinked under it, the file that the next
  request would open; and a file once there stays until the deletion, so that a
  Default leaves the meta database by a start only, which puts it into `split`
  (`FileKept`). `LimitHolds`: an owned row that was not adopted came in,
  or came back, below the limit, and `Owned` changes by one row at a time
  (cardinality lemmas of the library). `KeysDie`: where the row is deleted, its
  keys by slug and by uuid have been deleted before, and the first slug of a
  project that was never renamed is its slug. `NothingActiveStays`
  (`OnlyArchivedStay`) draws the line of the finding on account deletion: of the
  projects of a deleted account none is ever active again, whoever signs in,
  adopts and restores, so that what was archived is all that stays.
* **BackupSync.** `TypeCorrect`; `BucketWhole` and `BackupsSurvive`, from
  `SyncInv`; `CleanStop` (`CleanStopKeepsAll`), from `CleanInv`. Neither property says anything of a job in progress, so
  `SyncInv` follows the promise: what is promised of the meta database is
  in the bucket, on the disk and in every snapshot that may still be pushed;
  what is promised of a project is in the object and in every push, all of it is
  in the file without its WAL, and a torn local file comes from a torn object.
  Three lemmas about a project (untouched, settled, grown) carry the steps.
  `DiskKeepsPromises` (`PromisedOnDisk`) draws from it that the disk has what is
  promised too, and `NothingUnpromised` (`PromisesStand`) that the promise never
  dwindles: what bucket and disk agree on when a job ends is no less than what they
  agreed on before (`SettledGrows`), unless a backup was restored by hand.
  `CleanInv` says that a stopping server without a left-over upload runs the
  final sync alone, that no backup is newer than its own (which is why pruning leaves
  it its snapshot), and that each file it has gone past without an error is equal
  to its object.

* **StartUp.** `TypeCorrect`, `Atomic`, `Ordered`, `UpToDate`, `OncePerSlug`,
  `MarkerTrue`, `NeverClobbers`, from one `IInv`. `JobOK`: what a run of
  migrations no longer lists as pending is recorded in the file it works on,
  which is there as long as the run is; with the lemma that the first pending
  migration is the least one (`LeastNumber`, from the well-foundedness of the
  naturals) this gives the order. `PhaseOK`: what the start has reached in each
  phase, and that a remembered path has been migrated, unless a backup was put back
  or the file unlinked in this process; a job never outlives the file it works on,
  and a project that was deleted has `torn` set. `HistoryOK`: unless a
  start went on with files that do not belong together, a marker in the one file
  covers the tables of the other (`Covered`), on the disk, between the two halves
  of an upload, and between the objects of a whole one. `HistoryFrame` carries it
  through the many steps that change neither tables nor marker. `OneByOne`
  (`SchemaUpByOne`) needs nothing beyond `IInv`: `Atomic` and `Ordered`
  (`RecordedMeansApplied`, `AppliedInOrder`) say that every file and object has
  exactly one version, and `JobOK` that a commit takes the file from the one
  before to the next; the steps of an administrator map to `Backup`, `PutBack` and
  `Remove`, and the opening of a file made anew to `AttachAnew`. `AppliedInOrder`
  has the one exception of a backup put back under a `db push`, and so has what
  `JobOK` says of the list of that run. `VersionsSuffice`: the two invariants follow from
  `SchemaUpByOne` again, with `Absent` and `None` distinct from the versions
  (`AbsentAssumption`).
* **Accounts.** `TypeCorrect`, `NoOrphans`, `OneTime`, `UniqueEmails`,
  `VerifiedLinks`, `NotRepointed`, `OldSessionsRevoked`. The core is `JobOK`: what
  a handler knows at each statement, and which of it may have changed
  since; the others add to it what their history variable says. `OneTime`
  (`RedeemedOnce`) rests on `RaceOK`: a row that two handlers have come to mark, or
  that one has marked while another still comes to it, is in `raced`, and a marked
  row is not read again; `OldSessionsEnd` is inductive given the core: the handler
  that has set a password is before the revocation, or its user in `cutOff`.
* **FileStorage.** `TypeCorrect`, `SavedStays`, `DeletedStays`, `RecoverableDelete`. `SealOK` follows the promise into the bucket: a file on
  which the bucket agreed with its client when no upload ran (`sealed`) stays
  agreed until it is deleted, because every image of the database and every blob
  that an upload thread still holds agrees on it too. A rename moves none of it: the
  slug of a file is fixed when its upload begins (`home`), a handler has one that it
  has looked up in its own process (`held`), and only reading compares the two. `ImplementsService`
  (`StorageService`) needs in addition what has not happened yet (`FreshOK`): as
  long as an upload is not answered, no row, no image of the database and no
  object lists its file, and only the handler that is running is about to answer
  it. With it each handler step is one step of the service or none, the end of an
  upload is `Settle`, and a start maps to `Start(kept)` with the files it has kept.
  `ServiceSuffices`: `SavedReadable` and `DeletedUnreadable` follow from the
  service again, by an invariant over its own steps (`Promises`).
* **PyronitesClient.** `TypeCorrect`; `Implements` (`ServiceSpec`): each step of
  the client is a step of `TableService` or a stutter, from `PushInv` (what a
  push still has to send) and `AnswerInv` (a reply that waits is one the server
  gave to this call; what `_inflight` returns again was the last answer with its
  key); `CopyOfServerRows`, where every answer, also one that arrives late, names
  rows that the server has or has had. `ServiceSuffices`: the same of what calls
  return (`ResultsAreServerRows`) follows from `TableService` alone, by an invariant
  over its steps (`Kept`).
* **RateLimit.** `TypeCorrect`, `LimitKept`, `WaitSuffices`,
  `CountAndInsertAreOneStep` (`OneStep`). A row is gone only
  when its window has ended (`Gone`), seen from the time at which whoever removed
  it had the lock; so a check that has the lock still sees, from then to its
  commit, every hit of its window that has not ended when it got the lock
  (`JobOK`). Without the condition on those that ended meanwhile `WithinLimit` is
  false: `now` is read before the wait, and rows of that window may be cleaned up
  during it. `CountIsFair` says the same of the refinement: what is counted under
  the lock is one of the sets that `SlidingWindow` lets be counted. If the check
  did not wait, no hit is later than its own time (`UpTo`), which is what
  `WaitSuffices` needs, with `CeilFacts` on the rounding. The library's facts about cardinalities carry the count
  over the insertion. `WindowSuffices`: from `SlidingWindow` alone, the window that
  ends now never has more hits than the limit (`LimitNow`), because a hit that a
  count may leave out has left that window before.

Model-checked only: the liveness properties `WritesReachBucket`, `StartEnds` and
`CallsEnd` (liveness under fairness is beyond TLAPS), and the violations. Proved
only, because a run would repeat what another of its properties implies or is
about a single guard: `AnswerMatchesFile`, `RecordedMeansApplied`,
`AppliedInOrder`, `DeletedUnreadable`, `ResultsAreServerRows` and `LimitNow`
(implied by the refinements: the three `ServiceSuffices`, `VersionsSuffice`,
`WindowSuffices`), `OneUserPerEmail` (`UniqueEmails`), `OnlyArchivedStay`,
`PromisedOnDisk` and `PromisesStand` (which follow from the invariant of
`SettledSurvives`).

## 5. Plan

What a next step would add, in this order:

1. Several slugs of the adoption map, and an upload that overlaps a start of
   another container on the same bucket.
2. That a scoped request of `ProjectRegistry` refines "read and write the
   project's own table set", with `TableService` as that set.

## 6. Not modelled

* Which address a request is counted under (`get_client_ip`), and that
  forgot-password asks for two keys, one after the other.
* Metrics: a buffer in memory, written out when it has 100 samples or is five
  seconds old. Nothing but the charts reads the rows. `flush` is "used by tests
  and on shutdown" (`core/metrics.py:154`), but nothing calls it on shutdown.
* The listing of backups, and the restore of the command line that renames
  files under a process that has them open (`StartUp` has it while nothing runs). A project file that `sqlite3.connect` creates while a deleted project is
  pushed is a hazard without a property: `BackupSync` has the step, but no promise
  is made to a project that was deleted.
* SQL statement splitting, identifier checks, coercion of values and the shape
  of answers: sequential code that a unit test reaches. The wrappers of the
  client for sign-in, storage and SQL, which go through the transport that is
  modelled and keep no state.
* The command line but for `db push` (sequential calls of the same functions),
  the dashboard (presentation), mail and the log ring, environment variables,
  templates, the recorded test application and release scripts.
