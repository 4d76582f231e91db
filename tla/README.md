# A verification development for fpan

fpan is a small cloud drive: a Go backend (`src/backend`) that keeps folders,
files, share links and blob metadata in PostgreSQL and file contents in a
content-addressed directory, and a React client (`src/frontend`). This directory
holds TLA+ models of the backend, the TLC runs that check them, and proofs
checked by TLAPS. `PROJECT.json` maps every definition to the lines it models.

## Inventory

| Component | State it keeps | Operations | Interacts with |
| --- | --- | --- | --- |
| Metadata tree: `internal/database/{folder,file,trash,helpers}.go` | tables `folders`, `files` (parent, display, `deleted_at`) | create, update (rename, move), soft-delete, restore, purge, empty trash, list | PostgreSQL transactions at READ COMMITTED; called by the HTTP handlers |
| Blobs: `internal/files`, `internal/storage/filesystem`, `internal/database/blob.go` | table `blobs`, content files, temporary files, the gate (`sync.RWMutex`) | Upload (Put, CreateFile), OpenBlob, CollectGarbage | uploads and the collector share the gate; purges remove references without it; downloads take no lock |
| Share links: `internal/shares`, `internal/database/share.go` | table `shares` | create, update, delete, access, list, shared download | reads the metadata tree, opens blobs, counts downloads |
| Sign-in and sessions: `internal/auth` | login states (`sync.Map`), sessions (map and lock), both in memory | LoginURL, Authenticate, Create, Valid, Delete | identity provider; every authenticated request |
| Process: `cmd/fpan/main.go`, with `internal/config` and `internal/database/database.go` | contexts, channels, the pool; the schema and storage root it creates | load, open, ping, migrate, discover, serve, stop | HTTP server, collector goroutine, connection pool, identity provider |
| HTTP router: `internal/httpapi` | none | decode, validate, call, map errors, readiness | all of the above |
| Listings: `internal/database/entry.go`, `ListShares`, `ListSharedEntries` | none | filter, sort, page | metadata tree, share links |
| Storage types: `internal/storage/storage.go` | none | digest syntax, association records (not used by the server) | |
| Web client: `src/frontend/app` | SWR caches, an in-flight flag per hook | queries, mutations, revalidation | HTTP API |

What is hard here:

* **Transactions that check, then write.** READ COMMITTED locks only rows that
  are written, so parents, ancestry and `deleted_at` may change between a check
  and the statement that relies on it. Foreign keys cascade.
* **Soft deletion of a tree.** Deleting, restoring and purging subtrees, in any
  order, has to keep every entry reachable: in the tree, or in the trash.
* **Content and metadata in two stores.** There is no transaction over both;
  order, the gate, a grace period and the collector make up for it, across
  failures, crashes and power loss.
* **Counted downloads.** Four calls per download, with owners, clocks and moves
  in between.
* **Answers made of several statements.** A listing checks, counts and reads in
  separate statements, a shared one in three transactions, and a client reads
  page after page of a table that changes.
* **Retries.** A link is inserted up to three times, also when the first insert
  succeeded and only its answer was lost.
* **Starting and being killed.** Stages under a deadline next to stages without
  one, a schema made table by table, a pool to close on every error path.
* **Stopping.** Shutdown, a collector that waits for a lock, requests whose
  bodies come from clients, a pool that is closed last.

What makes each part correct: the tree is a tree of active parents and nothing
falls out of reach (`TreeInv`, `Reachable`, `TrashCovers`); only trash is purged
(`PurgeOnlyTrash`); metadata never outlives content and referenced content never
goes (`RowHasContent`, `ReferenceHasRow`, `ReferencedServed`), yet garbage does
(`GarbageCollected`, `TempsCollected`); a link never gives more than its limit,
and only what it shares (`SharesInv`, `HandedOutWhileShared`); one login gives
one session and no ended session returns (`OneSessionPerLogin`, `GoneForGood`);
a creation leaves one link at most (`OneLinkPerRequest`); a listing shows what is
there and nothing a link does not share (`TotalFitsItems`, `NothingMissed`,
`ListedStillShared`); the process serves only on a complete schema
(`WorksOnWhole`), starts and stops in order, and both end (`LifecycleInv`,
`StartupEnds`, `ProcessExits`).
`PROJECT.json` lists the hazards with their lines.

## Modules

| Module | Models | Level |
| --- | --- | --- |
| `EntryTree` | the metadata tree | one transaction is one step: what the operations promise |
| `EntryTx` | the same transactions (extends `EntryTree`) | one SQL statement is one step, several clients overlap |
| `Listings` | `ListEntries`, `ListSharedEntries` and a client that reads pages (extends `EntryTree`, whose steps are the other requests) | one statement is one step |
| `BlobLifecycle` | uploads, downloads, the collector, the store, the `blobs` table | one call on the database or the file system is one step |
| `BlobStore` | what the file service promises about contents and references to them | abstract |
| `ShareQuota` | what a link promises about its downloads | abstract |
| `Shares` | links and shared downloads | one call is one step; the counting transaction is two, around its row lock |
| `ShareRequests` | `Service.Create` and its retry loop (extends `Shares`) | one call on the database is one step |
| `Sessions` | login states, callbacks, sessions, requests | one critical section is one step |
| `Lifecycle` | `run` from the configuration to the exit, the server, the collector goroutine, the gate, kills and restarts | one step of each goroutine |

`MC*` modules give the constants of each module values for TLC, and `*Proofs`
modules hold the theorems. In `BlobLifecycle`, `refs` is all that is seen of the
`files` table; in `Shares`, `entry` is all that is seen of the tree; in
`Lifecycle`, an upload and a round of the collector are reduced to how they hold
the gate. These are the interfaces between the components.

Definitions commented `Mutant:` are deliberate errors, each next to the
definition it distorts. No specification uses them; substituting one for its
neighbour makes the property named in `PROJECT.json` fail, which shows that the
run would notice that error in the code.

### How the models correspond to the code

* **`EntryTree`** `table[e]` is the row of a folder or file: `status` is
  `deleted_at` (NULL is `"active"`), with `"unused"` before the insert and
  `"purged"` after the delete, because sequences do not reuse identifiers. The
  partial unique indexes are `UniqueNames`, and a statement that would break them
  is not enabled: a refused request changes nothing. The recursive CTEs are
  `Subtree`, written as the least closed set, which is what `UNION ALL` computes
  on a tree (on a cycle PostgreSQL would not end, one more reason for `Acyclic`).
* **`EntryTx`** `req[c]` is the transaction client `c` has open. A statement reads
  committed rows only; the last statement commits. Rows written earlier are
  `pend`: locked for others. The single statement of `DeleteFolder` is two steps,
  its snapshot and its row locks, since PostgreSQL re-evaluates the condition of
  a row it had to wait for but does not look for new rows. Error paths are
  `Rollback`, possible at any time.
* **`Listings`** `view` is the listing one client is reading: `at` is the statement
  that comes next, `p` the folder, `via` the shared folder or `Root`. ORDER BY is
  any order of the names (a collation, in either direction), then the type; the
  key that ties are broken with last is never needed in one folder. `Offset` is
  Go's `int` arithmetic up to `MaxInt`. `moved`, `due` and `same` are history the
  properties need. Between any two statements `Other` is any step of `EntryTree`.
  The JOIN with `blobs` in the files part drops nothing (`ReferenceHasRow`).
* **`BlobLifecycle`** Ages replace timestamps: content, rows and temporary files
  are fresh until the grace period has passed. A round fixes its cutoff before it
  asks for the gate, so ages change between rounds only. `PutShard` also
  syncs a link that is already in the shard (`ensureShard` syncs the directory).
  With `PowerLoss` a crash also loses links not synced.
* **`Shares`** A download goes through `Access`, `Authorize`, `OpenBlob`,
  `AskConsume` (the clock is read), `LockShare` (`SELECT ... FOR UPDATE` and the
  checks), `Consume`. `Access` and `Authorize` are one step each although each is
  several statements: everything they look at, other than the password, is
  looked at again under the row lock. `UpdateShare` also takes the lock, hence
  `~Locked` in `Update` and `Delete`. `Update` does not look at the clock: the
  expiry is compared before the statement that may have to wait for the lock.
* **`ShareRequests`** `req[c]` is one request: `Arrive` is `validateOptions`, `Insert`
  and `InsertLost` one try of the loop whose commit is answered or not, `Read` the
  query after it. gorm stores the key of the row in the struct, so a try after a
  lost answer inserts the same key: `Inserts` is refused while that row is there.
  An owner may use, update or delete the link once it is listed, before the
  request is answered.
* **`Sessions`** A callback is three steps (`LoadAndDelete`; the identity provider;
  `Sessions.Create`), a request two before it is served (read under the lock,
  judge after it). A restart forgets both tables.
* **`Lifecycle`** `main` is where `run` is, up to `"oidc"` in the stages of the
  start-up, each of which may fail (`GiveUp`); `Open` and `Migrate` have no deadline,
  `Ping` and the discovery are under `startupCtx`. `schema` and `root` outlive the
  process. The server goroutine binds its address after `run` waits in its
  `select`, so a signal may come first. `up` is a client's connection and the
  request on it: a connection outlives its requests, may bring one while `Shutdown`
  waits for others, and is closed by `Shutdown` only when no request is left. `writer = "waiting"`
  keeps new readers out of the gate, as `sync.RWMutex` does.

## Runs

All take the `MC*` module of their name; `EntryTree` takes `MCListings`. States
are distinct ones, with two workers no run takes more than about three minutes.

| Run | Instance | States | Shows |
| --- | --- | --- | --- |
| `EntryTree` | 3 folders, 2 files, 2 names, one listing of pages of one row | 91 k (symmetry) | tree, reachability and trash properties of whole operations; listings between them |
| `EntryTx` | 1 client, 3 folders, 1 file, 2 names | 57 k | the statements implement `EntryTree` when requests do not overlap |
| `EntryTxApart` | 2 clients, 2 folders, 1 file, 2 names | 1.2 M (symmetry) | requests of every kind may overlap without damage to the tree, conflicting ones excepted; cascades reach no active row |
| `BlobLifecycle` | 2 digests, 2 uploads, 2 temporary files, 1 download, 1 crash | 4.5 M (symmetry) | content and metadata agree through races, failures and a crash; downloads without a lock are safe for referenced content; the calls implement `BlobStore` |
| `BlobLiveness` | 1 digest, 1 upload, 1 temporary file, 2 crashes, fairness | 2 k | garbage and temporary files go away, also after crashes, and an upload is not starved by a collector that comes back |
| `Shares` | 2 links, 1 creation, 2 downloads, 1 password, limits to 2, clock to 2 | 296 k | limit, expiry, deletion, moves, retried creation, and the refinement of `ShareQuota` |
| `Sessions` | 2 logins, 2 sessions, 2 callbacks, 2 requests, clock to 3 | 101 k | replayed callbacks, logout and expiry races, restarts |
| `Lifecycle` | 3 clients that upload, fairness of process, database and clients | 13 k | order and end of start-up and shutdown, with kills and restarts |

Why the bounds suffice: each hazard needs two actors (two callbacks, two
downloads, an upload and the collector) and one resource they meet at. Three
folders are the least that have a move below a grandchild, two names the least
with and without a clash. Lifetimes of 1 with a clock to 3 let a login state
expire, a session expire, and a second one outlive it. `MaxCount = 3` is above
the largest limit, so that a missing check has room to overshoot. A third upload adds no
new order of two steps. Two links are the least for a retry to leave a second one behind. Pages of one row make every
change of the folder move the later pages. The bounds that cut behaviour
off are `MaxRefs`, `MaxCount`, `MaxCrashes`, `MaxTime`, `MaxRows` (rows ever inserted
while a client lists: 3) and `Answered` (links are used once their request is
answered; what an owner does to them is not bounded). All but `Answered` are
constants, and the theorems hold for every value of them; `Answered` is part of
`RequestNext`, and the theorems about `ShareRequests` are about behaviours in it.

`EntryTxApart` runs `ApartSpec`: both clients send everything, and only requests that
`Conflict` are kept from overlapping, a folder deletion with a creation, an update
or a restore, and two moves of folders. The code does not keep them apart: `EntryTxMoves`
and `EntryTxPurge` show one such pair each going wrong, and restrict what clients send
(`Allowed`) to it. That these pairs are the only ones is what the run and
`ApartTheorem` say.
`Shares` checks no deadlock, because links and clock run out in it.
`TotalFitsItems` compares the total with every page and size up to `MaxPage`
where `MaxInt` is 7: 9 pages reach offsets beyond it.
`BlobLiveness` looks at one upload, which competes with the collector only: readers
do not keep each other out of the gate. Its one temporary file makes uploads fail
until what a crash left of it is collected; `BlobLifecycle` has two. With a second
upload and one crash the same properties hold in 8 k states, which takes five
minutes.

### Findings

Runs that end in a violation, each of what the repository itself says:

| Run | Property | What the code does |
| --- | --- | --- |
| `EntryTreeRestore` | `TrashRestorable` | a deleted folder that holds two deleted entries of one name cannot be restored, although its own name is free: the unique index refuses the UPDATE (`trash.go:198`), until one of the two, which the trash does not list, is purged by its id |
| `EntryTxMoves` | `Acyclic` | two overlapping moves put each folder below the other (`folder.go:99`) |
| `EntryTxPurge` | `PurgeOnlyTrash` | a folder created below one that is being deleted (`folder.go:22`) stays active, and purging the deleted one cascades to it (`trash.go:269`) |
| `BlobPowerLoss` | `RowHasContent` | metadata of a duplicate upload is committed before the link it relies on is synced (`filesystem.go:111`) |

More observations follow from the models, without a run of their own:

* A purge of a file that a concurrent request restores between the two statements
  of `purgeTx` (`trash.go:246`) removes an active row: `PurgeOnlyTrash` fails in
  `EntryTx` already for one client that restores and one that purges.
* A download reads the blob row and opens the content without the gate
  (`service.go:111`). For content no file references any more it may be told
  `ErrInconsistentBlob` when a collection comes in between; `ReferencedServed`
  says that nothing worse can happen.
* Under `Lifecycle!FairSpec` alone `ProcessExits` fails: an upload whose client stalls
  holds the gate, the cancelled collector waits for it (`service.go:145`), and
  `run` waits for the collector.
* After a shutdown that timed out an upload may still be under way, or come over a
  connection that was left open, when the pool is closed (`main.go:134`); no other
  end of the process cuts an upload off but a failed server (`DrainedMeansAnswered`).
  To the files and the database its calls fail, then the process dies: the
  `UploadFails` and `Crash` of `BlobLifecycle`.
* With a huge `page` the offset wraps around (`entry.go:81`): the answer is an early
  page, or an error when the offset is negative. `TotalFitsItems` holds as long
  as it fits an `int`.
* A client that stops once it has `total` items can miss an entry that came
  meanwhile; one that stops at a page that is not full cannot, as long as entries
  only come (`NothingMissed`).
* The subtree check and the listing of a shared folder are separate transactions
  (`share.go:147`). A folder that is moved out of the share in between is still
  listed: without `~moved` the property `ListedStillShared` fails for one move. It
  says that this is all: deletions, restores and purges in between never leave the
  folder open outside the share.
* The answer to a creation is read back after the commit (`service.go:87` of
  shares, also in the handlers of folders and uploads): when the row is deleted
  in between, the answer is 404 although it was created. After a lost
  commit answer the loop is refused by the key of its own row and answers an
  error while the link exists; the owner finds it in the list.
* A link can come to life expired: the expiry is compared before the row is written.
* `startupTimeout` also runs while `Open` and `Migrate` do, which ignore it: after a
  long migration the discovery fails at once, and the next start succeeds.
  With a database that accepts and never answers the start-up does not end.
* A signal before `signal.NotifyContext` (`main.go:96`) kills the process without
  closing the pool; nothing is lost, since nothing but the schema was written.

## Fairness

* `BlobLifecycle!Fairness`: requests that hold the gate go on (a client sends or
  hangs up), the ticker fires, time passes, and the collector's goroutine runs:
  weak fairness. A call may fail in a round, but not in every round: strong
  fairness of the single calls. `RWMutex.Unlock` admits the readers that wait
  before the next writer: strong fairness of `UploadEnters`. Uploads need not
  arrive.
* `Lifecycle!ProcessFairness`: `run` and the collector go on, and
  `startupTimeout` passes. The answers of the database and the provider under
  `startupCtx` are not fair: they may never come. `DatabaseFairness`: `Open` and
  `Migrate`, which have no deadline, are answered, be it with an error.
  `Returns` is strongly
  fair since `select` may take a tick instead of the cancellation, but a tick
  comes once per interval. `ClientFairness` (clients send or hang up) is kept
  apart: with it the process exits (`ProcessExits`), without it it may not
  (see above), since the server sets no read deadline.

`EntryTree`, `EntryTx`, `Listings`, `Shares`, `ShareRequests` and `Sessions` promise nothing that must eventually
happen, so they assume no fairness.

## Proofs

Checked by `tlapm`, for every value of the constants under the assumptions the
modules name. All follow one pattern: an inductive invariant, a lemma for each
group of actions, one step per action, and PTL at the end.

* **`EntryTreeProofs`** (from `ConstantsAssumption`): `TreeInv` is inductive.
  `ParentActive` is what makes a deletion of an active subtree, and a restore
  below an active parent, close; `ParentPresent` is what makes the cascade
  harmless; `Acyclic` says no nonempty set of folders holds all its own parents,
  which turns every argument on paths into one on sets, without induction.
  `Reachable` and `TrashCovers` follow: the entries out of reach would be
  such a set. `PurgeOnlyTrash` and `EmptyTrashEmpties` follow from the same facts.
* **`ListingsProofs`**: `Listings` implements `EntryTree` (a statement of a listing
  stutters), hence `TreeInv` also with listings under way; and `ListedStillShared`.
  For the latter the folder, while its row is there, stays below the shared one
  through deleted folders too (`Placed`): a step lets folders go, and with one
  everything below it (`KeptBelow`), or it moves a single folder, and if the listed
  one is below that, not out of the share (`MovedBelow`). An active folder
  below another is reached from it through active folders (`ActiveInSubtree`), so
  that a listed folder that is there at the end is shared.
  `NothingMissedTheorem` and `TotalFitsItemsTheorem` rest on one fact about ORDER BY:
  the places of the sorted rows are 0 to n - 1, each taken once (`Place` counts the
  rows before; it is an injection of n rows into n numbers, so no induction is
  needed). An
  offset is exact while it fits `MaxInt`, which is why `MaxRows` may not be larger.
  For the first, `RowsInv` bounds the rows by what was ever inserted, and `PageInv`
  says that an entry that was due and has not been shown is at or after the next
  page: entries that only come move it to later places.
* **`BlobLifecycleProofs`** (`BlobAssumption`, and `PowerLoss = FALSE`): `BlobInv`
  joins `RowHasContent` and `ReferenceHasRow` with why they hold: the gate
  excludes (`GateExcludes`), uploads own their temporary files (`TempsOwned`),
  what Put has published stays until it is registered (`PutStays`), and the
  collector removes content only of digests without a row (`RemovesRowless`).
  `ReferencedServed` needs no lock because of `RowHasContent` and
  `ReferenceHasRow`. `StoreTheorem` is the refinement of `BlobStore`: `PutLink`
  publishes, `Register` refers to what `PutStays` keeps, the collector's two removals
  are of content without a row, and all other steps stutter.
* **`SharesProofs`** (`SharesAssumption`): `SharesInv`, where `LockKeeps` says that what was
  checked under the row lock holds until the row is unlocked; from it
  `HandedOutWhileShared` and the refinement `GrantsInOneStep`.
* **`ShareRequestsProofs`**: `ShareRequests` implements `Shares`, so that the theorems
  above hold with retries; `OneLinkPerRequest`, by what `Inserts` refuses.
* **`LifecycleProofs`**: `LifecycleInv`, with what each stage of `run` has built
  (`StartsInOrder`) and has stopped (`StopsInOrder`); `WorksOnWhole` follows from the
  first, `PoolOutlivesCollector` and `DrainedMeansAnswered` from the second.
* **`SessionsProofs`** (`SessionsAssumption`): `SessionsInv`, where `ConsumedOnce` and
  `StoredUnused` carry `OneSessionPerLogin`, and `ReadHolds`, that what a request
  read of its session is still true of it unless it was logged out or expired,
  carries `ServedSignedIn`. `GoneForGood` goes through the steps that write sessions:
  `Create` only stores an identifier that is drawn, and never was a session.
* **`EntryTxProofs`**: `TxInv`, for any number of clients and any operations. Its
  part `Ready` says what a request has settled before its next statement; the
  rows a restore has pending are there, because its lock keeps every other request
  from erasing them (`RowsWritten` is that argument, for all statements that end a
  transaction). From it `PurgedForGood`, although the statements of a restore name
  rows by identifier and look at no deletion mark.

  For any number of clients that keep conflicting requests apart (`ApartSpec`):
  `ApartInv` is inductive. Its part `Settled` says what the earlier statements of a
  request found that still holds, for instance that the checked parent is still active
  when the row is written, or that a deletion's snapshot still has every active entry
  below the folder. `ApartTheorem` gives `TreeInv`, `Reachable` and `TrashCovers`,
  `CascadeTheorem` gives `CascadeOnlyTrash`. `PurgeOnlyTrash` itself is not to be had: a
  purge overlapped by a restore of the same file takes an active row.

  For one client (the theorem assumes that any two clients are equal): `ExactInv` adds
  that a request has gathered exactly what its operation computes in one step, so
  `ImplementsTheorem` maps each last statement to that operation and each other one to
  a stutter. `Purges` of an entry already done do not change when the next is
  purged, because what is pending is closed (`Closed`) and deleted.

Only model-checked: the liveness properties (`GarbageCollected`, `TempsCollected`,
`UploadEntersGate`, `ProcessExits`, `StartupEnds`), which with fairness and `ENABLED`
are out of reach of the prover. The properties of the runs that end in a violation
are refuted, not proved. Every other property of a run is a theorem.

## Not modelled

* Decoding of requests and the mapping of errors to status codes in the HTTP
  handlers; each makes the calls of a modelled operation.
* The list of links (`ListShares`), the filter by name and sorting by time in
  listings: queries of the form `Listings` models.
* Contents, MIME types, tokens, password hashes, digests character by character;
  integrity errors caused by foreign files below the storage root.
* The parsing of single configuration values; what AutoMigrate does to one table.
* The storage interface (types and the syntax of digests) and the association
  records in it, which no part of the server uses.
* The web client, its mock server, and generated types. What its caches show is
  right only under conditions the pages keep and the hooks do not (one list on the
  page, one mutation at a time, no row of a list that is being fetched), so it needs
  a module of its own with the pages as its environment; the plan below outlines it.

## Plan

Done: `EntryTree`, `EntryTx`, `BlobLifecycle`, `BlobStore`, `Shares`, `Lifecycle` with
start-up, `Sessions`, `Listings`, `ShareRequests`, with their runs and the theorems
above. Left:

1. A full batch of failing rows in `BlobLifecycle`.
2. `ClientCache` (extends `EntryTree`, which is its server): the SWR caches of
   `files.ts`, `folders.ts` and `trash.ts`, the exclusive guard, the dedupe interval,
   and revalidation against late answers. What a page shows when nothing is
   pending should be what the server would answer, for one list on the page, one
   mutation at a time, and no action on a row whose list is still being fetched;
   the last condition matters, because a move from a stale row names the wrong
   old parent (`files.ts` and `folders.ts`, `fromParentId`).
