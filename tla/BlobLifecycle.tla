--------------------------- MODULE BlobLifecycle ---------------------------
(***************************************************************************)
(* Physical content and its metadata: files.Service (Upload, OpenBlob,     *)
(* CollectGarbage, RunGarbageCollector), the content-addressed store of    *)
(* storage/filesystem, and the blobs table.                                *)
(*                                                                         *)
(* Uploads hold the gate (a sync.RWMutex) for reading, a garbage collection *)
(* holds it for writing; OpenBlob and the purges of the metadata side take *)
(* no lock.  An action is one call on the database or the file system.     *)
(*                                                                         *)
(* Time is abstracted to an age: content, rows and temporary files are     *)
(* "fresh" until the grace period has passed and "old" after.  A round     *)
(* fixes its cutoff before it asks for the gate, so ages are judged, and   *)
(* change, between rounds only.                                            *)
(***************************************************************************)
EXTENDS Naturals, FiniteSets

CONSTANTS
    Digests,    \* SHA-256 digests, that is, distinct contents
    Uploads,    \* upload requests in flight at one time
    Temps,      \* names CreateTemp finds free below the storage root
    Readers,    \* downloads in flight at one time
    MaxRefs,    \* bound: file rows that reference one digest
    BatchSize,  \* FPAN_GC_BATCH_SIZE
    MaxCrashes, \* bound: how often the process dies
    PowerLoss,  \* whether a crash also loses directory entries not yet synced
    None        \* no digest, no temporary file

ASSUME BlobAssumption ==
    /\ MaxRefs \in Nat /\ BatchSize \in Nat \ {0} /\ MaxCrashes \in Nat
    /\ PowerLoss \in BOOLEAN
    /\ None \notin Digests \cup Temps

VARIABLES
    rows,       \* blobs table: age of created_at, or "none"
    refs,       \* files rows, deleted ones included, that reference a digest
    disk,       \* published content: age of its modification time, or "none"
    synced,     \* digests whose directory entry has reached the disk
    temps,      \* .fpan-blob-* files: age, or "none"
    readers,    \* uploads that hold the gate for reading
    writer,     \* the collector's part of the gate
    up,         \* each upload: where it is, its digest, its temporary file
    gc,         \* the collector: where it is, what is left, the digest at hand
    rd,         \* each download: where it is, its digest
    crashes     \* how often the process died so far

metadata == <<rows, refs>>
content  == <<disk, synced, temps>>
gate     == <<readers, writer>>
vars     == <<rows, refs, disk, synced, temps, readers, writer, up, gc, rd, crashes>>

Ages == {"none", "fresh", "old"}

NoUpload == [pc |-> "idle", d |-> None, tmp |-> None]
NoRound  == [pc |-> "idle", todo |-> {}, cur |-> None]
NoOpen   == [pc |-> "idle", d |-> None]

Init ==
    /\ rows = [d \in Digests |-> "none"]
    /\ refs = [d \in Digests |-> 0]
    /\ disk = [d \in Digests |-> "none"]
    /\ synced = {}
    /\ temps = [t \in Temps |-> "none"]
    /\ readers = {} /\ writer = "none"
    /\ up = [u \in Uploads |-> NoUpload]
    /\ gc = NoRound
    /\ rd = [r \in Readers |-> NoOpen]
    /\ crashes = 0

-----------------------------------------------------------------------------
(* Upload *)

UploadGoes(u, pc) == up' = [up EXCEPT ![u].pc = pc]

UploadArrives(u, d) ==
    /\ up[u].pc = "idle"
    /\ up' = [up EXCEPT ![u] = [pc |-> "gate", d |-> d, tmp |-> None]]
    /\ UNCHANGED <<metadata, content, gate, gc, rd, crashes>>

\* Mutant: Upload without the read lock's wait
UploadEntersAnyway(u) ==
    /\ up[u].pc = "gate"
    /\ readers' = readers \cup {u}
    /\ UploadGoes(u, "copy")
    /\ UNCHANGED <<metadata, content, writer, gc, rd, crashes>>

\* RLock: a writer that holds the gate or waits for it keeps new readers out
UploadEnters(u) ==
    /\ up[u].pc = "gate"
    /\ writer = "none"
    /\ readers' = readers \cup {u}
    /\ UploadGoes(u, "copy")
    /\ UNCHANGED <<metadata, content, writer, gc, rd, crashes>>

\* Put: CreateTemp, copy and sync the content
PutTemp(u) ==
    /\ up[u].pc = "copy"
    /\ \E t \in Temps :
          /\ temps[t] = "none"
          /\ temps' = [temps EXCEPT ![t] = "fresh"]
          /\ up' = [up EXCEPT ![u].pc = "shard", ![u].tmp = t]
    /\ UNCHANGED <<metadata, disk, synced, gate, gc, rd, crashes>>

\* ensureShard syncs the directory, and with it a link that is already there
PutShard(u) ==
    /\ up[u].pc = "shard"
    /\ synced' = synced \cup {d \in {up[u].d} : disk[d] # "none"}
    /\ UploadGoes(u, "link")
    /\ UNCHANGED <<metadata, disk, temps, gate, gc, rd, crashes>>

\* Link publishes the content, unless a file of that digest exists.  The file
\* keeps the modification time of the temporary file.
PutLink(u) ==
    LET d == up[u].d
    IN  /\ up[u].pc = "link"
        /\ IF disk[d] = "none"
           THEN disk' = [disk EXCEPT ![d] = temps[up[u].tmp]] /\ UploadGoes(u, "sync")
           ELSE disk' = disk /\ UploadGoes(u, "clean")
        /\ UNCHANGED <<metadata, synced, temps, gate, gc, rd, crashes>>

PutSync(u) ==
    /\ up[u].pc = "sync"
    /\ synced' = synced \cup {up[u].d}
    /\ UploadGoes(u, "clean")
    /\ UNCHANGED <<metadata, disk, temps, gate, gc, rd, crashes>>

\* The deferred removal of the temporary file ends Put
WithoutTemp(u) == [t \in Temps |-> IF t = up[u].tmp THEN "none" ELSE temps[t]]

PutClean(u) ==
    /\ up[u].pc = "clean"
    /\ temps' = WithoutTemp(u)
    /\ up' = [up EXCEPT ![u].pc = "register", ![u].tmp = None]
    /\ UNCHANGED <<metadata, disk, synced, gate, gc, rd, crashes>>

\* Mutant: the blob row only for content that Put has just created
RegisterCreated(u) ==
    LET d == up[u].d
    IN  /\ up[u].pc = "register"
        /\ refs[d] < MaxRefs
        /\ rows' = [rows EXCEPT ![d] = IF @ = "none" /\ disk[d] = "fresh" THEN "fresh" ELSE @]
        /\ refs' = [refs EXCEPT ![d] = @ + 1]
        /\ UploadGoes(u, "leave")
        /\ UNCHANGED <<content, gate, gc, rd, crashes>>

\* CreateFile inserts the blob row, if there is none, and the file row
Register(u) ==
    LET d == up[u].d
    IN  /\ up[u].pc = "register"
        /\ refs[d] < MaxRefs
        /\ rows' = [rows EXCEPT ![d] = IF @ = "none" THEN "fresh" ELSE @]
        /\ refs' = [refs EXCEPT ![d] = @ + 1]
        /\ UploadGoes(u, "leave")
        /\ UNCHANGED <<content, gate, gc, rd, crashes>>

\* Any call of Put or CreateFile fails: published content stays.  The removal
\* of the temporary file may be the call that fails.
UploadFails(u) ==
    /\ up[u].pc \in {"copy", "shard", "link", "sync", "clean", "register"}
    /\ temps' \in {temps, WithoutTemp(u)}
    /\ up' = [up EXCEPT ![u].pc = "leave", ![u].tmp = None]
    /\ UNCHANGED <<metadata, disk, synced, gate, gc, rd, crashes>>

UploadLeaves(u) ==
    /\ up[u].pc = "leave"
    /\ readers' = readers \ {u}
    /\ up' = [up EXCEPT ![u] = NoUpload]
    /\ UNCHANGED <<metadata, content, writer, gc, rd, crashes>>

-----------------------------------------------------------------------------
(* Purge and EmptyTrash delete file rows, in transactions of their own *)

RowPurged(d) ==
    /\ refs[d] > 0
    /\ refs' = [refs EXCEPT ![d] = @ - 1]
    /\ UNCHANGED <<rows, content, gate, up, gc, rd, crashes>>

-----------------------------------------------------------------------------
(* OpenBlob: the blob row, then the content; no lock *)

OpenRow(r, d) ==
    /\ rd[r].pc # "open"
    /\ rows[d] # "none"
    /\ rd' = [rd EXCEPT ![r] = [pc |-> "open", d |-> d]]
    /\ UNCHANGED <<metadata, content, gate, up, gc, crashes>>

\* ErrInconsistentBlob when the content is not there
OpenContent(r) ==
    /\ rd[r].pc = "open"
    /\ rd' = [rd EXCEPT ![r].pc = IF disk[rd[r].d] # "none" THEN "served" ELSE "inconsistent"]
    /\ UNCHANGED <<metadata, content, gate, up, gc, crashes>>

-----------------------------------------------------------------------------
(* CollectGarbage *)

GCGoes(pc) == gc' = [gc EXCEPT !.pc = pc]

\* The ticker fires; the round fixes its cutoff and asks for the gate
GCTick ==
    /\ gc.pc = "idle"
    /\ writer' = "waiting"
    /\ GCGoes("gate")
    /\ UNCHANGED <<metadata, content, readers, up, rd, crashes>>

\* Mutant: Lock without the wait for the uploads under way
GCEntersAnyway ==
    /\ gc.pc = "gate"
    /\ writer' = "held"
    /\ GCGoes("list")
    /\ UNCHANGED <<metadata, content, readers, up, rd, crashes>>

GCEnters ==
    /\ gc.pc = "gate"
    /\ readers = {}
    /\ writer' = "held"
    /\ GCGoes("list")
    /\ UNCHANGED <<metadata, content, readers, up, rd, crashes>>

Unreferenced == {d \in Digests : rows[d] # "none" /\ refs[d] = 0}

\* ORDER BY created_at LIMIT batch: no fresh row while an old one is left out
OldestFirst(batch) ==
    /\ batch \subseteq Unreferenced
    /\ Cardinality(batch) <= BatchSize
    /\ Cardinality(batch) < BatchSize => batch = Unreferenced
    /\ \A b \in batch, d \in Unreferenced \ batch : rows[d] = "old" => rows[b] = "old"

\* ListUnreferencedBlobs
GCList ==
    /\ gc.pc = "list"
    /\ \E batch \in SUBSET Digests :
          /\ OldestFirst(batch)
          /\ gc' = [gc EXCEPT !.pc = "rows", !.todo = batch]
    /\ UNCHANGED <<metadata, content, gate, up, rd, crashes>>

\* DeleteBlobIfUnreferenced, for a listed row older than the cutoff
GCRow(d) ==
    /\ gc.pc = "rows" /\ d \in gc.todo
    /\ rows[d] = "old" /\ refs[d] = 0
    /\ rows' = [rows EXCEPT ![d] = "none"]
    /\ gc' = [gc EXCEPT !.pc = "content", !.todo = @ \ {d}, !.cur = d]
    /\ UNCHANGED <<refs, content, gate, up, rd, crashes>>

\* A row that is too young or referenced again, or a failed statement
GCRowSkipped(d) ==
    /\ gc.pc = "rows" /\ d \in gc.todo
    /\ gc' = [gc EXCEPT !.todo = @ \ {d}]
    /\ UNCHANGED <<metadata, content, gate, up, rd, crashes>>

RemovesContent(d) ==
    /\ disk' = [disk EXCEPT ![d] = "none"]
    /\ synced' = synced \ {d}
    /\ UNCHANGED temps

\* Exists, Delete: the content of the row just deleted
GCContent ==
    /\ gc.pc = "content"
    /\ RemovesContent(gc.cur)
    /\ gc' = [gc EXCEPT !.pc = "rows", !.cur = None]
    /\ UNCHANGED <<metadata, gate, up, rd, crashes>>

GCContentFails ==
    /\ gc.pc = "content"
    /\ gc' = [gc EXCEPT !.pc = "rows", !.cur = None]
    /\ UNCHANGED <<metadata, content, gate, up, rd, crashes>>

\* Enumerate walks the published files
GCWalk ==
    /\ gc.pc = "rows" /\ gc.todo = {}
    /\ gc' = [gc EXCEPT !.pc = "walk", !.todo = {d \in Digests : disk[d] # "none"}]
    /\ UNCHANGED <<metadata, content, gate, up, rd, crashes>>

\* Mutant: content without a row is left alone
GCVisitKeepsOrphan(d) ==
    /\ gc.pc = "walk" /\ d \in gc.todo
    /\ gc' = [gc EXCEPT !.todo = @ \ {d}]
    /\ UNCHANGED <<metadata, content, gate, up, rd, crashes>>

\* BlobExists, for a file older than the cutoff
GCVisit(d) ==
    /\ gc.pc = "walk" /\ d \in gc.todo
    /\ gc' = IF disk[d] = "old" /\ rows[d] = "none"
             THEN [gc EXCEPT !.pc = "orphan", !.todo = @ \ {d}, !.cur = d]
             ELSE [gc EXCEPT !.todo = @ \ {d}]
    /\ UNCHANGED <<metadata, content, gate, up, rd, crashes>>

GCOrphan ==
    /\ gc.pc = "orphan"
    /\ RemovesContent(gc.cur)
    /\ gc' = [gc EXCEPT !.pc = "walk", !.cur = None]
    /\ UNCHANGED <<metadata, gate, up, rd, crashes>>

\* BlobExists or Delete fails
GCOrphanFails ==
    /\ gc.pc = "orphan"
    /\ gc' = [gc EXCEPT !.pc = "walk", !.cur = None]
    /\ UNCHANGED <<metadata, content, gate, up, rd, crashes>>

\* Mutant: the gate is not unlocked
GCLeavesLocked == writer' = "held" /\ gc' = NoRound

GCLeaves == writer' = "none" /\ gc' = NoRound

\* Mutant: CleanupTemporary left out
GCTempsSkipped ==
    /\ gc.pc = "walk" /\ gc.todo = {}
    /\ GCLeaves
    /\ UNCHANGED <<metadata, content, readers, up, rd, crashes>>

\* CleanupTemporary, the end of the round
GCTemps ==
    /\ gc.pc = "walk" /\ gc.todo = {}
    /\ temps' = [t \in Temps |-> IF temps[t] = "old" THEN "none" ELSE temps[t]]
    /\ GCLeaves
    /\ UNCHANGED <<metadata, disk, synced, readers, up, rd, crashes>>

\* ... or some of the removals fail
GCTempsFails ==
    /\ gc.pc = "walk" /\ gc.todo = {}
    /\ \E kept \in SUBSET {t \in Temps : temps[t] = "old"} :
          /\ kept # {}
          /\ temps' = [t \in Temps |-> IF temps[t] = "old" /\ t \notin kept THEN "none"
                                       ELSE temps[t]]
    /\ GCLeaves
    /\ UNCHANGED <<metadata, disk, synced, readers, up, rd, crashes>>

\* The listing fails, or the collector's context is cancelled: every further
\* call returns at once and the deferred Unlock opens the gate
GCStops ==
    /\ gc.pc \in {"list", "rows", "content", "walk", "orphan"}
    /\ GCLeaves
    /\ UNCHANGED <<metadata, content, readers, up, rd, crashes>>

-----------------------------------------------------------------------------
(* Time and failures of the process *)

Older(ages, x) == ages[x] = "fresh" /\ gc.pc = "idle"

RowAges(d) ==
    /\ Older(rows, d)
    /\ rows' = [rows EXCEPT ![d] = "old"]
    /\ UNCHANGED <<refs, content, gate, up, gc, rd, crashes>>

ContentAges(d) ==
    /\ Older(disk, d)
    /\ disk' = [disk EXCEPT ![d] = "old"]
    /\ UNCHANGED <<metadata, synced, temps, gate, up, gc, rd, crashes>>

TempAges(t) ==
    /\ Older(temps, t)
    /\ temps' = [temps EXCEPT ![t] = "old"]
    /\ UNCHANGED <<metadata, disk, synced, gate, up, gc, rd, crashes>>

\* The process dies and starts again: the database and the files stay, the
\* gate, the requests and the round are gone.  Losing power also loses the
\* links that no sync has covered.
Crash ==
    /\ crashes < MaxCrashes
    /\ crashes' = crashes + 1
    /\ disk' = [d \in Digests |-> IF PowerLoss /\ d \notin synced THEN "none" ELSE disk[d]]
    /\ readers' = {} /\ writer' = "none"
    /\ up' = [u \in Uploads |-> NoUpload]
    /\ gc' = NoRound
    /\ rd' = [r \in Readers |-> NoOpen]
    /\ UNCHANGED <<metadata, synced, temps>>

UploadStep(u) ==
    \/ UploadEnters(u)
    \/ PutTemp(u) \/ PutShard(u) \/ PutLink(u) \/ PutSync(u) \/ PutClean(u)
    \/ Register(u) \/ UploadFails(u) \/ UploadLeaves(u)

GCStep ==
    \/ GCEnters \/ GCList \/ GCWalk \/ GCTemps \/ GCTempsFails
    \/ \E d \in Digests : GCRow(d) \/ GCRowSkipped(d) \/ GCVisit(d)
    \/ GCContent \/ GCContentFails \/ GCOrphan \/ GCOrphanFails

Next ==
    \/ \E u \in Uploads : UploadStep(u) \/ \E d \in Digests : UploadArrives(u, d)
    \/ \E d \in Digests : RowPurged(d) \/ RowAges(d) \/ ContentAges(d)
    \/ \E t \in Temps : TempAges(t)
    \/ \E r \in Readers : OpenContent(r) \/ \E d \in Digests : OpenRow(r, d)
    \/ GCTick \/ GCStep \/ GCStops
    \/ Crash

Spec == Init /\ [][Next]_vars

\* Requests go on once they hold the gate (a client sends its body or hangs
\* up), the ticker keeps firing and time passes.  A call of the collector may
\* fail in one round; it does not fail in every round.  RWMutex.Unlock wakes
\* the readers that arrived meanwhile before a later Lock can pass them: an
\* upload that finds the gate free again and again gets through.
Fairness ==
    /\ \A u \in Uploads : WF_vars(UploadStep(u)) /\ SF_vars(UploadEnters(u))
    /\ WF_vars(GCTick)
    /\ WF_vars(GCStep)
    /\ SF_vars(GCList) /\ SF_vars(GCContent) /\ SF_vars(GCWalk)
    /\ SF_vars(GCOrphan) /\ SF_vars(GCTemps)
    /\ \A d \in Digests : /\ SF_vars(RowAges(d)) /\ SF_vars(ContentAges(d))
                          /\ SF_vars(GCRow(d)) /\ SF_vars(GCVisit(d))
    /\ \A t \in Temps : SF_vars(TempAges(t))

FairSpec == Spec /\ Fairness

-----------------------------------------------------------------------------
(* Correctness *)

UploadRecords ==
    [pc : {"idle", "gate", "copy", "shard", "link", "sync", "clean", "register", "leave"},
     d : Digests \cup {None}, tmp : Temps \cup {None}]

TypeOK ==
    /\ rows \in [Digests -> Ages]
    /\ refs \in [Digests -> 0 .. MaxRefs]
    /\ disk \in [Digests -> Ages]
    /\ synced \in SUBSET Digests
    /\ temps \in [Temps -> Ages]
    /\ readers \in SUBSET Uploads
    /\ writer \in {"none", "waiting", "held"}
    /\ up \in [Uploads -> UploadRecords]
    /\ gc \in [pc : {"idle", "gate", "list", "rows", "content", "walk", "orphan"},
               todo : SUBSET Digests, cur : Digests \cup {None}]
    /\ rd \in [Readers -> [pc : {"idle", "open", "served", "inconsistent"},
                           d : Digests \cup {None}]]
    /\ crashes \in 0 .. MaxCrashes

\* Metadata never outlives content: a blob row always has its file on disk,
\* through uploads of the same content, failed uploads, collections and
\* crashes (service.go: "Upload stores content before registering its
\* metadata").
RowHasContent == \A d \in Digests : rows[d] # "none" => disk[d] # "none"

\* A digest that some file row references, the trash included, keeps its blob
\* row: the collector never takes a blob a restore could bring back.
ReferenceHasRow == \A d \in Digests : refs[d] > 0 => rows[d] # "none"

HasTemp(u) == up[u].pc \in {"shard", "link", "sync", "clean"}

\* Content an upload has put stays until its metadata is registered, and so
\* does the temporary file it is linked from: no collection comes in between.
PutStays ==
    \A u \in Uploads :
        /\ up[u].pc \in {"sync", "clean", "register"} => disk[up[u].d] # "none"
        /\ HasTemp(u) => temps[up[u].tmp] # "none"

\* The uploads between Put and the end of CreateFile are those that hold the
\* gate, and the collector is at work only while it holds the gate alone.
InPut(u) == up[u].pc \notin {"idle", "gate"}

Collecting == gc.pc \notin {"idle", "gate"}

GateExcludes ==
    /\ \A u \in Uploads : InPut(u) <=> u \in readers
    /\ writer = "none" <=> gc.pc = "idle"
    /\ writer = "held" <=> Collecting
    /\ Collecting => readers = {}

\* Each upload has a digest, and a temporary file of its own while it needs one.
TempsOwned ==
    /\ \A u \in Uploads : /\ up[u].pc # "idle" => up[u].d \in Digests
                          /\ IF HasTemp(u) THEN up[u].tmp \in Temps ELSE up[u].tmp = None
    /\ \A u, v \in Uploads : u # v /\ HasTemp(u) /\ HasTemp(v) => up[u].tmp # up[v].tmp

\* The collector removes content of digests that have no row.
RemovesRowless ==
    gc.pc \in {"content", "orphan"} => gc.cur \in Digests /\ rows[gc.cur] = "none"

\* Why RowHasContent and ReferenceHasRow hold; inductive unless power is lost.
BlobInv ==
    /\ TypeOK /\ GateExcludes /\ TempsOwned /\ PutStays /\ RemovesRowless
    /\ RowHasContent /\ ReferenceHasRow

\* A download of content that some file row references is never answered with
\* ErrInconsistentBlob, although OpenBlob takes no lock.
ReferencedServed ==
    [][\A r \in Readers :
          rd[r].pc = "open" /\ rd'[r].pc = "inconsistent" => refs[rd[r].d] = 0]_vars

\* Uploads, failures, collections and crashes amount to the single steps of
\* BlobStore: whatever overlaps, a file row is only ever added for content that
\* is stored at that moment, and content goes only while no row refers to it.
Store == INSTANCE BlobStore WITH stored <- {d \in Digests : disk[d] # "none"}

ImplementsStore == Store!Spec

\* Content no file row references is collected, unless it is referenced again:
\* failed uploads, purged files and crashes leave no content behind for ever.
GarbageCollected ==
    \A d \in Digests : disk[d] # "none" /\ refs[d] = 0 ~> disk[d] = "none" \/ refs[d] > 0

\* Temporary files of crashed uploads are removed.
TempsCollected ==
    \A t \in Temps :
        temps[t] # "none" ~> temps[t] = "none"

\* An upload that asks for the gate gets it, although the collector comes back
\* round after round and a waiting collector goes first.
UploadEntersGate ==
    \A u \in Uploads : up[u].pc = "gate" ~> up[u].pc # "gate"
=============================================================================
