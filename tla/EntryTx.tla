------------------------------ MODULE EntryTx ------------------------------
(***************************************************************************)
(* The transactions of internal/database, statement by statement.          *)
(*                                                                         *)
(* Requests of several clients overlap.  db.Transaction opens a PostgreSQL *)
(* transaction at the default level, READ COMMITTED: each statement sees   *)
(* the rows committed when it starts, and only rows a statement writes are *)
(* locked until the commit.  So what one statement checked may no longer   *)
(* hold when a later one writes.                                           *)
(*                                                                         *)
(* One action is one statement; the last statement of a transaction is one *)
(* step with its commit.  Rows written before the last statement are       *)
(* pending: locked, and visible to nobody else.  A statement that meets a  *)
(* row another client has pending waits, that is, its action is disabled.  *)
(***************************************************************************)
EXTENDS EntryTree

CONSTANTS
    Clients,    \* requests in flight at one time
    Allowed     \* which operations each client sends

Ops == {"create", "updateFile", "updateFolder", "deleteFile", "deleteFolder",
        "restore", "purge", "emptyTrash"}

ASSUME AllowedAssumption == Allowed \in [Clients -> SUBSET Ops]

\* The request each client has in flight.
VARIABLE req

txVars == <<table, req>>

Idle == [op |-> "idle", at |-> "idle", e |-> Root, to |-> Root, name |-> Blank,
         sub |-> {}, rows |-> {}, todo |-> {}, pend |-> {}]

\* c answers and is free for the next request.
Done(c) == req' = [req EXCEPT ![c] = Idle]

Begins(c, op) == op \in Allowed[c] /\ req[c] = Idle

At(c, op, stage) == req[c].op = op /\ req[c].at = stage

\* Some of es is locked by an uncommitted write of another client.
Locked(c, es) == \E d \in Clients \ {c} : req[d].pend \cap es # {}

\* The unique index also waits for uncommitted rows: those a restore of
\* another client is bringing back.
IndexFree(c, t) ==
    \A d \in Clients \ {c} :
        req[d].op = "restore" =>
            UniqueNames([e \in Entries |->
                IF e \in req[d].pend THEN [t[e] EXCEPT !.status = "active"] ELSE t[e]])

\* The last statement of c: rows es take their values in t, and c commits.
Commit(c, es, t) ==
    /\ ~Locked(c, es)
    /\ IndexFree(c, t)
    /\ Write(t)
    /\ Done(c)

-----------------------------------------------------------------------------
(* CreateFolder, CreateFile: check the parent, insert *)

BeginCreate(c, p, n) ==
    /\ Begins(c, "create")
    /\ ActiveParent(p)
    /\ req' = [req EXCEPT ![c] = [Idle EXCEPT !.op = "create", !.at = "insert",
                                              !.to = p, !.name = n]]
    /\ UNCHANGED table

\* The foreign key asks for the parent's row, deleted or not.
Insert(c, e) ==
    LET p == req[c].to
    IN  /\ At(c, "create", "insert")
        /\ table[e].status = "unused"
        /\ p # Root => Present(p)
        /\ Commit(c, {p}, [table EXCEPT ![e] = ActiveRow(p, req[c].name)])

-----------------------------------------------------------------------------
(* UpdateFile, UpdateFolder: read the row, check the new parent, check that  *)
(* it is not a descendant (folders), update                                  *)

UpdateOp(e) == IF e \in Folders THEN "updateFolder" ELSE "updateFile"

BeginUpdate(c, e, p, n) ==
    /\ Begins(c, UpdateOp(e))
    /\ Active(e)
    /\ p # e
    /\ req' = [req EXCEPT ![c] =
                  [Idle EXCEPT !.op = UpdateOp(e), !.e = e, !.to = p, !.name = n,
                               !.at = IF p \in Folders THEN "parent" ELSE "update"]]
    /\ UNCHANGED table

\* activeFolderExists, in the middle of UpdateFile, UpdateFolder and Restore
CheckParent(c) ==
    /\ req[c].at = "parent"
    /\ Active(req[c].to)
    /\ req' = [req EXCEPT ![c].at = CASE req[c].op = "updateFolder" -> "ancestry"
                                      [] req[c].op = "updateFile" -> "update"
                                      [] req[c].op = "restore" -> "write"]
    /\ UNCHANGED table

CheckAncestry(c) ==
    /\ At(c, "updateFolder", "ancestry")
    /\ req[c].to \notin Subtree(req[c].e, ActiveFolders)
    /\ req' = [req EXCEPT ![c].at = "update"]
    /\ UNCHANGED table

\* UPDATE ... WHERE id = ? AND deleted_at IS NULL; the foreign key again
UpdateRow(c) ==
    LET e == req[c].e
        p == req[c].to
    IN  /\ req[c].at = "update"
        /\ Active(e)
        /\ p \in Folders => Present(p)
        /\ Commit(c, {e, p}, [table EXCEPT ![e] = Patched(e, p, req[c].name)])

-----------------------------------------------------------------------------
(* DeleteFile: one UPDATE of one row.  DeleteFolder: one statement that      *)
(* updates what its snapshot found below the folder, if it still qualifies   *)

DeleteFileRow(c, f) ==
    /\ Begins(c, "deleteFile")
    /\ ~Locked(c, {f})
    /\ DeleteFile(f)
    /\ UNCHANGED req

BeginDeleteFolder(c, f) ==
    /\ Begins(c, "deleteFolder")
    /\ f \in ActiveFolders
    /\ LET sub == Subtree(f, ActiveFolders)
       IN  req' = [req EXCEPT ![c] =
                      [Idle EXCEPT !.op = "deleteFolder", !.at = "delete", !.e = f, !.sub = sub,
                                   !.rows = {x \in Entries : /\ Active(x)
                                                             /\ x \in sub \/ table[x].parent \in sub}]]
    /\ UNCHANGED table

DeleteRows(c) ==
    LET sub == req[c].sub
        hit == {x \in req[c].rows : Active(x) /\ (x \in sub \/ table[x].parent \in sub)}
    IN  /\ At(c, "deleteFolder", "delete")
        /\ Commit(c, hit, WithStatus(hit, "deleted"))

-----------------------------------------------------------------------------
(* Restore: read the row, check its parent, then one UPDATE (a file) or two  *)
(* (the files of the deleted subtree, then its folders)                      *)

\* Mutant: the parent is not looked at
BeginRestoreUnchecked(c, e) ==
    /\ Begins(c, "restore")
    /\ Deleted(e)
    /\ req' = [req EXCEPT ![c] = [Idle EXCEPT !.op = "restore", !.e = e, !.at = "write"]]
    /\ UNCHANGED table

BeginRestore(c, e) ==
    /\ Begins(c, "restore")
    /\ Deleted(e)
    /\ LET p == table[e].parent
       IN  req' = [req EXCEPT ![c] = [Idle EXCEPT !.op = "restore", !.e = e, !.to = p,
                                                  !.at = IF p = Root THEN "write" ELSE "parent"]]
    /\ UNCHANGED table

\* Mutant: the row is written back when it is gone
RestoreFileUpsert(c) ==
    LET e == req[c].e
    IN  /\ At(c, "restore", "write")
        /\ e \in Files
        /\ Commit(c, {e}, WithStatus({e}, "active"))

\* UPDATE files SET deleted_at = NULL WHERE id = ?, whatever the row is by now
RestoreFileRow(c) ==
    LET e == req[c].e
    IN  /\ At(c, "restore", "write")
        /\ e \in Files
        /\ Present(e)
        /\ Commit(c, {e}, WithStatus({e}, "active"))

DeletedSubtree(e) == IF Deleted(e) THEN Subtree(e, DeletedFolders) ELSE {}

RestoreFileRows(c) ==
    LET e    == req[c].e
        back == {x \in Files : Deleted(x) /\ table[x].parent \in DeletedSubtree(e)}
    IN  /\ At(c, "restore", "write")
        /\ e \in Folders
        /\ ~Locked(c, back)
        /\ UniqueNames(WithStatus(back, "active"))
        /\ IndexFree(c, WithStatus(back, "active"))
        /\ req' = [req EXCEPT ![c].at = "folders", ![c].pend = back]
        /\ UNCHANGED table

RestoreFolderRows(c) ==
    LET back == req[c].pend \cup DeletedSubtree(req[c].e)
    IN  /\ At(c, "restore", "folders")
        /\ Present(req[c].e)
        /\ Commit(c, back, WithStatus(back, "active"))

-----------------------------------------------------------------------------
(* Purge: read the row; a file: DELETE it; a folder: list the ids of its     *)
(* subtree, DELETE the deleted files in it, DELETE the deleted folders.      *)
(* EmptyTrash: list the trash, then purge each entry, in one transaction     *)

BeginPurge(c, e) ==
    /\ Begins(c, "purge")
    /\ req' = [req EXCEPT ![c] = [Idle EXCEPT !.op = "purge", !.at = "row", !.todo = {e}]]
    /\ UNCHANGED table

BeginEmptyTrash(c) ==
    /\ Begins(c, "emptyTrash")
    /\ TrashList # {}
    /\ req' = [req EXCEPT ![c] = [Idle EXCEPT !.op = "emptyTrash", !.at = "row",
                                              !.todo = TrashList]]
    /\ UNCHANGED table

PurgeReadRow(c) ==
    /\ req[c].at = "row"
    /\ \E e \in req[c].todo \ req[c].pend :
          /\ Deleted(e)
          /\ req' = [req EXCEPT ![c].e = e, ![c].todo = @ \ {e},
                                ![c].at = IF e \in Files THEN "erase" ELSE "ids"]
    /\ UNCHANGED table

PurgeReadIds(c) ==
    /\ req[c].at = "ids"
    /\ req' = [req EXCEPT ![c].sub = Subtree(req[c].e, PresentFolders \ req[c].pend),
                          ![c].at = "files"]
    /\ UNCHANGED table

\* The rows es are gone for c: commit, or go on with the rest of the trash.
Erased(c, es) ==
    IF req[c].todo = {}
    THEN Commit(c, es, [x \in Entries |-> IF x \in es THEN NoRow("purged") ELSE table[x]])
    ELSE /\ ~Locked(c, es)
         /\ req' = [req EXCEPT ![c].pend = es, ![c].at = "row", ![c].sub = {}]
         /\ UNCHANGED table

\* DELETE FROM files WHERE id = ?, whatever the row is by now
EraseFile(c) ==
    /\ req[c].at = "erase"
    /\ Erased(c, req[c].pend \cup {x \in {req[c].e} : Present(x)})

EraseFiles(c) ==
    LET es == {x \in Files : Deleted(x) /\ table[x].parent \in req[c].sub}
    IN  /\ req[c].at = "files"
        /\ ~Locked(c, es)
        /\ req' = [req EXCEPT ![c].pend = @ \cup es, ![c].at = "folders"]
        /\ UNCHANGED table

\* Mutant: DELETE FROM folders without the rows below
EraseFoldersAlone(c) ==
    /\ req[c].op \in {"purge", "emptyTrash"}
    /\ req[c].at = "folders"
    /\ Erased(c, req[c].pend \cup (req[c].sub \cap DeletedFolders))

\* Mutant: whatever the folders of the subtree are by now
EraseFoldersAny(c) ==
    /\ req[c].op \in {"purge", "emptyTrash"}
    /\ req[c].at = "folders"
    /\ Erased(c, Gone(req[c].pend \cup {f \in req[c].sub : Present(f)}))

EraseFolders(c) ==
    /\ req[c].op \in {"purge", "emptyTrash"}
    /\ req[c].at = "folders"
    /\ Erased(c, Gone(req[c].pend \cup (req[c].sub \cap DeletedFolders)))

-----------------------------------------------------------------------------
(* A statement whose condition fails or that breaks a constraint returns an  *)
(* error, and so may any statement when the request's context is cancelled   *)
(* or the connection drops: the transaction rolls back.                      *)

Rollback(c) == req[c] # Idle /\ Done(c) /\ UNCHANGED table

TxInit == Init /\ req = [c \in Clients |-> Idle]

Step(c) ==
    \/ \E p \in Parents, n \in Names : BeginCreate(c, p, n)
    \/ \E e \in Entries : Insert(c, e)
    \/ \E e \in Entries, p \in Parents \cup {Keep}, n \in Names \cup {Keep} :
          BeginUpdate(c, e, p, n)
    \/ CheckParent(c) \/ CheckAncestry(c) \/ UpdateRow(c)
    \/ \E e \in Entries : DeleteFileRow(c, e) \/ BeginDeleteFolder(c, e)
    \/ DeleteRows(c)
    \/ \E e \in Entries : BeginRestore(c, e) \/ BeginPurge(c, e)
    \/ RestoreFileRow(c) \/ RestoreFileRows(c) \/ RestoreFolderRows(c)
    \/ BeginEmptyTrash(c)
    \/ PurgeReadRow(c) \/ PurgeReadIds(c) \/ EraseFile(c) \/ EraseFiles(c) \/ EraseFolders(c)
    \/ Rollback(c)

TxNext == \E c \in Clients : Step(c)

TxSpec == TxInit /\ [][TxNext]_txVars

-----------------------------------------------------------------------------
(* Correctness *)

\* What a request does next
Stages == {"idle", "insert", "parent", "ancestry", "update", "delete", "write",
           "row", "ids", "erase", "files", "folders"}

Requests ==
    [op : Ops \cup {"idle"}, at : Stages, e : Entries \cup {Root},
     to : Parents \cup {Keep}, name : Names \cup {Keep, Blank},
     sub : SUBSET Folders, rows : SUBSET Entries,
     todo : SUBSET Entries, pend : SUBSET Entries]

TxTypeOK == TypeOK /\ req \in [Clients -> Requests]

\* What a request has settled before its next statement.  The rows a restore
\* has pending are there: nobody else can purge them.
Ready(r) ==
    /\ r.op = "create" => r.to \in Parents /\ r.name \in Names
    /\ r.op \in {"updateFile", "updateFolder"} => r.name \in Names \cup {Keep}
    /\ r.at = "update" => r.op \in {"updateFile", "updateFolder"}
    /\ r.at = "parent" => r.op \in {"updateFile", "updateFolder", "restore"}
    /\ r.at \in {"row", "ids", "erase", "files"} => r.op \in {"purge", "emptyTrash"}
    /\ r.at \in {"parent", "ancestry", "update", "write", "ids", "erase", "files", "folders"} =>
         r.e \in Entries
    /\ r.op = "restore" /\ r.at = "folders" => r.e \in Folders
    /\ r.op = "restore" => \A x \in r.pend : Present(x)

\* Inductive.
TxInv == TxTypeOK /\ \A c \in Clients : Ready(req[c])

\* The requests whose transactions do not go together: a folder's deletion
\* with whatever puts an entry below a folder, and two moves of folders.
Conflict(a, b) ==
    \/ a = "deleteFolder" /\ b \in {"create", "updateFile", "updateFolder", "restore"}
    \/ a = "updateFolder" /\ b = "updateFolder"

Apart == \A c, d \in Clients : c # d => ~Conflict(req[c].op, req[d].op)

\* The clients' transactions, with conflicting requests kept from overlapping.
ApartSpec == TxInit /\ [][TxNext /\ Apart']_txVars

DeletedFiles(e) == {x \in Files : Deleted(x) /\ table[x].parent \in DeletedSubtree(e)}

\* What the earlier statements of a request found that still holds, as long as
\* conflicting requests are kept apart.
Settled(r) ==
    /\ r.op = "create" => ActiveParent(r.to)
    /\ r.op \in {"updateFile", "updateFolder"} => r.op = UpdateOp(r.e)
    /\ r.at \in {"parent", "ancestry"} => r.to \in Folders
    /\ r.at = "ancestry" => r.op = "updateFolder" /\ Active(r.to)
    /\ r.at = "update" /\ r.to \in Folders =>
         Active(r.to) /\ (r.e \in Folders => r.to \notin Subtree(r.e, ActiveFolders))
    /\ r.op = "deleteFolder" =>
         /\ DownClosed(r.sub, ActiveFolders)
         /\ \A x \in Entries : Active(x) /\ (x \in r.sub \/ table[x].parent \in r.sub) => x \in r.rows
    /\ r.op = "restore" =>
         /\ r.e \in Entries
         /\ Present(r.e) =>
              ActiveParent(table[r.e].parent) \/ (r.at = "parent" /\ table[r.e].parent = r.to)
    /\ r.op = "restore" /\ r.at = "folders" => r.pend = DeletedFiles(r.e)
    /\ r.op \in {"purge", "emptyTrash"} => Closed(r.pend) /\ \A f \in r.pend \cap Folders : Deleted(f)
    /\ r.at = "erase" => r.e \in Files

\* Inductive under Apart.
ApartInv == TreeInv /\ TxInv /\ \A c \in Clients : Settled(req[c])

Purges(es) == UNION {PurgeSet(x) : x \in es}

\* The entries a request purges, the ones it still has to do included.
Doomed(r) ==
    IF r.op = "emptyTrash" THEN TrashList ELSE IF r.at = "row" THEN r.todo ELSE {r.e}

\* What the only request in flight has gathered so far is what its operation in
\* EntryTree computes in one step.
PurgeExact(r) ==
    LET done == Doomed(r) \ r.todo
    IN  /\ r.todo \subseteq Doomed(r)
        /\ r.op = "purge" => IF r.at = "row" THEN r.todo \in {{x} : x \in Entries} ELSE r.todo = {}
        /\ r.at = "row" => r.pend = Purges(done)
        /\ r.at # "row" =>
             /\ Deleted(r.e) /\ r.e \in done
             /\ r.at = "erase" <=> r.e \in Files
             /\ r.at # "folders" => r.pend = Purges(done \ {r.e})
             /\ r.at = "folders" => /\ Purges(done \ {r.e}) \subseteq r.pend
                                   /\ r.pend \subseteq Purges(done)
             /\ r.at \in {"files", "folders"} =>
                  r.e \in r.sub /\ r.sub \subseteq Subtree(r.e, PresentFolders)

Exact(r) ==
    /\ r.op = "deleteFolder" =>
         /\ r.e \in ActiveFolders
         /\ r.sub = Subtree(r.e, ActiveFolders)
         /\ r.rows = {x \in Entries : Active(x) /\ (x \in r.sub \/ table[x].parent \in r.sub)}
    /\ r.op = "restore" => Deleted(r.e)
    /\ r.op \in {"purge", "emptyTrash"} => PurgeExact(r)

\* Inductive for one client.
ExactInv == ApartInv /\ \A c \in Clients : Exact(req[c])

\* The row of a purged entry never comes back: not by a restore that read the
\* row before a concurrent purge deleted it, nor the other way round.
PurgedForGood ==
    [][\A e \in Entries : table[e].status = "purged" => table'[e].status = "purged"]_table

\* The cascade of a purge never reaches an active row: what a purge that is
\* overlapped by a restore may take of it is a file it names itself, never a
\* folder, nor a file together with its folder.
CascadeOnlyTrash ==
    [][\A e \in Entries :
          Active(e) /\ table'[e].status = "purged" =>
             /\ e \in Files
             /\ table[e].parent \in Folders => table'[table[e].parent].status = "active"]_table

\* With one request at a time the statements do what EntryTree says: each
\* transaction changes the rows in one step, the step of its operation.
ImplementsEntryTree == Spec
=============================================================================
