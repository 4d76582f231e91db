----------------------------- MODULE EntryTree -----------------------------
(***************************************************************************)
(* The metadata tree of fpan: the folders and files tables of the backend  *)
(* (internal/database) and the operations the HTTP handlers call on them.  *)
(*                                                                         *)
(* Every operation of internal/database runs in one PostgreSQL             *)
(* transaction.  In this module a transaction is one step: it is what the  *)
(* code promises when requests do not overlap.  EntryTx refines it to the  *)
(* statements the transactions are made of.                                *)
(*                                                                         *)
(* A request the code refuses (ErrNotFound, ErrConflict, ErrInvalidMove,   *)
(* ErrInvalidInput) rolls its transaction back and changes no row; here it *)
(* is an operation that is not enabled.                                    *)
(***************************************************************************)
EXTENDS Naturals, FiniteSets

CONSTANTS
    Folders,    \* identifiers the folders sequence hands out
    Files,      \* identifiers the files sequence hands out
    Names,      \* display names
    Root,       \* parent_id IS NULL
    Keep,       \* a field the PATCH body leaves out (Optional.Set = false)
    Blank       \* the display of an identifier that has no row

ASSUME ConstantsAssumption ==
    /\ Folders \cap Files = {}
    /\ Root \notin Folders \cup Files
    /\ Keep \notin Names \cup Folders \cup {Root}

Entries == Folders \cup Files

Parents == Folders \cup {Root}

\* The rows of the two tables.  status is deleted_at: NULL is "active".  An
\* identifier is "unused" before its row is inserted and "purged" after the
\* row is gone: a sequence never hands out a value twice.
VARIABLE table

-----------------------------------------------------------------------------
(* Rows *)

NoRow(s) == [status |-> s, parent |-> Root, display |-> Blank]

ActiveRow(p, n) == [status |-> "active", parent |-> p, display |-> n]

Active(e) == table[e].status = "active"

Deleted(e) == table[e].status = "deleted"

Present(e) == table[e].status \in {"active", "deleted"}

SameKind(a, b) == (a \in Folders) = (b \in Folders)

\* activeFolderExists, with the nil parent every caller lets through
ActiveParent(p) == p = Root \/ (p \in Folders /\ Active(p))

\* The partial unique indexes of models.Folder and models.File: no two active
\* rows of one kind share parent and display.
UniqueNames(t) ==
    \A a, b \in Entries :
        /\ a # b
        /\ SameKind(a, b)
        /\ t[a].status = "active" /\ t[b].status = "active"
        /\ t[a].parent = t[b].parent
        => t[a].display # t[b].display

\* The statement that writes the rows of t fails on the unique index
\* (ErrDuplicatedKey, which translateError turns into ErrConflict).
Write(t) == UniqueNames(t) /\ table' = t

\* The recursive CTEs: the folders reached from id by stepping down to
\* children in walk.  The least set that holds id and is closed under that.
DownClosed(D, walk) == \A f \in walk : table[f].parent \in D => f \in D

Subtree(id, walk) ==
    {f \in Folders :
        \A D \in SUBSET Folders : id \in D /\ DownClosed(D, walk) => f \in D}

ActiveFolders == {f \in Folders : Active(f)}

DeletedFolders == {f \in Folders : Deleted(f)}

PresentFolders == {f \in Folders : Present(f)}

WithStatus(es, s) ==
    [e \in Entries |-> IF e \in es THEN [table[e] EXCEPT !.status = s]
                                   ELSE table[e]]

\* DELETE FROM: the rows, and by ON DELETE CASCADE every row below a folder
\* among them.
Gone(es) ==
    LET below == UNION {Subtree(f, PresentFolders) : f \in es \cap Folders}
    IN  es \cup below \cup {x \in Files : Present(x) /\ table[x].parent \in below}

WithoutRows(es) ==
    [e \in Entries |-> IF e \in Gone(es) THEN NoRow("purged") ELSE table[e]]

-----------------------------------------------------------------------------
(* Operations *)

Init == table = [e \in Entries |-> NoRow("unused")]

\* Mutant: the parent may be deleted
CreateBelowDeleted(e, p, n) ==
    /\ table[e].status = "unused"
    /\ p \in Folders => Present(p)
    /\ Write([table EXCEPT ![e] = ActiveRow(p, n)])

Create(e, p, n) ==
    /\ table[e].status = "unused"
    /\ ActiveParent(p)
    /\ Write([table EXCEPT ![e] = ActiveRow(p, n)])

CreateFolder(f, p, n) == f \in Folders /\ Create(f, p, n)

CreateFile(f, p, n) == f \in Files /\ Create(f, p, n)

\* Mutant: a field that is left out is written too
PatchedWhole(e, p, n) == [table[e] EXCEPT !.parent = p, !.display = n]

\* The PATCH body: a display, a parent, both or neither.
Patched(e, p, n) ==
    [table[e] EXCEPT !.parent = IF p = Keep THEN @ ELSE p,
                     !.display = IF n = Keep THEN @ ELSE n]

UpdateFile(f, p, n) ==
    /\ f \in Files
    /\ Active(f)
    /\ p # Keep => ActiveParent(p)
    /\ Write([table EXCEPT ![f] = Patched(f, p, n)])

\* Mutant: only the folder itself is refused as its parent
UpdateFolderSelfOnly(f, p, n) ==
    /\ f \in Folders
    /\ Active(f)
    /\ p \in Folders => p # f /\ Active(p)
    /\ Write([table EXCEPT ![f] = Patched(f, p, n)])

\* A folder moves neither into itself nor below itself (ErrInvalidMove).
UpdateFolder(f, p, n) ==
    /\ f \in Folders
    /\ Active(f)
    /\ p \in Folders =>
         /\ p # f
         /\ Active(p)
         /\ p \notin Subtree(f, ActiveFolders)
    /\ Write([table EXCEPT ![f] = Patched(f, p, n)])

DeleteFile(f) ==
    /\ f \in Files
    /\ Active(f)
    /\ table' = WithStatus({f}, "deleted")

\* Mutant: only what lies directly in the folder goes with it
DeleteFolderFlat(f) ==
    /\ f \in Folders
    /\ Active(f)
    /\ table' = WithStatus({e \in Entries : Active(e) /\ (e = f \/ table[e].parent = f)}, "deleted")

\* One statement soft-deletes the active subtree and the active files in it.
DeleteFolder(f) ==
    /\ f \in Folders
    /\ Active(f)
    /\ LET sub == Subtree(f, ActiveFolders)
       IN  table' = WithStatus({e \in Entries : /\ Active(e)
                                                /\ e \in sub \/ table[e].parent \in sub},
                               "deleted")

\* Mutant: restored below whatever parent it has
RestoreFileAnywhere(f) ==
    /\ f \in Files
    /\ Deleted(f)
    /\ Write(WithStatus({f}, "active"))

RestoreFile(f) ==
    /\ f \in Files
    /\ Deleted(f)
    /\ ActiveParent(table[f].parent)
    /\ Write(WithStatus({f}, "active"))

\* The rows the two UPDATE statements of restoreFolderTx bring back.
RestoreSet(f) ==
    LET sub == Subtree(f, DeletedFolders)
    IN  sub \cup {x \in Files : Deleted(x) /\ table[x].parent \in sub}

RestoreFolder(f) ==
    /\ f \in Folders
    /\ Deleted(f)
    /\ ActiveParent(table[f].parent)
    /\ Write(WithStatus(RestoreSet(f), "active"))

Restore(e) == RestoreFile(e) \/ RestoreFolder(e)

\* The rows purgeTx names in its DELETE statements.
PurgeSet(e) ==
    IF e \in Files THEN {e}
    ELSE LET sub == Subtree(e, PresentFolders)
         IN  {x \in Entries : Deleted(x) /\ (x \in sub \/ table[x].parent \in sub)}

Purge(e) ==
    /\ Deleted(e)
    /\ table' = WithoutRows(PurgeSet(e))

\* Mutant: a join that loses the entries at the root
TrashListBelowFolders ==
    {e \in Entries : Deleted(e) /\ table[e].parent \in ActiveFolders}

\* listTrashTx: the deleted entries whose parent is not itself deleted
TrashList == {e \in Entries : Deleted(e) /\ ActiveParent(table[e].parent)}

EmptyTrash == table' = WithoutRows(UNION {PurgeSet(e) : e \in TrashList})

Next ==
    \/ \E e \in Entries, p \in Parents, n \in Names :
          CreateFolder(e, p, n) \/ CreateFile(e, p, n)
    \/ \E e \in Entries, p \in Parents \cup {Keep}, n \in Names \cup {Keep} :
          UpdateFolder(e, p, n) \/ UpdateFile(e, p, n)
    \/ \E e \in Entries : DeleteFile(e) \/ DeleteFolder(e)
    \/ \E e \in Entries : Restore(e) \/ Purge(e)
    \/ EmptyTrash

Spec == Init /\ [][Next]_table

-----------------------------------------------------------------------------
(* Correctness *)

Rows == [status : {"unused", "active", "deleted", "purged"},
         parent : Parents,
         display : Names \cup {Blank}]

TypeOK == table \in [Entries -> Rows]

\* The foreign keys: a row's parent has a row.
ParentPresent ==
    \A e \in Entries : Present(e) /\ table[e].parent # Root => Present(table[e].parent)

\* No active row has a soft-deleted parent.
ParentActive == \A e \in Entries : Active(e) => ActiveParent(table[e].parent)

\* No set of folders holds the parent of each of its members: the parent
\* links of the folders table form no cycle.
Acyclic ==
    \A S \in SUBSET PresentFolders :
        S # {} => \E f \in S : table[f].parent \notin S

\* Every row below one of es is one of es.
Closed(es) == \A x \in Entries : Present(x) /\ table[x].parent \in es => x \in es

\* What keeps the tree a tree; inductive.
TreeInv == TypeOK /\ ParentPresent /\ ParentActive /\ Acyclic

\* Every active entry can be reached by opening active folders from the root,
\* which is the only way ListEntries ever shows it: no sequence of moves,
\* deletions and restores detaches an active subtree or closes a cycle.
Reachable ==
    LET top == {f \in ActiveFolders : table[f].parent = Root}
        open == UNION {Subtree(f, ActiveFolders) : f \in top}
    IN  \A e \in Entries : Active(e) => e \in open \/ table[e].parent \in open \cup {Root}

\* Every deleted entry is listed in the trash or lies below a deleted folder
\* that is (openapi.yaml: "Descendants of a deleted folder are represented by
\* that folder only"): nothing the user deleted is out of reach of Restore
\* and Purge.
TrashCovers ==
    LET covered == UNION {Subtree(f, DeletedFolders) : f \in TrashList \cap Folders}
    IN  \A e \in Entries :
            Deleted(e) => e \in TrashList \/ e \in covered \/ table[e].parent \in covered

\* Purge and EmptyTrash remove deleted rows only: the cascade of the foreign
\* keys never takes an entry that was not in the trash.
PurgeOnlyTrash == [][\A e \in Entries : Active(e) => table'[e].status # "purged"]_table

\* Emptying the trash leaves no deleted row anywhere, also below the folders
\* it lists (openapi.yaml: "Permanently remove all deleted entries").
EmptyTrashEmpties == [][EmptyTrash => \A e \in Entries : table'[e].status # "deleted"]_table

\* A listed trash folder whose own name is free among the active folders
\* beside it can be restored (trash.go: Restore "clears the deletion marker on
\* an entry and, for folders, its whole deleted subtree").
TrashRestorable ==
    \A f \in TrashList \cap Folders :
        UniqueNames(WithStatus({f}, "active"))
        => UniqueNames(WithStatus(RestoreSet(f), "active"))
=============================================================================
