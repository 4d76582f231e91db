-------------------------- MODULE EntryTreeProofs --------------------------
(***************************************************************************)
(* Proofs about EntryTree for every choice of its constants.               *)
(***************************************************************************)
EXTENDS EntryTree, TLAPS

-----------------------------------------------------------------------------
(* The closure computed by the recursive CTEs *)

\* The closure of a folder holds the folder itself.
LEMMA SubtreeRoot ==
    ASSUME NEW id \in Folders, NEW walk
    PROVE  id \in Subtree(id, walk)
BY DEF Subtree

\* A folder of walk whose parent is in the closure is in the closure.
LEMMA SubtreeDown ==
    ASSUME NEW id, NEW walk, walk \subseteq Folders,
           NEW f \in walk, table[f].parent \in Subtree(id, walk)
    PROVE  f \in Subtree(id, walk)
BY DEF Subtree, DownClosed

\* The closure is the least such set.
LEMMA SubtreeLeast ==
    ASSUME NEW id, NEW walk,
           NEW D \in SUBSET Folders, id \in D, DownClosed(D, walk)
    PROVE  Subtree(id, walk) \subseteq D
BY DEF Subtree

\* Every member but the first was reached from a member.
LEMMA SubtreeUp ==
    ASSUME NEW id \in Folders, NEW walk, walk \subseteq Folders,
           NEW g \in Subtree(id, walk), g # id
    PROVE  g \in walk /\ table[g].parent \in Subtree(id, walk)
<1>1. SUFFICES ASSUME ~(g \in walk /\ table[g].parent \in Subtree(id, walk))
               PROVE  FALSE
  OBVIOUS
<1> DEFINE D == Subtree(id, walk) \ {g}
<1>2. D \in SUBSET Folders
  BY DEF Subtree
<1>3. id \in D
  BY SubtreeRoot
<1>4. DownClosed(D, walk)
  BY <1>1, SubtreeDown DEF DownClosed
<1>5. Subtree(id, walk) \subseteq D
  <2> HIDE DEF D
  <2> QED BY <1>2, <1>3, <1>4, SubtreeLeast
<1> QED BY <1>5

\* A larger walk reaches no less.
LEMMA SubtreeMonotone ==
    ASSUME NEW id, NEW small, NEW large, small \subseteq large
    PROVE  Subtree(id, small) \subseteq Subtree(id, large)
BY DEF Subtree, DownClosed

-----------------------------------------------------------------------------
(* Acyclicity *)

\* A step that neither adds a folder row nor moves one closes no cycle.
LEMMA AcyclicKept ==
    ASSUME Acyclic,
           \A f \in Folders : Present(f)' => Present(f) /\ table'[f].parent = table[f].parent
    PROVE  Acyclic'
BY DEF Acyclic, PresentFolders

\* Inserting a folder below a present one, or at the root, closes no cycle: no
\* row can have pointed at the new folder.
LEMMA AcyclicInsert ==
    ASSUME TreeInv, NEW f \in Folders, ~Present(f), NEW p \in Parents, ActiveParent(p),
           \A g \in Folders \ {f} : table'[g] = table[g],
           table'[f].parent = p
    PROVE  Acyclic'
<1>1. SUFFICES ASSUME NEW S \in SUBSET PresentFolders', S # {},
                      \A g \in S : table'[g].parent \in S
               PROVE  FALSE
  BY DEF Acyclic
<1> DEFINE T == S \ {f}
<1>2. T \subseteq PresentFolders
  BY DEF PresentFolders, Present
<1>3. \A g \in T : table[g].parent \in T
  <2> TAKE g \in T
  <2>1. table[g].parent \in S
    BY <1>1 DEF PresentFolders
  <2>2. table[g].parent # f
    <3>1. Present(g) /\ g \in Entries
      BY <1>2 DEF PresentFolders, Entries
    <3>2. table[g].parent # Root => Present(table[g].parent)
      BY <3>1 DEF TreeInv, ParentPresent
    <3> QED BY <3>2, ConstantsAssumption
  <2> QED BY <2>1, <2>2
<1>4. T # {}
  <2>1. CASE f \notin S
    BY <1>1, <2>1
  <2>2. CASE f \in S
    <3>1. p \in S
      BY <1>1, <2>2
    <3>2. p # f
      BY <3>1, ConstantsAssumption DEF ActiveParent, Active, Present
    <3> QED BY <3>1, <3>2
  <2> QED BY <2>1, <2>2
<1> QED
  <2> HIDE DEF T
  <2> QED BY <1>2, <1>3, <1>4 DEF TreeInv, Acyclic

\* Moving an active folder out of its own active subtree closes no cycle.  A
\* cycle through the moved folder f would hold its new parent p; what it holds
\* outside the old subtree of f would be a cycle already.
LEMMA AcyclicMove ==
    ASSUME TreeInv, NEW f \in Folders, Active(f), NEW p \in Parents,
           p \in Folders => Active(p) /\ p \notin Subtree(f, ActiveFolders),
           \A g \in Folders \ {f} : table'[g] = table[g],
           Present(f)', table'[f].parent = p
    PROVE  Acyclic'
<1>1. SUFFICES ASSUME NEW S \in SUBSET PresentFolders', S # {},
                      \A g \in S : table'[g].parent \in S
               PROVE  FALSE
  BY DEF Acyclic
<1>2. S \subseteq PresentFolders
  BY DEF PresentFolders, Present, Active
<1>3. CASE f \notin S
  <2>1. \A g \in S : table[g].parent \in S
    BY <1>1, <1>3 DEF PresentFolders
  <2> QED BY <1>1, <1>2, <2>1 DEF TreeInv, Acyclic
<1>4. CASE f \in S
  <2> DEFINE T == (S \cap ActiveFolders) \ Subtree(f, ActiveFolders)
  <2>1. p \in T
    BY <1>1, <1>2, <1>4, ConstantsAssumption DEF ActiveFolders, PresentFolders
  <2>2. \A g \in T : table[g].parent \in T
    <3> TAKE g \in T
    <3>1. g # f
      BY SubtreeRoot
    <3>2. table[g].parent \in S
      BY <1>1, <3>1 DEF ActiveFolders
    <3>3. table[g].parent \in ActiveFolders
      BY <3>2, <1>2, ConstantsAssumption
         DEF TreeInv, ParentActive, ActiveParent, ActiveFolders, PresentFolders, Entries
    <3>4. table[g].parent \notin Subtree(f, ActiveFolders)
      BY SubtreeDown DEF ActiveFolders
    <3> QED BY <3>2, <3>3, <3>4
  <2> HIDE DEF T
  <2>3. T \subseteq PresentFolders
    BY DEF T, ActiveFolders, PresentFolders, Active, Present
  <2> QED BY <2>1, <2>2, <2>3 DEF TreeInv, Acyclic
<1> QED BY <1>3, <1>4

-----------------------------------------------------------------------------
(* Each operation keeps TreeInv *)

\* The three conjuncts besides Acyclic, for a step that writes one row that
\* then has an active parent and takes no row away.
LEMMA OneRowKept ==
    ASSUME TreeInv, NEW e \in Entries, NEW r \in Rows,
           r.status = "active", ActiveParent(r.parent),
           r.parent # e,
           table' = [table EXCEPT ![e] = r]
    PROVE  TypeOK' /\ ParentPresent' /\ ParentActive'
<1> USE DEF TreeInv
<1>1. TypeOK'
  BY DEF TypeOK
<1>2. \A x \in Entries : table'[x] = IF x = e THEN r ELSE table[x]
  BY DEF TypeOK
<1>3. \A x \in Entries : Active(x) => Active(x)'
  BY <1>2 DEF Active
<1>4. \A x \in Entries : Present(x) => Present(x)'
  BY <1>2 DEF Present
<1>5. \A p : ActiveParent(p) => ActiveParent(p)'
  BY <1>3 DEF ActiveParent, Entries
<1>6. ParentPresent'
  <2> SUFFICES ASSUME NEW x \in Entries, Present(x)', table'[x].parent # Root
               PROVE  Present(table[x].parent)'
    BY DEF ParentPresent
  <2>1. CASE x = e
    BY <1>2, <1>5, <2>1 DEF ActiveParent, Active, Present
  <2>2. CASE x # e
    <3>1. Present(x) /\ table'[x] = table[x]
      BY <1>2, <2>2 DEF Present
    <3>2. table[x].parent \in Entries
      BY <3>1 DEF TypeOK, Rows, Parents, Entries
    <3> QED BY <1>4, <3>1, <3>2 DEF ParentPresent
  <2> QED BY <2>1, <2>2
<1>7. ParentActive'
  BY <1>2, <1>5 DEF ParentActive, Active
<1> QED BY <1>1, <1>6, <1>7

\* Setting or clearing deleted_at of present rows leaves the tree's shape.
LEMMA WithStatusKept ==
    ASSUME TreeInv, NEW es \in SUBSET Entries, \A e \in es : Present(e),
           NEW s \in {"active", "deleted"},
           table' = WithStatus(es, s)
    PROVE  /\ TypeOK' /\ ParentPresent' /\ Acyclic'
           /\ \A e \in Entries : table'[e].parent = table[e].parent
           /\ \A e \in Entries : table'[e].status = IF e \in es THEN s ELSE table[e].status
<1> USE DEF TreeInv
<1>1. TypeOK'
  BY DEF TypeOK, WithStatus, Rows
<1>2. \A e \in Entries : table'[e].parent = table[e].parent
  BY DEF TypeOK, WithStatus, Rows
<1>3. \A e \in Entries : table'[e].status = IF e \in es THEN s ELSE table[e].status
  BY DEF TypeOK, WithStatus, Rows
<1>4. \A e \in Entries : Present(e)' <=> Present(e)
  BY <1>3 DEF Present
<1>5. ParentPresent'
  <2> SUFFICES ASSUME NEW x \in Entries, Present(x)', table'[x].parent # Root
               PROVE  Present(table[x].parent)'
    BY DEF ParentPresent
  <2>1. table[x].parent \in Entries
    BY <1>2 DEF TypeOK, Rows, Parents, Entries
  <2> QED BY <1>2, <1>4, <2>1 DEF ParentPresent
<1>6. Acyclic'
  BY <1>2, <1>4, AcyclicKept DEF Entries
<1> QED BY <1>1, <1>2, <1>3, <1>5, <1>6

\* Rows that go together with every row below them leave no row whose parent is
\* gone.
LEMMA ErasedKept ==
    ASSUME TreeInv, NEW es \in SUBSET Entries, Closed(es),
           table' = [x \in Entries |-> IF x \in es THEN NoRow("purged") ELSE table[x]]
    PROVE  TreeInv'
<1> USE DEF TreeInv
<1>1. TypeOK'
  BY DEF TypeOK, NoRow, Rows, Parents
<1>2. \A e \in Entries : Present(e)' => Present(e) /\ table'[e] = table[e] /\ e \notin es
  BY DEF Present, NoRow
<1>3. ASSUME NEW e \in Entries, Present(e)', table[e].parent # Root
      PROVE  table[e].parent \in Folders /\ table'[table[e].parent] = table[table[e].parent]
  <2>1. table[e].parent \in Folders
    BY <1>3 DEF TypeOK, Rows, Parents
  <2>2. table[e].parent \notin es
    BY <1>2, <1>3 DEF Closed
  <2> QED BY <2>1, <2>2 DEF Entries
<1>4. ParentPresent'
  BY <1>2, <1>3 DEF ParentPresent, Present
<1>5. ParentActive'
  BY <1>2, <1>3 DEF ParentActive, ActiveParent, Active, Present
<1>6. Acyclic'
  BY <1>2, AcyclicKept DEF Entries
<1> QED BY <1>1, <1>4, <1>5, <1>6

\* The cascade of the foreign keys stops where nothing is below.
LEMMA GoneClosed ==
    ASSUME TypeOK, NEW es \in SUBSET Entries
    PROVE  Gone(es) \in SUBSET Entries /\ Closed(Gone(es))
<1> DEFINE below == UNION {Subtree(f, PresentFolders) : f \in es \cap Folders}
<1>1. below \subseteq Folders
  BY DEF Subtree
<1>2. Gone(es) \in SUBSET Entries
  BY <1>1 DEF Gone, Entries
<1>3. ASSUME NEW x \in Entries, Present(x), table[x].parent \in Gone(es)
      PROVE  x \in Gone(es)
  <2>1. table[x].parent \in Folders
    BY <1>2, <1>3, ConstantsAssumption DEF TypeOK, Rows, Parents, Entries
  <2>2. table[x].parent \in below
    BY <1>3, <2>1, SubtreeRoot, ConstantsAssumption DEF Gone
  <2>3. CASE x \in Files
    BY <1>3, <2>2, <2>3 DEF Gone
  <2>4. CASE x \in Folders
    <3>1. x \in PresentFolders /\ PresentFolders \subseteq Folders
      BY <1>3, <2>4 DEF PresentFolders
    <3>2. x \in below
      BY <2>2, <3>1, SubtreeDown
    <3> QED BY <3>2 DEF Gone
  <2> QED BY <2>3, <2>4 DEF Entries
<1> QED BY <1>2, <1>3 DEF Closed

\* DELETE with its cascade keeps the tree.
LEMMA WithoutRowsKept ==
    ASSUME TreeInv, NEW es \in SUBSET Entries, table' = WithoutRows(es)
    PROVE  /\ TreeInv'
           /\ \A e \in Entries : table'[e] = IF e \in Gone(es) THEN NoRow("purged") ELSE table[e]
BY GoneClosed, ErasedKept DEF WithoutRows, TreeInv

\* Inserting a row below an active folder keeps the tree.
LEMMA CreateInv ==
    ASSUME TreeInv, NEW e \in Entries, NEW p \in Parents, NEW n \in Names, Create(e, p, n)
    PROVE  TreeInv'
<1> DEFINE r == ActiveRow(p, n)
<1>1. /\ table[e].status = "unused"
      /\ ActiveParent(p)
      /\ table' = [table EXCEPT ![e] = r]
  BY DEF Create, Write
<1>2. r \in Rows /\ r.status = "active" /\ r.parent = p
  BY DEF ActiveRow, Rows
<1>3. p # e
  BY <1>1, ConstantsAssumption DEF ActiveParent, Active, Entries, TreeInv, TypeOK
<1>4. TypeOK' /\ ParentPresent' /\ ParentActive'
  <2> HIDE DEF r
  <2> QED BY <1>1, <1>2, <1>3, OneRowKept
<1>5. \A x \in Entries : table'[x] = IF x = e THEN r ELSE table[x]
  BY <1>1 DEF TreeInv, TypeOK
<1>6. Acyclic'
  <2>1. CASE e \in Folders
    <3>1. ~Present(e)
      BY <1>1 DEF Present
    <3>2. \A g \in Folders \ {e} : table'[g] = table[g]
      BY <1>5 DEF Entries
    <3>3. table'[e].parent = p
      BY <1>2, <1>5
    <3> QED BY <1>1, <2>1, <3>1, <3>2, <3>3, AcyclicInsert
  <2>2. CASE e \in Files
    <3>1. \A f \in Folders : table'[f] = table[f]
      BY <1>5, <2>2, ConstantsAssumption DEF Entries
    <3> QED BY <3>1, AcyclicKept DEF Present, TreeInv
  <2> QED BY <2>1, <2>2 DEF Entries
<1> QED BY <1>4, <1>6 DEF TreeInv

\* The row a PATCH writes.
LEMMA PatchedRow ==
    ASSUME TreeInv, NEW e \in Entries, Active(e),
           NEW p \in Parents \cup {Keep}, NEW n \in Names \cup {Keep}
    PROVE  /\ Patched(e, p, n) \in Rows
           /\ Patched(e, p, n).status = "active"
           /\ Patched(e, p, n).parent = IF p = Keep THEN table[e].parent ELSE p
BY DEF Patched, Rows, TreeInv, TypeOK, Active

\* Renaming or moving a file keeps the tree: its new parent is active.
LEMMA UpdateFileInv ==
    ASSUME TreeInv, NEW f \in Entries, NEW p \in Parents \cup {Keep},
           NEW n \in Names \cup {Keep}, UpdateFile(f, p, n)
    PROVE  TreeInv'
<1> DEFINE r == Patched(f, p, n)
<1>1. /\ f \in Files /\ Active(f)
      /\ p # Keep => ActiveParent(p)
      /\ table' = [table EXCEPT ![f] = r]
  BY DEF UpdateFile, Write
<1>2. r \in Rows /\ r.status = "active" /\ ActiveParent(r.parent)
  BY <1>1, PatchedRow DEF TreeInv, ParentActive
<1>3. r.parent \in Folders \/ r.parent = Root
  BY <1>2 DEF ActiveParent
<1>4. TypeOK' /\ ParentPresent' /\ ParentActive'
  <2>1. r.parent # f
    BY <1>1, <1>3, ConstantsAssumption
  <2> HIDE DEF r
  <2> QED BY <1>1, <1>2, <2>1, OneRowKept
<1>5. Acyclic'
  <2>1. \A g \in Folders : table'[g] = table[g]
    BY <1>1, ConstantsAssumption DEF TreeInv, TypeOK, Entries
  <2> QED BY <2>1, AcyclicKept DEF Present, TreeInv
<1> QED BY <1>4, <1>5 DEF TreeInv

\* Renaming or moving a folder keeps the tree: its new parent is active and not
\* below it.
LEMMA UpdateFolderInv ==
    ASSUME TreeInv, NEW f \in Entries, NEW p \in Parents \cup {Keep},
           NEW n \in Names \cup {Keep}, UpdateFolder(f, p, n)
    PROVE  TreeInv'
<1> DEFINE r == Patched(f, p, n)
<1>1. /\ f \in Folders /\ Active(f)
      /\ p \in Folders => p # f /\ Active(p) /\ p \notin Subtree(f, ActiveFolders)
      /\ table' = [table EXCEPT ![f] = r]
  BY DEF UpdateFolder, Write
<1>2. r \in Rows /\ r.status = "active" /\ r.parent = IF p = Keep THEN table[f].parent ELSE p
  BY <1>1, PatchedRow
<1>3. ActiveParent(r.parent)
  BY <1>1, <1>2 DEF TreeInv, ParentActive, Parents, ActiveParent
<1>4. r.parent # f
  <2>1. CASE p = Keep
    \* an active folder that is its own parent would be a cycle by itself
    <3>1. {f} \in SUBSET PresentFolders
      BY <1>1 DEF PresentFolders, Present, Active
    <3> QED BY <1>2, <2>1, <3>1 DEF TreeInv, Acyclic
  <2>2. CASE p # Keep
    BY <1>1, <1>2, <2>2, ConstantsAssumption DEF Parents
  <2> QED BY <2>1, <2>2
<1>5. TypeOK' /\ ParentPresent' /\ ParentActive'
  <2> HIDE DEF r
  <2> QED BY <1>1, <1>2, <1>3, <1>4, OneRowKept
<1>6. \A x \in Entries : table'[x] = IF x = f THEN r ELSE table[x]
  BY <1>1 DEF TreeInv, TypeOK
<1>7. Acyclic'
  <2>1. CASE p = Keep
    <3>1. \A g \in Folders : table'[g].parent = table[g].parent
                             /\ (Present(g)' => Present(g))
      BY <1>1, <1>2, <1>6, <2>1 DEF Present, Active, Entries
    <3> QED BY <3>1, AcyclicKept DEF TreeInv
  <2>2. CASE p # Keep
    <3>1. p \in Parents /\ r.parent = p
      BY <1>2, <2>2
    <3>2. \A g \in Folders \ {f} : table'[g] = table[g]
      BY <1>6 DEF Entries
    <3>3. Present(f)' /\ table'[f].parent = p
      BY <1>2, <1>6, <3>1 DEF Present
    <3> QED BY <1>1, <3>1, <3>2, <3>3, AcyclicMove
  <2> QED BY <2>1, <2>2
<1> QED BY <1>5, <1>7 DEF TreeInv

\* Rows that are deleted take with them every active row below them.
LEMMA DeleteKept ==
    ASSUME TreeInv, NEW es \in SUBSET Entries, \A e \in es : Active(e),
           \A e \in Entries : Active(e) /\ table[e].parent \in es => e \in es,
           table' = WithStatus(es, "deleted")
    PROVE  TreeInv'
<1>1. \A e \in es : Present(e)
  BY DEF Active, Present
<1>2. /\ TypeOK' /\ ParentPresent' /\ Acyclic'
      /\ \A e \in Entries : table'[e].parent = table[e].parent
      /\ \A e \in Entries : table'[e].status = IF e \in es THEN "deleted" ELSE table[e].status
  BY <1>1, WithStatusKept
<1>3. ParentActive'
  BY <1>2 DEF TreeInv, ParentActive, ActiveParent, Active, Entries
<1> QED BY <1>2, <1>3 DEF TreeInv

\* Deleting a file keeps the tree: a file is nobody's parent.
LEMMA DeleteFileInv ==
    ASSUME TreeInv, NEW f \in Entries, DeleteFile(f)
    PROVE  TreeInv'
<1>1. f \in Files /\ Active(f) /\ table' = WithStatus({f}, "deleted")
  BY DEF DeleteFile
<1>2. \A e \in Entries : table[e].parent # f
  BY <1>1, ConstantsAssumption DEF TreeInv, TypeOK, Rows, Parents
<1> QED BY <1>1, <1>2, DeleteKept

\* The statement of DeleteFolder takes every active row below the folder.
LEMMA DeleteFolderInv ==
    ASSUME TreeInv, NEW f \in Entries, DeleteFolder(f)
    PROVE  TreeInv'
<1> DEFINE sub == Subtree(f, ActiveFolders)
           es  == {e \in Entries : Active(e) /\ (e \in sub \/ table[e].parent \in sub)}
<1>1. table' = WithStatus(es, "deleted")
  BY DEF DeleteFolder
<1>2. ASSUME NEW e \in Entries, Active(e), table[e].parent \in es PROVE e \in es
  <2>1. table[e].parent \in ActiveFolders
    BY <1>2, ConstantsAssumption DEF TreeInv, TypeOK, Rows, Parents, ActiveFolders, Entries
  <2>2. \A g \in ActiveFolders : table[g].parent \in sub => g \in sub
    BY SubtreeDown DEF ActiveFolders
  <2> QED BY <1>2, <2>1, <2>2
<1>3. es \in SUBSET Entries /\ \A e \in es : Active(e)
  OBVIOUS
<1> HIDE DEF es
<1> QED BY <1>1, <1>2, <1>3, DeleteKept

\* Rows that come back have a parent that is active or comes back with them.
LEMMA RestoreKept ==
    ASSUME TreeInv, NEW es \in SUBSET Entries, \A e \in es : Present(e),
           \A e \in es : ActiveParent(table[e].parent) \/ table[e].parent \in es \cap Folders,
           table' = WithStatus(es, "active")
    PROVE  TreeInv'
<1>1. /\ TypeOK' /\ ParentPresent' /\ Acyclic'
      /\ \A e \in Entries : table'[e].parent = table[e].parent
      /\ \A e \in Entries : table'[e].status = IF e \in es THEN "active" ELSE table[e].status
  BY WithStatusKept
<1>2. ParentActive'
  BY <1>1 DEF TreeInv, ParentActive, ActiveParent, Active, Entries
<1> QED BY <1>1, <1>2 DEF TreeInv

\* What Restore brings back hangs on an active parent, or on a folder that comes
\* back with it.
LEMMA RestoreInv ==
    ASSUME TreeInv, NEW f \in Entries, Restore(f)
    PROVE  TreeInv'
<1>1. CASE RestoreFile(f)
  <2>1. {f} \in SUBSET Entries /\ Present(f) /\ ActiveParent(table[f].parent)
        /\ table' = WithStatus({f}, "active")
    BY <1>1 DEF RestoreFile, Write, Deleted, Present
  <2> QED BY <2>1, RestoreKept
<1>2. CASE RestoreFolder(f)
  <2> DEFINE sub == Subtree(f, DeletedFolders)
             es  == RestoreSet(f)
  <2>1. /\ f \in Folders /\ Deleted(f) /\ ActiveParent(table[f].parent)
        /\ table' = WithStatus(es, "active")
    BY <1>2 DEF RestoreFolder, Write
  <2>2. \A g \in sub : g # f => g \in DeletedFolders /\ table[g].parent \in sub
    BY <2>1, SubtreeUp DEF DeletedFolders
  <2>3. sub \subseteq Folders
    BY DEF Subtree
  <2>4. es \in SUBSET Entries /\ \A e \in es : Present(e)
    BY <2>1, <2>2, <2>3 DEF RestoreSet, DeletedFolders, Entries, Deleted, Present
  <2>5. \A e \in es : ActiveParent(table[e].parent) \/ table[e].parent \in es \cap Folders
    BY <2>1, <2>2, <2>3 DEF RestoreSet
  <2> HIDE DEF es
  <2> QED BY <2>1, <2>4, <2>5, RestoreKept
<1> QED BY <1>1, <1>2 DEF Restore

\* Purge names deleted rows only.
LEMMA PurgeSetDeleted ==
    ASSUME NEW e \in Entries, Deleted(e)
    PROVE  PurgeSet(e) \in SUBSET Entries /\ \A x \in PurgeSet(e) : Deleted(x)
BY DEF PurgeSet

\* EmptyTrash names deleted rows only.
LEMMA EmptyTrashSetDeleted ==
    LET es == UNION {PurgeSet(e) : e \in TrashList}
    IN  es \in SUBSET Entries /\ \A x \in es : Deleted(x)
BY PurgeSetDeleted DEF TrashList

\* What lies below a deleted folder is deleted.
LEMMA DeletedBelow ==
    ASSUME TreeInv, NEW x \in Entries, Present(x), table[x].parent \in DeletedFolders
    PROVE  Deleted(x)
BY ConstantsAssumption
   DEF TreeInv, ParentActive, ActiveParent, Active, Deleted, Present, DeletedFolders

\* The cascade from deleted folders takes deleted folders only.
LEMMA GoneFolders ==
    ASSUME TreeInv, NEW es \in SUBSET Entries, \A f \in es \cap Folders : Deleted(f)
    PROVE  /\ UNION {Subtree(f, PresentFolders) : f \in es \cap Folders} \subseteq DeletedFolders
           /\ \A f \in Gone(es) \cap Folders : Deleted(f)
<1>1. ASSUME NEW f \in es \cap Folders
      PROVE  Subtree(f, PresentFolders) \subseteq DeletedFolders
  <2>1. DownClosed(DeletedFolders, PresentFolders)
    BY DeletedBelow DEF DownClosed, DeletedFolders, PresentFolders, Entries
  <2>2. DeletedFolders \in SUBSET Folders /\ f \in DeletedFolders
    BY DEF DeletedFolders
  <2> QED BY <2>1, <2>2, SubtreeLeast
<1>2. UNION {Subtree(f, PresentFolders) : f \in es \cap Folders} \subseteq DeletedFolders
  BY <1>1
<1> QED BY <1>2, ConstantsAssumption DEF Gone, DeletedFolders

\* The cascade from deleted rows meets deleted rows only.
LEMMA GoneDeleted ==
    ASSUME TreeInv, NEW es \in SUBSET Entries, \A x \in es : Deleted(x)
    PROVE  \A x \in Gone(es) : Deleted(x)
<1>1. UNION {Subtree(f, PresentFolders) : f \in es \cap Folders} \subseteq DeletedFolders
  BY GoneFolders
<1> QED BY <1>1, DeletedBelow DEF Gone, DeletedFolders, Entries

-----------------------------------------------------------------------------
(* Theorems *)

\* The empty tables are a tree.
LEMMA InitTree == Init => TreeInv
<1> SUFFICES ASSUME Init PROVE TreeInv
  OBVIOUS
<1>1. table = [e \in Entries |-> NoRow("unused")]
  BY DEF Init
<1>2. TypeOK
  BY <1>1 DEF TypeOK, NoRow, Rows, Parents
<1>3. \A e \in Entries : table[e].status = "unused"
  BY <1>1 DEF NoRow
<1>4. ParentPresent /\ ParentActive
  BY <1>3 DEF ParentPresent, ParentActive, Present, Active
<1>5. Acyclic
  BY <1>3 DEF Acyclic, PresentFolders, Present, Entries
<1> QED BY <1>2, <1>4, <1>5 DEF TreeInv

\* No operation leaves the invariant.
LEMMA NextTree == TreeInv /\ [Next]_table => TreeInv'
<1> SUFFICES ASSUME TreeInv, [Next]_table PROVE TreeInv'
  OBVIOUS
<1>1. CASE \E e \in Entries, p \in Parents, n \in Names :
             CreateFolder(e, p, n) \/ CreateFile(e, p, n)
  BY <1>1, CreateInv DEF CreateFolder, CreateFile
<1>2. CASE \E e \in Entries, p \in Parents \cup {Keep}, n \in Names \cup {Keep} :
             UpdateFolder(e, p, n) \/ UpdateFile(e, p, n)
  BY <1>2, UpdateFolderInv, UpdateFileInv
<1>3. CASE \E e \in Entries : DeleteFile(e) \/ DeleteFolder(e)
  BY <1>3, DeleteFileInv, DeleteFolderInv
<1>4. CASE \E e \in Entries : Restore(e) \/ Purge(e)
  <2>1. ASSUME NEW e \in Entries, Purge(e) PROVE TreeInv'
    BY <2>1, PurgeSetDeleted, WithoutRowsKept DEF Purge
  <2> QED BY <1>4, <2>1, RestoreInv
<1>5. CASE EmptyTrash
  BY <1>5, EmptyTrashSetDeleted, WithoutRowsKept DEF EmptyTrash
<1>6. CASE UNCHANGED table
  BY <1>6 DEF TreeInv, TypeOK, ParentPresent, ParentActive, ActiveParent, Acyclic,
              PresentFolders, Present, Active
<1> QED BY <1>1, <1>2, <1>3, <1>4, <1>5, <1>6 DEF Next

\* The folders and files tables stay a forest: every row's parent has a row,
\* no active row lies below a deleted one, and no moves of folders close a
\* cycle (internal/database, one request at a time).
THEOREM TreeTheorem == Spec => []TreeInv
<1> QED BY InitTree, NextTree, PTL DEF Spec

\* Acyclicity and ParentActive, put together, mean that opening folders from
\* the root shows every active entry.
LEMMA TreeReachable == TreeInv => Reachable
<1> SUFFICES ASSUME TreeInv PROVE Reachable
  OBVIOUS
<1> DEFINE top  == {f \in ActiveFolders : table[f].parent = Root}
           open == UNION {Subtree(f, ActiveFolders) : f \in top}
           lost == ActiveFolders \ open
<1>1. \A f \in lost : table[f].parent \in lost
  <2> TAKE f \in lost
  <2>1. f \in Folders /\ Active(f) /\ f \notin open
    BY DEF ActiveFolders
  <2>2. f \notin top
    BY <2>1, SubtreeRoot
  <2>3. table[f].parent \in ActiveFolders
    BY <2>1, <2>2 DEF TreeInv, ParentActive, ActiveParent, ActiveFolders, Entries
  <2>4. table[f].parent \notin open
    <3> SUFFICES ASSUME NEW t \in top, table[f].parent \in Subtree(t, ActiveFolders)
                 PROVE  FALSE
      OBVIOUS
    <3>1. f \in Subtree(t, ActiveFolders)
      BY <2>1, SubtreeDown DEF ActiveFolders
    <3> QED BY <2>1, <3>1
  <2> QED BY <2>3, <2>4
<1>2. lost = {}
  <2>1. lost \in SUBSET PresentFolders
    BY DEF ActiveFolders, PresentFolders, Active, Present
  <2> HIDE DEF lost
  <2> QED BY <1>1, <2>1 DEF TreeInv, Acyclic
<1>3. ASSUME NEW e \in Entries, Active(e)
      PROVE  e \in open \/ table[e].parent \in open \cup {Root}
  BY <1>2, <1>3 DEF TreeInv, ParentActive, ActiveParent, ActiveFolders
<1> QED BY <1>3 DEF Reachable

\* Every active entry stays reachable from the root through active folders,
\* whatever is moved, deleted, restored or purged.
THEOREM ReachableTheorem == Spec => []Reachable
<1> QED BY TreeTheorem, TreeReachable, PTL

\* In a tree, following parents from a deleted row ends at a listed one.
LEMMA TreeTrashCovers == TreeInv => TrashCovers
<1> SUFFICES ASSUME TreeInv PROVE TrashCovers
  OBVIOUS
<1> DEFINE listed  == TrashList \cap Folders
           covered == UNION {Subtree(f, DeletedFolders) : f \in listed}
           lost    == DeletedFolders \ covered
<1>1. ASSUME NEW e \in Entries, Deleted(e), e \notin TrashList
      PROVE  table[e].parent \in DeletedFolders
  <2>1. Present(e) /\ ~ActiveParent(table[e].parent)
    BY <1>1 DEF TrashList, Deleted, Present
  <2>2. table[e].parent \in Folders
    BY <2>1 DEF TreeInv, TypeOK, Rows, Parents, ActiveParent
  <2>3. Present(table[e].parent)
    BY <2>1, <2>2, ConstantsAssumption DEF TreeInv, ParentPresent
  <2> QED BY <2>1, <2>2, <2>3 DEF ActiveParent, Active, Present, DeletedFolders, Deleted
<1>2. \A f \in lost : table[f].parent \in lost
  <2> TAKE f \in lost
  <2>1. f \in Folders /\ Deleted(f) /\ f \notin covered
    BY DEF DeletedFolders
  <2>2. f \notin TrashList
    BY <2>1, SubtreeRoot
  <2>3. table[f].parent \in DeletedFolders
    BY <1>1, <2>1, <2>2 DEF Entries
  <2>4. table[f].parent \notin covered
    <3> SUFFICES ASSUME NEW t \in listed, table[f].parent \in Subtree(t, DeletedFolders)
                 PROVE  FALSE
      OBVIOUS
    <3>1. f \in Subtree(t, DeletedFolders)
      BY <2>1, SubtreeDown DEF DeletedFolders
    <3> QED BY <2>1, <3>1
  <2> QED BY <2>3, <2>4
<1>3. lost = {}
  <2>1. lost \in SUBSET PresentFolders
    BY DEF DeletedFolders, PresentFolders, Deleted, Present
  <2> HIDE DEF lost
  <2> QED BY <1>2, <2>1 DEF TreeInv, Acyclic
<1>4. ASSUME NEW e \in Entries, Deleted(e), e \notin TrashList
      PROVE  table[e].parent \in covered
  BY <1>1, <1>3, <1>4
<1> QED BY <1>4 DEF TrashCovers

\* Nothing that was deleted drops out of the trash view.
THEOREM TrashCoversTheorem == Spec => []TrashCovers
<1> QED BY TreeTheorem, TreeTrashCovers, PTL

\* An active entry never leaves the database: purging works on deleted rows,
\* and what cascades from them was deleted too.
THEOREM PurgeTheorem == Spec => PurgeOnlyTrash
<1> DEFINE Kept == \A e \in Entries : Active(e) => table'[e].status # "purged"
<1>1. ASSUME TreeInv, [Next]_table PROVE [Kept]_table
  <2>1. ASSUME NEW es \in SUBSET Entries, \A x \in es : Deleted(x), table' = WithoutRows(es)
        PROVE  Kept
    BY <1>1, <2>1, WithoutRowsKept, GoneDeleted DEF Active, Deleted
  <2>2. CASE \E e \in Entries, p \in Parents, n \in Names :
               CreateFolder(e, p, n) \/ CreateFile(e, p, n)
    BY <1>1, <2>2 DEF CreateFolder, CreateFile, Create, Write, ActiveRow, Active, TreeInv, TypeOK
  <2>3. CASE \E e \in Entries, p \in Parents \cup {Keep}, n \in Names \cup {Keep} :
               UpdateFolder(e, p, n) \/ UpdateFile(e, p, n)
    <3> PICK f \in Entries, p \in Parents \cup {Keep}, n \in Names \cup {Keep} :
               UpdateFolder(f, p, n) \/ UpdateFile(f, p, n)
      BY <2>3
    <3>1. Active(f) /\ table' = [table EXCEPT ![f] = Patched(f, p, n)]
      BY DEF UpdateFolder, UpdateFile, Write
    <3>2. Patched(f, p, n).status = "active"
      BY <1>1, <3>1, PatchedRow
    <3> QED BY <1>1, <3>1, <3>2 DEF Active, TreeInv, TypeOK
  <2>4. CASE \E e \in Entries : DeleteFile(e) \/ DeleteFolder(e)
    BY <1>1, <2>4 DEF DeleteFile, DeleteFolder, WithStatus, Active, TreeInv, TypeOK, Rows
  <2>5. CASE \E e \in Entries : Restore(e)
    BY <1>1, <2>5 DEF Restore, RestoreFile, RestoreFolder, Write, WithStatus, Active,
                      TreeInv, TypeOK, Rows
  <2>6. CASE \E e \in Entries : Purge(e)
    BY <2>1, <2>6, PurgeSetDeleted DEF Purge
  <2>7. CASE EmptyTrash
    BY <2>1, <2>7, EmptyTrashSetDeleted DEF EmptyTrash
  <2> HIDE DEF Kept
  <2> QED BY <1>1, <2>2, <2>3, <2>4, <2>5, <2>6, <2>7 DEF Next
<1> QED BY <1>1, TreeTheorem, PTL DEF Spec, PurgeOnlyTrash

\* Emptying the trash removes every deleted row, the ones below listed folders
\* included.
THEOREM EmptyTrashTheorem == Spec => EmptyTrashEmpties
<1> DEFINE Emptied == EmptyTrash => \A e \in Entries : table'[e].status # "deleted"
<1>1. ASSUME TreeInv PROVE Emptied
  <2> SUFFICES ASSUME EmptyTrash, NEW e \in Entries
               PROVE  table'[e].status # "deleted"
    OBVIOUS
  <2> DEFINE es == UNION {PurgeSet(x) : x \in TrashList}
  <2>1. /\ es \in SUBSET Entries
        /\ table' = WithoutRows(es)
    BY EmptyTrashSetDeleted DEF EmptyTrash
  <2>2. table'[e] = IF e \in Gone(es) THEN NoRow("purged") ELSE table[e]
    <3> HIDE DEF es
    <3> QED BY <1>1, <2>1, WithoutRowsKept
  <2>3. ASSUME Deleted(e) PROVE e \in es
    <3>1. TrashCovers
      BY <1>1, TreeTrashCovers
    <3>2. CASE e \in TrashList
      <4>1. CASE e \in Files
        BY <3>2, <4>1 DEF PurgeSet
      <4>2. CASE e \in Folders
        BY <2>3, <3>2, <4>2, SubtreeRoot, ConstantsAssumption DEF PurgeSet
      <4> QED BY <4>1, <4>2 DEF Entries
    <3>3. CASE e \notin TrashList
      <4> PICK t \in TrashList \cap Folders :
                 \/ e \in Subtree(t, DeletedFolders)
                 \/ table[e].parent \in Subtree(t, DeletedFolders)
        BY <2>3, <3>1, <3>3 DEF TrashCovers
      <4>1. DeletedFolders \subseteq PresentFolders
        BY DEF DeletedFolders, PresentFolders, Deleted, Present
      <4>2. Subtree(t, DeletedFolders) \subseteq Subtree(t, PresentFolders)
        BY <4>1, SubtreeMonotone
      <4>3. e \in PurgeSet(t)
        BY <2>3, <4>2, ConstantsAssumption DEF PurgeSet
      <4> QED BY <4>3
    <3> QED BY <3>2, <3>3
  <2>4. CASE Deleted(e)
    BY <2>2, <2>3, <2>4 DEF Gone, NoRow
  <2>5. CASE ~Deleted(e)
    BY <2>2, <2>5 DEF Deleted, NoRow
  <2> QED BY <2>4, <2>5
<1>2. ASSUME TreeInv PROVE [Emptied]_table
  BY <1>1, <1>2
<1> QED BY <1>2, TreeTheorem, PTL DEF Spec, EmptyTrashEmpties
=============================================================================
