--------------------------- MODULE ListingsProofs ---------------------------
(***************************************************************************)
(* Proofs about Listings for every choice of its constants.                *)
(***************************************************************************)
EXTENDS Listings, EntryTreeProofs, FiniteSetTheorems

\* Listings change no row: behind them the tree is the one EntryTree
\* specifies, and what holds of every behaviour of EntryTree holds here.
THEOREM ListingsRefineTree == ListSpec => Spec
<1>1. ListInit => Init
  BY DEF ListInit
<1>2. [ListNext]_listVars => [Next]_table
  BY DEF ListNext, listVars, Open, OpenShared, Resolve, FindBelow, Exists, Count, Items, Fail, Other
<1> QED BY <1>1, <1>2, PTL DEF ListSpec, Spec

\* The tree stays a tree while clients list it.
THEOREM ListingsTreeTheorem == ListSpec => []TreeInv
<1> QED BY ListingsRefineTree, TreeTheorem, PTL

-----------------------------------------------------------------------------
(* Shared listings *)

\* What is active below a folder is shared with it: no deleted folder is on the
\* way.
LEMMA ActiveInSubtree ==
    ASSUME TreeInv, NEW via \in Folders, NEW f \in Subtree(via, PresentFolders), Active(f)
    PROVE  f \in SharedBelow(via)
<1> DEFINE shared == Subtree(via, ActiveFolders)
           D == {g \in Folders : Active(g) => Active(via) /\ g \in shared}
<1>1. via \in D
  BY SubtreeRoot
<1>2. ASSUME NEW g \in PresentFolders, table[g].parent \in D PROVE g \in D
  <2> SUFFICES ASSUME Active(g) PROVE Active(via) /\ g \in shared
    BY DEF PresentFolders
  <2>1. Active(table[g].parent)
    BY <1>2, ConstantsAssumption
       DEF TreeInv, ParentActive, ActiveParent, PresentFolders, Entries
  <2>2. Active(via) /\ table[g].parent \in shared
    BY <1>2, <2>1
  <2>3. g \in ActiveFolders /\ ActiveFolders \subseteq Folders
    BY DEF PresentFolders, ActiveFolders
  <2> QED BY <2>2, <2>3, SubtreeDown
<1> HIDE DEF D
<1>3. Subtree(via, PresentFolders) \subseteq D
  <2>1. D \in SUBSET Folders
    BY DEF D
  <2> QED BY <1>1, <1>2, <2>1, SubtreeLeast DEF DownClosed
<1> QED BY <1>3, ConstantsAssumption DEF D, SharedBelow

\* What a step may do to the folders that were ever inserted: nothing but let
\* them go ...
FoldersStay ==
    \A f \in Folders :
        table[f].status # "unused" =>
            /\ table'[f].status # "unused"
            /\ Present(f)' => Present(f) /\ table'[f].parent = table[f].parent

\* ... or move a single one to an active parent that is not below it.
FolderMoves(f, y) ==
    /\ Active(f) /\ Present(f)'
    /\ y \in Folders => Active(y) /\ y \notin Subtree(f, ActiveFolders)
    /\ table'[f].parent = y
    /\ \A g \in Folders \ {f} : table'[g] = table[g]

\* Restore clears the mark of rows that are there, by a statement the unique
\* index lets through.
LEMMA RestoredRows ==
    ASSUME NEW f \in Entries, Restore(f)
    PROVE  \E es \in SUBSET Entries :
               (\A e \in es : Present(e)) /\ table' = WithStatus(es, "active") /\ UniqueNames(table')
<1> DEFINE es == IF f \in Files THEN {f} ELSE RestoreSet(f)
<1>1. table' = WithStatus(es, "active") /\ UniqueNames(table') /\ Deleted(f)
  BY ConstantsAssumption DEF Restore, RestoreFile, RestoreFolder, Write
<1>2. es \in SUBSET Entries
  BY DEF RestoreSet, Subtree, Entries
<1>3. \A e \in es : Present(e)
  <2>1. CASE f \in Files
    BY <1>1, <2>1 DEF Deleted, Present
  <2>2. CASE f \in Folders
    <3>1. DeletedFolders \subseteq Folders
      BY DEF DeletedFolders
    <3>2. \A g \in Subtree(f, DeletedFolders) : g # f => g \in DeletedFolders
      BY <2>2, <3>1, SubtreeUp
    <3> QED BY <1>1, <2>2, <3>2, ConstantsAssumption
            DEF RestoreSet, DeletedFolders, Deleted, Present
  <2> QED BY <2>1, <2>2 DEF Entries
<1> HIDE DEF es
<1> QED BY <1>1, <1>2, <1>3

\* Every operation is of one of the two kinds.
LEMMA TreeStep ==
    ASSUME TreeInv, [Next]_table
    PROVE  FoldersStay \/ \E f \in Folders, y \in Parents : FolderMoves(f, y)
<1>1. ASSUME NEW e \in Entries, NEW p \in Parents, NEW n \in Names, Create(e, p, n)
      PROVE  FoldersStay
  <2>1. table[e].status = "unused"
    BY <1>1 DEF Create
  <2>2. \A x \in Entries : x # e => table'[x] = table[x]
    BY <1>1 DEF Create, Write, TreeInv, TypeOK
  <2> QED BY <2>1, <2>2 DEF FoldersStay, Present, Entries
<1>2. ASSUME NEW f \in Entries, NEW p \in Parents \cup {Keep}, NEW n \in Names \cup {Keep},
             UpdateFolder(f, p, n) \/ UpdateFile(f, p, n)
      PROVE  FoldersStay \/ \E g \in Folders, y \in Parents : FolderMoves(g, y)
  <2> DEFINE row == Patched(f, p, n)
  <2>1. Active(f) /\ table' = [table EXCEPT ![f] = row]
    BY <1>2 DEF UpdateFolder, UpdateFile, Write
  <2>2. row.status = "active" /\ row.parent = IF p = Keep THEN table[f].parent ELSE p
    BY <2>1, PatchedRow
  <2> HIDE DEF row
  <2>3. \A x \in Entries : table'[x] = IF x = f THEN row ELSE table[x]
    BY <2>1 DEF TreeInv, TypeOK
  <2>4. CASE f \in Files \/ p = Keep
    BY <2>1, <2>2, <2>3, <2>4, ConstantsAssumption DEF FoldersStay, Present, Active, Entries
  <2>5. CASE f \in Folders /\ p # Keep
    <3>1. p \in Folders => Active(p) /\ p \notin Subtree(f, ActiveFolders)
      BY <1>2, <2>5, ConstantsAssumption DEF UpdateFolder, UpdateFile
    <3>2. Present(f)' /\ table'[f].parent = p
      BY <2>2, <2>3, <2>5 DEF Present
    <3>3. \A g \in Folders \ {f} : table'[g] = table[g]
      BY <2>3 DEF Entries
    <3> QED BY <2>1, <2>5, <3>1, <3>2, <3>3 DEF FolderMoves
  <2> QED BY <2>4, <2>5 DEF Entries
<1>3. ASSUME NEW es \in SUBSET Entries, \A e \in es : Present(e),
             NEW s \in {"active", "deleted"}, table' = WithStatus(es, s)
      PROVE  FoldersStay
  BY <1>3, WithStatusKept DEF FoldersStay, Present, Entries
<1>4. ASSUME NEW f \in Entries, DeleteFile(f) \/ DeleteFolder(f) PROVE FoldersStay
  <2>1. CASE DeleteFile(f)
    BY <1>3, <2>1 DEF DeleteFile, Active, Present
  <2>2. CASE DeleteFolder(f)
    <3> DEFINE sub == Subtree(f, ActiveFolders)
               es == {e \in Entries : Active(e) /\ (e \in sub \/ table[e].parent \in sub)}
    <3>1. es \in SUBSET Entries /\ (\A e \in es : Present(e)) /\ table' = WithStatus(es, "deleted")
      BY <2>2 DEF DeleteFolder, Active, Present
    <3> HIDE DEF es
    <3> QED BY <1>3, <3>1
  <2> QED BY <1>4, <2>1, <2>2
<1>5. ASSUME NEW f \in Entries, Restore(f) PROVE FoldersStay
  BY <1>3, <1>5, RestoredRows
<1>6. ASSUME NEW es \in SUBSET Entries, table' = WithoutRows(es), \A e \in es : Deleted(e)
      PROVE  FoldersStay
  <2>1. NoRow("purged").status = "purged"
    BY DEF NoRow
  <2> QED BY <1>6, <2>1, WithoutRowsKept DEF FoldersStay, Present, Entries
<1>7. ASSUME NEW e \in Entries, Purge(e) PROVE FoldersStay
  BY <1>6, <1>7, PurgeSetDeleted DEF Purge
<1>8. CASE EmptyTrash
  BY <1>6, <1>8, EmptyTrashSetDeleted DEF EmptyTrash
<1>9. CASE UNCHANGED table
  BY <1>9 DEF FoldersStay, Present
<1> QED BY <1>1, <1>2, <1>4, <1>5, <1>7, <1>8, <1>9 DEF Next, CreateFolder, CreateFile

\* What lies below a folder and does not go stays below it, if nothing moves:
\* what goes takes everything below it along.
LEMMA KeptBelow ==
    ASSUME TreeInv', FoldersStay, NEW via \in Folders,
           NEW p \in Subtree(via, PresentFolders), Present(p)'
    PROVE  p \in Subtree(via, PresentFolders)'
<1> SUFFICES ASSUME NEW D \in SUBSET Folders, via \in D, DownClosed(D, PresentFolders)'
             PROVE  p \in D
  BY DEF Subtree
<1> DEFINE E == D \cup {f \in Folders : ~Present(f)'}
<1>1. ASSUME NEW f \in PresentFolders, table[f].parent \in E PROVE f \in E
  <2>1. f \in Folders /\ Present(f) /\ table[f].status # "unused"
    BY DEF PresentFolders, Present
  <2> SUFFICES ASSUME Present(f)' PROVE f \in D
    BY <2>1
  <2>2. table'[f].parent = table[f].parent
    BY <2>1 DEF FoldersStay
  <2>3. table[f].parent \in Folders
    BY <1>1
  <2>4. table'[f].parent # Root => Present(table[f].parent)'
    BY <2>1, <2>2 DEF TreeInv, ParentPresent, Entries
  <2>5. table[f].parent \in D
    BY <1>1, <2>2, <2>3, <2>4, ConstantsAssumption
  <2> QED BY <2>1, <2>2, <2>5 DEF DownClosed, PresentFolders
<1>2. via \in E /\ E \in SUBSET Folders
  OBVIOUS
<1> HIDE DEF E
<1>3. p \in E
  BY <1>1, <1>2, SubtreeLeast DEF DownClosed
<1> QED BY <1>3 DEF E

\* A folder that moves takes what lies below it along; from below via it is
\* moved to another folder below via, or out of what via shares.
LEMMA MovedBelow ==
    ASSUME TreeInv, NEW f \in Folders, NEW y \in Parents, FolderMoves(f, y),
           NEW via \in Folders, NEW p \in Subtree(via, PresentFolders), ~MovedOut(via, p)
    PROVE  p \in Subtree(via, PresentFolders)'
<1> SUFFICES ASSUME NEW D \in SUBSET Folders, via \in D, DownClosed(D, PresentFolders)'
             PROVE  p \in D
  BY DEF Subtree
<1> DEFINE W == PresentFolders
           S == Subtree(via, W)
           F == Subtree(f, W)
<1>1. f \in W /\ W \subseteq Folders
  BY DEF FolderMoves, PresentFolders, Active, Present
<1>2. ASSUME NEW g \in W, g # f, table[g].parent \in D PROVE g \in D
  <2>1. table'[g] = table[g] /\ g \in PresentFolders'
    BY <1>2 DEF FolderMoves, PresentFolders, Present
  <2> QED BY <1>2, <2>1 DEF DownClosed
<1>3. y \in D => f \in D
  BY DEF DownClosed, FolderMoves, PresentFolders
<1>4. f \in D => F \subseteq D
  BY <1>1, <1>2, SubtreeLeast DEF DownClosed
<1>5. ASSUME NEW x \in S, x \notin F PROVE x \in D
  <2> DEFINE E == D \cup F
  <2>1. f \in F /\ F \subseteq Folders
    BY SubtreeRoot DEF Subtree
  <2>2. ASSUME NEW g \in W, table[g].parent \in E PROVE g \in E
    BY <1>1, <1>2, <2>1, <2>2, SubtreeDown
  <2>3. via \in E /\ E \in SUBSET Folders
    BY <2>1
  <2> HIDE DEF E, W
  <2>4. S \subseteq E
    BY <2>2, <2>3, SubtreeLeast DEF DownClosed
  <2> QED BY <1>5, <2>4 DEF E
<1>6. CASE f = via
  BY <1>4, <1>5, <1>6
<1>7. CASE f \notin S
  <2> DEFINE E == D \cup (Folders \ S)
  <2>1. ASSUME NEW g \in W, table[g].parent \in E PROVE g \in E
    BY <1>1, <1>2, <1>7, <2>1, SubtreeUp
  <2>2. via \in E /\ E \in SUBSET Folders
    OBVIOUS
  <2> HIDE DEF E, W
  <2>3. S \subseteq E
    BY <2>1, <2>2, SubtreeLeast DEF DownClosed
  <2> QED BY <2>3 DEF E, W
<1>8. CASE f \in S /\ f # via /\ p \in F
  <2>1. f \in SharedBelow(via) \ {via}
    BY <1>8, ActiveInSubtree DEF FolderMoves
  <2>2. y \in SharedBelow(via)
    BY <1>8, <2>1 DEF MovedOut, FolderMoves
  <2>3. y \in S /\ y \in Folders
    <3>1. ActiveFolders \subseteq W
      BY DEF ActiveFolders, PresentFolders, Active, Present
    <3>2. y \in Subtree(via, ActiveFolders)
      BY <2>2 DEF SharedBelow
    <3>3. Subtree(via, ActiveFolders) \subseteq S /\ S \subseteq Folders
      BY <3>1, SubtreeMonotone DEF Subtree
    <3> QED BY <3>2, <3>3
  <2>4. y \notin F
    BY <2>3, ActiveInSubtree DEF FolderMoves, SharedBelow
  <2> QED BY <1>3, <1>4, <1>5, <1>8, <2>3, <2>4
<1>9. p \in S
  OBVIOUS
<1> HIDE DEF F, S
<1> QED BY <1>5, <1>6, <1>7, <1>8, <1>9

Totals == {0} \cup {Cardinality(S) : S \in SUBSET Entries}

Views == [at : {"rest", "resolve", "subtree", "exists", "count", "items"},
          via : Parents, p : Parents, query : Queries \cup {Keep}, order : Orders \cup {Keep},
          page : Int, total : Totals,
          moved : BOOLEAN, due : SUBSET Entries, same : BOOLEAN]

\* Where the folder of a shared listing is after it was chosen: below the shared
\* folder, deleted or not, unless it is gone for good or was moved out.
Placed(v) ==
    v.at \in {"exists", "count", "items"} /\ v.via # Root =>
        /\ v.p \in Folders
        /\ table[v.p].status # "unused"
        /\ ~v.moved /\ Present(v.p) => v.p \in Subtree(v.via, PresentFolders)

ViewInv == view \in Views /\ Placed(view)

LEMMA NoViewInv == NoView \in Views /\ NoView.at = "rest" /\ (view' = NoView => ViewInv')
<1>1. 0 \in Totals
  BY DEF Totals
<1>2. NoView \in Views
  BY <1>1 DEF NoView, Views, Parents
<1>3. NoView.at = "rest"
  BY DEF NoView
<1> QED BY <1>2, <1>3 DEF ViewInv, Placed

\* A step that changes no row and neither the choice nor its history.
LEMMA ChoiceKept ==
    ASSUME ViewInv, UNCHANGED table, NEW v \in Views, view' = v,
           v.at \in {"exists", "count", "items"} => view.at \in {"exists", "count", "items"},
           v.via = view.via, v.p = view.p, v.moved = view.moved
    PROVE  ViewInv'
BY DEF ViewInv, Placed, Present, Subtree, DownClosed, PresentFolders

\* A step that changes no row and chooses a folder the link shares.
LEMMA ChoiceMade ==
    ASSUME UNCHANGED table, NEW v \in Views, view' = v, v.p \in SharedBelow(v.via)
    PROVE  ViewInv'
<1>1. v.p \in Subtree(v.via, ActiveFolders) /\ Active(v.via) /\ v.via \in Folders /\ v.p \in Folders
  BY DEF SharedBelow, Views, Parents, Subtree
<1>2. ActiveFolders \subseteq PresentFolders /\ ActiveFolders \subseteq Folders
  BY DEF ActiveFolders, PresentFolders, Active, Present
<1>3. v.p \in Subtree(v.via, PresentFolders)
  BY <1>1, <1>2, SubtreeMonotone
<1>4. Active(v.p)
  BY <1>1, <1>2, SubtreeUp DEF ActiveFolders
<1>5. Placed(v)
  BY <1>1, <1>3, <1>4 DEF Placed, Active
<1> QED BY <1>5 DEF ViewInv, Placed, Present, Subtree, DownClosed, PresentFolders

\* A change by another request leaves a folder where it was, or the history says
\* so.
LEMMA StaysBelow ==
    ASSUME TreeInv, [Next]_table, NEW via \in Folders, NEW p \in Folders,
           table[p].status # "unused"
    PROVE  /\ table'[p].status # "unused"
           /\ Present(p)' => Present(p)
           /\ Present(p)' /\ p \in Subtree(via, PresentFolders) /\ ~MovedOut(via, p)
                 => p \in Subtree(via, PresentFolders)'
<1>1. CASE FoldersStay
  BY <1>1, NextTree, KeptBelow DEF FoldersStay
<1>2. ASSUME NEW f \in Folders, NEW y \in Parents, FolderMoves(f, y)
      PROVE  /\ table'[p].status # "unused"
             /\ Present(p)' => Present(p)
             /\ p \in Subtree(via, PresentFolders) /\ ~MovedOut(via, p)
                   => p \in Subtree(via, PresentFolders)'
  <2>1. table'[p].status # "unused" /\ (Present(p)' => Present(p))
    BY <1>2 DEF FolderMoves, Present, Active
  <2> QED BY <1>2, <2>1, MovedBelow
<1> QED BY <1>1, <1>2, TreeStep

LEMMA ChoiceStays ==
    ASSUME TreeInv, ViewInv, [Next]_table, NEW v \in Views, view' = v,
           v.at = view.at, v.via = view.via, v.p = view.p,
           v.moved = (view.moved \/ MovedOut(view.via, view.p))
    PROVE  ViewInv'
<1>1. CASE ~(v.at \in {"exists", "count", "items"} /\ v.via # Root)
  BY <1>1 DEF ViewInv, Placed
<1>2. CASE v.at \in {"exists", "count", "items"} /\ v.via # Root
  <2>1. /\ v.via \in Folders /\ v.p \in Folders /\ table[v.p].status # "unused"
        /\ ~view.moved /\ Present(v.p) => v.p \in Subtree(v.via, PresentFolders)
    BY <1>2 DEF ViewInv, Placed, Views, Parents
  <2>2. /\ table'[v.p].status # "unused"
        /\ Present(v.p)' => Present(v.p)
        /\ Present(v.p)' /\ v.p \in Subtree(v.via, PresentFolders) /\ ~MovedOut(v.via, v.p)
              => v.p \in Subtree(v.via, PresentFolders)'
    BY <2>1, StaysBelow
  <2>3. ~v.moved => ~view.moved /\ ~MovedOut(v.via, v.p)
    OBVIOUS
  <2>4. /\ view'.p = v.p /\ view'.via = v.via /\ view'.moved = v.moved
    OBVIOUS
  <2> QED BY <2>1, <2>2, <2>3, <2>4 DEF ViewInv, Placed
<1> QED BY <1>1, <1>2

\* A choice is made in Resolve, of the shared folder itself, or by FindBelow;
\* every other step keeps it and the history it is in.
LEMMA NextView == TreeInv /\ ViewInv /\ [ListNext]_listVars => ViewInv'
<1> SUFFICES ASSUME TreeInv, ViewInv, [ListNext]_listVars PROVE ViewInv'
  OBVIOUS
<1>1. CASE UNCHANGED listVars
  BY <1>1, ChoiceKept DEF listVars, ViewInv
<1>2. ASSUME NEW p \in Parents, NEW query \in Queries, NEW order \in Orders, Open(p, query, order)
      PROVE  ViewInv'
  <2> DEFINE at == IF p = Root THEN "count" ELSE "exists"
             v == [NoView EXCEPT !.at = at, !.p = p, !.query = query, !.order = order]
  <2>1. at \in {"count", "exists"}
    OBVIOUS
  <2> HIDE DEF at
  <2>2. v \in Views /\ v.via = Root
    BY <2>1, NoViewInv DEF NoView, Views
  <2>3. view' = v
    BY <1>2 DEF Open, at
  <2> HIDE DEF v
  <2> QED BY <2>2, <2>3 DEF ViewInv, Placed
<1>3. ASSUME NEW f \in Folders, NEW query \in Queries, NEW order \in Orders, OpenShared(f, query, order)
      PROVE  ViewInv'
  <2> DEFINE v == [NoView EXCEPT !.at = "resolve", !.via = f, !.query = query, !.order = order]
  <2>1. v \in Views /\ v.at = "resolve"
    BY NoViewInv DEF NoView, Views, Parents
  <2>2. view' = v
    BY <1>3 DEF OpenShared
  <2> HIDE DEF v
  <2> QED BY <2>1, <2>2 DEF ViewInv, Placed
<1>4. ASSUME NEW p \in Folders, Resolve(p)
      PROVE  ViewInv'
  <2> DEFINE v == [view EXCEPT !.p = p, !.at = IF p = view.via THEN "exists" ELSE "subtree"]
  <2>1. /\ v \in Views /\ v.p = p /\ v.via = view.via
        /\ v.at = IF p = view.via THEN "exists" ELSE "subtree"
    BY DEF ViewInv, Views, Parents
  <2>2. view' = v /\ Active(view.via) /\ UNCHANGED table
    BY <1>4 DEF Resolve
  <2> HIDE DEF v
  <2>3. CASE p = view.via
    <3>1. p \in SharedBelow(view.via)
      BY <2>2, <2>3, SubtreeRoot, ConstantsAssumption DEF SharedBelow
    <3> QED BY <2>1, <2>2, <3>1, ChoiceMade
  <2>4. CASE p # view.via
    BY <2>1, <2>2, <2>4 DEF ViewInv, Placed
  <2> QED BY <2>3, <2>4
<1>5. CASE FindBelow
  <2> DEFINE v == [view EXCEPT !.at = "exists", !.moved = FALSE]
  <2>1. v \in Views /\ v.p = view.p /\ v.via = view.via
    BY DEF ViewInv, Views
  <2>2. view' = v /\ view.p \in SharedBelow(view.via) /\ UNCHANGED table
    BY <1>5 DEF FindBelow
  <2> HIDE DEF v
  <2> QED BY <2>1, <2>2, ChoiceMade
<1>6. CASE Exists
  <2> DEFINE v == [view EXCEPT !.at = "count"]
  <2>1. v \in Views /\ v.p = view.p /\ v.via = view.via /\ v.moved = view.moved
    BY DEF ViewInv, Views
  <2>2. view' = v /\ view.at = "exists" /\ UNCHANGED table
    BY <1>6 DEF Exists
  <2> HIDE DEF v
  <2> QED BY <2>1, <2>2, ChoiceKept
<1>7. CASE Count
  <2> DEFINE rows == Matching(table, view.p, view.query.kind)
             due == IF view.page = 1 THEN rows ELSE view.due
             v == [view EXCEPT !.at = "items", !.total = Cardinality(rows), !.same = TRUE, !.due = due]
  <2>1. rows \in SUBSET Entries /\ due \in SUBSET Entries
    BY DEF Matching, ViewInv, Views
  <2>2. view' = v /\ view.at = "count" /\ UNCHANGED table
    BY <1>7 DEF Count
  <2>3. Cardinality(rows) \in Totals
    BY <2>1 DEF Totals
  <2> HIDE DEF rows, due
  <2>4. v \in Views /\ v.p = view.p /\ v.via = view.via /\ v.moved = view.moved
    BY <2>1, <2>3 DEF ViewInv, Views
  <2> HIDE DEF v
  <2> QED BY <2>2, <2>4, ChoiceKept
<1>8. CASE Items
  <2>1. CASE Full
    <3> DEFINE due == view.due \ Shown
               at == IF view.p = Root THEN "count" ELSE "exists"
    <3>1. view.via = Root /\ due \in SUBSET Entries
      BY <2>1 DEF Full, ViewInv, Views
    <3>2. view' = [view EXCEPT !.at = at,
                               !.page = @ + 1, !.total = 0, !.same = FALSE, !.due = due]
      BY <1>8, <2>1 DEF Items
    <3> HIDE DEF due
    <3>3. 0 \in Totals /\ view.page + 1 \in Int
      BY DEF Totals, ViewInv, Views
    <3>4. at \in {"count", "exists"}
      OBVIOUS
    <3> HIDE DEF at
    <3>5. view' \in Views /\ view'.via = view.via
      BY <3>1, <3>2, <3>3, <3>4 DEF ViewInv, Views
    <3> QED BY <3>1, <3>5 DEF ViewInv, Placed
  <2> QED BY <1>8, <2>1, NoViewInv DEF Items
<1>9. CASE Fail
  BY <1>9, NoViewInv DEF Fail
<1>10. CASE Other
  <2>1. CASE view.at = "rest"
    BY <1>10, <2>1 DEF Other, ViewInv, Placed
  <2>2. CASE view.at # "rest"
    <3> DEFINE before == Matching(table, view.p, view.query.kind)
               after  == Matching(table', view.p, view.query.kind)
               kept   == \A e \in before : e \in after /\ table'[e].display = table[e].display
               same   == view.same /\ after = before
               due    == IF kept THEN view.due ELSE {}
               moved  == view.moved \/ MovedOut(view.via, view.p)
               v      == [view EXCEPT !.same = same, !.due = due, !.moved = moved]
    <3>1. Next /\ view' = v
      BY <1>10, <2>2 DEF Other
    <3>2. same \in BOOLEAN /\ due \in SUBSET Entries /\ moved \in BOOLEAN
      BY DEF ViewInv, Views, MovedOut
    <3> HIDE DEF same, due, moved
    <3>3. v \in Views /\ v.p = view.p /\ v.via = view.via /\ v.at = view.at /\ v.moved = moved
      BY <3>2 DEF ViewInv, Views
    <3> HIDE DEF v
    <3> QED BY <3>1, <3>3, ChoiceStays DEF moved
  <2> QED BY <2>1, <2>2
<1> QED BY <1>1, <1>2, <1>3, <1>4, <1>5, <1>6, <1>7, <1>8, <1>9, <1>10 DEF ListNext

\* However the tree changes between the transactions of a shared listing, the
\* folder it shows is one the link still shares, unless a move took it out.
THEOREM ListedStillSharedTheorem == ListSpec => []ListedStillShared
<1>1. ListInit => ViewInv
  BY NoViewInv DEF ListInit, ViewInv, Placed
<1>2. TreeInv /\ ViewInv => ListedStillShared
  <2> SUFFICES ASSUME TreeInv, ViewInv, view.at = "items", view.via # Root, ~view.moved, Active(view.p)
               PROVE  view.p \in SharedBelow(view.via)
    BY DEF ListedStillShared
  <2>1. view.via \in Folders /\ view.p \in Subtree(view.via, PresentFolders)
    BY DEF ViewInv, Placed, Views, Parents, Active, Present
  <2> QED BY <2>1, ActiveInSubtree
<1> QED BY <1>1, <1>2, NextView, ListingsTreeTheorem, PTL DEF ListSpec

-----------------------------------------------------------------------------
(* Rows and their order *)

Used == {e \in Entries : table[e].status # "unused"}

\* What a page takes for granted of the rows: they are finitely many, they
\* have names, and no two active ones of a kind share parent and display.
RowsInv ==
    /\ UniqueNames(table)
    /\ IsFiniteSet(Used)
    /\ \A e \in Entries : Present(e) => table[e].display \in Names

\* An insertion adds one row.
LEMMA RowAdded ==
    ASSUME TreeInv, RowsInv, NEW e \in Entries, NEW p \in Parents, NEW n \in Names, Create(e, p, n)
    PROVE  RowsInv'
<1>1. /\ UniqueNames(table')
      /\ table' = [table EXCEPT ![e] = ActiveRow(p, n)]
  BY DEF Create, Write
<1>2. \A x \in Entries : table'[x] = IF x = e THEN ActiveRow(p, n) ELSE table[x]
  BY <1>1 DEF TreeInv, TypeOK
<1>3. Used' = Used \cup {e}
  BY <1>2 DEF Used, ActiveRow
<1>4. IsFiniteSet(Used')
  BY <1>3, FS_AddElement DEF RowsInv
<1>5. \A x \in Entries : Present(x)' => table'[x].display \in Names
  BY <1>2 DEF RowsInv, Present, ActiveRow
<1> QED BY <1>1, <1>4, <1>5 DEF RowsInv, UniqueNames

\* Every other operation leaves the rows that are there with a name.
LEMMA RowsKept ==
    ASSUME RowsInv, UniqueNames(table'),
           \A e \in Entries : table[e].status = "unused" => table'[e].status = "unused",
           \A e \in Entries : Present(e)' => table'[e].display \in Names
    PROVE  RowsInv'
<1>1. Used' \in SUBSET Used
  BY DEF Used
<1>2. IsFiniteSet(Used')
  BY <1>1, FS_Subset DEF RowsInv
<1> QED BY <1>2 DEF RowsInv, UniqueNames

\* Rows that take another status keep their names.
LEMMA RowsMarked ==
    ASSUME TreeInv, RowsInv, NEW es \in SUBSET Entries, \A e \in es : Present(e),
           NEW s \in {"active", "deleted"}, table' = WithStatus(es, s), UniqueNames(table')
    PROVE  RowsInv'
<1>1. \A e \in Entries : /\ table'[e].display = table[e].display
                         /\ table'[e].status = IF e \in es THEN s ELSE table[e].status
  BY DEF WithStatus, TreeInv, TypeOK, Rows
<1>2. \A e \in Entries : table[e].status = "unused" => table'[e].status = "unused"
  BY <1>1 DEF Present
<1>3. \A e \in Entries : Present(e)' => table'[e].display \in Names
  BY <1>1 DEF RowsInv, Present
<1> QED BY <1>2, <1>3, RowsKept

\* Rows that are gone free their names.
LEMMA RowsErased ==
    ASSUME TreeInv, RowsInv, NEW es \in SUBSET Entries, \A e \in es : Deleted(e),
           table' = WithoutRows(es)
    PROVE  RowsInv'
<1>1. \A e \in Entries : table'[e] = IF e \in Gone(es) THEN NoRow("purged") ELSE table[e]
  BY WithoutRowsKept
<1>2. \A e \in Gone(es) : Deleted(e)
  BY GoneDeleted
<1>3. NoRow("purged").status = "purged"
  BY DEF NoRow
<1>4. UniqueNames(table')
  BY <1>1, <1>3 DEF RowsInv, UniqueNames
<1>5. \A e \in Entries : table[e].status = "unused" => table'[e].status = "unused"
  BY <1>1, <1>2 DEF Deleted
<1>6. \A e \in Entries : Present(e)' => table'[e].display \in Names
  BY <1>1, <1>3 DEF RowsInv, Present
<1> QED BY <1>4, <1>5, <1>6, RowsKept

\* No operation leaves RowsInv.
LEMMA NextRows == TreeInv /\ RowsInv /\ [Next]_table => RowsInv'
<1> SUFFICES ASSUME TreeInv, RowsInv, [Next]_table PROVE RowsInv'
  OBVIOUS
<1>1. CASE \E e \in Entries, p \in Parents, n \in Names :
             CreateFolder(e, p, n) \/ CreateFile(e, p, n)
  BY <1>1, RowAdded DEF CreateFolder, CreateFile
<1>2. ASSUME NEW f \in Entries, NEW p \in Parents \cup {Keep}, NEW n \in Names \cup {Keep},
             UpdateFolder(f, p, n) \/ UpdateFile(f, p, n)
      PROVE  RowsInv'
  <2> DEFINE row == Patched(f, p, n)
  <2>1. /\ Active(f) /\ UniqueNames(table')
        /\ table' = [table EXCEPT ![f] = row]
    BY <1>2 DEF UpdateFolder, UpdateFile, Write
  <2>2. row.display = IF n = Keep THEN table[f].display ELSE n
    BY DEF Patched, TreeInv, TypeOK, Rows
  <2>3. row.display \in Names
    BY <2>1, <2>2 DEF RowsInv, Active, Present
  <2>4. \A x \in Entries : table'[x] = IF x = f THEN row ELSE table[x]
    <3> HIDE DEF row
    <3> QED BY <2>1 DEF TreeInv, TypeOK
  <2>5. \A x \in Entries : table[x].status = "unused" => table'[x].status = "unused"
    BY <2>1, <2>4 DEF Active
  <2>6. \A x \in Entries : Present(x)' => table'[x].display \in Names
    BY <2>3, <2>4 DEF RowsInv, Present
  <2> QED BY <2>1, <2>5, <2>6, RowsKept
<1>3. ASSUME NEW es \in SUBSET Entries, \A e \in es : Active(e), table' = WithStatus(es, "deleted")
      PROVE  RowsInv'
  <2>1. \A e \in es : Present(e)
    BY <1>3 DEF Active, Present
  <2>2. \A e \in Entries : /\ table'[e].status = IF e \in es THEN "deleted" ELSE table[e].status
                           /\ table'[e].parent = table[e].parent
                           /\ table'[e].display = table[e].display
    BY <1>3 DEF WithStatus, TreeInv, TypeOK, Rows
  <2>3. UniqueNames(table')
    BY <2>2 DEF RowsInv, UniqueNames
  <2> QED BY <1>3, <2>1, <2>3, RowsMarked
<1>4. ASSUME NEW f \in Entries, DeleteFile(f) \/ DeleteFolder(f) PROVE RowsInv'
  <2>1. CASE DeleteFile(f)
    <3>1. {f} \in SUBSET Entries /\ (\A e \in {f} : Active(e)) /\ table' = WithStatus({f}, "deleted")
      BY <2>1 DEF DeleteFile
    <3> QED BY <1>3, <3>1
  <2>2. CASE DeleteFolder(f)
    <3> DEFINE sub == Subtree(f, ActiveFolders)
               es == {e \in Entries : Active(e) /\ (e \in sub \/ table[e].parent \in sub)}
    <3>1. es \in SUBSET Entries /\ (\A e \in es : Active(e)) /\ table' = WithStatus(es, "deleted")
      BY <2>2 DEF DeleteFolder
    <3> HIDE DEF es
    <3> QED BY <1>3, <3>1
  <2> QED BY <1>4, <2>1, <2>2
<1>5. ASSUME NEW f \in Entries, Restore(f) PROVE RowsInv'
  BY <1>5, RestoredRows, RowsMarked
<1>6. ASSUME NEW e \in Entries, Purge(e) PROVE RowsInv'
  BY <1>6, PurgeSetDeleted, RowsErased DEF Purge
<1>7. CASE EmptyTrash
  BY <1>7, EmptyTrashSetDeleted, RowsErased DEF EmptyTrash
<1>8. CASE UNCHANGED table
  BY <1>8 DEF RowsInv, UniqueNames, Used, Present
<1> QED BY <1>1, <1>2, <1>4, <1>5, <1>6, <1>7, <1>8 DEF Next

\* A finite set of rows on which Precedes is a strict total order
Sorted(rows, order) ==
    /\ IsFiniteSet(rows)
    /\ \A a \in rows : ~Precedes(table, a, a, order)
    /\ \A a, b \in rows : a # b => Precedes(table, a, b, order) \/ Precedes(table, b, a, order)
    /\ \A a, b, c \in rows :
          Precedes(table, a, b, order) /\ Precedes(table, b, c, order) => Precedes(table, a, c, order)

\* ORDER BY leaves no two entries of a folder unordered: of two with one
\* display, one is a file and the other a folder.
LEMMA MatchingSorted ==
    ASSUME RowsInv, NEW p, NEW kind, NEW order \in Orders
    PROVE  Sorted(Matching(table, p, kind), order)
<1> DEFINE rows == Matching(table, p, kind)
<1>1. rows \in SUBSET Used /\ rows \in SUBSET Entries
  BY DEF Matching, Used
<1>2. IsFiniteSet(rows)
  BY <1>1, FS_Subset DEF RowsInv
<1>3. \A a \in rows : table[a].display \in Names
  BY DEF Matching, RowsInv, Present
<1>4. /\ \A m \in Names : order[m] \in Int
      /\ \A m, n \in Names : order[m] = order[n] => m = n
  BY DEF Orders
<1>5. ASSUME NEW a \in rows, NEW b \in rows, a # b, table[a].display = table[b].display
      PROVE  (a \in Files /\ b \in Folders) \/ (a \in Folders /\ b \in Files)
  BY <1>1, <1>5 DEF RowsInv, UniqueNames, SameKind, Matching, Entries
<1>6. \A a, b \in rows : a # b => Precedes(table, a, b, order) \/ Precedes(table, b, a, order)
  <2> SUFFICES ASSUME NEW a \in rows, NEW b \in rows, a # b
               PROVE  Precedes(table, a, b, order) \/ Precedes(table, b, a, order)
    OBVIOUS
  <2>1. order[table[a].display] \in Int /\ order[table[b].display] \in Int
    BY <1>3, <1>4
  <2>2. order[table[a].display] = order[table[b].display] => table[a].display = table[b].display
    BY <1>3, <1>4
  <2> HIDE DEF rows
  <2> QED BY <1>5, <2>1, <2>2 DEF Precedes
<1>7. \A a \in rows : ~Precedes(table, a, a, order)
  BY <1>3, <1>4, ConstantsAssumption DEF Precedes
<1>8. ASSUME NEW a \in rows, NEW b \in rows, NEW c \in rows,
             Precedes(table, a, b, order), Precedes(table, b, c, order)
      PROVE  Precedes(table, a, c, order)
  <2>1. /\ order[table[a].display] \in Int /\ order[table[b].display] \in Int
        /\ order[table[c].display] \in Int
    BY <1>3, <1>4
  <2> QED BY <1>8, <2>1, ConstantsAssumption DEF Precedes
<1> QED BY <1>2, <1>6, <1>7, <1>8 DEF Sorted

\* The places of n sorted rows are the numbers below n.
LEMMA Places ==
    ASSUME NEW order, NEW rows, Sorted(rows, order)
    PROVE  /\ Cardinality(rows) \in Nat
           /\ [e \in rows |-> Place(table, e, rows, order)]
                 \in Bijection(rows, 0 .. Cardinality(rows) - 1)
<1> DEFINE n == Cardinality(rows)
           before(e) == {x \in rows : Precedes(table, x, e, order)}
           place == [e \in rows |-> Place(table, e, rows, order)]
<1>1. IsFiniteSet(rows) /\ n \in Nat
  BY FS_CardinalityType DEF Sorted
<1>2. ASSUME NEW e \in rows
      PROVE  Place(table, e, rows, order) \in 0 .. n - 1
  <2>1. before(e) \in SUBSET rows /\ e \notin before(e)
    BY DEF Sorted
  <2>2. IsFiniteSet(before(e)) /\ Cardinality(before(e)) \in Nat
    BY <1>1, <2>1, FS_Subset, FS_CardinalityType
  <2>3. Cardinality(before(e)) <= n /\ (Cardinality(rows) = Cardinality(before(e)) => rows = before(e))
    BY <1>1, <2>1, FS_Subset
  <2>4. Cardinality(before(e)) # n
    BY <2>1, <2>3
  <2>5. Place(table, e, rows, order) = Cardinality(before(e))
    BY DEF Place
  <2> HIDE DEF before, n
  <2> QED BY <1>1, <2>2, <2>3, <2>4, <2>5
<1>3. ASSUME NEW a \in rows, NEW b \in rows, Precedes(table, a, b, order)
      PROVE  Place(table, a, rows, order) # Place(table, b, rows, order)
  <2>1. before(a) \in SUBSET before(b)
    BY <1>3 DEF Sorted
  <2>2. a \in before(b) /\ a \notin before(a)
    BY <1>3 DEF Sorted
  <2>3. IsFiniteSet(before(b))
    <3>1. before(b) \in SUBSET rows
      OBVIOUS
    <3> QED BY <1>1, <3>1, FS_Subset
  <2>4. Cardinality(before(a)) # Cardinality(before(b))
    BY <2>1, <2>2, <2>3, FS_Subset
  <2> QED BY <2>4 DEF Place
<1>4. place \in [rows -> 0 .. n - 1]
  BY <1>2
<1>5. place \in Injection(rows, 0 .. n - 1)
  <2>1. \A a, b \in rows : place[a] = place[b] => a = b
    <3>1. \A e \in rows : place[e] = Place(table, e, rows, order)
      OBVIOUS
    <3> HIDE DEF place
    <3> QED BY <1>3, <3>1 DEF Sorted
  <2> HIDE DEF place, n
  <2> QED BY <1>4, <2>1 DEF Injection, IsInjective
<1>6. IsFiniteSet(0 .. n - 1) /\ Cardinality(0 .. n - 1) = n
  <2>1. 0 \in Int /\ n - 1 \in Int
    BY <1>1
  <2> HIDE DEF n
  <2> QED BY <1>1, <2>1, FS_Interval
<1>7. place \in Surjection(rows, 0 .. n - 1)
  <2> HIDE DEF place, n
  <2>1. Cardinality(rows) = Cardinality(0 .. n - 1)
    BY <1>6 DEF n
  <2> QED BY <1>5, <1>6, <2>1, FS_Injection
<1> QED BY <1>1, <1>5, <1>7 DEF Bijection

\* The number of rows in the places from .. from + size - 1
LEMMA PageSize ==
    ASSUME NEW order, NEW rows, Sorted(rows, order), NEW from \in Nat, NEW size \in Nat
    PROVE  LET n    == Cardinality(rows)
               page == {e \in rows : /\ from <= Place(table, e, rows, order)
                                     /\ Place(table, e, rows, order) < from + size}
           IN  Cardinality(page) = IF n <= from THEN 0 ELSE IF n - from < size THEN n - from ELSE size
<1> DEFINE n == Cardinality(rows)
           place == [e \in rows |-> Place(table, e, rows, order)]
           page == {e \in rows : from <= place[e] /\ place[e] < from + size}
           last == IF n < from + size THEN n - 1 ELSE from + size - 1
           onPage == [e \in page |-> place[e]]
<1>1. n \in Nat /\ place \in Bijection(rows, 0 .. n - 1)
  BY Places
<1>2. /\ place \in [rows -> 0 .. n - 1]
      /\ \A a, b \in rows : place[a] = place[b] => a = b
      /\ \A i \in 0 .. n - 1 : \E e \in rows : place[e] = i
  <2> HIDE DEF place, n
  <2> QED BY <1>1 DEF Bijection, Injection, Surjection, IsInjective
<1>3. page = {e \in rows : from <= Place(table, e, rows, order) /\ Place(table, e, rows, order) < from + size}
  OBVIOUS
<1> HIDE DEF place, n
<1>4. page \in SUBSET rows /\ IsFiniteSet(page)
  BY FS_Subset DEF Sorted
<1>5. last \in Int
  BY <1>1
<1>6. \A e \in page : place[e] \in from .. last
  BY <1>1, <1>2
<1>7. \A i \in from .. last : \E e \in page : place[e] = i
  <2> SUFFICES ASSUME NEW i \in from .. last PROVE \E e \in page : place[e] = i
    OBVIOUS
  <2>1. i \in 0 .. n - 1 /\ from <= i /\ i < from + size
    BY <1>1
  <2> QED BY <1>2, <2>1
<1> HIDE DEF last, page
<1>8. onPage \in Bijection(page, from .. last)
  <2>1. onPage \in [page -> from .. last]
    BY <1>6
  <2>2. \A a, b \in page : onPage[a] = onPage[b] => a = b
    BY <1>2, <1>4
  <2>3. \A i \in from .. last : \E e \in page : onPage[e] = i
    BY <1>7
  <2> HIDE DEF onPage
  <2> QED BY <2>1, <2>2, <2>3 DEF Bijection, Injection, Surjection, IsInjective
<1>9. Cardinality(from .. last) = Cardinality(page)
  <2> HIDE DEF onPage
  <2> QED BY <1>4, <1>8, FS_Bijection DEF ExistsBijection
<1>10. Cardinality(from .. last) = IF from > last THEN 0 ELSE last - from + 1
  BY <1>5, FS_Interval
<1>11. Cardinality(page) = IF n <= from THEN 0 ELSE IF n - from < size THEN n - from ELSE size
  BY <1>1, <1>9, <1>10 DEF last
<1> QED BY <1>3, <1>11 DEF n

\* An offset that fits an int does not wrap around.
LEMMA OffsetExact ==
    ASSUME NEW page \in Int, NEW size \in Int, (page - 1) * size \in 0 .. MaxInt
    PROVE  Offset(page, size) = (page - 1) * size
<1> DEFINE skipped == (page - 1) * size
           half == MaxInt + 1
<1>1. half \in Nat /\ half > 0 /\ skipped \in Nat /\ skipped < half
  BY ListingsAssumption
<1>2. Offset(page, size) = ((skipped + half) % (2 * half)) - half
  BY <1>1, ListingsAssumption DEF Offset, Wrapped
<1> HIDE DEF skipped, half
<1>3. (skipped + half) % (2 * half) = skipped + half
  BY <1>1
<1>4. Offset(page, size) = skipped
  BY <1>1, <1>2, <1>3
<1> QED BY <1>4 DEF skipped

-----------------------------------------------------------------------------
(* A client that reads page after page *)

Listed(v) == Matching(table, v.p, v.query.kind)

\* The rows on the pages before that of v
Skipped(v) == (v.page - 1) * v.query.size

\* What is due lies on the page of v or after it, and as long as the entries
\* are those that were counted, the total is their number.
Reading(v) ==
    /\ v.query \in Queries /\ v.order \in Orders
    /\ v.page \in Nat \ {0} /\ Skipped(v) <= MaxRows
    /\ v.at = "resolve" => v.due = {}
    /\ v.at = "items" /\ v.same => v.total = Cardinality(Listed(v))
    /\ v.due \subseteq Listed(v)
    /\ \A e \in v.due : Skipped(v) <= Place(table, e, Listed(v), v.order)

PageInv ==
    /\ TreeInv /\ RowsInv /\ ViewInv
    /\ view.at # "rest" => Small(table) /\ Reading(view)

\* A statement that reads changes no row.
LEMMA ReadingKept ==
    ASSUME PageInv, UNCHANGED table, ViewInv', Small(table),
           NEW v \in Views, Reading(v), view' = v
    PROVE  PageInv'
<1>1. /\ view'.at = v.at /\ view'.p = v.p /\ view'.query = v.query /\ view'.order = v.order
      /\ view'.page = v.page /\ view'.total = v.total /\ view'.due = v.due /\ view'.same = v.same
  OBVIOUS
<1>2. Reading(view')
  BY <1>1 DEF Reading, Listed, Skipped
<1>3. Reading(view)'
  <2>1. Listed(view)' = Listed(view') /\ Skipped(view)' = Skipped(view')
    BY DEF Listed, Matching, Skipped
  <2>2. \A e, rows, order : Place(table, e, rows, order)' = Place(table, e, rows, order)
    BY DEF Place, Precedes
  <2> QED BY <1>2, <2>1, <2>2 DEF Reading
<1>4. TreeInv' /\ RowsInv'
  BY NextTree, NextRows DEF PageInv
<1> QED BY <1>3, <1>4 DEF PageInv, Small

\* A request begins with the first page and nothing due.
LEMMA OpenReading ==
    ASSUME PageInv, NEW query \in Queries, NEW order \in Orders,
           \/ \E p \in Parents : Open(p, query, order)
           \/ \E f \in Folders : OpenShared(f, query, order)
    PROVE  PageInv'
<1>0. ViewInv'
  BY NextView DEF ListNext, PageInv
<1>1. ASSUME NEW v, v.query = query, v.order = order, v.page = 1, v.due = {}, v.at # "items"
      PROVE  Reading(v)
  <2>1. query.size \in Nat
    BY ListingsAssumption
  <2>2. Skipped(v) = 0
    BY <1>1, <2>1 DEF Skipped
  <2> QED BY <1>1, <2>2, ListingsAssumption DEF Reading
<1>2. ASSUME NEW p \in Parents, Open(p, query, order) PROVE PageInv'
  <2> DEFINE v == [NoView EXCEPT !.at = IF p = Root THEN "count" ELSE "exists",
                                 !.p = p, !.query = query, !.order = order]
  <2>1. view' = v /\ UNCHANGED table /\ Small(table)
    BY <1>2 DEF Open
  <2>2. /\ v \in Views /\ v.query = query /\ v.order = order /\ v.page = 1 /\ v.due = {}
        /\ v.at # "items"
    BY NoViewInv DEF NoView, Views
  <2> HIDE DEF v
  <2> QED BY <1>0, <1>1, <2>1, <2>2, ReadingKept
<1>3. ASSUME NEW f \in Folders, OpenShared(f, query, order) PROVE PageInv'
  <2> DEFINE v == [NoView EXCEPT !.at = "resolve", !.via = f, !.query = query, !.order = order]
  <2>1. view' = v /\ UNCHANGED table /\ Small(table)
    BY <1>3 DEF OpenShared
  <2>2. /\ v \in Views /\ v.query = query /\ v.order = order /\ v.page = 1 /\ v.due = {}
        /\ v.at # "items"
    BY NoViewInv DEF NoView, Views, Parents
  <2> HIDE DEF v
  <2> QED BY <1>0, <1>1, <2>1, <2>2, ReadingKept
<1> QED BY <1>2, <1>3

\* The checks before the two statements choose the folder, before anything is
\* due, and change nothing else.
LEMMA CheckReading ==
    ASSUME PageInv, \/ \E p \in Folders : Resolve(p)
                    \/ FindBelow \/ Exists
    PROVE  PageInv'
<1>0. ViewInv' /\ view \in Views
  BY NextView DEF ListNext, PageInv, ViewInv
<1>1. ASSUME NEW p \in Folders, Resolve(p) PROVE PageInv'
  <2> DEFINE v == [view EXCEPT !.p = p, !.at = IF p = view.via THEN "exists" ELSE "subtree"]
  <2>1. view' = v /\ UNCHANGED table /\ Small(table) /\ Reading(view) /\ view.at = "resolve"
    BY <1>1 DEF Resolve, PageInv
  <2>2. v.at = IF p = view.via THEN "exists" ELSE "subtree"
    BY <1>0 DEF Views
  <2>3. /\ v \in Views /\ v.query = view.query /\ v.order = view.order /\ v.page = view.page
        /\ v.due = {}
    BY <1>0, <2>1 DEF Views, Parents, Reading
  <2> HIDE DEF v
  <2>4. v.at # "items"
    BY <2>2
  <2>5. Reading(v)
    BY <2>1, <2>3, <2>4 DEF Reading, Skipped
  <2> QED BY <1>0, <2>1, <2>3, <2>5, ReadingKept
<1>2. ASSUME NEW at \in {"exists", "count"}, NEW moved \in BOOLEAN, view.at # "rest",
             view' = [view EXCEPT !.at = at, !.moved = moved], UNCHANGED table
      PROVE  PageInv'
  <2> DEFINE v == [view EXCEPT !.at = at, !.moved = moved]
  <2>1. view' = v /\ Small(table) /\ Reading(view)
    BY <1>2 DEF PageInv
  <2>2. /\ v \in Views /\ v.query = view.query /\ v.order = view.order /\ v.page = view.page
        /\ v.due = view.due /\ v.p = view.p /\ v.at = at
    BY <1>0 DEF Views
  <2> HIDE DEF v
  <2>3. Reading(v)
    BY <2>1, <2>2 DEF Reading, Skipped, Listed
  <2> QED BY <1>0, <1>2, <2>1, <2>2, <2>3, ReadingKept
<1>3. CASE FindBelow
  BY <1>2, <1>3 DEF FindBelow
<1>4. CASE Exists
  <2>1. view' = [view EXCEPT !.at = "count", !.moved = view.moved] /\ view.moved \in BOOLEAN
    BY <1>0, <1>4 DEF Exists, Views
  <2> QED BY <1>2, <1>4, <2>1 DEF Exists
<1> QED BY <1>1, <1>3, <1>4

\* The first count makes every entry due.
LEMMA CountReading == PageInv /\ Count => PageInv'
<1> SUFFICES ASSUME PageInv, Count PROVE PageInv'
  OBVIOUS
<1>0. ViewInv' /\ view \in Views
  BY NextView DEF ListNext, PageInv, ViewInv
<1> DEFINE rows == Listed(view)
           due == IF view.page = 1 THEN rows ELSE view.due
           v == [view EXCEPT !.at = "items", !.total = Cardinality(rows), !.same = TRUE, !.due = due]
<1>1. view' = v /\ UNCHANGED table /\ Small(table) /\ Reading(view)
  BY DEF Count, Listed, PageInv
<1>2. rows \in SUBSET Entries /\ due \in SUBSET Entries /\ Cardinality(rows) \in Totals
  BY <1>0 DEF Listed, Matching, Views, Totals
<1>3. due \subseteq rows
  BY <1>1 DEF Reading
<1>4. ASSUME NEW e \in due PROVE Skipped(view) <= Place(table, e, rows, view.order)
  <2>1. CASE view.page = 1
    <3>1. Skipped(view) = 0
      BY <1>1, <2>1, ListingsAssumption DEF Reading, Skipped
    <3>2. Sorted(rows, view.order)
      BY <1>1, MatchingSorted DEF Listed, PageInv, Reading
    <3>3. Place(table, e, rows, view.order) \in Nat
      <4> DEFINE place == [x \in rows |-> Place(table, x, rows, view.order)]
      <4>1. place \in [rows -> 0 .. Cardinality(rows) - 1]
        <5> HIDE DEF rows
        <5> QED BY <3>2, Places DEF Bijection, Injection
      <4>2. e \in rows
        BY <1>3
      <4>3. place[e] = Place(table, e, rows, view.order)
        BY <4>2
      <4> HIDE DEF place, rows
      <4>4. place[e] \in 0 .. Cardinality(rows) - 1
        BY <4>1, <4>2
      <4> QED BY <4>3, <4>4
    <3> HIDE DEF rows
    <3> QED BY <3>1, <3>3
  <2>2. CASE view.page # 1
    BY <1>1, <2>2 DEF Reading
  <2> QED BY <2>1, <2>2
<1> HIDE DEF rows, due
<1>5. /\ v \in Views /\ v.query = view.query /\ v.order = view.order /\ v.page = view.page
      /\ v.due = due /\ v.p = view.p /\ v.at = "items" /\ v.total = Cardinality(rows)
  BY <1>0, <1>2 DEF Views
<1> HIDE DEF v
<1>6. Listed(v) = rows /\ Skipped(v) = Skipped(view)
  BY <1>5 DEF Listed, Skipped, rows
<1>7. Reading(v)
  BY <1>1, <1>3, <1>4, <1>5, <1>6 DEF Reading
<1> QED BY <1>0, <1>1, <1>5, <1>7, ReadingKept

\* The page that is read next, in places
LEMMA ShownPlaces ==
    ASSUME PageInv, view.at = "items"
    PROVE  LET rows == Listed(view)
               n    == Cardinality(rows)
               from == Skipped(view)
               size == view.query.size
           IN  /\ n \in Nat /\ from \in Nat /\ size \in Nat \ {0}
               /\ \A e \in rows : Place(table, e, rows, view.order) \in 0 .. n - 1
               /\ Shown = {e \in rows : /\ from <= Place(table, e, rows, view.order)
                                        /\ Place(table, e, rows, view.order) < from + size}
               /\ Cardinality(Shown) =
                     IF n <= from THEN 0 ELSE IF n - from < size THEN n - from ELSE size
<1> DEFINE rows == Listed(view)
           n    == Cardinality(rows)
           from == Skipped(view)
           size == view.query.size
           place == [e \in rows |-> Place(table, e, rows, view.order)]
<1>1. Reading(view)
  BY DEF PageInv
<1>2. size \in Nat \ {0}
  BY <1>1, ListingsAssumption DEF Reading
<1>3. from \in Nat /\ from <= MaxInt
  <2>1. view.page - 1 \in Nat
    BY <1>1 DEF Reading
  <2>2. from \in Nat
    BY <1>2, <2>1 DEF Skipped
  <2> QED BY <1>1, <2>2, ListingsAssumption DEF Reading
<1>4. Sorted(rows, view.order)
  BY <1>1, MatchingSorted DEF Listed, PageInv, Reading
<1>5. n \in Nat /\ place \in [rows -> 0 .. n - 1]
  <2> HIDE DEF rows
  <2> QED BY <1>4, Places DEF Bijection, Injection
<1>6. ASSUME NEW e \in rows PROVE Place(table, e, rows, view.order) \in 0 .. n - 1
  <2>1. place[e] = Place(table, e, rows, view.order)
    OBVIOUS
  <2> HIDE DEF place, rows
  <2> QED BY <1>5, <2>1
<1>7. Offset(view.page, size) = from
  <2>1. (view.page - 1) * size \in 0 .. MaxInt
    BY <1>3, ListingsAssumption DEF Skipped
  <2> QED BY <1>1, <1>2, <2>1, OffsetExact DEF Reading, Skipped
<1>8. Shown = {e \in rows : /\ from <= Place(table, e, rows, view.order)
                            /\ Place(table, e, rows, view.order) < from + size}
  BY <1>7 DEF Shown, OnPage, Listed
<1>9. Cardinality(Shown) = IF n <= from THEN 0 ELSE IF n - from < size THEN n - from ELSE size
  <2> HIDE DEF rows, from, size
  <2> QED BY <1>2, <1>3, <1>4, <1>8, PageSize
<1> QED BY <1>2, <1>3, <1>5, <1>6, <1>8, <1>9

\* After a full page the client goes on with what is due on later pages.
LEMMA ItemsReading == PageInv /\ Items => PageInv'
<1> SUFFICES ASSUME PageInv, Items PROVE PageInv'
  OBVIOUS
<1>0. ViewInv' /\ view \in Views /\ view.at = "items" /\ UNCHANGED table
  BY NextView DEF ListNext, PageInv, ViewInv, Items
<1>1. Reading(view) /\ Small(table)
  BY <1>0 DEF PageInv
<1>2. CASE ~Full
  <2>1. view'.at = "rest"
    BY <1>2 DEF Items, NoView
  <2>2. TreeInv' /\ RowsInv'
    BY <1>0, NextTree, NextRows DEF PageInv
  <2> QED BY <1>0, <2>1, <2>2 DEF PageInv
<1>3. CASE Full
  <2> DEFINE rows == Listed(view)
             n    == Cardinality(rows)
             from == Skipped(view)
             size == view.query.size
             due  == view.due \ Shown
             at   == IF view.p = Root THEN "count" ELSE "exists"
             v == [view EXCEPT !.at = at, !.page = @ + 1, !.total = 0, !.same = FALSE, !.due = due]
  <2>1. view' = v /\ at \in {"count", "exists"}
    BY <1>3 DEF Items
  <2>2. Cardinality(Shown) >= size
    BY <1>3 DEF Full
  <2>3. /\ n \in Nat /\ from \in Nat /\ size \in Nat \ {0}
        /\ \A e \in rows : Place(table, e, rows, view.order) \in 0 .. n - 1
        /\ Shown = {e \in rows : /\ from <= Place(table, e, rows, view.order)
                                 /\ Place(table, e, rows, view.order) < from + size}
        /\ Cardinality(Shown) = IF n <= from THEN 0 ELSE IF n - from < size THEN n - from ELSE size
    BY <1>0, ShownPlaces
  <2>4. n <= MaxRows
    <3>1. rows \in SUBSET Used
      BY DEF Listed, Matching, Used
    <3>2. IsFiniteSet(Used)
      BY DEF PageInv, RowsInv
    <3>3. Cardinality(rows) <= Cardinality(Used) /\ Cardinality(Used) \in Nat
      BY <3>1, <3>2, FS_Subset, FS_CardinalityType
    <3> QED BY <1>1, <2>3, <3>3, ListingsAssumption DEF Small, Used
  <2>5. from + size <= MaxRows
    <3> HIDE DEF n, from, size
    <3> QED BY <2>2, <2>3, <2>4, ListingsAssumption
  <2>6. /\ due \in SUBSET Entries /\ due \subseteq rows /\ 0 \in Totals
        /\ view.page + 1 \in Int /\ view.page + 1 \in Nat \ {0}
    BY <1>0, <1>1 DEF Views, Reading, Totals
  <2>7. \A e \in due : from + size <= Place(table, e, rows, view.order)
    <3> TAKE e \in due
    <3>1. e \in rows /\ e \in view.due /\ e \notin Shown /\ from <= Place(table, e, rows, view.order)
      BY <1>1, <2>6 DEF Reading
    <3> HIDE DEF rows, n, from, size
    <3> QED BY <2>3, <3>1
  <2> HIDE DEF due, at
  <2>8. /\ v.query = view.query /\ v.order = view.order /\ v.page = view.page + 1
        /\ v.due = due /\ v.p = view.p /\ v.at = at
    BY <1>0 DEF Views
  <2>12. v \in Views
    BY <1>0, <2>1, <2>6 DEF Views
  <2> HIDE DEF v
  <2>9. Listed(v) = rows
    BY <2>8 DEF Listed
  <2>10. Skipped(v) = from + size
    <3>1. view.page \in Int /\ view.query.size \in Int
      BY <1>1, <2>3 DEF Reading
    <3>2. Skipped(v) = (view.page + 1 - 1) * view.query.size
      BY <2>8, <3>1 DEF Skipped
    <3>3. (view.page + 1 - 1) * view.query.size = (view.page - 1) * view.query.size + view.query.size
      BY <3>1
    <3> QED BY <3>2, <3>3 DEF Skipped
  <2> HIDE DEF rows, from, size
  <2>11. Reading(v)
    BY <1>1, <2>1, <2>5, <2>6, <2>7, <2>8, <2>9, <2>10 DEF Reading
  <2> QED BY <1>0, <1>1, <2>1, <2>12, <2>11, ReadingKept
<1> QED BY <1>2, <1>3

\* Another request leaves what is due in its place or moves it to a later one,
\* or nothing is due any more.
LEMMA OtherReading == PageInv /\ Other => PageInv'
<1> SUFFICES ASSUME PageInv, Other PROVE PageInv'
  OBVIOUS
<1>0. TreeInv' /\ RowsInv' /\ ViewInv' /\ view \in Views
  BY NextTree, NextRows, NextView DEF ListNext, PageInv, ViewInv, Other
<1>1. CASE view.at = "rest"
  BY <1>0, <1>1 DEF Other, PageInv
<1>2. CASE view.at # "rest"
  <2> DEFINE before == Matching(table, view.p, view.query.kind)
             after  == Matching(table', view.p, view.query.kind)
             kept   == \A e \in before : e \in after /\ table'[e].display = table[e].display
             same   == view.same /\ after = before
             due    == IF kept THEN view.due ELSE {}
             moved  == view.moved \/ MovedOut(view.via, view.p)
             v      == [view EXCEPT !.same = same, !.due = due, !.moved = moved]
  <2>1. Small(table') /\ view' = v /\ Reading(view)
    BY <1>2 DEF Other, PageInv
  <2>2. same \in BOOLEAN /\ due \in SUBSET Entries
    BY <1>0 DEF Views
  <2>3. before = Listed(view) /\ (same => Listed(view) = after) /\ due \subseteq view.due
    BY DEF Listed
  <2>4. due \subseteq after
    BY <2>1, <2>3 DEF Reading
  <2>5. ASSUME kept, NEW e \in before
        PROVE  /\ Place(table, e, before, view.order) <= Place(table', e, after, view.order)
               /\ Place(table, e, before, view.order) \in Nat
               /\ Place(table', e, after, view.order) \in Nat
    <3> DEFINE old == {x \in before : Precedes(table, x, e, view.order)}
               new == {x \in after : Precedes(table', x, e, view.order)}
    <3>1. old \in SUBSET new
      <4> HIDE DEF before, after
      <4> QED BY <2>5 DEF Precedes
    <3>2. IsFiniteSet(new)
      <4>1. new \in SUBSET Used'
        BY DEF Matching, Used
      <4>2. IsFiniteSet(Used')
        BY <1>0 DEF RowsInv
      <4> HIDE DEF new
      <4> QED BY <4>1, <4>2, FS_Subset
    <3>3. Cardinality(old) <= Cardinality(new) /\ Cardinality(old) \in Nat /\ Cardinality(new) \in Nat
      <4> HIDE DEF old, new
      <4> QED BY <3>1, <3>2, FS_Subset, FS_CardinalityType
    <3> QED BY <3>3 DEF Place
  <2>6. \A e \in due : Skipped(view) <= Place(table', e, after, view.order)
    <3> TAKE e \in due
    <3>1. kept /\ e \in before /\ Skipped(view) <= Place(table, e, before, view.order)
      BY <2>1, <2>3 DEF Reading
    <3>2. /\ Place(table, e, before, view.order) <= Place(table', e, after, view.order)
          /\ Place(table, e, before, view.order) \in Nat
          /\ Place(table', e, after, view.order) \in Nat
      BY <2>5, <3>1
    <3>3. Skipped(view) \in Int
      BY <2>1, ListingsAssumption DEF Skipped, Reading
    <3> HIDE DEF before, after
    <3> QED BY <3>1, <3>2, <3>3
  <2>11. moved \in BOOLEAN
    BY <1>0 DEF Views, MovedOut
  <2> HIDE DEF same, due, moved
  <2>7. /\ view'.at = view.at /\ view'.p = view.p /\ view'.query = view.query
        /\ view'.order = view.order /\ view'.page = view.page /\ view'.total = view.total
        /\ view'.due = due /\ view'.same = same
    BY <1>0, <2>1, <2>2, <2>11 DEF Views
  <2>8. Listed(view') = Listed(view) /\ Listed(view)' = after /\ Skipped(view') = Skipped(view)
    BY <2>7 DEF Listed, Skipped
  <2>9. same => view.same
    BY DEF same
  <2> HIDE DEF before, after
  <2>10. Reading(view)'
    BY <2>1, <2>3, <2>4, <2>6, <2>7, <2>8, <2>9 DEF Reading
  <2> QED BY <1>0, <2>1, <2>10 DEF PageInv, Small
<1> QED BY <1>1, <1>2

\* Every step of a listing, or behind one, keeps what reading on needs.
LEMMA NextPage == PageInv /\ [ListNext]_listVars => PageInv'
<1> SUFFICES ASSUME PageInv, [ListNext]_listVars PROVE PageInv'
  OBVIOUS
<1>1. CASE Fail
  <2>1. TreeInv' /\ RowsInv' /\ ViewInv'
    BY <1>1, NextTree, NextRows, NextView DEF ListNext, PageInv, Fail
  <2>2. view'.at = "rest"
    BY <1>1 DEF Fail, NoView
  <2> QED BY <2>1, <2>2 DEF PageInv
<1>2. CASE UNCHANGED listVars
  <2>1. TreeInv' /\ RowsInv' /\ ViewInv'
    BY <1>2, NextTree, NextRows, NextView DEF PageInv, listVars
  <2>2. UNCHANGED <<table, view>>
    BY <1>2 DEF listVars
  <2>3. CASE view.at = "rest"
    BY <2>1, <2>2, <2>3 DEF PageInv
  <2>4. CASE view.at # "rest"
    BY <2>1, <2>2, <2>4, ReadingKept DEF PageInv, ViewInv
  <2> QED BY <2>3, <2>4
<1> QED BY <1>1, <1>2, OpenReading, CheckReading, CountReading, ItemsReading, OtherReading
        DEF ListNext

LEMMA FirstPage == ListInit => PageInv
<1> SUFFICES ASSUME ListInit PROVE PageInv
  OBVIOUS
<1>1. TreeInv
  BY InitTree DEF ListInit
<1>2. ViewInv /\ view.at = "rest"
  BY NoViewInv DEF ListInit, ViewInv, Placed
<1>3. RowsInv
  <2>1. \A e \in Entries : table[e].status = "unused"
    BY DEF ListInit, Init, NoRow
  <2>2. Used = {}
    BY <2>1 DEF Used
  <2> QED BY <2>1, <2>2, FS_EmptySet DEF RowsInv, UniqueNames, Present
<1> QED BY <1>1, <1>2, <1>3 DEF PageInv

\* A client that reads a folder page after page until one is not full has been
\* shown every entry it was to be shown, for tables, pages and offsets of any
\* size an int can count.
THEOREM NothingMissedTheorem == ListSpec => []NothingMissed
<1>1. PageInv => NothingMissed
  <2> SUFFICES ASSUME PageInv, view.at = "items", view.via = Root, ~Full, NEW e \in view.due
               PROVE  e \in Shown
    BY DEF NothingMissed
  <2> DEFINE rows == Listed(view)
             n    == Cardinality(rows)
             from == Skipped(view)
             size == view.query.size
  <2>1. e \in rows /\ from <= Place(table, e, rows, view.order)
    BY DEF PageInv, Reading
  <2>2. /\ n \in Nat /\ from \in Nat /\ size \in Nat \ {0}
        /\ \A x \in rows : Place(table, x, rows, view.order) \in 0 .. n - 1
        /\ Shown = {x \in rows : /\ from <= Place(table, x, rows, view.order)
                                 /\ Place(table, x, rows, view.order) < from + size}
        /\ Cardinality(Shown) = IF n <= from THEN 0 ELSE IF n - from < size THEN n - from ELSE size
    BY ShownPlaces
  <2>3. ~(Cardinality(Shown) >= size)
    BY DEF Full
  <2> HIDE DEF rows, n, from, size
  <2> QED BY <2>1, <2>2, <2>3
<1> QED BY <1>1, FirstPage, NextPage, PTL DEF ListSpec

\* The total and the items of one answer agree, on every page, when the folder
\* did not change between the two statements.
THEOREM TotalFitsItemsTheorem == ListSpec => []TotalFitsItems
<1>1. PageInv => TotalFitsItems
  <2> SUFFICES ASSUME PageInv, view.at = "items", view.same,
                      NEW page \in 1 .. MaxPage, NEW size \in 1 .. MaxPage,
                      (page - 1) * size <= MaxInt
               PROVE  LET left == view.total - (page - 1) * size
                      IN  Cardinality(OnPage(Listed(view), view.order, page, size))
                             = IF left <= 0 THEN 0 ELSE IF left < size THEN left ELSE size
    BY DEF TotalFitsItems, Listed
  <2> DEFINE rows == Listed(view)
             n    == Cardinality(rows)
             from == (page - 1) * size
  <2>1. Reading(view) /\ view.total = n
    BY DEF PageInv, Reading
  <2>2. page \in Int /\ size \in Nat /\ from \in Nat
    BY ListingsAssumption
  <2>3. Offset(page, size) = from
    <3>1. (page - 1) * size \in 0 .. MaxInt
      BY <2>2, ListingsAssumption
    <3> QED BY <2>2, <3>1, OffsetExact
  <2>4. Sorted(rows, view.order)
    BY <2>1, MatchingSorted DEF Listed, PageInv, Reading
  <2>5. n \in Nat
    BY <2>4, Places
  <2>6. OnPage(rows, view.order, page, size)
          = {e \in rows : /\ from <= Place(table, e, rows, view.order)
                          /\ Place(table, e, rows, view.order) < from + size}
    BY <2>3 DEF OnPage
  <2>7. Cardinality(OnPage(rows, view.order, page, size))
          = IF n <= from THEN 0 ELSE IF n - from < size THEN n - from ELSE size
    <3> HIDE DEF rows, from
    <3> QED BY <2>2, <2>4, <2>6, PageSize
  <2> HIDE DEF rows, n
  <2>8. Cardinality(OnPage(rows, view.order, page, size))
          = IF n - from <= 0 THEN 0 ELSE IF n - from < size THEN n - from ELSE size
    <3> HIDE DEF from
    <3> QED BY <2>2, <2>5, <2>7
  <2> QED BY <2>1, <2>8 DEF rows
<1> QED BY <1>1, FirstPage, NextPage, PTL DEF ListSpec
=============================================================================
