--------------------------- MODULE EntryTxProofs ---------------------------
(***************************************************************************)
(* Proofs about EntryTx for any number of clients whose transactions       *)
(* overlap, statement by statement.                                        *)
(***************************************************************************)
EXTENDS EntryTx, EntryTreeProofs

\* What PurgedForGood says of one step.
PurgedStay == \A e \in Entries : table[e].status = "purged" => table'[e].status = "purged"

\* An idle request is well-formed.
LEMMA IdleReady == Idle \in Requests /\ Ready(Idle)
BY DEF Idle, Requests, Ready, Parents, Stages

\* A statement that writes no row leaves its request well-formed.
LEMMA OnlyRequest ==
    ASSUME TxInv, NEW c \in Clients, UNCHANGED table,
           NEW r \in Requests, Ready(r), req' = [req EXCEPT ![c] = r]
    PROVE  TxInv' /\ PurgedStay
<1>1. TxTypeOK'
  BY DEF TxInv, TxTypeOK, TypeOK
<1>2. \A d \in Clients : req'[d] = IF d = c THEN r ELSE req[d]
  BY DEF TxInv, TxTypeOK
<1>3. \A d \in Clients : Ready(req'[d])
  BY <1>2 DEF TxInv
<1>4. \A d \in Clients : Ready(req[d])'
  BY <1>3 DEF Ready, Present
<1> QED BY <1>1, <1>4 DEF TxInv, PurgedStay

\* A statement that ends its transaction: the rows it writes are new, or no
\* other request has them pending, and none of them was purged.
LEMMA RowsWritten ==
    ASSUME TxInv, NEW c \in Clients, NEW es, ~Locked(c, es),
           table' \in [Entries -> Rows], PurgedStay,
           \A x \in Entries \ es : Present(x) => table'[x].status = table[x].status,
           req' = [req EXCEPT ![c] = Idle]
    PROVE  TxInv' /\ PurgedStay
<1>1. TxTypeOK'
  BY IdleReady DEF TxInv, TxTypeOK, TypeOK
<1>2. \A d \in Clients : req'[d] = IF d = c THEN Idle ELSE req[d]
  BY DEF TxInv, TxTypeOK
<1>3. ASSUME NEW d \in Clients PROVE Ready(req[d])'
  <2>1. CASE d = c
    <3>1. Idle.op = "idle" /\ Idle.at = "idle"
      BY DEF Idle
    <3> QED BY <1>2, <2>1, <3>1 DEF Ready
  <2>2. CASE d # c
    <3>1. req'[d] = req[d] /\ Ready(req[d]) /\ req[d].pend \in SUBSET Entries
      BY <1>2, <2>2 DEF TxInv, TxTypeOK, Requests
    <3>2. \A x \in req[d].pend : x \notin es
      BY <2>2 DEF Locked
    <3>3. \A x \in req[d].pend : Present(x) => Present(x)'
      BY <3>1, <3>2 DEF Present
    <3> QED BY <3>1, <3>3 DEF Ready
  <2> QED BY <2>1, <2>2
<1> QED BY <1>1, <1>3 DEF TxInv

\* The statements of CreateFolder and CreateFile.
LEMMA CreateSteps ==
    ASSUME TxInv, NEW c \in Clients,
           \/ \E p \in Parents, n \in Names : BeginCreate(c, p, n)
           \/ \E e \in Entries : Insert(c, e)
    PROVE  TxInv' /\ PurgedStay
<1>1. ASSUME NEW p \in Parents, NEW n \in Names, BeginCreate(c, p, n)
      PROVE  TxInv' /\ PurgedStay
  <2> DEFINE r == [Idle EXCEPT !.op = "create", !.at = "insert", !.to = p, !.name = n]
  <2>1. r \in Requests /\ Ready(r)
    BY DEF Idle, Requests, Ready, Parents, Ops, Stages
  <2>2. UNCHANGED table /\ req' = [req EXCEPT ![c] = r]
    BY <1>1 DEF BeginCreate
  <2> HIDE DEF r
  <2> QED BY <2>1, <2>2, OnlyRequest
<1>2. ASSUME NEW e \in Entries, Insert(c, e) PROVE TxInv' /\ PurgedStay
  <2> DEFINE p == req[c].to
             row == ActiveRow(p, req[c].name)
  <2>1. /\ table[e].status = "unused" /\ ~Locked(c, {p})
        /\ table' = [table EXCEPT ![e] = row]
        /\ req' = [req EXCEPT ![c] = Idle]
    BY <1>2 DEF Insert, Commit, Write, Done
  <2>2. row \in Rows
    BY <1>2 DEF Insert, At, TxInv, Ready, ActiveRow, Rows
  <2>3. table' \in [Entries -> Rows] /\ \A x \in Entries \ {e} : table'[x] = table[x]
    <3> HIDE DEF row
    <3> QED BY <2>1, <2>2 DEF TxInv, TxTypeOK, TypeOK
  <2>4. PurgedStay
    BY <2>1, <2>3 DEF PurgedStay
  <2>5. \A x \in Entries \ {p} : Present(x) => table'[x].status = table[x].status
    BY <2>1, <2>3 DEF Present
  <2> QED BY <2>1, <2>3, <2>4, <2>5, RowsWritten
<1> QED BY <1>1, <1>2

\* The statements of UpdateFile and UpdateFolder, and the parent's check of a
\* restore.
LEMMA UpdateSteps ==
    ASSUME TxInv, NEW c \in Clients,
           \/ \E e \in Entries, p \in Parents \cup {Keep}, n \in Names \cup {Keep} :
                 BeginUpdate(c, e, p, n)
           \/ CheckParent(c) \/ CheckAncestry(c) \/ UpdateRow(c)
    PROVE  TxInv' /\ PurgedStay
<1>0. req[c] \in Requests /\ Ready(req[c])
  BY DEF TxInv, TxTypeOK
<1>1. ASSUME NEW e \in Entries, NEW p \in Parents \cup {Keep}, NEW n \in Names \cup {Keep},
             BeginUpdate(c, e, p, n)
      PROVE  TxInv' /\ PurgedStay
  <2> DEFINE r == [Idle EXCEPT !.op = UpdateOp(e), !.e = e, !.to = p, !.name = n,
                               !.at = IF p \in Folders THEN "parent" ELSE "update"]
  <2>1. r \in Requests /\ Ready(r)
    BY DEF Idle, Requests, Ready, Parents, Ops, Stages, UpdateOp
  <2>2. UNCHANGED table /\ req' = [req EXCEPT ![c] = r]
    BY <1>1 DEF BeginUpdate
  <2> HIDE DEF r
  <2> QED BY <2>1, <2>2, OnlyRequest
<1>2. ASSUME CheckParent(c) PROVE TxInv' /\ PurgedStay
  <2> DEFINE to == CASE req[c].op = "updateFolder" -> "ancestry"
                     [] req[c].op = "updateFile" -> "update"
                     [] req[c].op = "restore" -> "write"
             r == [req[c] EXCEPT !.at = to]
  <2>1. req[c].op \in {"updateFile", "updateFolder", "restore"} /\ req[c].e \in Entries
    BY <1>0, <1>2 DEF CheckParent, Ready
  <2>2. to \in {"ancestry", "update", "write"}
        /\ (to = "update" => req[c].op = "updateFile")
    BY <2>1
  <2>3. r \in Requests /\ Ready(r)
    <3> HIDE DEF to
    <3> QED BY <1>0, <2>1, <2>2 DEF Requests, Ready, Stages
  <2>4. UNCHANGED table /\ req' = [req EXCEPT ![c] = r]
    BY <1>2 DEF CheckParent, TxInv, TxTypeOK
  <2> HIDE DEF r
  <2> QED BY <2>3, <2>4, OnlyRequest
<1>3. ASSUME CheckAncestry(c) PROVE TxInv' /\ PurgedStay
  <2> DEFINE r == [req[c] EXCEPT !.at = "update"]
  <2>1. r \in Requests /\ Ready(r)
    BY <1>0, <1>3 DEF CheckAncestry, At, Requests, Ready, Stages
  <2>2. UNCHANGED table /\ req' = [req EXCEPT ![c] = r]
    BY <1>3 DEF CheckAncestry, TxInv, TxTypeOK
  <2> HIDE DEF r
  <2> QED BY <2>1, <2>2, OnlyRequest
<1>4. ASSUME UpdateRow(c) PROVE TxInv' /\ PurgedStay
  <2> DEFINE e == req[c].e
             p == req[c].to
             row == Patched(e, p, req[c].name)
  <2>1. /\ req[c].at = "update" /\ Active(e) /\ ~Locked(c, {e, p})
        /\ table' = [table EXCEPT ![e] = row]
        /\ req' = [req EXCEPT ![c] = Idle]
    BY <1>4 DEF UpdateRow, Commit, Write, Done
  <2>2. e \in Entries /\ p \in Parents \cup {Keep} /\ req[c].name \in Names \cup {Keep}
    BY <1>0, <2>1 DEF Ready, Requests
  <2>3. row \in Rows /\ row.status = "active"
    BY <2>1, <2>2 DEF Patched, Rows, TxInv, TxTypeOK, TypeOK, Active
  <2>4. /\ table' \in [Entries -> Rows]
        /\ \A x \in Entries \ {e} : table'[x] = table[x]
        /\ table'[e].status = "active"
    <3> HIDE DEF row
    <3> QED BY <2>1, <2>2, <2>3 DEF TxInv, TxTypeOK, TypeOK
  <2>5. PurgedStay
    BY <2>1, <2>4 DEF PurgedStay, Active
  <2>6. \A x \in Entries \ {e, p} : Present(x) => table'[x].status = table[x].status
    BY <2>4
  <2> HIDE DEF e, p
  <2> QED BY <2>1, <2>4, <2>5, <2>6, RowsWritten
<1> QED BY <1>1, <1>2, <1>3, <1>4

\* Rows that are there take another status, and the transaction ends.
LEMMA StatusWritten ==
    ASSUME TxInv, NEW c \in Clients, NEW es \in SUBSET Entries, NEW s \in {"active", "deleted"},
           ~Locked(c, es), \A x \in es : Present(x),
           table' = WithStatus(es, s), req' = [req EXCEPT ![c] = Idle]
    PROVE  TxInv' /\ PurgedStay
<1>1. \A x \in Entries : [table[x] EXCEPT !.status = s] \in Rows
  BY DEF TxInv, TxTypeOK, TypeOK, Rows
<1>2. table' \in [Entries -> Rows]
  BY <1>1 DEF WithStatus, TxInv, TxTypeOK, TypeOK
<1>3. \A x \in Entries \ es : table'[x] = table[x]
  BY DEF WithStatus
<1>4. PurgedStay
  BY <1>3 DEF PurgedStay, Present
<1> QED BY <1>2, <1>3, <1>4, RowsWritten

\* The statements of DeleteFile and DeleteFolder.
LEMMA DeleteSteps ==
    ASSUME TxInv, NEW c \in Clients,
           \/ \E e \in Entries : DeleteFileRow(c, e) \/ BeginDeleteFolder(c, e)
           \/ DeleteRows(c)
    PROVE  TxInv' /\ PurgedStay
<1>0. req[c] \in Requests /\ Ready(req[c])
  BY DEF TxInv, TxTypeOK
<1>1. ASSUME NEW f \in Entries, DeleteFileRow(c, f) PROVE TxInv' /\ PurgedStay
  <2>1. /\ req[c] = Idle /\ req' = req /\ ~Locked(c, {f})
        /\ Active(f) /\ table' = WithStatus({f}, "deleted")
    BY <1>1 DEF DeleteFileRow, Begins, DeleteFile
  <2>2. req' = [req EXCEPT ![c] = Idle]
    BY <2>1 DEF TxInv, TxTypeOK
  <2> DEFINE es == {f}
  <2>3. es \in SUBSET Entries /\ \A x \in es : Present(x)
    BY <2>1 DEF Active, Present
  <2>4. ~Locked(c, es) /\ table' = WithStatus(es, "deleted")
    BY <2>1
  <2> HIDE DEF es
  <2> QED BY <2>2, <2>3, <2>4, StatusWritten
<1>2. ASSUME NEW f \in Entries, BeginDeleteFolder(c, f) PROVE TxInv' /\ PurgedStay
  <2> DEFINE sub == Subtree(f, ActiveFolders)
             rows == {x \in Entries : Active(x) /\ (x \in sub \/ table[x].parent \in sub)}
             r == [Idle EXCEPT !.op = "deleteFolder", !.at = "delete", !.e = f, !.sub = sub,
                               !.rows = rows]
  <2>1. sub \in SUBSET Folders /\ rows \in SUBSET Entries
    BY DEF Subtree
  <2>2. UNCHANGED table /\ req' = [req EXCEPT ![c] = r]
    BY <1>2 DEF BeginDeleteFolder
  <2>3. r \in Requests /\ Ready(r)
    <3> HIDE DEF sub, rows
    <3> QED BY <2>1 DEF Idle, Requests, Ready, Parents, Ops, Stages
  <2> HIDE DEF r
  <2> QED BY <2>2, <2>3, OnlyRequest
<1>3. ASSUME DeleteRows(c) PROVE TxInv' /\ PurgedStay
  <2> DEFINE sub == req[c].sub
             hit == {x \in req[c].rows : Active(x) /\ (x \in sub \/ table[x].parent \in sub)}
  <2>1. /\ ~Locked(c, hit) /\ table' = WithStatus(hit, "deleted")
        /\ req' = [req EXCEPT ![c] = Idle]
    BY <1>3 DEF DeleteRows, Commit, Write, Done
  <2>2. hit \in SUBSET Entries /\ \A x \in hit : Present(x)
    BY <1>0 DEF Requests, Active, Present
  <2> HIDE DEF hit
  <2> QED BY <2>1, <2>2, StatusWritten
<1> QED BY <1>1, <1>2, <1>3

\* The statements of Restore.  The rows the second statement of a folder's
\* restore writes are there: the ones it has pending, and the deleted subtree
\* its snapshot finds.
LEMMA RestoreSteps ==
    ASSUME TxInv, NEW c \in Clients,
           \/ \E e \in Entries : BeginRestore(c, e)
           \/ RestoreFileRow(c) \/ RestoreFileRows(c) \/ RestoreFolderRows(c)
    PROVE  TxInv' /\ PurgedStay
<1>0. req[c] \in Requests /\ Ready(req[c])
  BY DEF TxInv, TxTypeOK
<1>1. ASSUME NEW e \in Entries, BeginRestore(c, e) PROVE TxInv' /\ PurgedStay
  <2> DEFINE p == table[e].parent
             r == [Idle EXCEPT !.op = "restore", !.e = e, !.to = p,
                               !.at = IF p = Root THEN "write" ELSE "parent"]
  <2>1. p \in Parents
    BY DEF TxInv, TxTypeOK, TypeOK, Rows
  <2>2. UNCHANGED table /\ req' = [req EXCEPT ![c] = r]
    BY <1>1 DEF BeginRestore
  <2>3. r \in Requests /\ Ready(r)
    <3> HIDE DEF p
    <3> QED BY <2>1 DEF Idle, Requests, Ready, Ops, Stages
  <2> HIDE DEF r
  <2> QED BY <2>2, <2>3, OnlyRequest
<1>2. ASSUME RestoreFileRow(c) PROVE TxInv' /\ PurgedStay
  <2> DEFINE es == {req[c].e}
  <2>1. /\ ~Locked(c, es) /\ table' = WithStatus(es, "active")
        /\ req' = [req EXCEPT ![c] = Idle]
    BY <1>2 DEF RestoreFileRow, Commit, Write, Done
  <2>2. es \in SUBSET Entries /\ \A x \in es : Present(x)
    BY <1>2 DEF RestoreFileRow, Entries
  <2> HIDE DEF es
  <2> QED BY <2>1, <2>2, StatusWritten
<1>3. ASSUME RestoreFileRows(c) PROVE TxInv' /\ PurgedStay
  <2> DEFINE back == {x \in Files : Deleted(x) /\ table[x].parent \in DeletedSubtree(req[c].e)}
             r == [req[c] EXCEPT !.at = "folders", !.pend = back]
  <2>1. back \in SUBSET Entries /\ \A x \in back : Present(x)
    BY DEF Entries, Deleted, Present
  <2>2. /\ At(c, "restore", "write") /\ req[c].e \in Folders
        /\ UNCHANGED table /\ req' = [req EXCEPT ![c] = r]
    BY <1>3 DEF RestoreFileRows, TxInv, TxTypeOK
  <2>3. r \in Requests /\ Ready(r)
    <3> HIDE DEF back
    <3> QED BY <1>0, <2>1, <2>2 DEF At, Requests, Ready, Stages
  <2> HIDE DEF r
  <2> QED BY <2>2, <2>3, OnlyRequest
<1>4. ASSUME RestoreFolderRows(c) PROVE TxInv' /\ PurgedStay
  <2> DEFINE sub == DeletedSubtree(req[c].e)
             back == req[c].pend \cup sub
  <2>1. /\ At(c, "restore", "folders")
        /\ ~Locked(c, back) /\ table' = WithStatus(back, "active")
        /\ req' = [req EXCEPT ![c] = Idle]
    BY <1>4 DEF RestoreFolderRows, Commit, Write, Done
  <2>2. sub \in SUBSET Entries
    BY DEF DeletedSubtree, Subtree, Entries
  <2>3. ASSUME NEW x \in sub PROVE Present(x)
    <3>1. Deleted(req[c].e) /\ x \in Subtree(req[c].e, DeletedFolders)
      BY <2>3 DEF DeletedSubtree
    <3>2. CASE x = req[c].e
      BY <3>1, <3>2 DEF Deleted, Present
    <3>3. CASE x # req[c].e
      <4>1. req[c].e \in Folders
        BY <1>0, <2>1 DEF At, Ready
      <4>2. x \in DeletedFolders
        BY <3>1, <3>3, <4>1, SubtreeUp DEF DeletedFolders
      <4> QED BY <4>2 DEF DeletedFolders, Deleted, Present
    <3> QED BY <3>2, <3>3
  <2>4. back \in SUBSET Entries
    BY <1>0, <2>2 DEF Requests
  <2>5. \A x \in back : Present(x)
    BY <1>0, <2>1, <2>3 DEF At, Ready
  <2> HIDE DEF back
  <2> QED BY <2>1, <2>4, <2>5, StatusWritten
<1> QED BY <1>1, <1>2, <1>3, <1>4

\* The DELETE that ends the purge of one entry.
LEMMA ErasedStep ==
    ASSUME TxInv, NEW c \in Clients, NEW es \in SUBSET Entries,
           req[c].op \in {"purge", "emptyTrash"}, Erased(c, es)
    PROVE  TxInv' /\ PurgedStay
<1>0. req[c] \in Requests /\ Ready(req[c])
  BY DEF TxInv, TxTypeOK
<1>1. CASE req[c].todo = {}
  <2>1. /\ ~Locked(c, es) /\ req' = [req EXCEPT ![c] = Idle]
        /\ table' = [x \in Entries |-> IF x \in es THEN NoRow("purged") ELSE table[x]]
    BY <1>1 DEF Erased, Commit, Write, Done
  <2>2. NoRow("purged") \in Rows /\ NoRow("purged").status = "purged"
    BY DEF NoRow, Rows, Parents
  <2>3. table' \in [Entries -> Rows]
    BY <2>1, <2>2 DEF TxInv, TxTypeOK, TypeOK
  <2>4. PurgedStay /\ \A x \in Entries \ es : table'[x] = table[x]
    BY <2>1, <2>2 DEF PurgedStay
  <2> QED BY <2>1, <2>3, <2>4, RowsWritten
<1>2. CASE req[c].todo # {}
  <2> DEFINE r == [req[c] EXCEPT !.pend = es, !.at = "row", !.sub = {}]
  <2>1. UNCHANGED table /\ req' = [req EXCEPT ![c] = r]
    BY <1>2 DEF Erased, TxInv, TxTypeOK
  <2>2. r \in Requests /\ Ready(r)
    BY <1>0 DEF Requests, Ready, Stages
  <2> HIDE DEF r
  <2> QED BY <2>1, <2>2, OnlyRequest
<1> QED BY <1>1, <1>2

\* The statements of Purge and EmptyTrash.
LEMMA PurgeSteps ==
    ASSUME TxInv, NEW c \in Clients,
           \/ \E e \in Entries : BeginPurge(c, e)
           \/ BeginEmptyTrash(c) \/ PurgeReadRow(c) \/ PurgeReadIds(c)
           \/ EraseFile(c) \/ EraseFiles(c) \/ EraseFolders(c)
    PROVE  TxInv' /\ PurgedStay
<1>0. req[c] \in Requests /\ Ready(req[c])
  BY DEF TxInv, TxTypeOK
<1>1. ASSUME NEW e \in Entries, BeginPurge(c, e) PROVE TxInv' /\ PurgedStay
  <2> DEFINE r == [Idle EXCEPT !.op = "purge", !.at = "row", !.todo = {e}]
  <2>1. r \in Requests /\ Ready(r)
    BY DEF Idle, Requests, Ready, Parents, Ops, Stages
  <2>2. UNCHANGED table /\ req' = [req EXCEPT ![c] = r]
    BY <1>1 DEF BeginPurge
  <2> HIDE DEF r
  <2> QED BY <2>1, <2>2, OnlyRequest
<1>2. ASSUME BeginEmptyTrash(c) PROVE TxInv' /\ PurgedStay
  <2> DEFINE r == [Idle EXCEPT !.op = "emptyTrash", !.at = "row", !.todo = TrashList]
  <2>1. TrashList \in SUBSET Entries
    BY DEF TrashList
  <2>2. r \in Requests /\ Ready(r)
    BY <2>1 DEF Idle, Requests, Ready, Parents, Ops, Stages
  <2>3. UNCHANGED table /\ req' = [req EXCEPT ![c] = r]
    BY <1>2 DEF BeginEmptyTrash
  <2> HIDE DEF r
  <2> QED BY <2>2, <2>3, OnlyRequest
<1>3. ASSUME PurgeReadRow(c) PROVE TxInv' /\ PurgedStay
  <2>1. PICK e \in req[c].todo :
             req' = [req EXCEPT ![c].e = e, ![c].todo = @ \ {e},
                                ![c].at = IF e \in Files THEN "erase" ELSE "ids"]
    BY <1>3 DEF PurgeReadRow
  <2> DEFINE r == [req[c] EXCEPT !.e = e, !.todo = @ \ {e},
                                 !.at = IF e \in Files THEN "erase" ELSE "ids"]
  <2>2. req[c].at = "row" /\ UNCHANGED table /\ req' = [req EXCEPT ![c] = r]
    BY <1>3, <2>1 DEF PurgeReadRow, TxInv, TxTypeOK
  <2>3. r \in Requests /\ Ready(r)
    BY <1>0, <2>2 DEF Requests, Ready, Stages
  <2> HIDE DEF r
  <2> QED BY <2>2, <2>3, OnlyRequest
<1>4. ASSUME PurgeReadIds(c) PROVE TxInv' /\ PurgedStay
  <2> DEFINE sub == Subtree(req[c].e, PresentFolders \ req[c].pend)
             r == [req[c] EXCEPT !.sub = sub, !.at = "files"]
  <2>1. req[c].at = "ids" /\ UNCHANGED table /\ req' = [req EXCEPT ![c] = r]
    BY <1>4 DEF PurgeReadIds, TxInv, TxTypeOK
  <2>2. sub \in SUBSET Folders
    BY DEF Subtree
  <2>3. r \in Requests /\ Ready(r)
    <3> HIDE DEF sub
    <3> QED BY <1>0, <2>1, <2>2 DEF Requests, Ready, Stages
  <2> HIDE DEF r
  <2> QED BY <2>1, <2>3, OnlyRequest
<1>5. ASSUME EraseFile(c) PROVE TxInv' /\ PurgedStay
  <2> DEFINE es == req[c].pend \cup {x \in {req[c].e} : Present(x)}
  <2>1. req[c].at = "erase" /\ Erased(c, es)
    BY <1>5 DEF EraseFile
  <2>2. es \in SUBSET Entries /\ req[c].op \in {"purge", "emptyTrash"}
    BY <1>0, <2>1 DEF Requests, Ready
  <2> HIDE DEF es
  <2> QED BY <2>1, <2>2, ErasedStep
<1>6. ASSUME EraseFiles(c) PROVE TxInv' /\ PurgedStay
  <2> DEFINE es == {x \in Files : Deleted(x) /\ table[x].parent \in req[c].sub}
             r == [req[c] EXCEPT !.pend = @ \cup es, !.at = "folders"]
  <2>1. req[c].at = "files" /\ UNCHANGED table /\ req' = [req EXCEPT ![c] = r]
    BY <1>6 DEF EraseFiles, TxInv, TxTypeOK
  <2>2. es \in SUBSET Entries
    BY DEF Entries
  <2>3. r \in Requests /\ Ready(r)
    <3> HIDE DEF es
    <3> QED BY <1>0, <2>1, <2>2 DEF Requests, Ready, Stages
  <2> HIDE DEF r
  <2> QED BY <2>1, <2>3, OnlyRequest
<1>7. ASSUME EraseFolders(c) PROVE TxInv' /\ PurgedStay
  <2> DEFINE named == req[c].pend \cup (req[c].sub \cap DeletedFolders)
             es == Gone(named)
  <2>1. req[c].op \in {"purge", "emptyTrash"} /\ Erased(c, es)
    BY <1>7 DEF EraseFolders
  <2>2. named \in SUBSET Entries
    BY <1>0 DEF Requests, Entries
  <2>3. es \in SUBSET Entries
    <3> HIDE DEF named
    <3> QED BY <2>2 DEF Gone, Subtree, Entries
  <2> HIDE DEF es
  <2> QED BY <2>1, <2>3, ErasedStep
<1> QED BY <1>1, <1>2, <1>3, <1>4, <1>5, <1>6, <1>7

\* A transaction that fails leaves the rows as they were.
LEMMA RollbackStep ==
    ASSUME TxInv, NEW c \in Clients, Rollback(c)
    PROVE  TxInv' /\ PurgedStay
BY IdleReady, OnlyRequest DEF Rollback, Done

\* Every statement keeps the invariant and brings no purged row back.
LEMMA TxStep ==
    ASSUME TxInv, [TxNext]_txVars
    PROVE  TxInv' /\ PurgedStay
<1>1. ASSUME NEW c \in Clients, Step(c) PROVE TxInv' /\ PurgedStay
  BY <1>1, CreateSteps, UpdateSteps, DeleteSteps, RestoreSteps, PurgeSteps, RollbackStep
     DEF Step
<1>2. CASE UNCHANGED txVars
  BY <1>2 DEF txVars, TxInv, TxTypeOK, TypeOK, Ready, Present, PurgedStay
<1> QED BY <1>1, <1>2 DEF TxNext

\* The invariant holds at first.
LEMMA TxFirst == TxInit => TxInv
<1> SUFFICES ASSUME TxInit PROVE TxInv
  OBVIOUS
<1>1. TypeOK
  BY DEF TxInit, Init, TypeOK, NoRow, Rows, Parents
<1>2. req \in [Clients -> Requests] /\ \A c \in Clients : req[c] = Idle
  BY IdleReady DEF TxInit
<1> QED BY <1>1, <1>2, IdleReady DEF TxInv, TxTypeOK

\* Every reachable state has well-formed rows and requests, however the
\* statements of the clients' transactions interleave.
THEOREM TxTypeTheorem == TxSpec => []TxTypeOK
<1>1. TxInv => TxTypeOK
  BY DEF TxInv
<1> QED BY <1>1, TxFirst, TxStep, PTL DEF TxSpec

\* A purged row never comes back: the UPDATEs of a restore, which look at no
\* deletion mark, meet the rows they have locked or rows that are still there.
THEOREM PurgedTheorem == TxSpec => PurgedForGood
<1>1. PurgedStay => [PurgedStay]_table
  OBVIOUS
<1>2. TxSpec => [][PurgedStay]_table
  BY <1>1, TxFirst, TxStep, PTL DEF TxSpec
<1> QED BY <1>2 DEF PurgedForGood, PurgedStay

-----------------------------------------------------------------------------
(* Requests that do not conflict: the tree survives their interleavings *)

\* What CascadeOnlyTrash says of one step.
CascadeKept ==
    \A e \in Entries :
       Active(e) /\ table'[e].status = "purged" =>
          /\ e \in Files
          /\ table[e].parent \in Folders => table'[table[e].parent].status = "active"

\* What a transaction of c that has locked rows es does to the rows when it
\* commits, in the terms that matter to the requests still in flight: rows it
\* has not locked stay; rows that appear or move are active; except by
\* DeleteFolder no folder stops being active; and a folder leaves the trash
\* only together with the deleted rows below it.
Effect(c, es) ==
    /\ CascadeKept
    /\ \A x \in Entries \ es : Present(x) => table'[x] = table[x]
    /\ \A x \in Entries :
          Present(x)' => Active(x)' \/ (Present(x) /\ table'[x].parent = table[x].parent)
    /\ req[c].op # "deleteFolder" =>
          \A f \in Folders : (Active(f) => Active(f)') /\ (Deleted(f)' => Deleted(f))
    /\ req[c].op \notin {"updateFolder", "deleteFolder"} =>
          \A f \in ActiveFolders : table'[f].parent = table[f].parent
    /\ req[c].op \notin {"create", "updateFile", "updateFolder", "restore"} =>
          \A x \in Entries : Active(x)' => Active(x) /\ table'[x].parent = table[x].parent
    /\ \A x \in Entries :
          Deleted(x) /\ table[x].parent \in DeletedFolders \ DeletedFolders' =>
             x \in es /\ ~Deleted(x)'

\* A parent outside the subtree of a folder stays outside, as long as no folder
\* is moved or deleted: what becomes active meanwhile had no active row below it.
LEMMA OutsideKept ==
    ASSUME TreeInv, NEW f \in Folders, NEW p \in Folders, Active(p),
           p \notin Subtree(f, ActiveFolders),
           \A g \in ActiveFolders : table'[g].parent = table[g].parent
    PROVE  p \notin Subtree(f, ActiveFolders)'
<1> DEFINE D == Subtree(f, ActiveFolders) \cup (Folders \ ActiveFolders)
<1>1. D \in SUBSET Folders /\ f \in D /\ p \notin D
  BY SubtreeRoot DEF Subtree, ActiveFolders
<1>2. ASSUME NEW g \in Folders, Active(g)', table'[g].parent \in D
      PROVE  g \in D
  <2>1. CASE Active(g)
    <3>1. g \in ActiveFolders /\ table[g].parent \in D
      BY <1>2, <2>1 DEF ActiveFolders
    <3>2. table[g].parent \notin Folders \ ActiveFolders
      BY <2>1, ConstantsAssumption DEF TreeInv, ParentActive, ActiveParent, ActiveFolders, Entries
    <3>3. g \in Subtree(f, ActiveFolders)
      BY <3>1, <3>2, SubtreeDown DEF ActiveFolders
    <3> QED BY <3>3
  <2>2. CASE ~Active(g)
    BY <2>2 DEF ActiveFolders
  <2> QED BY <2>1, <2>2
<1> HIDE DEF D
<1> QED BY <1>1, <1>2 DEF Subtree, DownClosed, ActiveFolders, Active

\* The files a restore has pending are the files of the folder's deleted
\* subtree to the end: no other request can take a folder between the two out
\* of the trash without taking the files too, and those are locked.
LEMMA PendingKept ==
    ASSUME TreeInv, TreeInv', NEW c \in Clients, NEW es, Effect(c, es),
           req[c].op # "deleteFolder",
           NEW e \in Folders, DeletedFiles(e) \cap es = {}
    PROVE  DeletedFiles(e)' = DeletedFiles(e)
<1> DEFINE old == Subtree(e, DeletedFolders)
           new == Subtree(e, DeletedFolders)'
           left == DeletedFolders \ DeletedFolders'
<1>0. /\ \A x \in Entries : Deleted(x)' => Present(x) /\ table'[x].parent = table[x].parent
      /\ \A f \in Folders : Deleted(f)' => Deleted(f)
      /\ \A f \in Folders : Active(f) => Active(f)'
  BY DEF Effect, Deleted, Active, Present
<1>1. old \in SUBSET Folders /\ new \in SUBSET Folders /\ e \in old /\ e \in new
  BY DEF Subtree
<1>2. \A f \in DeletedFolders : table[f].parent \in old => f \in old
  BY SubtreeDown DEF DeletedFolders
<1>3. \A f \in DeletedFolders' : table'[f].parent \in new => f \in new
  BY DEF Subtree, DownClosed, DeletedFolders
<1>4. \A f \in DeletedFolders' : f \in DeletedFolders /\ table'[f].parent = table[f].parent
  BY <1>0 DEF DeletedFolders, Entries
<1>5. new \subseteq old
  <2>1. \A f \in DeletedFolders' : table'[f].parent \in old => f \in old
    BY <1>2, <1>4
  <2> HIDE DEF old
  <2> QED BY <1>1, <2>1 DEF Subtree, DownClosed, DeletedFolders
<1>6. \A x \in Entries : Deleted(x) /\ table[x].parent \in left => x \in es /\ ~Deleted(x)'
  BY DEF Effect
<1>7. old \subseteq new \cup left
  <2> DEFINE D == new \cup left
  <2>1. D \in SUBSET Folders /\ e \in D
    BY <1>1 DEF DeletedFolders
  <2>2. ASSUME NEW f \in DeletedFolders, table[f].parent \in D PROVE f \in D
    <3>1. f \in Folders /\ f \in Entries /\ Deleted(f)
      BY DEF DeletedFolders, Entries
    <3>2. CASE table[f].parent \in left
      BY <1>6, <3>1, <3>2 DEF DeletedFolders
    <3>3. CASE table[f].parent \in new /\ f \notin left
      <4>1. f \in DeletedFolders'
        BY <3>3
      <4> QED BY <1>3, <1>4, <3>3, <4>1
    <3> QED BY <2>2, <3>2, <3>3
  <2>3. DownClosed(D, DeletedFolders)
    BY <2>2 DEF DownClosed
  <2> HIDE DEF D, old
  <2> QED BY <2>1, <2>3, SubtreeLeast DEF D, old
<1>8. ASSUME e \in left PROVE old \subseteq left
  <2>1. left \in SUBSET Folders
    BY DEF DeletedFolders
  <2>2. \A f \in DeletedFolders : table[f].parent \in left => f \in left
    BY <1>6 DEF DeletedFolders, Entries
  <2>3. DownClosed(left, DeletedFolders)
    BY <2>2 DEF DownClosed
  <2> HIDE DEF left, old
  <2> QED BY <1>8, <2>1, <2>3, SubtreeLeast DEF old
<1>9. ASSUME NEW x \in DeletedFiles(e) PROVE x \in DeletedFiles(e)'
  <2>1. /\ x \in Files /\ x \in Entries /\ Deleted(x) /\ Deleted(e) /\ table[x].parent \in old
    BY <1>9 DEF DeletedFiles, DeletedSubtree, Entries
  <2>2. table'[x] = table[x]
    BY <2>1 DEF Effect, Deleted, Present
  <2>3. table[x].parent \notin left
    BY <1>6, <2>1
  <2>4. table'[x].parent \in new
    BY <1>7, <2>1, <2>2, <2>3
  <2>5. Deleted(e)'
    <3>1. e \notin left
      BY <1>8, <2>1, <2>3
    <3> QED BY <2>1, <3>1 DEF DeletedFolders
  <2>6. Deleted(x)'
    BY <2>1, <2>2 DEF Deleted
  <2> QED BY <2>1, <2>4, <2>5, <2>6 DEF DeletedFiles, DeletedSubtree
<1>10. ASSUME NEW x \in DeletedFiles(e)' PROVE x \in DeletedFiles(e)
  <2>1. x \in Files /\ x \in Entries /\ Deleted(x)' /\ Deleted(e)' /\ table'[x].parent \in new
    BY <1>10 DEF DeletedFiles, DeletedSubtree, Entries
  <2>2. Present(x) /\ table[x].parent \in old /\ Deleted(e)
    BY <1>0, <1>5, <2>1
  <2>3. table[x].parent \in DeletedFolders
    <3>1. \A f \in old : f # e => f \in DeletedFolders
      BY SubtreeUp DEF DeletedFolders
    <3> QED BY <2>2, <3>1 DEF DeletedFolders
  <2>4. Deleted(x)
    BY <2>1, <2>2, <2>3, DeletedBelow
  <2> QED BY <2>1, <2>2, <2>4 DEF DeletedFiles, DeletedSubtree
<1> QED BY <1>9, <1>10

\* What the requests of the other clients found still holds after a commit.
LEMMA SettledKept ==
    ASSUME TreeInv, TreeInv', NEW c \in Clients, NEW es, Effect(c, es),
           NEW r \in Requests, Ready(r), Settled(r),
           r.pend \cap es = {}, ~Conflict(req[c].op, r.op), ~Conflict(r.op, req[c].op)
    PROVE  Settled(r)'
<1>1. ASSUME req[c].op # "deleteFolder", NEW p, ActiveParent(p) PROVE ActiveParent(p)'
  BY <1>1 DEF Effect, ActiveParent
<1>2. r.op = "create" => ActiveParent(r.to)'
  BY <1>1 DEF Settled, Conflict
<1>3. r.at = "ancestry" => r.op = "updateFolder" /\ Active(r.to)'
  BY DEF Settled, Conflict, Effect
<1>4. ASSUME r.at = "update", r.to \in Folders
      PROVE  Active(r.to)' /\ (r.e \in Folders => r.to \notin Subtree(r.e, ActiveFolders)')
  <2>1. r.op \in {"updateFile", "updateFolder"} /\ r.op = UpdateOp(r.e) /\ Active(r.to)
    BY <1>4 DEF Ready, Settled
  <2>2. Active(r.to)'
    BY <1>4, <2>1 DEF Conflict, Effect
  <2>3. ASSUME r.e \in Folders PROVE r.to \notin Subtree(r.e, ActiveFolders)'
    <3>1. r.op = "updateFolder" /\ r.to \notin Subtree(r.e, ActiveFolders)
      BY <1>4, <2>1, <2>3 DEF Settled, UpdateOp
    <3>2. \A g \in ActiveFolders : table'[g].parent = table[g].parent
      BY <3>1 DEF Conflict, Effect
    <3> QED BY <1>4, <2>1, <2>3, <3>1, <3>2, OutsideKept
  <2> QED BY <2>2, <2>3
<1>5. ASSUME r.op = "deleteFolder"
      PROVE  /\ DownClosed(r.sub, ActiveFolders)'
             /\ \A x \in Entries :
                   Active(x)' /\ (x \in r.sub \/ table'[x].parent \in r.sub) => x \in r.rows
  <2>1. \A x \in Entries : Active(x)' => Active(x) /\ table'[x].parent = table[x].parent
    BY <1>5 DEF Conflict, Effect
  <2> QED BY <1>5, <2>1 DEF Settled, DownClosed, ActiveFolders, Entries
<1>6. ASSUME r.op = "restore", Present(r.e)'
      PROVE  ActiveParent(table[r.e].parent)' \/ (r.at = "parent" /\ table'[r.e].parent = r.to)
  <2>0. r.e \in Entries
    BY <1>6 DEF Settled
  <2>1. CASE Active(r.e)'
    BY <2>0, <2>1 DEF TreeInv, ParentActive
  <2>2. CASE Present(r.e) /\ table'[r.e].parent = table[r.e].parent
    BY <1>1, <1>6, <2>2 DEF Settled, Conflict
  <2> QED BY <1>6, <2>0, <2>1, <2>2 DEF Effect
<1>7. ASSUME r.op = "restore", r.at = "folders" PROVE r.pend = DeletedFiles(r.e)'
  <2>1. r.e \in Folders /\ r.pend = DeletedFiles(r.e) /\ req[c].op # "deleteFolder"
    BY <1>7 DEF Ready, Settled, Conflict
  <2> QED BY <2>1, PendingKept
<1>8. ASSUME r.op \in {"purge", "emptyTrash"}
      PROVE  Closed(r.pend)' /\ \A f \in r.pend \cap Folders : Deleted(f)'
  <2>1. \A f \in r.pend \cap Folders : Deleted(f) /\ table'[f] = table[f]
    BY <1>8 DEF Settled, Effect, Deleted, Present, Entries
  <2>2. \A f \in r.pend \cap Folders : Deleted(f)'
    BY <2>1 DEF Deleted
  <2>3. ASSUME NEW x \in Entries, Present(x)', table'[x].parent \in r.pend
        PROVE  x \in r.pend
    <3>1. CASE Active(x)'
      <4>1. table'[x].parent \in Folders /\ Active(table[x].parent)'
        BY <2>3, <3>1, ConstantsAssumption
           DEF TreeInv, ParentActive, ActiveParent, Requests, Entries
      <4> QED BY <2>2, <2>3, <4>1 DEF Active, Deleted
    <3>2. CASE Present(x) /\ table'[x].parent = table[x].parent
      BY <1>8, <2>3, <3>2 DEF Settled, Closed
    <3> QED BY <2>3, <3>1, <3>2 DEF Effect
  <2> QED BY <2>2, <2>3 DEF Closed
<1> QED
  <2> USE DEF Settled
  <2>1. (r.op \in {"updateFile", "updateFolder"} => r.op = UpdateOp(r.e))
        /\ (r.at \in {"parent", "ancestry"} => r.to \in Folders)
        /\ (r.at = "erase" => r.e \in Files)
    OBVIOUS
  <2> QED BY <1>2, <1>3, <1>4, <1>5, <1>6, <1>7, <1>8, <2>1

\* An idle request has found nothing.
LEMMA IdleSettled == Settled(Idle)
BY DEF Settled, Idle

\* What a request found depends on the rows only.
LEMMA SameSettled ==
    ASSUME UNCHANGED table, NEW r, Settled(r)
    PROVE  Settled(r)'
BY DEF Settled, ActiveParent, Active, Deleted, Present, Subtree, DownClosed,
       ActiveFolders, DeletedFolders, DeletedFiles, DeletedSubtree, Closed

\* A commit leaves the other requests settled.
LEMMA Committed ==
    ASSUME ApartInv, Apart, NEW c \in Clients, NEW es, ~Locked(c, es), Effect(c, es),
           TreeInv', TxInv', req' = [req EXCEPT ![c] = Idle]
    PROVE  ApartInv' /\ CascadeKept
<1>1. \A d \in Clients : req'[d] = IF d = c THEN Idle ELSE req[d]
  BY DEF ApartInv, TxInv, TxTypeOK
<1>2. ASSUME NEW d \in Clients PROVE Settled(req[d])'
  <2>1. CASE d = c
    <3>1. Settled(Idle)'
      BY DEF Settled, Idle
    <3> QED BY <1>1, <2>1, <3>1
  <2>2. CASE d # c
    <3> PICK r \in Requests : r = req[d]
      BY DEF ApartInv, TxInv, TxTypeOK
    <3>1. Ready(r) /\ Settled(r) /\ TreeInv
      BY DEF ApartInv, TxInv
    <3>2. r.pend \cap es = {}
      BY <2>2 DEF Locked
    <3>3. ~Conflict(req[c].op, r.op) /\ ~Conflict(r.op, req[c].op)
      BY <2>2 DEF Apart
    <3>4. Settled(r)'
      BY <3>1, <3>2, <3>3, SettledKept
    <3> QED BY <1>1, <2>2, <3>4
  <2> QED BY <2>1, <2>2
<1>3. CascadeKept
  BY DEF Effect
<1> QED BY <1>2, <1>3 DEF ApartInv

\* A statement that writes no row leaves the other requests settled.
LEMMA Looked ==
    ASSUME ApartInv, NEW c \in Clients, UNCHANGED table,
           NEW r, Settled(r), req' = [req EXCEPT ![c] = r], TxInv'
    PROVE  ApartInv' /\ CascadeKept
<1>1. \A d \in Clients : req'[d] = IF d = c THEN r ELSE req[d]
  BY DEF ApartInv, TxInv, TxTypeOK
<1>2. TreeInv'
  BY NextTree DEF ApartInv
<1>3. \A d \in Clients : Settled(req'[d])
  BY <1>1 DEF ApartInv
<1>4. ASSUME NEW d \in Clients PROVE Settled(req[d])'
  <2>1. PICK s : s = req'[d] /\ Settled(s)
    BY <1>3
  <2>2. Settled(s)'
    BY <2>1, SameSettled
  <2> QED BY <2>1, <2>2
<1>5. CascadeKept
  BY DEF CascadeKept, Active
<1> QED BY <1>2, <1>4, <1>5 DEF ApartInv

\* One row is written and is active then; nothing is deleted or moved but it.
LEMMA RowEffect ==
    ASSUME TreeInv, NEW c \in Clients, NEW e \in Entries, NEW es, NEW row,
           table' = [table EXCEPT ![e] = row], row.status = "active",
           e \in es \/ ~Present(e),
           req[c].op \in {"create", "updateFile", "updateFolder"},
           req[c].op = "create" => ~Present(e),
           req[c].op = "updateFile" => e \in Files,
           ~Deleted(e)
    PROVE  Effect(c, es)
<1>1. \A x \in Entries : table'[x] = IF x = e THEN row ELSE table[x]
  BY DEF TreeInv, TypeOK
<1>2. DeletedFolders' = DeletedFolders
  BY <1>1 DEF DeletedFolders, Deleted, Entries
<1>3. \A f \in ActiveFolders : req[c].op # "updateFolder" => f # e
  BY ConstantsAssumption DEF ActiveFolders, Active, Present
<1>4. CascadeKept
  BY <1>1 DEF CascadeKept, Active
<1> QED BY <1>1, <1>2, <1>3, <1>4
    DEF Effect, Active, Deleted, Present, ActiveFolders, Entries

\* The statements of the clients that create.
LEMMA CreateApart ==
    ASSUME ApartInv, Apart, TxInv', NEW c \in Clients,
           \/ \E p \in Parents, n \in Names : BeginCreate(c, p, n)
           \/ \E e \in Entries : Insert(c, e)
    PROVE  ApartInv' /\ CascadeKept
<1>1. ASSUME NEW p \in Parents, NEW n \in Names, BeginCreate(c, p, n) PROVE ApartInv' /\ CascadeKept
  <2> DEFINE r == [Idle EXCEPT !.op = "create", !.at = "insert", !.to = p, !.name = n]
  <2>1. UNCHANGED table /\ req' = [req EXCEPT ![c] = r] /\ ActiveParent(p)
    BY <1>1 DEF BeginCreate
  <2>2. Settled(r)
    BY <2>1 DEF Settled, Idle
  <2> HIDE DEF r
  <2> QED BY <2>1, <2>2, Looked
<1>2. ASSUME NEW e \in Entries, Insert(c, e) PROVE ApartInv' /\ CascadeKept
  <2> DEFINE p == req[c].to
             row == ActiveRow(p, req[c].name)
  <2>1. /\ req[c].op = "create" /\ table[e].status = "unused" /\ ~Locked(c, {p})
        /\ Write([table EXCEPT ![e] = row])
        /\ req' = [req EXCEPT ![c] = Idle]
    BY <1>2 DEF Insert, At, Commit, Done
  <2>2. p \in Parents /\ req[c].name \in Names /\ ActiveParent(p) /\ TreeInv
    BY <2>1 DEF ApartInv, TxInv, Ready, Settled
  <2>3. TreeInv'
    BY <2>1, <2>2, CreateInv DEF Create
  <2>4. row.status = "active" /\ table' = [table EXCEPT ![e] = row] /\ ~Present(e) /\ ~Deleted(e)
    BY <2>1 DEF ActiveRow, Write, Present, Deleted
  <2>5. Effect(c, {p})
    <3> HIDE DEF p, row
    <3> QED BY <2>1, <2>2, <2>4, RowEffect
  <2> QED BY <2>1, <2>3, <2>5, Committed
<1> QED BY <1>1, <1>2

\* The statements of the clients that rename or move, and the parent's check of
\* a restore.
LEMMA UpdateApart ==
    ASSUME ApartInv, Apart, TxInv', NEW c \in Clients,
           \/ \E e \in Entries, p \in Parents \cup {Keep}, n \in Names \cup {Keep} :
                 BeginUpdate(c, e, p, n)
           \/ CheckParent(c) \/ CheckAncestry(c) \/ UpdateRow(c)
    PROVE  ApartInv' /\ CascadeKept
<1>0. req[c] \in Requests /\ Ready(req[c]) /\ Settled(req[c]) /\ TreeInv
  BY DEF ApartInv, TxInv, TxTypeOK
<1>1. ASSUME NEW e \in Entries, NEW p \in Parents \cup {Keep}, NEW n \in Names \cup {Keep},
             BeginUpdate(c, e, p, n)
      PROVE  ApartInv' /\ CascadeKept
  <2> DEFINE r == [Idle EXCEPT !.op = UpdateOp(e), !.e = e, !.to = p, !.name = n,
                               !.at = IF p \in Folders THEN "parent" ELSE "update"]
  <2>1. Settled(r)
    BY DEF Settled, Idle, UpdateOp
  <2>2. UNCHANGED table /\ req' = [req EXCEPT ![c] = r]
    BY <1>1 DEF BeginUpdate
  <2> HIDE DEF r
  <2> QED BY <2>1, <2>2, Looked
<1>2. ASSUME CheckParent(c) PROVE ApartInv' /\ CascadeKept
  <2> DEFINE to == CASE req[c].op = "updateFolder" -> "ancestry"
                     [] req[c].op = "updateFile" -> "update"
                     [] req[c].op = "restore" -> "write"
             r == [req[c] EXCEPT !.at = to]
  <2>1. /\ req[c].at = "parent" /\ Active(req[c].to) /\ req[c].to \in Folders
        /\ req[c].op \in {"updateFile", "updateFolder", "restore"}
    BY <1>0, <1>2 DEF CheckParent, Ready, Settled
  <2>2. UNCHANGED table /\ req' = [req EXCEPT ![c] = r]
    BY <1>2 DEF CheckParent, ApartInv, TxInv, TxTypeOK
  <2>3. /\ r.op = req[c].op /\ r.e = req[c].e /\ r.to = req[c].to /\ r.pend = req[c].pend
        /\ r.at = to
    BY <1>0 DEF Requests
  <2>4. to = IF req[c].op = "updateFolder" THEN "ancestry"
             ELSE IF req[c].op = "updateFile" THEN "update" ELSE "write"
    BY <2>1
  <2> HIDE DEF r, to
  <2>5. Settled(r)
    BY <1>0, <2>1, <2>3, <2>4 DEF Settled, UpdateOp, ActiveParent
  <2> QED BY <2>2, <2>5, Looked
<1>3. ASSUME CheckAncestry(c) PROVE ApartInv' /\ CascadeKept
  <2> DEFINE r == [req[c] EXCEPT !.at = "update"]
  <2>1. /\ req[c].at = "ancestry" /\ req[c].op = "updateFolder"
        /\ req[c].to \notin Subtree(req[c].e, ActiveFolders)
    BY <1>3 DEF CheckAncestry, At
  <2>2. UNCHANGED table /\ req' = [req EXCEPT ![c] = r]
    BY <1>3 DEF CheckAncestry, ApartInv, TxInv, TxTypeOK
  <2>3. /\ r.op = req[c].op /\ r.e = req[c].e /\ r.to = req[c].to /\ r.at = "update"
    BY <1>0 DEF Requests
  <2> HIDE DEF r
  <2>4. Settled(r)
    BY <1>0, <2>1, <2>3 DEF Settled
  <2> QED BY <2>2, <2>4, Looked
<1>4. ASSUME UpdateRow(c) PROVE ApartInv' /\ CascadeKept
  <2> DEFINE e == req[c].e
             p == req[c].to
             n == req[c].name
             row == Patched(e, p, n)
  <2>1. /\ req[c].at = "update" /\ Active(e) /\ ~Locked(c, {e, p})
        /\ Write([table EXCEPT ![e] = row])
        /\ req' = [req EXCEPT ![c] = Idle]
    BY <1>4 DEF UpdateRow, Commit, Done
  <2>2. e \in Entries /\ p \in Parents \cup {Keep} /\ n \in Names \cup {Keep}
    BY <1>0, <2>1 DEF Ready, Requests
  <2>3. req[c].op \in {"updateFile", "updateFolder"} /\ req[c].op = UpdateOp(e)
    BY <1>0, <2>1 DEF Ready, Settled
  <2>4. p \in Folders => Active(p) /\ (e \in Folders => p \notin Subtree(e, ActiveFolders))
    BY <1>0, <2>1 DEF Settled
  <2>5. TreeInv'
    <3>1. CASE e \in Folders
      <4>1. p \in Folders => p # e
        BY <2>4, <3>1, SubtreeRoot
      <4>2. UpdateFolder(e, p, n)
        BY <2>1, <2>4, <3>1, <4>1 DEF UpdateFolder
      <4> QED BY <1>0, <2>2, <4>2, UpdateFolderInv
    <3>2. CASE e \in Files
      <4>1. UpdateFile(e, p, n)
        BY <2>1, <2>2, <2>4, <3>2 DEF UpdateFile, ActiveParent, Parents
      <4> QED BY <1>0, <2>2, <4>1, UpdateFileInv
    <3> QED BY <2>2, <3>1, <3>2 DEF Entries
  <2>6. row.status = "active" /\ table' = [table EXCEPT ![e] = row] /\ ~Deleted(e)
    BY <1>0, <2>1, <2>2, PatchedRow DEF Write, Active, Deleted
  <2>7. req[c].op = "updateFile" => e \in Files
    BY <2>2, <2>3 DEF UpdateOp, Entries
  <2>8. Effect(c, {e, p})
    <3>1. req[c].op # "create" /\ e \in {e, p}
      BY <2>3
    <3> HIDE DEF e, p, row
    <3> QED BY <1>0, <2>2, <2>3, <2>6, <2>7, <3>1, RowEffect
  <2> QED BY <2>1, <2>5, <2>8, Committed
<1> QED BY <1>1, <1>2, <1>3, <1>4

\* Rows that are there are deleted or brought back.
LEMMA StatusEffect ==
    ASSUME TreeInv, NEW c \in Clients, NEW es \in SUBSET Entries, NEW s \in {"active", "deleted"},
           \A x \in es : Present(x), table' = WithStatus(es, s),
           s = "active" => req[c].op = "restore",
           s = "deleted" => req[c].op \notin {"create", "updateFile", "updateFolder", "restore"},
           s = "deleted" /\ req[c].op # "deleteFolder" => es \subseteq Files,
           s = "active" =>
              \A x \in Entries : Deleted(x) /\ table[x].parent \in es \cap DeletedFolders => x \in es
    PROVE  Effect(c, es)
<1>1. /\ \A e \in Entries : table'[e].parent = table[e].parent
      /\ \A e \in Entries : table'[e].status = IF e \in es THEN s ELSE table[e].status
  BY WithStatusKept
<1>2. \A x \in Entries \ es : table'[x] = table[x]
  BY DEF WithStatus
<1>3. \A x \in Entries : Present(x)' => Present(x)
  BY <1>1 DEF Present
<1>0. CascadeKept
  BY <1>1 DEF CascadeKept, Active
<1>4. CASE s = "active"
  <2>1. DeletedFolders \ DeletedFolders' = es \cap DeletedFolders
    BY <1>1, <1>4 DEF DeletedFolders, Deleted, Entries
  <2>2. \A x \in es : ~Deleted(x)'
    BY <1>1, <1>4 DEF Deleted
  <2> QED BY <1>0, <1>1, <1>2, <1>3, <1>4, <2>1, <2>2
      DEF Effect, Active, Deleted, ActiveFolders, Entries
<1>5. CASE s = "deleted"
  <2>1. DeletedFolders \ DeletedFolders' = {}
    BY <1>1, <1>5 DEF DeletedFolders, Deleted, Entries
  <2>2. \A x \in Entries : Active(x)' => Active(x)
    BY <1>1, <1>5 DEF Active
  <2>3. req[c].op # "deleteFolder" => \A f \in Folders : table'[f].status = table[f].status
    BY <1>1, <1>5, ConstantsAssumption DEF Entries
  <2> QED BY <1>0, <1>1, <1>2, <1>3, <1>5, <2>1, <2>2, <2>3
      DEF Effect, Active, Deleted, ActiveFolders, Entries
<1> QED BY <1>4, <1>5

\* The statements of the clients that delete.
LEMMA DeleteApart ==
    ASSUME ApartInv, Apart, TxInv', NEW c \in Clients,
           \/ \E e \in Entries : DeleteFileRow(c, e) \/ BeginDeleteFolder(c, e)
           \/ DeleteRows(c)
    PROVE  ApartInv' /\ CascadeKept
<1>0. req[c] \in Requests /\ Ready(req[c]) /\ Settled(req[c]) /\ TreeInv
  BY DEF ApartInv, TxInv, TxTypeOK
<1>1. ASSUME NEW f \in Entries, DeleteFileRow(c, f) PROVE ApartInv' /\ CascadeKept
  <2> DEFINE es == {f}
  <2>1. /\ req[c] = Idle /\ req' = req /\ ~Locked(c, es)
        /\ f \in Files /\ Active(f) /\ table' = WithStatus(es, "deleted")
    BY <1>1 DEF DeleteFileRow, Begins, DeleteFile
  <2>2. req' = [req EXCEPT ![c] = Idle] /\ req[c].op = "idle"
    BY <2>1 DEF ApartInv, TxInv, TxTypeOK, Idle
  <2>3. TreeInv'
    BY <1>0, <1>1, DeleteFileInv DEF DeleteFileRow
  <2>4. es \in SUBSET Entries /\ es \subseteq Files /\ \A x \in es : Present(x)
    BY <2>1 DEF Active, Present
  <2> HIDE DEF es
  <2>5. Effect(c, es)
    BY <1>0, <2>1, <2>2, <2>4, StatusEffect
  <2> QED BY <2>1, <2>2, <2>3, <2>5, Committed
<1>2. ASSUME NEW f \in Entries, BeginDeleteFolder(c, f) PROVE ApartInv' /\ CascadeKept
  <2> DEFINE sub == Subtree(f, ActiveFolders)
             rows == {x \in Entries : Active(x) /\ (x \in sub \/ table[x].parent \in sub)}
             r == [Idle EXCEPT !.op = "deleteFolder", !.at = "delete", !.e = f, !.sub = sub,
                               !.rows = rows]
  <2>1. UNCHANGED table /\ req' = [req EXCEPT ![c] = r]
    BY <1>2 DEF BeginDeleteFolder
  <2>2. DownClosed(sub, ActiveFolders)
    BY SubtreeDown DEF DownClosed, ActiveFolders
  <2>3. \A x \in Entries : Active(x) /\ (x \in sub \/ table[x].parent \in sub) => x \in rows
    OBVIOUS
  <2>4. Settled(r)
    <3> HIDE DEF sub, rows
    <3> QED BY <2>2, <2>3 DEF Settled, Idle
  <2> HIDE DEF r
  <2> QED BY <2>1, <2>4, Looked
<1>3. ASSUME DeleteRows(c) PROVE ApartInv' /\ CascadeKept
  <2> DEFINE sub == req[c].sub
             hit == {x \in req[c].rows : Active(x) /\ (x \in sub \/ table[x].parent \in sub)}
  <2>1. /\ req[c].op = "deleteFolder" /\ ~Locked(c, hit)
        /\ table' = WithStatus(hit, "deleted") /\ req' = [req EXCEPT ![c] = Idle]
    BY <1>3 DEF DeleteRows, At, Commit, Write, Done
  <2>2. /\ \A x \in ActiveFolders : table[x].parent \in sub => x \in sub
        /\ \A x \in Entries : Active(x) /\ (x \in sub \/ table[x].parent \in sub) => x \in hit
    BY <1>0, <2>1 DEF Settled, DownClosed
  <2>3. /\ hit \in SUBSET Entries /\ \A x \in hit : Active(x) /\ Present(x)
        /\ \A x \in hit : x \in sub \/ table[x].parent \in sub
    BY <1>0 DEF Requests, Active, Present
  <2> HIDE DEF hit, sub
  <2>4. ASSUME NEW x \in Entries, Active(x), table[x].parent \in hit PROVE x \in hit
    <3>1. table[x].parent \in ActiveFolders
      BY <1>0, <2>3, <2>4, ConstantsAssumption
         DEF TreeInv, TypeOK, Rows, Parents, ActiveFolders, Entries
    <3> QED BY <2>2, <2>3, <2>4, <3>1
  <2>5. TreeInv'
    BY <1>0, <2>1, <2>3, <2>4, DeleteKept
  <2>6. Effect(c, hit)
    BY <1>0, <2>1, <2>3, StatusEffect
  <2> QED BY <2>1, <2>5, <2>6, Committed
<1> QED BY <1>1, <1>2, <1>3

\* The folders a restore brings back, and how they hang together.
LEMMA DeletedSubtreeRows ==
    ASSUME NEW e \in Folders
    PROVE  /\ DeletedSubtree(e) \subseteq DeletedFolders
           /\ \A f \in DeletedSubtree(e) : f # e => table[f].parent \in DeletedSubtree(e)
           /\ \A f \in DeletedFolders :
                 table[f].parent \in DeletedSubtree(e) => f \in DeletedSubtree(e)
<1>1. \A f \in Subtree(e, DeletedFolders) :
         f # e => f \in DeletedFolders /\ table[f].parent \in Subtree(e, DeletedFolders)
  BY SubtreeUp DEF DeletedFolders
<1>2. \A f \in DeletedFolders :
         table[f].parent \in Subtree(e, DeletedFolders) => f \in Subtree(e, DeletedFolders)
  BY SubtreeDown DEF DeletedFolders
<1> QED BY <1>1, <1>2 DEF DeletedSubtree, DeletedFolders

\* The statements of the clients that restore.
LEMMA RestoreApart ==
    ASSUME ApartInv, Apart, TxInv', NEW c \in Clients,
           \/ \E e \in Entries : BeginRestore(c, e)
           \/ RestoreFileRow(c) \/ RestoreFileRows(c) \/ RestoreFolderRows(c)
    PROVE  ApartInv' /\ CascadeKept
<1>0. req[c] \in Requests /\ Ready(req[c]) /\ Settled(req[c]) /\ TreeInv
  BY DEF ApartInv, TxInv, TxTypeOK
<1>1. ASSUME NEW e \in Entries, BeginRestore(c, e) PROVE ApartInv' /\ CascadeKept
  <2> DEFINE p == table[e].parent
             r == [Idle EXCEPT !.op = "restore", !.e = e, !.to = p,
                               !.at = IF p = Root THEN "write" ELSE "parent"]
  <2>1. p \in Parents
    BY <1>0 DEF TreeInv, TypeOK, Rows
  <2>2. UNCHANGED table /\ req' = [req EXCEPT ![c] = r]
    BY <1>1 DEF BeginRestore
  <2>3. Settled(r)
    BY <2>1 DEF Settled, Idle, Parents, ActiveParent
  <2> HIDE DEF r
  <2> QED BY <2>2, <2>3, Looked
<1>2. ASSUME RestoreFileRow(c) PROVE ApartInv' /\ CascadeKept
  <2> DEFINE es == {req[c].e}
  <2>1. /\ req[c].op = "restore" /\ req[c].at = "write" /\ req[c].e \in Files
        /\ Present(req[c].e) /\ ~Locked(c, es)
        /\ table' = WithStatus(es, "active") /\ req' = [req EXCEPT ![c] = Idle]
    BY <1>2 DEF RestoreFileRow, At, Commit, Write, Done
  <2>2. /\ es \in SUBSET Entries /\ \A x \in es : Present(x)
        /\ \A x \in es : ActiveParent(table[x].parent)
        /\ es \cap DeletedFolders = {}
    BY <1>0, <2>1, ConstantsAssumption DEF Settled, Entries, DeletedFolders
  <2> HIDE DEF es
  <2>3. TreeInv'
    BY <1>0, <2>1, <2>2, RestoreKept
  <2>4. Effect(c, es)
    BY <1>0, <2>1, <2>2, StatusEffect
  <2> QED BY <2>1, <2>3, <2>4, Committed
<1>3. ASSUME RestoreFileRows(c) PROVE ApartInv' /\ CascadeKept
  <2> DEFINE back == DeletedFiles(req[c].e)
             r == [req[c] EXCEPT !.at = "folders", !.pend = back]
  <2>1. /\ req[c].op = "restore" /\ req[c].at = "write"
        /\ UNCHANGED table /\ req' = [req EXCEPT ![c] = r]
    BY <1>3 DEF RestoreFileRows, At, DeletedFiles, ApartInv, TxInv, TxTypeOK
  <2>2. r.op = "restore" /\ r.at = "folders" /\ r.e = req[c].e /\ r.pend = back
    BY <1>0, <2>1 DEF Requests
  <2> HIDE DEF r
  <2>3. Settled(r)
    BY <1>0, <2>1, <2>2 DEF Settled
  <2> QED BY <2>1, <2>3, Looked
<1>4. ASSUME RestoreFolderRows(c) PROVE ApartInv' /\ CascadeKept
  <2> DEFINE e == req[c].e
             sub == DeletedSubtree(e)
             files == DeletedFiles(e)
             back == files \cup sub
  <2>1. /\ req[c].op = "restore" /\ req[c].at = "folders" /\ Present(e)
        /\ req[c].pend = files /\ e \in Folders
    BY <1>0, <1>4 DEF RestoreFolderRows, At, Settled, Ready
  <2>2. /\ ~Locked(c, back) /\ table' = WithStatus(back, "active")
        /\ req' = [req EXCEPT ![c] = Idle]
    BY <1>4, <2>1 DEF RestoreFolderRows, Commit, Write, Done
  <2>3. ActiveParent(table[e].parent)
    BY <1>0, <2>1 DEF Settled
  <2>4. /\ sub \subseteq DeletedFolders
        /\ \A f \in sub : f # e => table[f].parent \in sub
        /\ \A f \in DeletedFolders : table[f].parent \in sub => f \in sub
    BY <2>1, DeletedSubtreeRows
  <2>5. /\ files \subseteq Files
        /\ \A x \in Files : x \in files <=> Deleted(x) /\ table[x].parent \in sub
    BY DEF DeletedFiles
  <2> HIDE DEF e, sub, files
  <2>6. back \in SUBSET Entries /\ \A x \in back : Present(x)
    BY <2>4, <2>5 DEF DeletedFolders, Entries, Deleted, Present
  <2>7. \A x \in back : ActiveParent(table[x].parent) \/ table[x].parent \in back \cap Folders
    BY <2>3, <2>4, <2>5 DEF DeletedFolders
  <2>8. \A x \in Entries :
           Deleted(x) /\ table[x].parent \in back \cap DeletedFolders => x \in back
    BY <2>4, <2>5, ConstantsAssumption DEF DeletedFolders, Entries
  <2> HIDE DEF back
  <2>9. TreeInv'
    BY <1>0, <2>2, <2>6, <2>7, RestoreKept
  <2>10. Effect(c, back)
    BY <1>0, <2>1, <2>2, <2>6, <2>8, StatusEffect
  <2> QED BY <2>2, <2>9, <2>10, Committed
<1> QED BY <1>1, <1>2, <1>3, <1>4

\* A DELETE of deleted folders takes everything below them.
LEMMA ErasedApart ==
    ASSUME ApartInv, Apart, TxInv', NEW c \in Clients, NEW es \in SUBSET Entries,
           req[c].op \in {"purge", "emptyTrash"},
           Closed(es), \A f \in es \cap Folders : Deleted(f), Erased(c, es)
    PROVE  ApartInv' /\ CascadeKept
<1>0. req[c] \in Requests /\ Settled(req[c]) /\ TreeInv
  BY DEF ApartInv, TxInv, TxTypeOK
<1>1. CASE req[c].todo = {}
  <2>1. /\ ~Locked(c, es) /\ req' = [req EXCEPT ![c] = Idle]
        /\ table' = [x \in Entries |-> IF x \in es THEN NoRow("purged") ELSE table[x]]
    BY <1>1 DEF Erased, Commit, Write, Done
  <2>2. TreeInv'
    BY <1>0, <2>1, ErasedKept
  <2>3. /\ \A x \in Entries \ es : table'[x] = table[x]
        /\ \A x \in es : table'[x].status = "purged"
    BY <2>1 DEF NoRow
  <2>4. DeletedFolders \ DeletedFolders' \subseteq es
    BY <2>3 DEF DeletedFolders, Deleted, Entries
  <2>5. \A x \in Entries : Deleted(x) /\ table[x].parent \in es => x \in es
    BY DEF Closed, Deleted, Present
  <2>6. \A f \in ActiveFolders : f \notin es
    BY DEF ActiveFolders, Active, Deleted
  <2>7. CascadeKept
    <3> SUFFICES ASSUME NEW e \in Entries, Active(e), e \in es
                 PROVE  e \in Files /\ (table[e].parent \in Folders =>
                                          table'[table[e].parent].status = "active")
      BY <2>3 DEF CascadeKept, Active
    <3>1. e \in Files
      BY <2>6 DEF ActiveFolders, Entries
    <3>2. ASSUME table[e].parent \in Folders PROVE table'[table[e].parent].status = "active"
      <4>1. Active(table[e].parent)
        BY <1>0, <3>2, ConstantsAssumption DEF TreeInv, ParentActive, ActiveParent
      <4> QED BY <2>3, <2>6, <3>2, <4>1 DEF Active, ActiveFolders, Entries
    <3> QED BY <3>1, <3>2
  <2>8. Effect(c, es)
    BY <2>3, <2>4, <2>5, <2>6, <2>7 DEF Effect, Active, Deleted, Present, ActiveFolders, Entries
  <2> QED BY <2>1, <2>2, <2>8, Committed
<1>2. CASE req[c].todo # {}
  <2> DEFINE r == [req[c] EXCEPT !.pend = es, !.at = "row", !.sub = {}]
  <2>1. UNCHANGED table /\ req' = [req EXCEPT ![c] = r]
    BY <1>2 DEF Erased, ApartInv, TxInv, TxTypeOK
  <2>2. r.op = req[c].op /\ r.at = "row" /\ r.pend = es
    BY <1>0 DEF Requests
  <2> HIDE DEF r
  <2>3. Settled(r)
    BY <2>2 DEF Settled
  <2> QED BY <2>1, <2>3, Looked
<1> QED BY <1>1, <1>2

\* The statements of the clients that purge.
LEMMA PurgeApart ==
    ASSUME ApartInv, Apart, TxInv', NEW c \in Clients,
           \/ \E e \in Entries : BeginPurge(c, e)
           \/ BeginEmptyTrash(c) \/ PurgeReadRow(c) \/ PurgeReadIds(c)
           \/ EraseFile(c) \/ EraseFiles(c) \/ EraseFolders(c)
    PROVE  ApartInv' /\ CascadeKept
<1>0. req[c] \in Requests /\ Ready(req[c]) /\ Settled(req[c]) /\ TreeInv
  BY DEF ApartInv, TxInv, TxTypeOK
<1> DEFINE Purging == req[c].op \in {"purge", "emptyTrash"}
<1>1. Purging => Closed(req[c].pend) /\ \A f \in req[c].pend \cap Folders : Deleted(f)
  BY <1>0 DEF Settled
<1>2. \A e \in Entries : table[e].parent \in Folders \cup {Root}
  BY <1>0 DEF TreeInv, TypeOK, Rows, Parents
<1>3. ASSUME NEW e \in Entries, BeginPurge(c, e) PROVE ApartInv' /\ CascadeKept
  <2> DEFINE r == [Idle EXCEPT !.op = "purge", !.at = "row", !.todo = {e}]
  <2>1. Settled(r)
    BY DEF Settled, Idle, Closed
  <2>2. UNCHANGED table /\ req' = [req EXCEPT ![c] = r]
    BY <1>3 DEF BeginPurge
  <2> HIDE DEF r
  <2> QED BY <2>1, <2>2, Looked
<1>4. ASSUME BeginEmptyTrash(c) PROVE ApartInv' /\ CascadeKept
  <2> DEFINE r == [Idle EXCEPT !.op = "emptyTrash", !.at = "row", !.todo = TrashList]
  <2>1. Settled(r)
    BY DEF Settled, Idle, Closed
  <2>2. UNCHANGED table /\ req' = [req EXCEPT ![c] = r]
    BY <1>4 DEF BeginEmptyTrash
  <2> HIDE DEF r
  <2> QED BY <2>1, <2>2, Looked
<1>5. ASSUME PurgeReadRow(c) PROVE ApartInv' /\ CascadeKept
  <2>1. PICK e \in req[c].todo :
             req' = [req EXCEPT ![c].e = e, ![c].todo = @ \ {e},
                                ![c].at = IF e \in Files THEN "erase" ELSE "ids"]
    BY <1>5 DEF PurgeReadRow
  <2> DEFINE r == [req[c] EXCEPT !.e = e, !.todo = @ \ {e},
                                 !.at = IF e \in Files THEN "erase" ELSE "ids"]
  <2>2. UNCHANGED table /\ req' = [req EXCEPT ![c] = r] /\ Purging
    BY <1>0, <1>5, <2>1 DEF PurgeReadRow, ApartInv, TxInv, TxTypeOK, Ready
  <2>3. /\ r.op = req[c].op /\ r.pend = req[c].pend /\ r.e = e
        /\ r.at = IF e \in Files THEN "erase" ELSE "ids"
    BY <1>0 DEF Requests
  <2> HIDE DEF r
  <2>4. Settled(r)
    BY <1>1, <2>2, <2>3 DEF Settled
  <2> QED BY <2>2, <2>4, Looked
<1>6. ASSUME PurgeReadIds(c) PROVE ApartInv' /\ CascadeKept
  <2> DEFINE sub == Subtree(req[c].e, PresentFolders \ req[c].pend)
             r == [req[c] EXCEPT !.sub = sub, !.at = "files"]
  <2>1. UNCHANGED table /\ req' = [req EXCEPT ![c] = r] /\ Purging
    BY <1>0, <1>6 DEF PurgeReadIds, ApartInv, TxInv, TxTypeOK, Ready
  <2>2. r.op = req[c].op /\ r.pend = req[c].pend /\ r.at = "files"
    BY <1>0 DEF Requests
  <2> HIDE DEF r
  <2>3. Settled(r)
    BY <1>1, <2>1, <2>2 DEF Settled
  <2> QED BY <2>1, <2>3, Looked
<1>7. ASSUME EraseFile(c) PROVE ApartInv' /\ CascadeKept
  <2> DEFINE es == req[c].pend \cup {x \in {req[c].e} : Present(x)}
  <2>1. Purging /\ req[c].e \in Files /\ Erased(c, es)
    BY <1>0, <1>7 DEF EraseFile, Ready, Settled
  <2>2. es \in SUBSET Entries /\ \A f \in es \cap Folders : Deleted(f)
    BY <1>0, <1>1, <2>1, ConstantsAssumption DEF Requests, Entries
  <2>3. Closed(es)
    BY <1>1, <1>2, <2>1, ConstantsAssumption DEF Closed, Entries
  <2> HIDE DEF es
  <2> QED BY <2>1, <2>2, <2>3, ErasedApart
<1>8. ASSUME EraseFiles(c) PROVE ApartInv' /\ CascadeKept
  <2> DEFINE es == {x \in Files : Deleted(x) /\ table[x].parent \in req[c].sub}
             r == [req[c] EXCEPT !.pend = @ \cup es, !.at = "folders"]
  <2>1. UNCHANGED table /\ req' = [req EXCEPT ![c] = r] /\ Purging
    BY <1>0, <1>8 DEF EraseFiles, ApartInv, TxInv, TxTypeOK, Ready
  <2>2. r.op = req[c].op /\ r.pend = req[c].pend \cup es /\ r.at = "folders"
    BY <1>0 DEF Requests
  <2>3. es \subseteq Files
    OBVIOUS
  <2> HIDE DEF r, es
  <2>4. Closed(r.pend)
    BY <1>1, <1>2, <2>1, <2>2, <2>3, ConstantsAssumption DEF Closed, Entries
  <2>5. \A f \in r.pend \cap Folders : Deleted(f)
    BY <1>1, <2>1, <2>2, <2>3, ConstantsAssumption
  <2>6. Settled(r)
    BY <2>1, <2>2, <2>4, <2>5 DEF Settled
  <2> QED BY <2>1, <2>6, Looked
<1>9. ASSUME EraseFolders(c) PROVE ApartInv' /\ CascadeKept
  <2> DEFINE named == req[c].pend \cup (req[c].sub \cap DeletedFolders)
             es == Gone(named)
  <2>1. Purging /\ Erased(c, es)
    BY <1>9 DEF EraseFolders
  <2>2. named \in SUBSET Entries /\ \A f \in named \cap Folders : Deleted(f)
    BY <1>0, <1>1, <2>1 DEF Requests, Entries, DeletedFolders
  <2> HIDE DEF named
  <2>3. es \in SUBSET Entries /\ Closed(es) /\ \A f \in es \cap Folders : Deleted(f)
    BY <1>0, <2>2, GoneClosed, GoneFolders DEF TreeInv
  <2> HIDE DEF es
  <2> QED BY <2>1, <2>3, ErasedApart
<1> QED BY <1>3, <1>4, <1>5, <1>6, <1>7, <1>8, <1>9

\* No statement leaves the invariant while conflicting requests stay apart.
LEMMA ApartStep ==
    ASSUME ApartInv, Apart, [TxNext]_txVars
    PROVE  ApartInv' /\ CascadeKept
<1>0. TxInv'
  BY TxStep DEF ApartInv
<1>1. ASSUME NEW c \in Clients, Rollback(c) PROVE ApartInv' /\ CascadeKept
  BY <1>0, <1>1, IdleSettled, Looked DEF Rollback, Done
<1>2. ASSUME NEW c \in Clients, Step(c) PROVE ApartInv' /\ CascadeKept
  BY <1>0, <1>1, <1>2, CreateApart, UpdateApart, DeleteApart, RestoreApart, PurgeApart
     DEF Step
<1>3. CASE UNCHANGED txVars
  <2>1. TreeInv'
    BY <1>3, NextTree DEF ApartInv, txVars
  <2>2. ASSUME NEW d \in Clients PROVE Settled(req[d])'
    <3>1. PICK s : s = req[d] /\ Settled(s)
      BY DEF ApartInv
    <3>2. Settled(s)'
      BY <1>3, <3>1, SameSettled DEF txVars
    <3> QED BY <1>3, <3>1, <3>2 DEF txVars
  <2>3. CascadeKept
    BY <1>3 DEF txVars, CascadeKept, Active
  <2> QED BY <1>0, <2>1, <2>2, <2>3 DEF ApartInv
<1> QED BY <1>2, <1>3 DEF TxNext

\* Idle requests and empty tables have nothing to settle.
LEMMA ApartFirst == TxInit => ApartInv
BY TxFirst, InitTree, IdleSettled DEF TxInit, ApartInv

\* Conflicting requests stay apart, and so the invariant holds.
LEMMA ApartAlways == ApartSpec => [](ApartInv /\ Apart)
<1>1. TxInit => Apart
  BY DEF TxInit, Apart, Conflict, Idle
<1>2. Apart /\ [TxNext /\ Apart']_txVars => Apart'
  BY DEF txVars, Apart
<1>3. ApartInv /\ Apart /\ [TxNext /\ Apart']_txVars => ApartInv'
  BY ApartStep
<1> QED BY <1>1, <1>2, <1>3, ApartFirst, PTL DEF ApartSpec

\* The folders and files tables stay a forest that the root and the trash list
\* cover, however the statements of any number of clients interleave, as long as
\* no folder's deletion overlaps a creation, an update or a restore, and no two
\* moves of folders overlap: the locks of READ COMMITTED are enough for every
\* other pair of requests (internal/database).
THEOREM ApartTheorem == ApartSpec => [](TreeInv /\ Reachable /\ TrashCovers)
<1>1. ApartInv => TreeInv /\ Reachable /\ TrashCovers
  BY TreeReachable, TreeTrashCovers DEF ApartInv
<1> QED BY <1>1, ApartAlways, PTL

\* A cascade of the foreign keys never takes an active row, whatever requests
\* that do not conflict overlap the purge: the rows a purge names are deleted
\* folders and what lies below them, and the file it found in the trash.
THEOREM CascadeTheorem == ApartSpec => CascadeOnlyTrash
<1>1. ApartInv /\ Apart /\ [TxNext /\ Apart']_txVars => [CascadeKept]_table
  BY ApartStep
<1>2. ApartSpec => [][CascadeKept]_table
  BY <1>1, ApartAlways, PTL DEF ApartSpec
<1> QED BY <1>2 DEF CascadeOnlyTrash, CascadeKept

-----------------------------------------------------------------------------
(* One request at a time: the statements are EntryTree's operations *)

\* The rows Purge names go together with every row below them.
LEMMA PurgeSetClosed ==
    ASSUME TreeInv, NEW e \in Entries, Deleted(e)
    PROVE  Closed(PurgeSet(e))
<1> SUFFICES ASSUME NEW x \in Entries, Present(x), table[x].parent \in PurgeSet(e)
             PROVE  x \in PurgeSet(e)
  BY DEF Closed
<1>1. table[x].parent \in Folders
  <2>1. table[x].parent \in Entries
    BY PurgeSetDeleted
  <2> QED BY <2>1, ConstantsAssumption DEF TreeInv, TypeOK, Rows, Parents, Entries
<1>2. e \in Folders
  BY <1>1, ConstantsAssumption DEF PurgeSet, Entries
<1> DEFINE p   == table[x].parent
           sub == Subtree(e, PresentFolders)
<1>3. e \notin Files /\ Deleted(p) /\ (p \in sub \/ table[p].parent \in sub)
  BY <1>2, ConstantsAssumption DEF PurgeSet
<1>4. p \in sub
  <2>1. p \in PresentFolders
    BY <1>1, <1>3 DEF PresentFolders, Deleted, Present
  <2>2. PresentFolders \subseteq Folders
    BY DEF PresentFolders
  <2> HIDE DEF p
  <2> QED BY <1>3, <2>1, <2>2, SubtreeDown
<1>5. Deleted(x)
  BY <1>1, <1>3, DeletedBelow DEF DeletedFolders
<1> QED BY <1>3, <1>4, <1>5 DEF PurgeSet

\* The rows named for several entries are rows of the tables, and go together
\* with every row below them.
LEMMA PurgesClosed ==
    ASSUME TreeInv, NEW es \in SUBSET Entries, \A e \in es : Deleted(e)
    PROVE  Purges(es) \in SUBSET Entries /\ Closed(Purges(es))
<1>1. \A e \in es : PurgeSet(e) \in SUBSET Entries /\ Closed(PurgeSet(e))
  BY PurgeSetDeleted, PurgeSetClosed
<1> QED BY <1>1 DEF Purges, Closed

\* The cascade adds nothing that such a set does not hold.
LEMMA GoneLeast ==
    ASSUME NEW B \in SUBSET Entries, Closed(B), NEW es \in SUBSET B
    PROVE  Gone(es) \subseteq B
<1>1. ASSUME NEW f \in es \cap Folders PROVE Subtree(f, PresentFolders) \subseteq B
  <2> DEFINE D == B \cap Folders
  <2>1. D \in SUBSET Folders /\ f \in D
    BY <1>1
  <2>2. DownClosed(D, PresentFolders)
    BY DEF DownClosed, PresentFolders, Closed, Entries
  <2> HIDE DEF D
  <2> QED BY <2>1, <2>2, SubtreeLeast DEF D
<1> QED BY <1>1 DEF Gone, Closed, Entries

\* The DELETE of the folders of a subtree, with its cascade, takes the rows
\* Purge names for the subtree's root, besides those taken before.
LEMMA GonePurges ==
    ASSUME TreeInv, NEW e \in Folders, NEW done \in SUBSET Entries, e \in done,
           \A x \in done : Deleted(x),
           NEW named \in SUBSET Entries, e \in named,
           Purges(done \ {e}) \subseteq named, named \subseteq Purges(done)
    PROVE  Gone(named) = Purges(done)
<1>1. Gone(named) \subseteq Purges(done)
  BY PurgesClosed, GoneLeast
<1>2. Gone(named) \in SUBSET Entries /\ Closed(Gone(named))
  BY GoneClosed DEF TreeInv
<1>3. named \subseteq Gone(named)
  BY DEF Gone
<1>4. PurgeSet(e) \subseteq Gone(named)
  <2> DEFINE sub == Subtree(e, PresentFolders)
  <2>1. sub \subseteq Gone(named)
    BY DEF Gone
  <2>2. ASSUME NEW x \in PurgeSet(e) PROVE x \in Gone(named)
    <3>1. x \in Entries /\ Deleted(x) /\ (x \in sub \/ table[x].parent \in sub)
      BY <2>2, ConstantsAssumption DEF PurgeSet
    <3> QED BY <1>2, <2>1, <3>1 DEF Closed, Deleted, Present
  <2> QED BY <2>2
<1>5. Purges(done) \subseteq Purges(done \ {e}) \cup PurgeSet(e)
  BY DEF Purges
<1> QED BY <1>1, <1>3, <1>4, <1>5

\* DELETE of the rows named for several entries needs no cascade.
LEMMA PurgesWhole ==
    ASSUME TreeInv, NEW es \in SUBSET Entries, \A e \in es : Deleted(e)
    PROVE  WithoutRows(Purges(es)) =
           [x \in Entries |-> IF x \in Purges(es) THEN NoRow("purged") ELSE table[x]]
<1>1. Gone(Purges(es)) \subseteq Purges(es)
  BY PurgesClosed, GoneLeast
<1>2. Purges(es) \subseteq Gone(Purges(es))
  BY DEF Gone
<1> QED BY <1>1, <1>2 DEF WithoutRows

\* What a request has gathered depends on the rows only.
LEMMA SameExact ==
    ASSUME UNCHANGED table, NEW r, Exact(r)
    PROVE  Exact(r)'
BY DEF Exact, PurgeExact, Doomed, Purges, PurgeSet, TrashList, ActiveParent, Active, Deleted,
       Present, Subtree, DownClosed, ActiveFolders, PresentFolders

\* The only client looks at the rows: EntryTree stutters.
LEMMA ExactLooked ==
    ASSUME ExactInv, NEW c \in Clients, \A d \in Clients : d = c, UNCHANGED table,
           NEW r, Exact(r), req' = [req EXCEPT ![c] = r]
    PROVE  (\A d \in Clients : Exact(req[d])') /\ [Next]_table
<1>1. req'[c] = r
  BY DEF ExactInv, ApartInv, TxInv, TxTypeOK
<1>2. Exact(r)'
  BY SameExact
<1>3. Exact(req[c])'
  BY <1>1, <1>2
<1> QED BY <1>3

\* The only client commits: the rows change as its operation in EntryTree says.
LEMMA ExactCommitted ==
    ASSUME ExactInv, NEW c \in Clients, \A d \in Clients : d = c, Next,
           req' = [req EXCEPT ![c] = Idle]
    PROVE  (\A d \in Clients : Exact(req[d])') /\ [Next]_table
<1>1. req'[c] = Idle
  BY DEF ExactInv, ApartInv, TxInv, TxTypeOK
<1>2. Exact(Idle)'
  BY DEF Exact, Idle
<1>3. Exact(req[c])'
  BY <1>1, <1>2
<1> QED BY <1>3

\* The statements of create and update.
LEMMA CreateUpdateExact ==
    ASSUME ExactInv, NEW c \in Clients, \A d \in Clients : d = c,
           \/ \E p \in Parents, n \in Names : BeginCreate(c, p, n)
           \/ \E e \in Entries : Insert(c, e)
           \/ \E e \in Entries, p \in Parents \cup {Keep}, n \in Names \cup {Keep} :
                 BeginUpdate(c, e, p, n)
           \/ CheckParent(c) \/ CheckAncestry(c) \/ UpdateRow(c)
    PROVE  (\A d \in Clients : Exact(req[d])') /\ [Next]_table
<1>0. req[c] \in Requests /\ Ready(req[c]) /\ Settled(req[c]) /\ Exact(req[c]) /\ TreeInv
  BY DEF ExactInv, ApartInv, TxInv, TxTypeOK
<1>1. ASSUME NEW p \in Parents, NEW n \in Names, BeginCreate(c, p, n)
      PROVE  (\A d \in Clients : Exact(req[d])') /\ [Next]_table
  <2> DEFINE r == [Idle EXCEPT !.op = "create", !.at = "insert", !.to = p, !.name = n]
  <2>1. UNCHANGED table /\ req' = [req EXCEPT ![c] = r]
    BY <1>1 DEF BeginCreate
  <2>2. Exact(r)
    BY DEF Exact, Idle
  <2> HIDE DEF r
  <2> QED BY <2>1, <2>2, ExactLooked
<1>2. ASSUME NEW e \in Entries, Insert(c, e)
      PROVE  (\A d \in Clients : Exact(req[d])') /\ [Next]_table
  <2> DEFINE p == req[c].to
             n == req[c].name
  <2>1. /\ req[c].op = "create" /\ table[e].status = "unused"
        /\ Write([table EXCEPT ![e] = ActiveRow(p, n)])
        /\ req' = [req EXCEPT ![c] = Idle]
    BY <1>2 DEF Insert, At, Commit, Done
  <2>2. p \in Parents /\ n \in Names /\ ActiveParent(p)
    BY <1>0, <2>1 DEF Ready, Settled
  <2> HIDE DEF p, n
  <2>3. Create(e, p, n)
    BY <2>1, <2>2 DEF Create
  <2>4. Next
    BY <2>2, <2>3 DEF Next, CreateFolder, CreateFile, Entries
  <2> QED BY <2>1, <2>4, ExactCommitted
<1>3. ASSUME NEW e \in Entries, NEW p \in Parents \cup {Keep}, NEW n \in Names \cup {Keep},
             BeginUpdate(c, e, p, n)
      PROVE  (\A d \in Clients : Exact(req[d])') /\ [Next]_table
  <2> DEFINE r == [Idle EXCEPT !.op = UpdateOp(e), !.e = e, !.to = p, !.name = n,
                               !.at = IF p \in Folders THEN "parent" ELSE "update"]
  <2>1. Exact(r)
    BY DEF Exact, Idle, UpdateOp
  <2>2. UNCHANGED table /\ req' = [req EXCEPT ![c] = r]
    BY <1>3 DEF BeginUpdate
  <2> HIDE DEF r
  <2> QED BY <2>1, <2>2, ExactLooked
<1>4. ASSUME CheckParent(c) PROVE (\A d \in Clients : Exact(req[d])') /\ [Next]_table
  <2> DEFINE to == CASE req[c].op = "updateFolder" -> "ancestry"
                     [] req[c].op = "updateFile" -> "update"
                     [] req[c].op = "restore" -> "write"
             r == [req[c] EXCEPT !.at = to]
  <2>1. req[c].op \in {"updateFile", "updateFolder", "restore"}
    BY <1>0, <1>4 DEF CheckParent, Ready
  <2>2. UNCHANGED table /\ req' = [req EXCEPT ![c] = r]
    BY <1>4 DEF CheckParent, ExactInv, ApartInv, TxInv, TxTypeOK
  <2>3. r.op = req[c].op /\ r.e = req[c].e
    BY <1>0 DEF Requests
  <2> HIDE DEF r
  <2>4. Exact(r)
    BY <1>0, <2>1, <2>3 DEF Exact
  <2> QED BY <2>2, <2>4, ExactLooked
<1>5. ASSUME CheckAncestry(c) PROVE (\A d \in Clients : Exact(req[d])') /\ [Next]_table
  <2> DEFINE r == [req[c] EXCEPT !.at = "update"]
  <2>1. req[c].op = "updateFolder" /\ UNCHANGED table /\ req' = [req EXCEPT ![c] = r]
    BY <1>5 DEF CheckAncestry, At, ExactInv, ApartInv, TxInv, TxTypeOK
  <2>2. r.op = req[c].op
    BY <1>0 DEF Requests
  <2> HIDE DEF r
  <2>3. Exact(r)
    BY <2>1, <2>2 DEF Exact
  <2> QED BY <2>1, <2>3, ExactLooked
<1>6. ASSUME UpdateRow(c) PROVE (\A d \in Clients : Exact(req[d])') /\ [Next]_table
  <2> DEFINE e == req[c].e
             p == req[c].to
             n == req[c].name
  <2>1. /\ req[c].at = "update" /\ Active(e)
        /\ Write([table EXCEPT ![e] = Patched(e, p, n)])
        /\ req' = [req EXCEPT ![c] = Idle]
    BY <1>6 DEF UpdateRow, Commit, Done
  <2>2. e \in Entries /\ p \in Parents \cup {Keep} /\ n \in Names \cup {Keep}
    BY <1>0, <2>1 DEF Ready, Requests
  <2>3. p \in Folders => Active(p) /\ (e \in Folders => p \notin Subtree(e, ActiveFolders))
    BY <1>0, <2>1 DEF Settled
  <2> HIDE DEF e, p, n
  <2>4. UpdateFolder(e, p, n) \/ UpdateFile(e, p, n)
    <3>1. e \in Folders /\ p \in Folders => p # e
      BY <2>3, SubtreeRoot
    <3> QED BY <2>1, <2>2, <2>3, <3>1
        DEF UpdateFolder, UpdateFile, ActiveParent, Parents, Entries
  <2>5. Next
    BY <2>2, <2>4 DEF Next
  <2> QED BY <2>1, <2>5, ExactCommitted
<1> QED BY <1>1, <1>2, <1>3, <1>4, <1>5, <1>6

\* The statements of delete and restore.
LEMMA DeleteRestoreExact ==
    ASSUME ExactInv, NEW c \in Clients, \A d \in Clients : d = c,
           \/ \E e \in Entries : DeleteFileRow(c, e) \/ BeginDeleteFolder(c, e)
           \/ DeleteRows(c)
           \/ \E e \in Entries : BeginRestore(c, e)
           \/ RestoreFileRow(c) \/ RestoreFileRows(c) \/ RestoreFolderRows(c)
    PROVE  (\A d \in Clients : Exact(req[d])') /\ [Next]_table
<1>0. req[c] \in Requests /\ Ready(req[c]) /\ Settled(req[c]) /\ Exact(req[c]) /\ TreeInv
  BY DEF ExactInv, ApartInv, TxInv, TxTypeOK
<1>1. ASSUME NEW f \in Entries, DeleteFileRow(c, f)
      PROVE  (\A d \in Clients : Exact(req[d])') /\ [Next]_table
  <2>1. req[c] = Idle /\ req' = req /\ Next
    BY <1>1 DEF DeleteFileRow, Begins, Next
  <2>2. req' = [req EXCEPT ![c] = Idle]
    BY <2>1 DEF ExactInv, ApartInv, TxInv, TxTypeOK
  <2> QED BY <2>1, <2>2, ExactCommitted
<1>2. ASSUME NEW f \in Entries, BeginDeleteFolder(c, f)
      PROVE  (\A d \in Clients : Exact(req[d])') /\ [Next]_table
  <2> DEFINE sub == Subtree(f, ActiveFolders)
             rows == {x \in Entries : Active(x) /\ (x \in sub \/ table[x].parent \in sub)}
             r == [Idle EXCEPT !.op = "deleteFolder", !.at = "delete", !.e = f, !.sub = sub,
                               !.rows = rows]
  <2>1. f \in ActiveFolders /\ UNCHANGED table /\ req' = [req EXCEPT ![c] = r]
    BY <1>2 DEF BeginDeleteFolder
  <2>2. r.op = "deleteFolder" /\ r.e = f /\ r.sub = sub /\ r.rows = rows
    <3> HIDE DEF sub, rows
    <3> QED BY DEF Idle
  <2>3. Exact(r)
    <3> HIDE DEF r
    <3> QED BY <2>1, <2>2 DEF Exact
  <2> HIDE DEF r
  <2> QED BY <2>1, <2>3, ExactLooked
<1>3. ASSUME DeleteRows(c) PROVE (\A d \in Clients : Exact(req[d])') /\ [Next]_table
  <2> DEFINE f == req[c].e
             sub == Subtree(f, ActiveFolders)
             hit == {x \in req[c].rows : Active(x) /\ (x \in req[c].sub \/ table[x].parent \in req[c].sub)}
             rows == {x \in Entries : Active(x) /\ (x \in sub \/ table[x].parent \in sub)}
  <2>1. /\ req[c].op = "deleteFolder" /\ table' = WithStatus(hit, "deleted")
        /\ req' = [req EXCEPT ![c] = Idle]
    BY <1>3 DEF DeleteRows, At, Commit, Write, Done
  <2>2. f \in ActiveFolders /\ req[c].sub = sub /\ hit = rows
    BY <1>0, <2>1 DEF Exact
  <2>3. DeleteFolder(f)
    BY <2>1, <2>2 DEF DeleteFolder, ActiveFolders
  <2>4. Next
    BY <2>2, <2>3 DEF Next, ActiveFolders, Entries
  <2> QED BY <2>1, <2>4, ExactCommitted
<1>4. ASSUME NEW e \in Entries, BeginRestore(c, e)
      PROVE  (\A d \in Clients : Exact(req[d])') /\ [Next]_table
  <2> DEFINE p == table[e].parent
             r == [Idle EXCEPT !.op = "restore", !.e = e, !.to = p,
                               !.at = IF p = Root THEN "write" ELSE "parent"]
  <2>1. Deleted(e) /\ UNCHANGED table /\ req' = [req EXCEPT ![c] = r]
    BY <1>4 DEF BeginRestore
  <2>2. r.op = "restore" /\ r.e = e
    BY DEF Idle
  <2> HIDE DEF r
  <2>3. Exact(r)
    BY <2>1, <2>2 DEF Exact
  <2> QED BY <2>1, <2>3, ExactLooked
<1>5. ASSUME RestoreFileRow(c) PROVE (\A d \in Clients : Exact(req[d])') /\ [Next]_table
  <2> DEFINE e == req[c].e
  <2>1. /\ req[c].op = "restore" /\ req[c].at = "write" /\ e \in Files /\ Present(e)
        /\ Write(WithStatus({e}, "active")) /\ req' = [req EXCEPT ![c] = Idle]
    BY <1>5 DEF RestoreFileRow, At, Commit, Done
  <2>2. RestoreFile(e)
    BY <1>0, <2>1 DEF RestoreFile, Exact, Settled
  <2>3. Next
    BY <2>1, <2>2 DEF Next, Restore, Entries
  <2> QED BY <2>1, <2>3, ExactCommitted
<1>6. ASSUME RestoreFileRows(c) PROVE (\A d \in Clients : Exact(req[d])') /\ [Next]_table
  <2> DEFINE r == [req[c] EXCEPT !.at = "folders", !.pend = DeletedFiles(req[c].e)]
  <2>1. req[c].op = "restore" /\ UNCHANGED table /\ req' = [req EXCEPT ![c] = r]
    BY <1>6 DEF RestoreFileRows, At, DeletedFiles, ExactInv, ApartInv, TxInv, TxTypeOK
  <2>2. r.op = "restore" /\ r.e = req[c].e
    BY <1>0, <2>1 DEF Requests
  <2> HIDE DEF r
  <2>3. Exact(r)
    BY <1>0, <2>1, <2>2 DEF Exact
  <2> QED BY <2>1, <2>3, ExactLooked
<1>7. ASSUME RestoreFolderRows(c) PROVE (\A d \in Clients : Exact(req[d])') /\ [Next]_table
  <2> DEFINE e == req[c].e
             back == req[c].pend \cup DeletedSubtree(e)
  <2>1. /\ req[c].op = "restore" /\ req[c].at = "folders" /\ Present(e) /\ e \in Folders
        /\ Write(WithStatus(back, "active")) /\ req' = [req EXCEPT ![c] = Idle]
    BY <1>0, <1>7 DEF RestoreFolderRows, At, Commit, Done, Ready
  <2>2. Deleted(e) /\ req[c].pend = DeletedFiles(e) /\ ActiveParent(table[e].parent)
    BY <1>0, <2>1 DEF Exact, Settled
  <2>3. back = RestoreSet(e)
    BY <2>2 DEF RestoreSet, DeletedFiles, DeletedSubtree
  <2>4. RestoreFolder(e)
    BY <2>1, <2>2, <2>3 DEF RestoreFolder
  <2>5. Next
    BY <2>1, <2>4 DEF Next, Restore, Entries
  <2> QED BY <2>1, <2>5, ExactCommitted
<1> QED BY <1>1, <1>2, <1>3, <1>4, <1>5, <1>6, <1>7

\* The DELETE that ends the purge of one entry: with nothing left to do, the
\* rows of the operation are gone at once.
LEMMA ErasedExact ==
    ASSUME ExactInv, NEW c \in Clients, \A d \in Clients : d = c,
           req[c].op \in {"purge", "emptyTrash"}, req[c].at \in {"erase", "folders"},
           Erased(c, Purges(Doomed(req[c]) \ req[c].todo))
    PROVE  (\A d \in Clients : Exact(req[d])') /\ [Next]_table
<1> DEFINE done == Doomed(req[c]) \ req[c].todo
<1>0. /\ req[c] \in Requests /\ TreeInv
      /\ Deleted(req[c].e) /\ req[c].e \in done /\ req[c].todo \subseteq Doomed(req[c])
      /\ req[c].op = "purge" => req[c].todo = {}
  BY DEF ExactInv, ApartInv, TxInv, TxTypeOK, Exact, PurgeExact
<1>1. /\ req[c].op = "purge" => Doomed(req[c]) = {req[c].e}
      /\ req[c].op = "emptyTrash" => Doomed(req[c]) = TrashList
  BY DEF Doomed
<1>2. done \in SUBSET Entries /\ \A e \in done : Deleted(e)
  <2>1. req[c].e \in Entries
    BY DEF ExactInv, ApartInv, TxInv, Ready
  <2> QED BY <1>0, <1>1, <2>1 DEF TrashList
<1>3. CASE req[c].todo = {}
  <2>1. /\ req' = [req EXCEPT ![c] = Idle]
        /\ table' = [x \in Entries |-> IF x \in Purges(done) THEN NoRow("purged") ELSE table[x]]
    BY <1>3 DEF Erased, Commit, Write, Done
  <2>2. table' = WithoutRows(Purges(done))
    <3> HIDE DEF done
    <3> QED BY <1>0, <1>2, <2>1, PurgesWhole
  <2>3. CASE req[c].op = "purge"
    <3>1. Purges(done) = PurgeSet(req[c].e)
      BY <1>1, <1>3, <2>3 DEF Purges
    <3>2. Purge(req[c].e) /\ req[c].e \in Entries
      BY <1>0, <1>2, <2>2, <3>1 DEF Purge
    <3>3. Next
      BY <3>2 DEF Next
    <3> QED BY <2>1, <3>3, ExactCommitted
  <2>4. CASE req[c].op = "emptyTrash"
    <3>1. EmptyTrash
      BY <1>1, <1>3, <2>2, <2>4 DEF EmptyTrash, Purges
    <3>2. Next
      BY <3>1 DEF Next
    <3> QED BY <2>1, <3>2, ExactCommitted
  <2> QED BY <2>3, <2>4
<1>4. CASE req[c].todo # {}
  <2> DEFINE r == [req[c] EXCEPT !.pend = Purges(done), !.at = "row", !.sub = {}]
  <2>1. UNCHANGED table /\ req' = [req EXCEPT ![c] = r]
    BY <1>4 DEF Erased, ExactInv, ApartInv, TxInv, TxTypeOK
  <2>2. req[c].op = "emptyTrash"
    BY <1>0, <1>4
  <2>3. r.op = "emptyTrash" /\ r.at = "row" /\ r.pend = Purges(done) /\ r.todo = req[c].todo
    BY <1>0, <2>2 DEF Requests
  <2> HIDE DEF r
  <2>4. Exact(r)
    BY <1>0, <1>1, <2>2, <2>3 DEF Exact, PurgeExact, Doomed
  <2> QED BY <2>1, <2>4, ExactLooked
<1> QED BY <1>3, <1>4

\* The statements of purge and empty trash.
LEMMA PurgeExactStep ==
    ASSUME ExactInv, NEW c \in Clients, \A d \in Clients : d = c,
           \/ \E e \in Entries : BeginPurge(c, e)
           \/ BeginEmptyTrash(c) \/ PurgeReadRow(c) \/ PurgeReadIds(c)
           \/ EraseFile(c) \/ EraseFiles(c) \/ EraseFolders(c)
    PROVE  (\A d \in Clients : Exact(req[d])') /\ [Next]_table
<1> DEFINE done == Doomed(req[c]) \ req[c].todo
           e == req[c].e
<1>0. /\ req[c] \in Requests /\ Ready(req[c]) /\ Exact(req[c]) /\ TreeInv
      /\ req[c].op \in {"purge", "emptyTrash"} => PurgeExact(req[c])
  BY DEF ExactInv, ApartInv, TxInv, TxTypeOK, Exact
<1>1. ASSUME NEW x \in Entries, BeginPurge(c, x)
      PROVE  (\A d \in Clients : Exact(req[d])') /\ [Next]_table
  <2> DEFINE r == [Idle EXCEPT !.op = "purge", !.at = "row", !.todo = {x}]
  <2>1. UNCHANGED table /\ req' = [req EXCEPT ![c] = r]
    BY <1>1 DEF BeginPurge
  <2>2. Exact(r)
    BY DEF Exact, PurgeExact, Doomed, Purges, Idle
  <2> HIDE DEF r
  <2> QED BY <2>1, <2>2, ExactLooked
<1>2. ASSUME BeginEmptyTrash(c) PROVE (\A d \in Clients : Exact(req[d])') /\ [Next]_table
  <2> DEFINE r == [Idle EXCEPT !.op = "emptyTrash", !.at = "row", !.todo = TrashList]
  <2>1. UNCHANGED table /\ req' = [req EXCEPT ![c] = r]
    BY <1>2 DEF BeginEmptyTrash
  <2>2. Exact(r)
    BY DEF Exact, PurgeExact, Doomed, Purges, Idle
  <2> HIDE DEF r
  <2> QED BY <2>1, <2>2, ExactLooked
<1>3. ASSUME PurgeReadRow(c) PROVE (\A d \in Clients : Exact(req[d])') /\ [Next]_table
  <2>1. PICK x \in req[c].todo :
             /\ Deleted(x)
             /\ req' = [req EXCEPT ![c].e = x, ![c].todo = @ \ {x},
                                   ![c].at = IF x \in Files THEN "erase" ELSE "ids"]
    BY <1>3 DEF PurgeReadRow
  <2> DEFINE r == [req[c] EXCEPT !.e = x, !.todo = @ \ {x},
                                 !.at = IF x \in Files THEN "erase" ELSE "ids"]
  <2>2. /\ UNCHANGED table /\ req' = [req EXCEPT ![c] = r] /\ req[c].at = "row"
        /\ req[c].op \in {"purge", "emptyTrash"}
    BY <1>0, <1>3, <2>1 DEF PurgeReadRow, ExactInv, ApartInv, TxInv, TxTypeOK, Ready
  <2>3. /\ r.op = req[c].op /\ r.pend = req[c].pend /\ r.e = x /\ r.todo = req[c].todo \ {x}
        /\ r.at = IF x \in Files THEN "erase" ELSE "ids"
    BY <1>0 DEF Requests
  <2> HIDE DEF r
  <2>4. /\ req[c].todo \subseteq Doomed(req[c]) /\ req[c].pend = Purges(done)
        /\ req[c].op = "purge" => req[c].todo = {x}
    BY <1>0, <2>1, <2>2 DEF PurgeExact
  <2>5. Doomed(r) = Doomed(req[c])
    BY <2>2, <2>3, <2>4 DEF Doomed
  <2>6. done = (Doomed(r) \ r.todo) \ {r.e}
    BY <2>1, <2>3, <2>4, <2>5
  <2>7. PurgeExact(r)
    BY <2>1, <2>2, <2>3, <2>4, <2>5, <2>6 DEF PurgeExact
  <2>8. Exact(r)
    BY <2>2, <2>3, <2>7 DEF Exact
  <2> QED BY <2>2, <2>8, ExactLooked
<1>4. ASSUME PurgeReadIds(c) PROVE (\A d \in Clients : Exact(req[d])') /\ [Next]_table
  <2> DEFINE sub == Subtree(e, PresentFolders \ req[c].pend)
             r == [req[c] EXCEPT !.sub = sub, !.at = "files"]
  <2>1. /\ UNCHANGED table /\ req' = [req EXCEPT ![c] = r] /\ req[c].at = "ids"
        /\ req[c].op \in {"purge", "emptyTrash"} /\ e \in Entries
    BY <1>0, <1>4 DEF PurgeReadIds, ExactInv, ApartInv, TxInv, TxTypeOK, Ready
  <2>2. /\ r.op = req[c].op /\ r.pend = req[c].pend /\ r.e = e /\ r.todo = req[c].todo
        /\ r.at = "files" /\ r.sub = sub
    BY <1>0 DEF Requests
  <2> HIDE DEF r
  <2>3. e \in Folders
    BY <1>0, <2>1 DEF PurgeExact, Entries
  <2>4. e \in sub /\ sub \subseteq Subtree(e, PresentFolders)
    <3>1. PresentFolders \ req[c].pend \subseteq PresentFolders
      OBVIOUS
    <3> QED BY <2>3, <3>1, SubtreeRoot, SubtreeMonotone
  <2>5. Doomed(r) = Doomed(req[c])
    BY <2>1, <2>2 DEF Doomed
  <2> HIDE DEF sub
  <2>6. PurgeExact(r)
    BY <1>0, <2>1, <2>2, <2>3, <2>4, <2>5, ConstantsAssumption DEF PurgeExact
  <2>7. Exact(r)
    BY <2>1, <2>2, <2>6 DEF Exact
  <2> QED BY <2>1, <2>7, ExactLooked
<1>5. ASSUME EraseFile(c) PROVE (\A d \in Clients : Exact(req[d])') /\ [Next]_table
  <2> DEFINE es == req[c].pend \cup {x \in {e} : Present(x)}
  <2>1. /\ req[c].op \in {"purge", "emptyTrash"} /\ req[c].at = "erase"
        /\ Erased(c, es)
    BY <1>0, <1>5 DEF EraseFile, Ready
  <2>2. e \in Files /\ Deleted(e) /\ e \in done /\ req[c].pend = Purges(done \ {e})
    BY <1>0, <2>1 DEF PurgeExact
  <2>3. PurgeSet(e) = {e} /\ {x \in {e} : Present(x)} = {e}
    BY <2>2 DEF PurgeSet, Deleted, Present
  <2>4. es = Purges(done)
    <3> HIDE DEF done, e
    <3> QED BY <2>2, <2>3 DEF Purges
  <2> QED BY <2>1, <2>4, ErasedExact
<1>6. ASSUME EraseFiles(c) PROVE (\A d \in Clients : Exact(req[d])') /\ [Next]_table
  <2> DEFINE es == {x \in Files : Deleted(x) /\ table[x].parent \in req[c].sub}
             r == [req[c] EXCEPT !.pend = @ \cup es, !.at = "folders"]
  <2>1. /\ UNCHANGED table /\ req' = [req EXCEPT ![c] = r] /\ req[c].at = "files"
        /\ req[c].op \in {"purge", "emptyTrash"} /\ e \in Entries
    BY <1>0, <1>6 DEF EraseFiles, ExactInv, ApartInv, TxInv, TxTypeOK, Ready
  <2>2. /\ r.op = req[c].op /\ r.pend = req[c].pend \cup es /\ r.e = e /\ r.todo = req[c].todo
        /\ r.at = "folders" /\ r.sub = req[c].sub
    BY <1>0 DEF Requests
  <2> HIDE DEF r
  <2>3. /\ e \notin Files /\ req[c].sub \subseteq Subtree(e, PresentFolders) /\ e \in done
        /\ req[c].pend = Purges(done \ {e})
    BY <1>0, <2>1 DEF PurgeExact
  <2>4. es \subseteq PurgeSet(e)
    BY <2>3 DEF PurgeSet, Entries
  <2>5. Doomed(r) = Doomed(req[c])
    BY <2>1, <2>2 DEF Doomed
  <2> HIDE DEF es
  <2>6. Purges(done \ {e}) \subseteq r.pend /\ r.pend \subseteq Purges(done)
    <3> HIDE DEF done, e
    <3> QED BY <2>2, <2>3, <2>4 DEF Purges
  <2>7. PurgeExact(r)
    BY <1>0, <2>1, <2>2, <2>3, <2>5, <2>6 DEF PurgeExact
  <2>8. Exact(r)
    BY <2>1, <2>2, <2>7 DEF Exact
  <2> QED BY <2>1, <2>8, ExactLooked
<1>7. ASSUME EraseFolders(c) PROVE (\A d \in Clients : Exact(req[d])') /\ [Next]_table
  <2> DEFINE named == req[c].pend \cup (req[c].sub \cap DeletedFolders)
  <2>1. /\ req[c].op \in {"purge", "emptyTrash"} /\ req[c].at = "folders"
        /\ Erased(c, Gone(named)) /\ e \in Entries
    BY <1>0, <1>7 DEF EraseFolders, Ready
  <2>2. /\ e \in Folders /\ Deleted(e) /\ e \in done
        /\ Purges(done \ {e}) \subseteq req[c].pend /\ req[c].pend \subseteq Purges(done)
        /\ e \in req[c].sub /\ req[c].sub \subseteq Subtree(e, PresentFolders)
    BY <1>0, <2>1 DEF PurgeExact, Entries
  <2>3. done \in SUBSET Entries /\ \A x \in done : Deleted(x)
    BY <1>0, <2>1, <2>2 DEF Doomed, TrashList
  <2>4. req[c].sub \cap DeletedFolders \subseteq PurgeSet(e)
    BY <2>2, ConstantsAssumption DEF PurgeSet, DeletedFolders, Entries
  <2>5. /\ named \in SUBSET Entries /\ e \in named
        /\ Purges(done \ {e}) \subseteq named
    BY <1>0, <2>2 DEF Requests, DeletedFolders, Entries
  <2>6. named \subseteq Purges(done)
    <3> HIDE DEF done, e
    <3> QED BY <2>2, <2>4 DEF Purges
  <2>7. Gone(named) = Purges(done)
    <3> HIDE DEF done, e, named
    <3> QED BY <1>0, <2>2, <2>3, <2>5, <2>6, GonePurges
  <2> QED BY <2>1, <2>7, ErasedExact
<1> QED BY <1>1, <1>2, <1>3, <1>4, <1>5, <1>6, <1>7

\* A single client's statements keep the invariant, and change the rows only as
\* one operation of EntryTree does.
LEMMA ExactStep ==
    ASSUME \A c, d \in Clients : c = d, ExactInv, [TxNext]_txVars
    PROVE  ExactInv' /\ [Next]_table
<1>1. Apart
  BY DEF Apart
<1>2. ApartInv'
  BY <1>1, ApartStep DEF ExactInv
<1>3. ASSUME NEW c \in Clients, Rollback(c)
      PROVE  (\A d \in Clients : Exact(req[d])') /\ [Next]_table
  <2>1. Exact(Idle) /\ UNCHANGED table /\ req' = [req EXCEPT ![c] = Idle]
    BY <1>3 DEF Exact, Idle, Rollback, Done
  <2> QED BY <2>1, ExactLooked
<1>4. ASSUME NEW c \in Clients, Step(c)
      PROVE  (\A d \in Clients : Exact(req[d])') /\ [Next]_table
  BY <1>3, <1>4, CreateUpdateExact, DeleteRestoreExact, PurgeExactStep DEF Step
<1>5. CASE UNCHANGED txVars
  <2>1. ASSUME NEW d \in Clients PROVE Exact(req[d])'
    <3>1. PICK r : r = req[d] /\ Exact(r)
      BY DEF ExactInv
    <3>2. Exact(r)'
      BY <1>5, <3>1, SameExact DEF txVars
    <3> QED BY <1>5, <3>1, <3>2 DEF txVars
  <2> QED BY <1>2, <1>5, <2>1 DEF ExactInv, txVars
<1> QED BY <1>2, <1>4, <1>5 DEF TxNext, ExactInv

\* Idle requests have gathered nothing.
LEMMA ExactFirst == TxInit => ExactInv
<1>1. Exact(Idle)
  BY DEF Exact, Idle
<1> QED BY <1>1, ApartFirst DEF TxInit, ExactInv

\* When requests do not overlap, the transactions, statement by statement, do
\* what EntryTree says they do in one step, for any folders, files and names:
\* every transaction that commits is one of its operations, every other
\* statement leaves the rows alone.
THEOREM ImplementsTheorem ==
    ASSUME \A c, d \in Clients : c = d
    PROVE  TxSpec => ImplementsEntryTree
<1>1. TxInit => Init
  BY DEF TxInit
<1>2. ExactInv /\ [TxNext]_txVars => ExactInv' /\ [Next]_table
  BY ExactStep
<1> QED BY <1>1, <1>2, ExactFirst, PTL DEF TxSpec, ImplementsEntryTree, Spec
=============================================================================
