------------------------ MODULE BlobLifecycleProofs ------------------------
(***************************************************************************)
(* Proofs about BlobLifecycle, for every set of digests, uploads and       *)
(* downloads, every batch size and every number of crashes: as long as a   *)
(* crash loses no directory entry, metadata never outlives content.        *)
(***************************************************************************)
EXTENDS BlobLifecycle, TLAPS


USE BlobAssumption DEF Ages, metadata, content, gate

-----------------------------------------------------------------------------

\* The empty tables and the empty storage satisfy the invariant.
LEMMA BlobInit == Init => BlobInv
<1>. SUFFICES ASSUME Init PROVE BlobInv
  OBVIOUS
<1>. USE DEF Init, UploadRecords, NoUpload, NoRound, NoOpen
<1>1. TypeOK
  BY DEF TypeOK
<1>2. GateExcludes
  BY DEF GateExcludes, InPut, Collecting
<1>3. TempsOwned /\ PutStays
  BY DEF TempsOwned, PutStays, HasTemp
<1>4. RemovesRowless /\ RowHasContent /\ ReferenceHasRow
  BY DEF RemovesRowless, RowHasContent, ReferenceHasRow
<1>. QED
  BY <1>1, <1>2, <1>3, <1>4 DEF BlobInv

\* The steps of an upload, up to the one that registers the metadata: what it
\* writes is its own temporary file, and it removes no content.
LEMMA UploadInv ==
    ASSUME BlobInv, NEW u \in Uploads, UploadStep(u)
    PROVE  BlobInv'
<1>. USE DEF BlobInv, TypeOK, UploadRecords, UploadGoes, NoUpload
<1>1. CASE UploadEnters(u)
  <2>1. TypeOK'
    BY <1>1 DEF UploadEnters
  <2>2. GateExcludes'
    BY <1>1 DEF UploadEnters, GateExcludes, InPut, Collecting
  <2>3. TempsOwned' /\ PutStays'
    BY <1>1 DEF UploadEnters, TempsOwned, PutStays, HasTemp
  <2>4. RemovesRowless' /\ RowHasContent' /\ ReferenceHasRow'
    BY <1>1 DEF UploadEnters, RemovesRowless, RowHasContent, ReferenceHasRow
  <2>. QED  BY <2>1, <2>2, <2>3, <2>4
<1>2. CASE PutTemp(u)
  <2>1. TypeOK'
    <3>. HIDE DEF UploadRecords
    <3>1. PICK t \in Temps : temps' = [temps EXCEPT ![t] = "fresh"]
                             /\ up' = [up EXCEPT ![u].pc = "shard", ![u].tmp = t]
      BY <1>2 DEF PutTemp
    <3>0. up[u] \in UploadRecords
      OBVIOUS
    <3>2. up'[u] \in UploadRecords
      BY <3>0, <3>1 DEF UploadRecords
    <3>3. up' \in [Uploads -> UploadRecords]
      BY <3>1, <3>2
    <3>. QED
      BY <1>2, <3>1, <3>3 DEF PutTemp
  <2>2. GateExcludes'
    BY <1>2 DEF PutTemp, GateExcludes, InPut, Collecting
  <2>3. TempsOwned' /\ PutStays'
    BY <1>2 DEF PutTemp, TempsOwned, PutStays, HasTemp
  <2>4. RemovesRowless' /\ RowHasContent' /\ ReferenceHasRow'
    BY <1>2 DEF PutTemp, RemovesRowless, RowHasContent, ReferenceHasRow
  <2>. QED  BY <2>1, <2>2, <2>3, <2>4
<1>3. CASE PutShard(u)
  <2>1. TypeOK'
    BY <1>3 DEF PutShard, TempsOwned
  <2>2. GateExcludes'
    BY <1>3 DEF PutShard, GateExcludes, InPut, Collecting
  <2>3. TempsOwned' /\ PutStays'
    BY <1>3 DEF PutShard, TempsOwned, PutStays, HasTemp
  <2>4. RemovesRowless' /\ RowHasContent' /\ ReferenceHasRow'
    BY <1>3 DEF PutShard, RemovesRowless, RowHasContent, ReferenceHasRow
  <2>. QED  BY <2>1, <2>2, <2>3, <2>4
<1>4. CASE PutLink(u)
  <2>0. up[u].d \in Digests /\ temps[up[u].tmp] \in Ages \ {"none"}
    BY <1>4 DEF PutLink, TempsOwned, PutStays, HasTemp
  <2>1. TypeOK'
    BY <1>4, <2>0 DEF PutLink
  <2>2. GateExcludes'
    BY <1>4 DEF PutLink, GateExcludes, InPut, Collecting
  <2>3. TempsOwned' /\ PutStays'
    BY <1>4, <2>0 DEF PutLink, TempsOwned, PutStays, HasTemp
  <2>4. RemovesRowless' /\ RowHasContent' /\ ReferenceHasRow'
    BY <1>4, <2>0 DEF PutLink, RemovesRowless, RowHasContent, ReferenceHasRow
  <2>. QED  BY <2>1, <2>2, <2>3, <2>4
<1>5. CASE PutSync(u)
  <2>1. TypeOK'
    BY <1>5 DEF PutSync, TempsOwned
  <2>2. GateExcludes'
    BY <1>5 DEF PutSync, GateExcludes, InPut, Collecting
  <2>3. TempsOwned' /\ PutStays'
    BY <1>5 DEF PutSync, TempsOwned, PutStays, HasTemp
  <2>4. RemovesRowless' /\ RowHasContent' /\ ReferenceHasRow'
    BY <1>5 DEF PutSync, RemovesRowless, RowHasContent, ReferenceHasRow
  <2>. QED  BY <2>1, <2>2, <2>3, <2>4
<1>6. CASE PutClean(u)
  <2>1. TypeOK'
    <3>. HIDE DEF UploadRecords
    <3>0. up[u] \in UploadRecords
      OBVIOUS
    <3>1. up'[u] \in UploadRecords
      BY <1>6, <3>0 DEF PutClean, UploadRecords
    <3>2. up' \in [Uploads -> UploadRecords]
      BY <1>6, <3>1 DEF PutClean
    <3>3. temps' \in [Temps -> Ages]
      BY <1>6 DEF PutClean, WithoutTemp
    <3>. QED
      BY <1>6, <3>2, <3>3 DEF PutClean
  <2>2. GateExcludes'
    BY <1>6 DEF PutClean, GateExcludes, InPut, Collecting
  <2>3. TempsOwned' /\ PutStays'
    BY <1>6 DEF PutClean, WithoutTemp, TempsOwned, PutStays, HasTemp
  <2>4. RemovesRowless' /\ RowHasContent' /\ ReferenceHasRow'
    BY <1>6 DEF PutClean, RemovesRowless, RowHasContent, ReferenceHasRow
  <2>. QED  BY <2>1, <2>2, <2>3, <2>4
<1>7. CASE Register(u)
  <2>0. up[u].d \in Digests /\ disk[up[u].d] # "none" /\ ~Collecting
    BY <1>7 DEF Register, TempsOwned, PutStays, GateExcludes, InPut
  <2>1. TypeOK'
    BY <1>7, <2>0 DEF Register
  <2>2. GateExcludes'
    BY <1>7 DEF Register, GateExcludes, InPut, Collecting
  <2>3. TempsOwned' /\ PutStays'
    BY <1>7 DEF Register, TempsOwned, PutStays, HasTemp
  <2>4. RemovesRowless'
    BY <1>7, <2>0 DEF Register, RemovesRowless, Collecting
  <2>5. RowHasContent' /\ ReferenceHasRow'
    BY <1>7, <2>0 DEF Register, RowHasContent, ReferenceHasRow
  <2>. QED  BY <2>1, <2>2, <2>3, <2>4, <2>5
<1>8. CASE UploadFails(u)
  <2>1. TypeOK'
    <3>. HIDE DEF UploadRecords
    <3>0. up[u] \in UploadRecords
      OBVIOUS
    <3>1. up'[u] \in UploadRecords
      BY <1>8, <3>0 DEF UploadFails, UploadRecords
    <3>2. up' \in [Uploads -> UploadRecords]
      BY <1>8, <3>1 DEF UploadFails
    <3>3. temps' \in [Temps -> Ages]
      BY <1>8 DEF UploadFails, WithoutTemp
    <3>. QED
      BY <1>8, <3>2, <3>3 DEF UploadFails
  <2>2. GateExcludes'
    BY <1>8 DEF UploadFails, GateExcludes, InPut, Collecting
  <2>3. TempsOwned' /\ PutStays'
    BY <1>8 DEF UploadFails, WithoutTemp, TempsOwned, PutStays, HasTemp
  <2>4. RemovesRowless' /\ RowHasContent' /\ ReferenceHasRow'
    BY <1>8 DEF UploadFails, RemovesRowless, RowHasContent, ReferenceHasRow
  <2>. QED  BY <2>1, <2>2, <2>3, <2>4
<1>9. CASE UploadLeaves(u)
  <2>1. TypeOK'
    BY <1>9 DEF UploadLeaves
  <2>2. GateExcludes'
    BY <1>9 DEF UploadLeaves, GateExcludes, InPut, Collecting
  <2>3. TempsOwned' /\ PutStays'
    BY <1>9 DEF UploadLeaves, TempsOwned, PutStays, HasTemp
  <2>4. RemovesRowless' /\ RowHasContent' /\ ReferenceHasRow'
    BY <1>9 DEF UploadLeaves, RemovesRowless, RowHasContent, ReferenceHasRow
  <2>. QED  BY <2>1, <2>2, <2>3, <2>4
<1>. QED
  BY <1>1, <1>2, <1>3, <1>4, <1>5, <1>6, <1>7, <1>8, <1>9 DEF UploadStep

\* Every other step: the metadata side, downloads, time and the collector.
LEMMA OtherInv ==
    ASSUME BlobInv,
           \/ \E u \in Uploads, d \in Digests : UploadArrives(u, d)
           \/ \E d \in Digests : RowPurged(d) \/ RowAges(d) \/ ContentAges(d)
           \/ \E t \in Temps : TempAges(t)
           \/ \E r \in Readers : OpenContent(r) \/ \E d \in Digests : OpenRow(r, d)
    PROVE  BlobInv'
<1>. USE DEF BlobInv, TypeOK, UploadRecords, NoUpload
<1>1. ASSUME NEW u \in Uploads, NEW d \in Digests, UploadArrives(u, d) PROVE BlobInv'
  <2>1. TypeOK'
    BY <1>1 DEF UploadArrives
  <2>2. GateExcludes'
    BY <1>1 DEF UploadArrives, GateExcludes, InPut, Collecting
  <2>3. TempsOwned' /\ PutStays'
    BY <1>1 DEF UploadArrives, TempsOwned, PutStays, HasTemp
  <2>4. RemovesRowless' /\ RowHasContent' /\ ReferenceHasRow'
    BY <1>1 DEF UploadArrives, RemovesRowless, RowHasContent, ReferenceHasRow
  <2>. QED  BY <2>1, <2>2, <2>3, <2>4
<1>2. ASSUME NEW d \in Digests, RowPurged(d) PROVE BlobInv'
  <2>1. TypeOK'
    BY <1>2 DEF RowPurged
  <2>2. GateExcludes'
    BY <1>2 DEF RowPurged, GateExcludes, InPut, Collecting
  <2>3. TempsOwned' /\ PutStays'
    BY <1>2 DEF RowPurged, TempsOwned, PutStays, HasTemp
  <2>4. RemovesRowless' /\ RowHasContent' /\ ReferenceHasRow'
    BY <1>2 DEF RowPurged, RemovesRowless, RowHasContent, ReferenceHasRow
  <2>. QED  BY <2>1, <2>2, <2>3, <2>4
<1>3. ASSUME NEW d \in Digests, RowAges(d) PROVE BlobInv'
  <2>1. TypeOK'
    BY <1>3 DEF RowAges, Older
  <2>2. GateExcludes'
    BY <1>3 DEF RowAges, Older, GateExcludes, InPut, Collecting
  <2>3. TempsOwned' /\ PutStays'
    BY <1>3 DEF RowAges, Older, TempsOwned, PutStays, HasTemp
  <2>4. RemovesRowless' /\ RowHasContent' /\ ReferenceHasRow'
    BY <1>3 DEF RowAges, Older, RemovesRowless, RowHasContent, ReferenceHasRow
  <2>. QED  BY <2>1, <2>2, <2>3, <2>4
<1>4. ASSUME NEW d \in Digests, ContentAges(d) PROVE BlobInv'
  <2>1. TypeOK'
    BY <1>4 DEF ContentAges, Older
  <2>2. GateExcludes'
    BY <1>4 DEF ContentAges, Older, GateExcludes, InPut, Collecting
  <2>3. TempsOwned' /\ PutStays'
    BY <1>4 DEF ContentAges, Older, TempsOwned, PutStays, HasTemp
  <2>4. RemovesRowless' /\ RowHasContent' /\ ReferenceHasRow'
    BY <1>4 DEF ContentAges, Older, RemovesRowless, RowHasContent, ReferenceHasRow
  <2>. QED  BY <2>1, <2>2, <2>3, <2>4
<1>5. ASSUME NEW t \in Temps, TempAges(t) PROVE BlobInv'
  <2>1. TypeOK'
    BY <1>5 DEF TempAges, Older
  <2>2. GateExcludes'
    BY <1>5 DEF TempAges, Older, GateExcludes, InPut, Collecting
  <2>3. TempsOwned' /\ PutStays'
    BY <1>5 DEF TempAges, Older, TempsOwned, PutStays, HasTemp
  <2>4. RemovesRowless' /\ RowHasContent' /\ ReferenceHasRow'
    BY <1>5 DEF TempAges, Older, RemovesRowless, RowHasContent, ReferenceHasRow
  <2>. QED  BY <2>1, <2>2, <2>3, <2>4
<1>6. ASSUME NEW r \in Readers, OpenContent(r) PROVE BlobInv'
  <2>1. TypeOK'
    BY <1>6 DEF OpenContent
  <2>2. GateExcludes'
    BY <1>6 DEF OpenContent, GateExcludes, InPut, Collecting
  <2>3. TempsOwned' /\ PutStays'
    BY <1>6 DEF OpenContent, TempsOwned, PutStays, HasTemp
  <2>4. RemovesRowless' /\ RowHasContent' /\ ReferenceHasRow'
    BY <1>6 DEF OpenContent, RemovesRowless, RowHasContent, ReferenceHasRow
  <2>. QED  BY <2>1, <2>2, <2>3, <2>4
<1>7. ASSUME NEW r \in Readers, NEW d \in Digests, OpenRow(r, d) PROVE BlobInv'
  <2>1. TypeOK'
    BY <1>7 DEF OpenRow
  <2>2. GateExcludes'
    BY <1>7 DEF OpenRow, GateExcludes, InPut, Collecting
  <2>3. TempsOwned' /\ PutStays'
    BY <1>7 DEF OpenRow, TempsOwned, PutStays, HasTemp
  <2>4. RemovesRowless' /\ RowHasContent' /\ ReferenceHasRow'
    BY <1>7 DEF OpenRow, RemovesRowless, RowHasContent, ReferenceHasRow
  <2>. QED  BY <2>1, <2>2, <2>3, <2>4
<1>. QED
  BY <1>1, <1>2, <1>3, <1>4, <1>5, <1>6, <1>7

\* The collector: while it works no upload holds the gate, so the content it
\* removes belongs to no row and to no upload that is about to insert one.
LEMMA CollectorInv ==
    ASSUME BlobInv, GCTick \/ GCStep \/ GCStops
    PROVE  BlobInv'
<1>. USE DEF BlobInv, TypeOK, GCGoes, GCLeaves, NoRound
<1>1. CASE GCTick
  <2>1. TypeOK'
    BY <1>1 DEF GCTick
  <2>2. GateExcludes'
    BY <1>1 DEF GCTick, GateExcludes, InPut, Collecting
  <2>3. TempsOwned' /\ PutStays'
    BY <1>1 DEF GCTick, TempsOwned, PutStays, HasTemp, GateExcludes, InPut, Collecting
  <2>4. RemovesRowless' /\ RowHasContent' /\ ReferenceHasRow'
    BY <1>1 DEF GCTick, RemovesRowless, RowHasContent, ReferenceHasRow
  <2>. QED  BY <2>1, <2>2, <2>3, <2>4
<1>2. CASE GCEnters
  <2>1. TypeOK'
    BY <1>2 DEF GCEnters
  <2>2. GateExcludes'
    BY <1>2 DEF GCEnters, GateExcludes, InPut, Collecting
  <2>3. TempsOwned' /\ PutStays'
    BY <1>2 DEF GCEnters, TempsOwned, PutStays, HasTemp, GateExcludes, InPut, Collecting
  <2>4. RemovesRowless' /\ RowHasContent' /\ ReferenceHasRow'
    BY <1>2 DEF GCEnters, RemovesRowless, RowHasContent, ReferenceHasRow
  <2>. QED  BY <2>1, <2>2, <2>3, <2>4
<1>3. CASE GCList
  <2>1. TypeOK'
    BY <1>3 DEF GCList
  <2>2. GateExcludes'
    BY <1>3 DEF GCList, GateExcludes, InPut, Collecting
  <2>3. TempsOwned' /\ PutStays'
    BY <1>3 DEF GCList, TempsOwned, PutStays, HasTemp, GateExcludes, InPut, Collecting
  <2>4. RemovesRowless' /\ RowHasContent' /\ ReferenceHasRow'
    BY <1>3 DEF GCList, RemovesRowless, RowHasContent, ReferenceHasRow
  <2>. QED  BY <2>1, <2>2, <2>3, <2>4
<1>4. CASE GCWalk
  <2>1. TypeOK'
    BY <1>4 DEF GCWalk
  <2>2. GateExcludes'
    BY <1>4 DEF GCWalk, GateExcludes, InPut, Collecting
  <2>3. TempsOwned' /\ PutStays'
    BY <1>4 DEF GCWalk, TempsOwned, PutStays, HasTemp, GateExcludes, InPut, Collecting
  <2>4. RemovesRowless' /\ RowHasContent' /\ ReferenceHasRow'
    BY <1>4 DEF GCWalk, RemovesRowless, RowHasContent, ReferenceHasRow
  <2>. QED  BY <2>1, <2>2, <2>3, <2>4
<1>5. CASE GCTemps
  <2>1. TypeOK'
    BY <1>5 DEF GCTemps
  <2>2. GateExcludes'
    BY <1>5 DEF GCTemps, GateExcludes, InPut, Collecting
  <2>3. TempsOwned' /\ PutStays'
    BY <1>5 DEF GCTemps, TempsOwned, PutStays, HasTemp, GateExcludes, InPut, Collecting
  <2>4. RemovesRowless' /\ RowHasContent' /\ ReferenceHasRow'
    BY <1>5 DEF GCTemps, RemovesRowless, RowHasContent, ReferenceHasRow
  <2>. QED  BY <2>1, <2>2, <2>3, <2>4
<1>6. CASE GCTempsFails
  <2>1. TypeOK'
    BY <1>6 DEF GCTempsFails
  <2>2. GateExcludes'
    BY <1>6 DEF GCTempsFails, GateExcludes, InPut, Collecting
  <2>3. TempsOwned' /\ PutStays'
    BY <1>6 DEF GCTempsFails, TempsOwned, PutStays, HasTemp, GateExcludes, InPut, Collecting
  <2>4. RemovesRowless' /\ RowHasContent' /\ ReferenceHasRow'
    BY <1>6 DEF GCTempsFails, RemovesRowless, RowHasContent, ReferenceHasRow
  <2>. QED  BY <2>1, <2>2, <2>3, <2>4
<1>7. ASSUME NEW d \in Digests, GCRow(d) PROVE BlobInv'
  <2>1. TypeOK'
    BY <1>7 DEF GCRow
  <2>2. GateExcludes'
    BY <1>7 DEF GCRow, GateExcludes, InPut, Collecting
  <2>3. TempsOwned' /\ PutStays'
    BY <1>7 DEF GCRow, TempsOwned, PutStays, HasTemp, GateExcludes, InPut, Collecting
  <2>4. RemovesRowless' /\ RowHasContent' /\ ReferenceHasRow'
    BY <1>7 DEF GCRow, RemovesRowless, RowHasContent, ReferenceHasRow
  <2>. QED  BY <2>1, <2>2, <2>3, <2>4
<1>8. ASSUME NEW d \in Digests, GCRowSkipped(d) PROVE BlobInv'
  <2>1. TypeOK'
    BY <1>8 DEF GCRowSkipped
  <2>2. GateExcludes'
    BY <1>8 DEF GCRowSkipped, GateExcludes, InPut, Collecting
  <2>3. TempsOwned' /\ PutStays'
    BY <1>8 DEF GCRowSkipped, TempsOwned, PutStays, HasTemp, GateExcludes, InPut, Collecting
  <2>4. RemovesRowless' /\ RowHasContent' /\ ReferenceHasRow'
    BY <1>8 DEF GCRowSkipped, RemovesRowless, RowHasContent, ReferenceHasRow
  <2>. QED  BY <2>1, <2>2, <2>3, <2>4
<1>9. ASSUME NEW d \in Digests, GCVisit(d) PROVE BlobInv'
  <2>1. TypeOK'
    BY <1>9 DEF GCVisit
  <2>2. GateExcludes'
    BY <1>9 DEF GCVisit, GateExcludes, InPut, Collecting
  <2>3. TempsOwned' /\ PutStays'
    BY <1>9 DEF GCVisit, TempsOwned, PutStays, HasTemp, GateExcludes, InPut, Collecting
  <2>4. RemovesRowless' /\ RowHasContent' /\ ReferenceHasRow'
    BY <1>9 DEF GCVisit, RemovesRowless, RowHasContent, ReferenceHasRow
  <2>. QED  BY <2>1, <2>2, <2>3, <2>4
<1>10. CASE GCContent
  <2>1. TypeOK'
    BY <1>10 DEF GCContent, RemovesContent
  <2>2. GateExcludes'
    BY <1>10 DEF GCContent, RemovesContent, GateExcludes, InPut, Collecting
  <2>3. TempsOwned' /\ PutStays'
    BY <1>10 DEF GCContent, RemovesContent, TempsOwned, PutStays, HasTemp, GateExcludes, InPut, Collecting
  <2>4. RemovesRowless' /\ RowHasContent' /\ ReferenceHasRow'
    BY <1>10 DEF GCContent, RemovesContent, RemovesRowless, RowHasContent, ReferenceHasRow
  <2>. QED  BY <2>1, <2>2, <2>3, <2>4
<1>11. CASE GCContentFails
  <2>1. TypeOK'
    BY <1>11 DEF GCContentFails
  <2>2. GateExcludes'
    BY <1>11 DEF GCContentFails, GateExcludes, InPut, Collecting
  <2>3. TempsOwned' /\ PutStays'
    BY <1>11 DEF GCContentFails, TempsOwned, PutStays, HasTemp, GateExcludes, InPut, Collecting
  <2>4. RemovesRowless' /\ RowHasContent' /\ ReferenceHasRow'
    BY <1>11 DEF GCContentFails, RemovesRowless, RowHasContent, ReferenceHasRow
  <2>. QED  BY <2>1, <2>2, <2>3, <2>4
<1>12. CASE GCOrphan
  <2>1. TypeOK'
    BY <1>12 DEF GCOrphan, RemovesContent
  <2>2. GateExcludes'
    BY <1>12 DEF GCOrphan, RemovesContent, GateExcludes, InPut, Collecting
  <2>3. TempsOwned' /\ PutStays'
    BY <1>12 DEF GCOrphan, RemovesContent, TempsOwned, PutStays, HasTemp, GateExcludes, InPut, Collecting
  <2>4. RemovesRowless' /\ RowHasContent' /\ ReferenceHasRow'
    BY <1>12 DEF GCOrphan, RemovesContent, RemovesRowless, RowHasContent, ReferenceHasRow
  <2>. QED  BY <2>1, <2>2, <2>3, <2>4
<1>13. CASE GCOrphanFails
  <2>1. TypeOK'
    BY <1>13 DEF GCOrphanFails
  <2>2. GateExcludes'
    BY <1>13 DEF GCOrphanFails, GateExcludes, InPut, Collecting
  <2>3. TempsOwned' /\ PutStays'
    BY <1>13 DEF GCOrphanFails, TempsOwned, PutStays, HasTemp, GateExcludes, InPut, Collecting
  <2>4. RemovesRowless' /\ RowHasContent' /\ ReferenceHasRow'
    BY <1>13 DEF GCOrphanFails, RemovesRowless, RowHasContent, ReferenceHasRow
  <2>. QED  BY <2>1, <2>2, <2>3, <2>4
<1>14. CASE GCStops
  <2>1. TypeOK'
    BY <1>14 DEF GCStops
  <2>2. GateExcludes'
    BY <1>14 DEF GCStops, GateExcludes, InPut, Collecting
  <2>3. TempsOwned' /\ PutStays'
    BY <1>14 DEF GCStops, TempsOwned, PutStays, HasTemp, GateExcludes, InPut, Collecting
  <2>4. RemovesRowless' /\ RowHasContent' /\ ReferenceHasRow'
    BY <1>14 DEF GCStops, RemovesRowless, RowHasContent, ReferenceHasRow
  <2>. QED  BY <2>1, <2>2, <2>3, <2>4
<1>. QED
  BY <1>1, <1>2, <1>3, <1>4, <1>5, <1>6, <1>7, <1>8, <1>9, <1>10, <1>11, <1>12, <1>13, <1>14 DEF GCStep

\* A crash that loses no link keeps rows and content; nobody holds the gate.
LEMMA CrashInv ==
    ASSUME PowerLoss = FALSE, BlobInv, Crash
    PROVE  BlobInv'
<1>. USE DEF BlobInv, Crash, NoUpload, NoRound, NoOpen
<1>1. disk' = disk
  BY DEF TypeOK
<1>2. TypeOK'
  BY <1>1 DEF TypeOK, UploadRecords
<1>3. GateExcludes'
  BY DEF GateExcludes, InPut, Collecting
<1>4. TempsOwned' /\ PutStays'
  BY DEF TempsOwned, PutStays, HasTemp
<1>5. RemovesRowless' /\ RowHasContent' /\ ReferenceHasRow'
  BY <1>1 DEF RemovesRowless, RowHasContent, ReferenceHasRow
<1>. QED
  BY <1>2, <1>3, <1>4, <1>5

\* No step leaves the invariant.
LEMMA BlobNext ==
    ASSUME PowerLoss = FALSE, BlobInv, [Next]_vars
    PROVE  BlobInv'
<1>1. CASE Next
  BY <1>1, UploadInv, OtherInv, CollectorInv, CrashInv DEF Next
<1>2. CASE UNCHANGED vars
  <2>. USE <1>2 DEF vars, BlobInv
  <2>1. TypeOK'
    BY DEF TypeOK, UploadRecords
  <2>2. GateExcludes'
    BY DEF GateExcludes, InPut, Collecting
  <2>3. TempsOwned' /\ PutStays'
    BY DEF TempsOwned, PutStays, HasTemp
  <2>4. RemovesRowless' /\ RowHasContent' /\ ReferenceHasRow'
    BY DEF RemovesRowless, RowHasContent, ReferenceHasRow
  <2>. QED  BY <2>1, <2>2, <2>3, <2>4
<1>. QED
  BY <1>1, <1>2

-----------------------------------------------------------------------------

\* Uploads, collections, purges, downloads and crashes keep the invariant, as
\* long as a crash loses no directory entry.
THEOREM BlobTheorem ==
    ASSUME PowerLoss = FALSE
    PROVE  Spec => []BlobInv
<1>1. BlobInv /\ [Next]_vars => BlobInv'
  BY BlobNext
<1>. QED
  BY <1>1, BlobInit, PTL DEF Spec

\* Metadata never outlives content: the order of Upload, the gate and the order
\* of CollectGarbage together keep the content of every blob row on disk.
THEOREM RowHasContentTheorem ==
    ASSUME PowerLoss = FALSE
    PROVE  Spec => []RowHasContent
<1>1. BlobInv => RowHasContent
  BY DEF BlobInv
<1>. QED
  BY <1>1, BlobTheorem, PTL

\* A blob that a file row references, also one in the trash, keeps its row.
THEOREM ReferenceHasRowTheorem ==
    ASSUME PowerLoss = FALSE
    PROVE  Spec => []ReferenceHasRow
<1>1. BlobInv => ReferenceHasRow
  BY DEF BlobInv
<1>. QED
  BY <1>1, BlobTheorem, PTL

\* No collection comes between Put and the registration of the metadata.
THEOREM PutStaysTheorem ==
    ASSUME PowerLoss = FALSE
    PROVE  Spec => []PutStays
<1>1. BlobInv => PutStays
  BY DEF BlobInv
<1>. QED
  BY <1>1, BlobTheorem, PTL

\* What a download has asked for is a digest.
Asked == \A r \in Readers : rd[r].pc # "idle" => rd[r].d \in Digests

\* Only downloads, and a crash, change what downloads know.
LEMMA DownloadsOnly ==
    ASSUME [Next]_vars, rd' # rd
    PROVE  Crash \/ \E r \in Readers : OpenContent(r) \/ \E d \in Digests : OpenRow(r, d)
<1>1. ASSUME NEW u \in Uploads, UploadStep(u) PROVE rd' = rd
  BY <1>1 DEF UploadStep, UploadEnters, PutTemp, PutShard, PutLink, PutSync, PutClean,
              Register, UploadFails, UploadLeaves
<1>2. ASSUME NEW u \in Uploads, NEW d \in Digests, UploadArrives(u, d) PROVE rd' = rd
  BY <1>2 DEF UploadArrives
<1>3. ASSUME NEW d \in Digests, RowPurged(d) \/ RowAges(d) \/ ContentAges(d) PROVE rd' = rd
  BY <1>3 DEF RowPurged, RowAges, ContentAges
<1>4. ASSUME NEW t \in Temps, TempAges(t) PROVE rd' = rd
  BY <1>4 DEF TempAges
<1>5. ASSUME GCTick \/ GCStep \/ GCStops PROVE rd' = rd
  BY <1>5 DEF GCTick, GCStep, GCStops, GCEnters, GCList, GCWalk, GCTemps, GCTempsFails,
              GCRow, GCRowSkipped, GCVisit, GCContent, GCContentFails, GCOrphan, GCOrphanFails
<1>. QED
  BY <1>1, <1>2, <1>3, <1>4, <1>5 DEF Next, vars

\* Every download under way has asked for a digest.
LEMMA AskedAlways ==
    ASSUME PowerLoss = FALSE
    PROVE  Spec => []Asked
<1>1. Init => Asked
  BY DEF Init, Asked, NoOpen
<1>2. ASSUME BlobInv, Asked, [Next]_vars PROVE Asked'
  <2>1. CASE rd' = rd
    BY <1>2, <2>1 DEF Asked
  <2>2. CASE Crash
    BY <2>2 DEF Crash, NoOpen, Asked
  <2>3. CASE \E r \in Readers : OpenContent(r) \/ \E d \in Digests : OpenRow(r, d)
    BY <1>2, <2>3 DEF OpenContent, OpenRow, Asked, BlobInv, TypeOK
  <2>. QED
    BY <1>2, <2>1, <2>2, <2>3, DownloadsOnly
<1>. QED
  BY <1>1, <1>2, BlobTheorem, PTL DEF Spec

\* OpenBlob takes no lock, and still a referenced blob is never found missing.
THEOREM ReferencedServedTheorem ==
    ASSUME PowerLoss = FALSE
    PROVE  Spec => ReferencedServed
<1>. DEFINE Served == \A r \in Readers :
                         rd[r].pc = "open" /\ rd'[r].pc = "inconsistent" => refs[rd[r].d] = 0
<1>1. ASSUME BlobInv, Asked, [Next]_vars PROVE Served
  <2>. SUFFICES ASSUME NEW r \in Readers, rd[r].pc = "open", rd'[r].pc = "inconsistent"
                PROVE  refs[rd[r].d] = 0
    OBVIOUS
  <2>1. rd'[r] # rd[r] /\ ~Crash
    BY DEF Crash, NoOpen
  <2>2. PICK s \in Readers : OpenContent(s) \/ \E d \in Digests : OpenRow(s, d)
    BY <1>1, <2>1, DownloadsOnly
  <2>3. OpenContent(r)
    <3>1. ASSUME NEW d \in Digests, OpenRow(s, d) PROVE FALSE
      BY <1>1, <2>1, <3>1 DEF OpenRow, BlobInv, TypeOK
    <3>2. s = r
      BY <1>1, <2>1, <2>2, <3>1 DEF OpenContent, BlobInv, TypeOK
    <3>. QED
      BY <2>2, <3>1, <3>2
  <2>4. rd[r].d \in Digests
    BY <1>1 DEF Asked
  <2>. QED
    BY <1>1, <2>3, <2>4 DEF OpenContent, BlobInv, TypeOK, RowHasContent, ReferenceHasRow
<1>2. BlobInv /\ Asked /\ [Next]_vars => [Served]_vars
  BY <1>1
<1>. QED
  BY <1>2, BlobTheorem, AskedAlways, PTL DEF Spec, ReferencedServed

-----------------------------------------------------------------------------
(* BlobLifecycle implements BlobStore *)

\* What BlobLifecycle shows of its content to BlobStore.
Stored == {d \in Digests : disk[d] # "none"}

Shown == <<Stored, refs>>

\* The steps of an upload: the link publishes, the registration refers to what
\* Put has stored, and all others keep content and file rows.
LEMMA UploadStores ==
    ASSUME BlobInv, NEW u \in Uploads, UploadStep(u)
    PROVE  [Store!Next]_Shown
<1>. USE DEF BlobInv, TypeOK, Shown, Stored, UploadGoes
<1>1. CASE PutLink(u)
  <2>1. PICK d \in Digests : d = up[u].d
    BY <1>1 DEF PutLink, TempsOwned
  <2>2. Stored' = Stored \cup {d} /\ refs' = refs
    <3>1. temps[up[u].tmp] \in Ages \ {"none"}
      BY <1>1 DEF PutLink, TempsOwned, PutStays, HasTemp
    <3>. QED
      BY <1>1, <2>1, <3>1 DEF PutLink
  <2>. QED
    BY <2>1, <2>2 DEF Store!Next, Store!Publish
<1>2. CASE Register(u)
  <2>1. PICK d \in Digests : d = up[u].d /\ disk[d] # "none"
    BY <1>2 DEF Register, TempsOwned, PutStays
  <2>2. refs[d] < MaxRefs /\ refs' = [refs EXCEPT ![d] = @ + 1] /\ Stored' = Stored
    BY <1>2, <2>1 DEF Register
  <2>. QED
    BY <2>1, <2>2 DEF Store!Next, Store!Reference
<1>3. CASE ~PutLink(u) /\ ~Register(u)
  BY <1>3 DEF UploadStep, UploadEnters, PutTemp, PutShard, PutSync, PutClean,
              UploadFails, UploadLeaves
<1>. QED
  BY <1>1, <1>2, <1>3

\* The steps of the collector: it removes content of a digest without a blob
\* row, hence without a file row, and changes no file row.
LEMMA CollectorStores ==
    ASSUME BlobInv, GCTick \/ GCStep \/ GCStops
    PROVE  [Store!Next]_Shown
<1>. USE DEF BlobInv, TypeOK, Shown, Stored
<1>1. CASE GCContent \/ GCOrphan
  <2>1. PICK d \in Digests : d = gc.cur /\ rows[d] = "none"
    BY <1>1 DEF GCContent, GCOrphan, RemovesRowless
  <2>2. refs[d] = 0
    BY <2>1 DEF ReferenceHasRow
  <2>3. Stored' = Stored \ {d} /\ refs' = refs
    BY <1>1, <2>1 DEF GCContent, GCOrphan, RemovesContent
  <2>. QED
    BY <2>1, <2>2, <2>3 DEF Store!Next, Store!Collect
<1>2. CASE ~GCContent /\ ~GCOrphan
  BY <1>2 DEF GCTick, GCStep, GCStops, GCEnters, GCList, GCRow, GCRowSkipped, GCContentFails,
              GCWalk, GCVisit, GCOrphanFails, GCTemps, GCTempsFails
<1>. QED
  BY <1>1, <1>2

\* Every step is a step of BlobStore or changes nothing of what it sees.
LEMMA StoreStep ==
    ASSUME PowerLoss = FALSE, BlobInv, [Next]_vars
    PROVE  [Store!Next]_Shown
<1>. USE DEF Shown, Stored
<1>1. ASSUME NEW d \in Digests, RowPurged(d) PROVE Store!Next
  BY <1>1 DEF RowPurged, Store!Next, Store!Unreference
<1>2. ASSUME NEW d \in Digests, RowAges(d) \/ ContentAges(d) PROVE UNCHANGED Shown
  BY <1>2 DEF RowAges, ContentAges, Older, BlobInv, TypeOK
<1>3. ASSUME NEW u \in Uploads, NEW d \in Digests, UploadArrives(u, d) PROVE UNCHANGED Shown
  BY <1>3 DEF UploadArrives
<1>4. ASSUME NEW t \in Temps, TempAges(t) PROVE UNCHANGED Shown
  BY <1>4 DEF TempAges
<1>5. ASSUME NEW r \in Readers, OpenContent(r) \/ \E d \in Digests : OpenRow(r, d)
      PROVE  UNCHANGED Shown
  BY <1>5 DEF OpenContent, OpenRow
<1>6. CASE Crash
  BY <1>6 DEF Crash, BlobInv, TypeOK
<1>7. CASE UNCHANGED vars
  BY <1>7 DEF vars
<1>. HIDE DEF Shown, Stored
<1>. QED
  BY <1>1, <1>2, <1>3, <1>4, <1>5, <1>6, <1>7, UploadStores, CollectorStores DEF Next

\* Without power loss the calls of uploads and collections, with their failures
\* and crashes, implement BlobStore.
THEOREM StoreTheorem ==
    ASSUME PowerLoss = FALSE
    PROVE  Spec => ImplementsStore
<1>1. Init => Store!Init
  BY DEF Init, Store!Init
<1>2. BlobInv /\ [Next]_vars => [Store!Next]_Shown
  BY StoreStep
<1>. QED
  BY <1>1, <1>2, BlobTheorem, PTL DEF Spec, ImplementsStore, Store!Spec, Shown, Stored
=============================================================================
