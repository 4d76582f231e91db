-------------------------- MODULE LifecycleProofs --------------------------
(* Proofs about Lifecycle: the invariant LifecycleInv and what it gives. *)
EXTENDS Lifecycle, TLAPS

\* The tables of the schema are counted.
LEMMA TableCount == Len(Tables) = 4
BY DEF Tables

\* The process starts in order.
LEMMA LifecycleInit == Init => LifecycleInv
<1> SUFFICES ASSUME Init PROVE LifecycleInv
    OBVIOUS
<1>1. NoEnv \in Envs
      BY DEF NoEnv, Envs
<1>2. TypeOK
  <2>1. schema \in 0..Len(Tables)
        BY TableCount DEF Init
  <2>2. env \in Envs
        BY <1>1 DEF Init
  <2>3. up \in [Uploads -> {"none", "open", "gate", "body", "answer"}]
        BY DEF Init
  <2> QED BY <2>1, <2>2, <2>3 DEF Init, TypeOK, Starting
<1>3. GateExcludes /\ StartsInOrder /\ StopsInOrder /\ PoolOutlivesCollector
      BY DEF Init, GateExcludes, StartsInOrder, StopsInOrder, PoolOutlivesCollector,
             Starting, Holders, Connected, Active
<1>4. DrainedMeansAnswered /\ WorksOnWhole
      BY DEF Init, DrainedMeansAnswered, WorksOnWhole, Connected, Active
<1> QED BY <1>2, <1>3, <1>4 DEF LifecycleInv

\* The stages of the start-up, and its failures: each keeps what the stages
\* before it have built.
LEMMA StartInv ==
    ASSUME LifecycleInv,
           Load \/ Open \/ Ping \/ MigrateTable \/ Migrated \/ OpenStore \/ Serve
               \/ Expire \/ GiveUp \/ TimesOut
    PROVE  LifecycleInv'
<1> USE DEF LifecycleInv, TypeOK, GateExcludes, StartsInOrder, StopsInOrder,
            PoolOutlivesCollector, DrainedMeansAnswered, WorksOnWhole, Holders, Connected, Active,
            Starting, Stage, disk, work, Accepted
<1>1. CASE Load BY <1>1, TableCount DEF Load
<1>2. CASE Open BY <1>2 DEF Open
<1>3. CASE Ping BY <1>3 DEF Ping
<1>4. CASE MigrateTable BY <1>4, TableCount DEF MigrateTable
<1>5. CASE Migrated BY <1>5 DEF Migrated
<1>6. CASE OpenStore BY <1>6 DEF OpenStore
<1>7. CASE Serve BY <1>7 DEF Serve
<1>8. CASE Expire BY <1>8 DEF Expire
<1>9. CASE GiveUp BY <1>9 DEF GiveUp
<1>10. CASE TimesOut BY <1>10 DEF TimesOut, GiveUp
<1> QED BY <1>1, <1>2, <1>3, <1>4, <1>5, <1>6, <1>7, <1>8, <1>9, <1>10

\* The steps of run while it serves and stops: they touch neither the gate nor,
\* before Exit, an upload.
LEMMA RunInv ==
    ASSUME LifecycleInv,
           Signal \/ Listens \/ ServerFails \/ TakeError \/ TakeSignal
               \/ ShutdownDone \/ ShutdownTimesOut \/ Close \/ Exit \/ Kill \/ Restart
    PROVE  LifecycleInv'
<1> USE DEF LifecycleInv, TypeOK, GateExcludes, StartsInOrder, StopsInOrder,
            PoolOutlivesCollector, DrainedMeansAnswered, WorksOnWhole, Holders, Connected, Active,
            Starting, start, disk, work, Accepted
<1>1. CASE Signal BY <1>1 DEF Signal
<1>2. CASE Listens BY <1>2 DEF Listens
<1>3. CASE ServerFails BY <1>3 DEF ServerFails
<1>4. CASE TakeError BY <1>4 DEF TakeError
<1>5. CASE TakeSignal BY <1>5 DEF TakeSignal
<1>6. CASE ShutdownDone BY <1>6 DEF ShutdownDone
<1>7. CASE ShutdownTimesOut BY <1>7 DEF ShutdownTimesOut
<1>8. CASE Close BY <1>8 DEF Close
<1>9. CASE Exit BY <1>9 DEF Exit
<1>10. CASE Kill BY <1>10 DEF Kill, Running
<1>11. CASE Restart BY <1>11 DEF Restart, Running, Envs, NoEnv
<1> QED BY <1>1, <1>2, <1>3, <1>4, <1>5, <1>6, <1>7, <1>8, <1>9, <1>10, <1>11

\* The steps of an upload: none enters the gate once the collector holds it, and
\* none comes once every
\* connection is closed.
LEMMA UploadInv ==
    ASSUME LifecycleInv, NEW u \in Uploads,
           \/ Connects(u) \/ Arrives(u) \/ Disconnects(u)
           \/ Enters(u) \/ BodyEnds(u) \/ Answered(u)
    PROVE  LifecycleInv'
<1> USE DEF LifecycleInv, TypeOK, GateExcludes, StartsInOrder, StopsInOrder,
            PoolOutlivesCollector, DrainedMeansAnswered, WorksOnWhole, Holders, Connected, Active,
            Starting, start, disk, Accepted, UploadTo, Running
<1>1. CASE Connects(u) BY <1>1 DEF Connects
<1>2. CASE Arrives(u) BY <1>2 DEF Arrives
<1>3. CASE Disconnects(u) BY <1>3 DEF Disconnects
<1>4. CASE Enters(u) BY <1>4 DEF Enters
<1>5. CASE BodyEnds(u) BY <1>5 DEF BodyEnds
<1>6. CASE Answered(u) BY <1>6 DEF Answered
<1> QED BY <1>1, <1>2, <1>3, <1>4, <1>5, <1>6

\* The steps of the collector goroutine, which never runs again after done.
LEMMA CollectorInv ==
    ASSUME LifecycleInv, Tick \/ Enter \/ Leave \/ Returns
    PROVE  LifecycleInv'
<1> USE DEF LifecycleInv, TypeOK, GateExcludes, StartsInOrder, StopsInOrder,
            PoolOutlivesCollector, DrainedMeansAnswered, WorksOnWhole, Holders, Connected, Active,
            Starting, start, disk, Accepted, CollectorTo, Running
<1>1. CASE Tick BY <1>1 DEF Tick
<1>2. CASE Enter BY <1>2 DEF Enter
<1>3. CASE Leave BY <1>3 DEF Leave
<1>4. CASE Returns BY <1>4 DEF Returns
<1> QED BY <1>1, <1>2, <1>3, <1>4

\* No step leaves the invariant.
LEMMA LifecycleNext == LifecycleInv /\ [Next]_vars => LifecycleInv'
<1> SUFFICES ASSUME LifecycleInv, [Next]_vars PROVE LifecycleInv'
    OBVIOUS
<1>1. CASE Next
      BY <1>1, StartInv, RunInv, UploadInv, CollectorInv DEF Next
<1>2. CASE UNCHANGED vars
      BY <1>2 DEF vars, disk, work, LifecycleInv, TypeOK, GateExcludes, StartsInOrder,
                  StopsInOrder, PoolOutlivesCollector, DrainedMeansAnswered, WorksOnWhole,
                  Holders, Connected, Active
<1> QED BY <1>1, <1>2

\* Starting, serving, draining, collecting and stopping keep the invariant, and
\* so do kills and restarts.
THEOREM LifecycleTheorem == Spec => []LifecycleInv
<1> QED BY LifecycleInit, LifecycleNext, PTL DEF Spec

\* run waits for the collector before it closes the database, and closes it.
THEOREM PoolTheorem == Spec => []PoolOutlivesCollector
<1>1. LifecycleInv => PoolOutlivesCollector
      BY DEF LifecycleInv
<1> QED BY <1>1, LifecycleTheorem, PTL

\* A shutdown that ends in time has answered every upload, and none comes after.
THEOREM DrainTheorem == Spec => []DrainedMeansAnswered
<1>1. LifecycleInv => DrainedMeansAnswered
      BY DEF LifecycleInv
<1> QED BY <1>1, LifecycleTheorem, PTL

\* No request and no collection meets a schema that a killed migration left.
THEOREM WholeTheorem == Spec => []WorksOnWhole
<1>1. LifecycleInv => WorksOnWhole
      BY DEF LifecycleInv
<1> QED BY <1>1, LifecycleTheorem, PTL
=============================================================================
