----------------------------- MODULE Lifecycle -----------------------------
(***************************************************************************)
(* The life of the process: run in cmd/fpan/main.go from the environment   *)
(* to the exit, with the configuration, the connection pool and schema,    *)
(* the storage root, the HTTP server, the garbage collector goroutine and  *)
(* the gate of files.Service, which an upload holds for reading while the  *)
(* client sends its body.  The process may be killed and started again;    *)
(* the schema and the storage root stay.                                   *)
(*                                                                         *)
(* BlobLifecycle says what an upload and a round of the collector do; here *)
(* each is the time it holds, or waits for, the gate.                      *)
(***************************************************************************)
EXTENDS Naturals, FiniteSets, Sequences

CONSTANT Uploads    \* clients that upload, each over one connection at a time

VARIABLES
    main,       \* where run is
    env,        \* the configuration that Load accepted
    expired,    \* startupTimeout has passed
    schema,     \* the tables that exist, as a prefix of Tables
    root,       \* the storage root is a directory
    server,     \* the server goroutine: "none", "starting", "up" or "down"
    cancelled,  \* the collector's context
    drain,      \* how Shutdown ended: "complete", "timeout", or "skipped"
    up,         \* each client: "none" (not connected), "open" (no request under
                \* way), "gate", "body" (holds the gate) or "answer"
    gc,         \* the collector goroutine
    writer,     \* the collector's part of the gate
    dbOpen      \* the connection pool

disk == <<schema, root>>
work == <<up, gc, writer>>
vars == <<main, env, expired, disk, server, cancelled, drain, work, dbOpen>>

\* The models AutoMigrate is given, in this order
Tables == <<"blobs", "folders", "files", "shares">>

\* The authentication mode, whether the listen address is a loopback one, and
\* whether the rest is what Load requires
Envs == [mode : {"oidc", "mock"}, loopback : BOOLEAN, rest : BOOLEAN]

\* Mutant: the listen address is not checked in mock mode
AcceptedAnywhere(e) == e.rest

\* loadEnv: mock authentication admits everybody who can connect
Accepted(e) == e.rest /\ (e.mode = "mock" => e.loopback)

NoEnv == [mode |-> "oidc", loopback |-> FALSE, rest |-> FALSE]

Starting == {"load", "open", "ping", "migrate", "store", "oidc"}

Init ==
    /\ main = "load" /\ env = NoEnv /\ expired = FALSE
    /\ schema = 0 /\ root = FALSE
    /\ server = "none" /\ cancelled = FALSE /\ drain = "pending"
    /\ up = [u \in Uploads |-> "none"]
    /\ gc = "none" /\ writer = "none"
    /\ dbOpen = FALSE

Running == main # "exited"

Holders == {u \in Uploads : up[u] = "body"}

Connected == {u \in Uploads : up[u] # "none"}

\* The requests under way
Active == {u \in Connected : up[u] # "open"}

-----------------------------------------------------------------------------
(* run, until it serves *)

\* The next stage of the start-up
Stage(from, to) ==
    /\ main = from /\ main' = to
    /\ UNCHANGED <<server, cancelled, drain, work>>

Load ==
    /\ Stage("load", "open")
    /\ \E e \in Envs : Accepted(e) /\ env' = e
    /\ UNCHANGED <<expired, disk, dbOpen>>

\* gorm.Open pings by itself, without a deadline
Open ==
    /\ Stage("open", "ping")
    /\ dbOpen' = TRUE
    /\ UNCHANGED <<env, expired, disk>>

\* db.Ping, under startupCtx
Ping ==
    /\ Stage("ping", "migrate")
    /\ ~expired
    /\ UNCHANGED <<env, expired, disk, dbOpen>>

\* AutoMigrate: the tables one by one, each in statements of its own, without
\* a deadline.  A table that is there stays.
MigrateTable ==
    /\ main = "migrate"
    /\ schema < Len(Tables)
    /\ schema' = schema + 1
    /\ UNCHANGED <<main, env, expired, root, server, cancelled, drain, work, dbOpen>>

\* Mutant: an error of AutoMigrate is not looked at
MigratedPartly ==
    /\ Stage("migrate", "store")
    /\ UNCHANGED <<env, expired, disk, dbOpen>>

Migrated ==
    /\ Stage("migrate", "store")
    /\ schema = Len(Tables)
    /\ UNCHANGED <<env, expired, disk, dbOpen>>

\* filesystem.New creates the root; the services only keep what they are given
OpenStore ==
    /\ Stage("store", "oidc")
    /\ root' = TRUE
    /\ UNCHANGED <<env, expired, schema, dbOpen>>

\* Discovery of the provider under startupCtx, unless the mode is mock; then the
\* router, the two goroutines and, from here on, a handler for the signals
Serve ==
    /\ main = "oidc"
    /\ env.mode = "mock" \/ ~expired
    /\ main' = "serving" /\ server' = "starting" /\ gc' = "sleep"
    /\ UNCHANGED <<env, expired, disk, cancelled, drain, up, writer, dbOpen>>

\* startupTimeout passes, whatever the start-up is at
Expire ==
    /\ main \in Starting \ {"load"} /\ ~expired
    /\ expired' = TRUE
    /\ UNCHANGED <<main, env, disk, server, cancelled, drain, work, dbOpen>>

\* Mutant: the error returns past the deferred db.Close
GiveUpOpen ==
    /\ main \in Starting
    /\ main' = "closing"
    /\ UNCHANGED <<env, expired, disk, server, cancelled, drain, work, dbOpen>>

\* A stage of the start-up fails: run returns, and closes what Open opened
GiveUp ==
    /\ main \in Starting
    /\ main' = "closing"
    /\ dbOpen' = FALSE
    /\ UNCHANGED <<env, expired, disk, server, cancelled, drain, work>>

\* Mutant: the ping and the discovery are given a context without a deadline
TimesOutNever == FALSE /\ GiveUp

\* The two stages that startupCtx bounds fail when it has expired
TimesOut ==
    /\ expired
    /\ main = "ping" \/ (main = "oidc" /\ env.mode = "oidc")
    /\ GiveUp

-----------------------------------------------------------------------------
(* run, while it serves and stops *)

start == <<env, expired, disk>>

\* SIGINT or SIGTERM: appCtx is done, and with it its child gcCtx.  A second
\* signal changes nothing: stop, which would let it kill, is deferred.
Signal ==
    /\ main = "serving"
    /\ cancelled' = TRUE
    /\ UNCHANGED <<main, start, server, drain, work, dbOpen>>

\* The goroutine of the server: the address is bound ...
Listens ==
    /\ server = "starting" /\ server' = "up"
    /\ UNCHANGED <<main, start, cancelled, drain, work, dbOpen>>

\* ... or is taken, or accepting fails later
ServerFails ==
    /\ server \in {"starting", "up"} /\ server' = "down"
    /\ UNCHANGED <<main, start, cancelled, drain, work, dbOpen>>

\* Mutant: the collector is not cancelled when the server has failed
TakeErrorQuietly ==
    /\ main = "serving" /\ server = "down"
    /\ main' = "waitGC" /\ drain' = "skipped"
    /\ UNCHANGED <<start, server, cancelled, work, dbOpen>>

\* The select of run.  With both ready it takes either.
TakeError ==
    /\ main = "serving" /\ server = "down"
    /\ cancelled' = TRUE
    /\ main' = "waitGC" /\ drain' = "skipped"
    /\ UNCHANGED <<start, server, work, dbOpen>>

\* Shutdown closes the listener first; one that is not there yet never comes
TakeSignal ==
    /\ main = "serving" /\ cancelled
    /\ main' = "shutdown" /\ server' = "down"
    /\ UNCHANGED <<start, cancelled, drain, work, dbOpen>>

\* Mutant: Shutdown does not wait for the requests
ShutdownAtOnce ==
    /\ main = "shutdown"
    /\ main' = "waitGC" /\ drain' = "complete"
    /\ UNCHANGED <<start, server, cancelled, work, dbOpen>>

\* Shutdown returns when every request has been answered, and closes the
\* connections without one ...
ShutdownDone ==
    /\ main = "shutdown"
    /\ Active = {}
    /\ up' = [u \in Uploads |-> "none"]
    /\ main' = "waitGC" /\ drain' = "complete"
    /\ UNCHANGED <<start, server, cancelled, gc, writer, dbOpen>>

\* ... or after FPAN_HTTP_SHUTDOWN_TIMEOUT, and leaves open connections alone
ShutdownTimesOut ==
    /\ main = "shutdown"
    /\ main' = "waitGC" /\ drain' = "timeout"
    /\ UNCHANGED <<start, server, cancelled, work, dbOpen>>

\* Mutant: run does not wait for gcDone
CloseAtOnce ==
    /\ main = "waitGC"
    /\ dbOpen' = FALSE
    /\ main' = "closing"
    /\ UNCHANGED <<start, server, cancelled, drain, work>>

\* <-gcDone, then the deferred db.Close
Close ==
    /\ main = "waitGC"
    /\ gc = "done"
    /\ dbOpen' = FALSE
    /\ main' = "closing"
    /\ UNCHANGED <<start, server, cancelled, drain, work>>

\* main returns: every other goroutine dies
Exit ==
    /\ main = "closing"
    /\ main' = "exited"
    /\ up' = [u \in Uploads |-> "none"]
    /\ UNCHANGED <<start, server, cancelled, drain, gc, writer, dbOpen>>

\* The process dies with all it holds in memory: a power failure, SIGKILL, or a
\* signal before the handler is there.  Its connections go with it.
Kill ==
    /\ Running
    /\ main' = "exited" /\ dbOpen' = FALSE
    /\ server' = "none" /\ cancelled' = FALSE /\ drain' = "pending"
    /\ up' = [u \in Uploads |-> "none"] /\ gc' = "none" /\ writer' = "none"
    /\ UNCHANGED start

\* Somebody starts it again; what is on the disk is what it finds
Restart ==
    /\ ~Running
    /\ main' = "load" /\ env' = NoEnv /\ expired' = FALSE
    /\ server' = "none" /\ cancelled' = FALSE /\ drain' = "pending"
    /\ gc' = "none" /\ writer' = "none"
    /\ UNCHANGED <<disk, up, dbOpen>>

-----------------------------------------------------------------------------
(* Uploads *)

UploadTo(u, from, to) ==
    /\ Running /\ up[u] = from
    /\ up' = [up EXCEPT ![u] = to]
    /\ UNCHANGED <<main, start, server, cancelled, drain, gc, writer, dbOpen>>

\* The listener accepts a connection.
Connects(u) == server = "up" /\ UploadTo(u, "none", "open")

\* A request on a connection that is there is served, also while Shutdown waits
\* for others and after it has given up.
Arrives(u) == UploadTo(u, "open", "gate")

\* A connection without a request is closed, by its client or by Shutdown
Disconnects(u) == UploadTo(u, "open", "none")

\* RLock: a collector that holds the gate or waits for it goes first
Enters(u) == writer = "none" /\ UploadTo(u, "gate", "body")

\* The client has sent its body, or hung up: Put and CreateFile end and the
\* gate is released.  The server sets no deadline for it.
BodyEnds(u) == UploadTo(u, "body", "answer")

\* The connection may be used again, unless Shutdown was called.
Answered(u) ==
    \/ UploadTo(u, "answer", "none")
    \/ main # "shutdown" /\ drain # "timeout" /\ UploadTo(u, "answer", "open")

-----------------------------------------------------------------------------
(* RunGarbageCollector *)

CollectorTo(from, to, w) ==
    /\ Running /\ gc = from
    /\ gc' = to /\ writer' = w
    /\ UNCHANGED <<main, start, server, cancelled, drain, up, dbOpen>>

\* With a tick and the cancellation both ready, select takes either
Tick == CollectorTo("sleep", "gate", "waiting")

\* Mutant: a collection does not wait for the uploads under way
EnterAnyway == CollectorTo("gate", "work", "held")

Enter == Holders = {} /\ CollectorTo("gate", "work", "held")

\* The round is over; cancelled, its calls fail at once
Leave == CollectorTo("work", "sleep", "none")

Returns == cancelled /\ CollectorTo("sleep", "done", "none")

Next ==
    \/ Load \/ Open \/ Ping \/ MigrateTable \/ Migrated \/ OpenStore \/ Serve
    \/ Expire \/ GiveUp \/ TimesOut
    \/ Signal \/ Listens \/ ServerFails \/ TakeError \/ TakeSignal
    \/ ShutdownDone \/ ShutdownTimesOut \/ Close \/ Exit
    \/ Kill \/ Restart
    \/ \E u \in Uploads : \/ Connects(u) \/ Arrives(u) \/ Disconnects(u)
                          \/ Enters(u) \/ BodyEnds(u) \/ Answered(u)
    \/ Tick \/ Enter \/ Leave \/ Returns

Spec == Init /\ [][Next]_vars

\* What the process does by itself goes on.  A tick comes once in an interval,
\* so select cannot prefer it to the cancellation for ever; Unlock lets the
\* waiting uploads in before the next Lock.
ProcessFairness ==
    /\ WF_vars(main = "load" /\ (Load \/ GiveUp)) /\ WF_vars(OpenStore)
    /\ WF_vars(Expire) /\ WF_vars(TimesOut)
    /\ WF_vars(env.mode = "mock" /\ Serve)
    /\ WF_vars(TakeError) /\ WF_vars(TakeSignal)
    /\ WF_vars(ShutdownDone) /\ WF_vars(ShutdownTimesOut) /\ WF_vars(Close) /\ WF_vars(Exit)
    /\ WF_vars(Enter) /\ WF_vars(Leave) /\ SF_vars(Returns)
    /\ \A u \in Uploads : SF_vars(Enters(u)) /\ WF_vars(Answered(u))

\* The database answers the calls without a deadline, be it with an error.  The
\* answers under startupCtx, the database's and the provider's, may never come.
DatabaseFairness ==
    /\ WF_vars(main = "open" /\ (Open \/ GiveUp))
    /\ WF_vars(main = "migrate" /\ (MigrateTable \/ Migrated \/ GiveUp))

FairSpec == Spec /\ ProcessFairness /\ DatabaseFairness

\* Clients send their bodies or hang up.
ClientFairness == \A u \in Uploads : WF_vars(BodyEnds(u))

ClientSpec == FairSpec /\ ClientFairness

-----------------------------------------------------------------------------
(* Correctness *)

TypeOK ==
    /\ main \in Starting \cup {"serving", "shutdown", "waitGC", "closing", "exited"}
    /\ env \in Envs /\ expired \in BOOLEAN
    /\ schema \in 0..Len(Tables) /\ root \in BOOLEAN
    /\ server \in {"none", "starting", "up", "down"}
    /\ cancelled \in BOOLEAN /\ dbOpen \in BOOLEAN
    /\ drain \in {"pending", "complete", "timeout", "skipped"}
    /\ up \in [Uploads -> {"none", "open", "gate", "body", "answer"}]
    /\ gc \in {"none", "sleep", "gate", "work", "done"}
    /\ writer \in {"none", "waiting", "held"}

\* The database is closed after the collector has returned: no round, not even
\* one that a tick starts after the cancellation, meets a closed pool.  A
\* start-up that fails closes what it opened.
PoolOutlivesCollector ==
    /\ ~dbOpen => gc \in {"none", "done"}
    /\ main \in {"closing", "exited"} => ~dbOpen

\* After a shutdown that did not time out no upload is cut off by the exit,
\* whether it held the gate or waited behind the collector for it, and none comes
\* any more over a connection that was left open.  An upload meets a closed pool
\* only where run gives up on it: Shutdown timed out, or the server failed.
DrainedMeansAnswered ==
    /\ drain = "complete" => Active = {}
    /\ ~dbOpen /\ Active # {} => drain \in {"timeout", "skipped"}

\* A collection, and a request until the server gives up on it, meets a
\* complete schema, the storage root and an open pool, wherever the process was
\* killed the last time; and in mock mode only the host itself can connect.
WorksOnWhole ==
    (server = "up" \/ gc \in {"gate", "work"} \/ (Active # {} /\ drain = "pending")) =>
        /\ schema = Len(Tables) /\ root /\ dbOpen
        /\ env.mode = "mock" => env.loopback

\* No upload holds the gate while the collector works.
GateExcludes ==
    /\ gc = "work" <=> writer = "held"
    /\ gc = "gate" <=> writer = "waiting"
    /\ writer = "held" => Holders = {}

\* The stages of the start-up build on each other.
StartsInOrder ==
    /\ main \in Starting =>
        server = "none" /\ gc = "none" /\ Connected = {} /\ ~cancelled /\ drain = "pending"
    /\ main \in {"load", "open"} => ~dbOpen
    /\ main \in {"ping", "migrate", "store", "oidc", "serving", "shutdown", "waitGC"} => dbOpen
    /\ main \in {"store", "oidc", "serving", "shutdown", "waitGC"} => schema = Len(Tables)
    /\ main \in {"oidc", "serving", "shutdown", "waitGC"} => root
    /\ main \in (Starting \ {"load"}) \cup {"serving", "shutdown", "waitGC"} => Accepted(env)

\* The parts of run follow each other: the server stops listening first.
StopsInOrder ==
    /\ server \in {"starting", "up"} => main = "serving"
    /\ main = "serving" => server # "none" /\ gc # "none"
    /\ main \in {"shutdown", "waitGC"} => cancelled /\ server = "down" /\ gc # "none"
    /\ main \in {"serving", "shutdown"} => drain = "pending"
    /\ main = "waitGC" => drain # "pending"
    /\ main \in {"closing", "exited"} => gc \in {"none", "done"}
    /\ drain = "complete" \/ (main = "closing" /\ drain = "pending") => Connected = {}
    /\ main = "exited" => Connected = {}

\* Inductive.
LifecycleInv ==
    /\ TypeOK /\ GateExcludes /\ StartsInOrder /\ StopsInOrder
    /\ PoolOutlivesCollector /\ DrainedMeansAnswered /\ WorksOnWhole

\* A process that was told to stop, or whose server failed, exits, whatever
\* uploads and collections are under way, if clients go on.
ProcessExits == (cancelled \/ (main = "serving" /\ server = "down")) ~> main = "exited"

\* A start-up ends: it serves, or gives up within startupTimeout although the
\* provider never answers, as long as the database answers the migration.
StartupEnds == main \in Starting ~> main \in {"serving", "exited"}
=============================================================================
