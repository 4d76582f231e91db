------------------------------ MODULE Sessions ------------------------------
(***************************************************************************)
(* Signing in and out: the login states of internal/auth/oidc.go, the      *)
(* sessions of internal/auth/session.go and the requests that present      *)
(* them (middleware.go).  Both tables live in memory only.                 *)
(*                                                                         *)
(* A callback consumes its login state, asks the identity provider, and    *)
(* only then creates the session; a request's session is read under the    *)
(* lock and judged, and perhaps deleted, after it.                         *)
(***************************************************************************)
EXTENDS Naturals

CONSTANTS
    Logins,         \* states LoginURL draws
    Ids,            \* session identifiers Create draws
    Callbacks,      \* callback requests in flight at one time
    Requests,       \* authenticated requests in flight at one time
    LoginLife,      \* oidcStateLifetime
    SessionLife,    \* sessionLifetime
    MaxTime,        \* bound: the clock
    None            \* no login, no session

ASSUME SessionsAssumption ==
    /\ LoginLife \in Nat /\ SessionLife \in Nat /\ MaxTime \in Nat
    /\ None \notin Logins \cup Ids

VARIABLES
    now,        \* the clock
    login,      \* stateStore: status and ExpiresAt of each state
    session,    \* Sessions: status and expiry of each identifier, its login
    callback,   \* each callback: the next step, its login
    request     \* each request: the next step, its session, the expiry it
                \* read, and whether the session was logged out meanwhile

vars == <<now, login, session, callback, request>>

NoLogin    == [status |-> "undrawn", expires |-> 0]
NoSession  == [status |-> "undrawn", expires |-> 0, from |-> None]
NoCallback == [next |-> "arrive", l |-> None]
NoRequest  == [next |-> "arrive", id |-> None, expires |-> 0, out |-> FALSE]

Init ==
    /\ now = 0
    /\ login = [l \in Logins |-> NoLogin]
    /\ session = [i \in Ids |-> NoSession]
    /\ callback = [c \in Callbacks |-> NoCallback]
    /\ request = [r \in Requests |-> NoRequest]

Stored(table, x) == table[x].status = "stored"

-----------------------------------------------------------------------------
(* Signing in *)

\* LoginURL: issue draws a state
Issue(l) ==
    /\ login[l].status = "undrawn"
    /\ login' = [login EXCEPT ![l] = [status |-> "stored", expires |-> now + LoginLife]]
    /\ UNCHANGED <<now, session, callback, request>>

\* The browser comes back; it may come twice
CallbackArrives(c, l) ==
    /\ callback[c].next = "arrive"
    /\ login[l].status # "undrawn"
    /\ callback' = [callback EXCEPT ![c] = [next |-> "consume", l |-> l]]
    /\ UNCHANGED <<now, login, session, request>>

\* Mutant: the state is loaded and stays
ConsumeKeeps(c) ==
    LET l == callback[c].l
    IN  /\ callback[c].next = "consume"
        /\ Stored(login, l)
        /\ callback' = [callback EXCEPT ![c] = IF now > login[l].expires THEN NoCallback
                                               ELSE [next |-> "exchange", l |-> l]]
        /\ UNCHANGED <<now, login, session, request>>

\* LoadAndDelete, then the state's expiry
Consume(c) ==
    LET l == callback[c].l
    IN  /\ callback[c].next = "consume"
        /\ Stored(login, l)
        /\ login' = [login EXCEPT ![l].status = "gone"]
        /\ callback' = [callback EXCEPT ![c] = IF now > login[l].expires THEN NoCallback
                                               ELSE [next |-> "exchange", l |-> l]]
        /\ UNCHANGED <<now, session, request>>

\* The provider redeems the code, the token verifies, the nonce is the state's
Exchange(c) ==
    /\ callback[c].next = "exchange"
    /\ callback' = [callback EXCEPT ![c].next = "create"]
    /\ UNCHANGED <<now, login, session, request>>

Create(c, i) ==
    /\ callback[c].next = "create"
    /\ session[i].status = "undrawn"
    /\ session' = [session EXCEPT ![i] = [status |-> "stored", expires |-> now + SessionLife,
                                          from |-> callback[c].l]]
    /\ callback' = [callback EXCEPT ![c] = NoCallback]
    /\ UNCHANGED <<now, login, request>>

\* The state is unknown, the provider refuses, or no session can be drawn
CallbackFails(c) ==
    /\ callback[c].next \in {"consume", "exchange", "create"}
    /\ callback' = [callback EXCEPT ![c] = NoCallback]
    /\ UNCHANGED <<now, login, session, request>>

-----------------------------------------------------------------------------
(* Requests and signing out *)

RequestArrives(r, i) ==
    /\ request[r].next = "arrive"
    /\ session[i].status # "undrawn"
    /\ request' = [request EXCEPT ![r] = [NoRequest EXCEPT !.next = "read", !.id = i]]
    /\ UNCHANGED <<now, login, session, callback>>

\* Valid: under the read lock
Read(r) ==
    LET i == request[r].id
    IN  /\ request[r].next = "read"
        /\ request' = [request EXCEPT ![r] = IF Stored(session, i)
                           THEN [@ EXCEPT !.next = "judge", !.expires = session[i].expires]
                           ELSE NoRequest]
        /\ UNCHANGED <<now, login, session, callback>>

\* Mutant: the expiry is not looked at
AcceptAnyway(r) ==
    /\ request[r].next = "judge"
    /\ request' = [request EXCEPT ![r].next = "serve"]
    /\ UNCHANGED <<now, login, session, callback>>

\* Mutant: a request renews its session
AcceptRenews(r) ==
    /\ request[r].next = "judge"
    /\ now <= request[r].expires
    /\ session' = [session EXCEPT ![request[r].id] =
                      [@ EXCEPT !.status = "stored", !.expires = now + SessionLife]]
    /\ request' = [request EXCEPT ![r].next = "serve"]
    /\ UNCHANGED <<now, login, callback>>

\* Valid: after the lock; an expired session is deleted
Accept(r) ==
    /\ request[r].next = "judge"
    /\ now <= request[r].expires
    /\ request' = [request EXCEPT ![r].next = "serve"]
    /\ UNCHANGED <<now, login, session, callback>>

Reject(r) ==
    /\ request[r].next = "judge"
    /\ now > request[r].expires
    /\ session' = [session EXCEPT ![request[r].id].status = "gone"]
    /\ request' = [request EXCEPT ![r] = NoRequest]
    /\ UNCHANGED <<now, login, callback>>

Serve(r) ==
    /\ request[r].next = "serve"
    /\ request' = [request EXCEPT ![r] = NoRequest]
    /\ UNCHANGED <<now, login, session, callback>>

\* Logout deletes the session the cookie names
Logout(i) ==
    /\ Stored(session, i)
    /\ session' = [session EXCEPT ![i].status = "gone"]
    /\ request' = [r \in Requests |-> IF request[r].id = i
                                      THEN [request[r] EXCEPT !.out = TRUE] ELSE request[r]]
    /\ UNCHANGED <<now, login, callback>>

-----------------------------------------------------------------------------

Tick ==
    /\ now < MaxTime
    /\ now' = now + 1
    /\ UNCHANGED <<login, session, callback, request>>

\* The process restarts: nothing is kept
Lost(table) ==
    [x \in DOMAIN table |-> IF Stored(table, x) THEN [table[x] EXCEPT !.status = "gone"]
                            ELSE table[x]]

Restart ==
    /\ login' = Lost(login) /\ session' = Lost(session)
    /\ callback' = [c \in Callbacks |-> NoCallback]
    /\ request' = [r \in Requests |-> NoRequest]
    /\ UNCHANGED now

Next ==
    \/ \E l \in Logins : Issue(l) \/ \E c \in Callbacks : CallbackArrives(c, l)
    \/ \E c \in Callbacks : \/ Consume(c) \/ Exchange(c) \/ CallbackFails(c)
                            \/ \E i \in Ids : Create(c, i)
    \/ \E r \in Requests : \/ Read(r) \/ Accept(r) \/ Reject(r) \/ Serve(r)
                           \/ \E i \in Ids : RequestArrives(r, i)
    \/ \E i \in Ids : Logout(i)
    \/ Tick \/ Restart

Spec == Init /\ [][Next]_vars

-----------------------------------------------------------------------------
(* Correctness *)

MaxExpiry == MaxTime + LoginLife + SessionLife

LoginRows == [status : {"undrawn", "stored", "gone"}, expires : 0 .. MaxExpiry]

SessionRows == [status : {"undrawn", "stored", "gone"}, expires : 0 .. MaxExpiry,
                from : Logins \cup {None}]

CallbackRows == [next : {"arrive", "consume", "exchange", "create"}, l : Logins \cup {None}]

RequestRows == [next : {"arrive", "read", "judge", "serve"}, id : Ids \cup {None},
                expires : 0 .. MaxExpiry, out : BOOLEAN]

TypeOK ==
    /\ now \in 0 .. MaxTime
    /\ login \in [Logins -> LoginRows]
    /\ session \in [Ids -> SessionRows]
    /\ callback \in [Callbacks -> CallbackRows]
    /\ request \in [Requests -> RequestRows]
    /\ \A c \in Callbacks : callback[c].next # "arrive" => callback[c].l \in Logins
    /\ \A r \in Requests : request[r].next # "arrive" => request[r].id \in Ids

\* A login ends in one session at most, however often and however concurrently
\* its callback is sent (mock_test.go: "mock authentication accepted a replayed
\* state" is an error).
OneSessionPerLogin ==
    \A i, j \in Ids : session[i].from # None /\ session[i].from = session[j].from => i = j

\* A callback past consume is the only one of its login, and no session of
\* that login exists yet.
ConsumedOnce ==
    \A c \in Callbacks :
        callback[c].next \in {"exchange", "create"} =>
            LET l == callback[c].l
            IN  /\ login[l].status = "gone"
                /\ \A i \in Ids : session[i].from # l
                /\ \A d \in Callbacks \ {c} :
                      callback[d].next \in {"exchange", "create"} => callback[d].l # l

\* A state that is still stored has led to no session.
StoredUnused ==
    \A l \in Logins : login[l].status # "gone" => \A i \in Ids : session[i].from # l

\* What a request read of its session is still true of it, or the session was
\* logged out after the request arrived, or is expired by now.
ReadHolds ==
    \A r \in Requests :
        request[r].next = "judge" =>
            LET i == request[r].id
            IN  /\ session[i].status # "undrawn" /\ request[r].expires = session[i].expires
                /\ Stored(session, i) \/ request[r].out \/ now > session[i].expires

SessionsInv == TypeOK /\ OneSessionPerLogin /\ ConsumedOnce /\ StoredUnused /\ ReadHolds

\* A request is served only with a session that has not expired and that was
\* not logged out before the request arrived.
ServedSignedIn ==
    [][\A r \in Requests :
          request[r].next = "judge" /\ request'[r].next = "serve" =>
              LET i == request[r].id
              IN  now <= session[i].expires /\ (Stored(session, i) \/ request[r].out)]_vars

\* A session that was given up, by logout, expiry or restart, is never stored
\* again: no callback and no late check brings it back.
GoneForGood ==
    [][\A i \in Ids : session[i].status = "gone" => session'[i].status = "gone"]_vars
=============================================================================
