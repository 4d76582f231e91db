--------------------------- MODULE SessionsProofs ---------------------------
(* Proofs about Sessions, for any number of callbacks and requests at once. *)
EXTENDS Sessions, TLAPS

USE SessionsAssumption

\* The empty tables satisfy the invariant.
LEMMA SessionsInit == Init => SessionsInv
<1>. SUFFICES ASSUME Init PROVE SessionsInv
  OBVIOUS
<1>. USE DEF Init, NoLogin, NoSession, NoCallback, NoRequest
<1>1. TypeOK
  BY DEF TypeOK, LoginRows, SessionRows, CallbackRows, RequestRows, MaxExpiry
<1>2. OneSessionPerLogin /\ ConsumedOnce /\ StoredUnused /\ ReadHolds
  BY DEF OneSessionPerLogin, ConsumedOnce, StoredUnused, ReadHolds
<1>. QED
  BY <1>1, <1>2 DEF SessionsInv

\* Signing in: LoadAndDelete lets one callback of a login through.
LEMMA CallbackInv ==
    ASSUME SessionsInv,
           \/ \E l \in Logins : Issue(l)
           \/ \E c \in Callbacks : \/ \E l \in Logins : CallbackArrives(c, l)
                                   \/ Consume(c) \/ Exchange(c) \/ CallbackFails(c)
                                   \/ \E i \in Ids : Create(c, i)
    PROVE  SessionsInv'
<1>. USE DEF SessionsInv
<1>1. ASSUME NEW l \in Logins, Issue(l) PROVE SessionsInv'
  <2>1. TypeOK'
    BY <1>1 DEF Issue, TypeOK, LoginRows, MaxExpiry
  <2>2. OneSessionPerLogin' /\ ReadHolds'
    BY <1>1 DEF Issue, OneSessionPerLogin, ReadHolds, Stored
  <2>3. ConsumedOnce' /\ StoredUnused'
    BY <1>1 DEF Issue, ConsumedOnce, StoredUnused, TypeOK, LoginRows
  <2>. QED
    BY <2>1, <2>2, <2>3
<1>2. ASSUME NEW c \in Callbacks, NEW l \in Logins, CallbackArrives(c, l) PROVE SessionsInv'
  <2>1. TypeOK'
    BY <1>2 DEF CallbackArrives, TypeOK, CallbackRows
  <2>2. OneSessionPerLogin' /\ ReadHolds' /\ StoredUnused'
    BY <1>2 DEF CallbackArrives, OneSessionPerLogin, ReadHolds, Stored, StoredUnused
  <2>3. ConsumedOnce'
    BY <1>2 DEF CallbackArrives, ConsumedOnce, TypeOK, CallbackRows
  <2>. QED
    BY <2>1, <2>2, <2>3
<1>3. ASSUME NEW c \in Callbacks, Consume(c) PROVE SessionsInv'
  <2>. DEFINE l == callback[c].l
  <2>1. l \in Logins /\ login[l].status = "stored"
    BY <1>3 DEF Consume, Stored, TypeOK
  <2>2. /\ session' = session /\ request' = request /\ now' = now
        /\ login'[l].status = "gone"
        /\ \A k \in Logins \ {l} : login'[k] = login[k]
        /\ \A d \in Callbacks \ {c} : callback'[d] = callback[d]
        /\ callback'[c].next \in {"exchange", "create"} => callback'[c].l = l
    BY <1>3, <2>1 DEF Consume, TypeOK, LoginRows, NoCallback
  <2>3. TypeOK'
    BY <1>3, <2>1 DEF Consume, TypeOK, LoginRows, CallbackRows, NoCallback
  <2>4. OneSessionPerLogin' /\ ReadHolds'
    BY <2>2 DEF OneSessionPerLogin, ReadHolds, Stored
  <2>5. StoredUnused'
    BY <2>1, <2>2 DEF StoredUnused
  <2>6. ConsumedOnce'
    <3>1. \A i \in Ids : session[i].from # l
      BY <2>1 DEF StoredUnused
    <3>2. \A d \in Callbacks \ {c} :
             callback[d].next \in {"exchange", "create"} => callback[d].l \in Logins \ {l}
      BY <2>1 DEF ConsumedOnce, TypeOK
    <3>. QED
      BY <2>1, <2>2, <3>1, <3>2 DEF ConsumedOnce
  <2>. QED
    BY <2>3, <2>4, <2>5, <2>6
<1>4. ASSUME NEW c \in Callbacks, Exchange(c) PROVE SessionsInv'
  <2>1. /\ session' = session /\ request' = request /\ now' = now /\ login' = login
        /\ callback[c].next = "exchange" /\ callback'[c].next = "create"
        /\ callback'[c].l = callback[c].l
        /\ \A d \in Callbacks \ {c} : callback'[d] = callback[d]
    BY <1>4 DEF Exchange, TypeOK, CallbackRows
  <2>2. TypeOK'
    BY <1>4 DEF Exchange, TypeOK, CallbackRows
  <2>3. OneSessionPerLogin' /\ ReadHolds' /\ StoredUnused'
    BY <2>1 DEF OneSessionPerLogin, ReadHolds, Stored, StoredUnused
  <2>4. ConsumedOnce'
    BY <2>1 DEF ConsumedOnce
  <2>. QED
    BY <2>2, <2>3, <2>4
<1>5. ASSUME NEW c \in Callbacks, CallbackFails(c) PROVE SessionsInv'
  <2>1. /\ session' = session /\ request' = request /\ now' = now /\ login' = login
        /\ callback'[c].next = "arrive"
        /\ \A d \in Callbacks \ {c} : callback'[d] = callback[d]
    BY <1>5 DEF CallbackFails, TypeOK, NoCallback
  <2>2. TypeOK'
    BY <1>5 DEF CallbackFails, TypeOK, CallbackRows, NoCallback
  <2>3. OneSessionPerLogin' /\ ReadHolds' /\ StoredUnused'
    BY <2>1 DEF OneSessionPerLogin, ReadHolds, Stored, StoredUnused
  <2>4. ConsumedOnce'
    BY <2>1 DEF ConsumedOnce
  <2>. QED
    BY <2>2, <2>3, <2>4
<1>6. ASSUME NEW c \in Callbacks, NEW i \in Ids, Create(c, i) PROVE SessionsInv'
  <2>. DEFINE l == callback[c].l
  <2>1. /\ request' = request /\ now' = now /\ login' = login /\ l \in Logins
        /\ callback[c].next = "create" /\ callback'[c].next = "arrive"
        /\ \A d \in Callbacks \ {c} : callback'[d] = callback[d]
        /\ session'[i].from = l /\ session'[i].status = "stored"
        /\ \A j \in Ids \ {i} : session'[j] = session[j]
        /\ session[i].status = "undrawn"
    BY <1>6 DEF Create, TypeOK, NoCallback
  <2>2. TypeOK'
    BY <1>6 DEF Create, TypeOK, SessionRows, CallbackRows, NoCallback, MaxExpiry
  <2>3. /\ login[l].status = "gone" /\ \A j \in Ids : session[j].from # l
        /\ \A d \in Callbacks \ {c} :
              callback[d].next \in {"exchange", "create"} => callback[d].l # l
    BY <2>1 DEF ConsumedOnce
  <2>4. OneSessionPerLogin'
    BY <2>1, <2>3 DEF OneSessionPerLogin
  <2>5. StoredUnused'
    BY <2>1, <2>3 DEF StoredUnused
  <2>6. ConsumedOnce'
    BY <2>1, <2>3 DEF ConsumedOnce
  <2>7. ReadHolds'
    <3>1. ASSUME NEW r \in Requests, request[r].next = "judge"
          PROVE  request[r].id \in Ids \ {i}
      BY <2>1, <3>1 DEF ReadHolds, TypeOK
    <3>. QED
      BY <2>1, <3>1 DEF ReadHolds, Stored
  <2>. QED
    BY <2>2, <2>4, <2>5, <2>6, <2>7
<1>. QED
  BY <1>1, <1>2, <1>3, <1>4, <1>5, <1>6

\* What the steps of a request write is a request, and which fields they write.
LEMMA RequestTypes ==
    /\ NoRequest \in RequestRows
    /\ \A q \in RequestRows :
          /\ \A i \in Ids : [q EXCEPT !.next = "read", !.id = i] \in RequestRows
          /\ \A e \in 0 .. MaxExpiry :
                /\ [q EXCEPT !.next = "judge", !.expires = e] \in RequestRows
                /\ [q EXCEPT !.next = "judge", !.expires = e].id = q.id
                /\ [q EXCEPT !.next = "judge", !.expires = e].expires = e
          /\ [q EXCEPT !.next = "serve"] \in RequestRows
          /\ [q EXCEPT !.out = TRUE] \in RequestRows
          /\ [q EXCEPT !.out = TRUE].next = q.next
          /\ [q EXCEPT !.out = TRUE].id = q.id
          /\ [q EXCEPT !.out = TRUE].expires = q.expires
          /\ [q EXCEPT !.out = TRUE].out
<1>1. NoRequest \in RequestRows
  BY DEF NoRequest, RequestRows, MaxExpiry
<1>2. ASSUME NEW q \in RequestRows, NEW i \in Ids
      PROVE  [q EXCEPT !.next = "read", !.id = i] \in RequestRows
  BY DEF RequestRows
<1>3. ASSUME NEW q \in RequestRows, NEW e \in 0 .. MaxExpiry
      PROVE  /\ [q EXCEPT !.next = "judge", !.expires = e] \in RequestRows
             /\ [q EXCEPT !.next = "judge", !.expires = e].id = q.id
             /\ [q EXCEPT !.next = "judge", !.expires = e].expires = e
  BY DEF RequestRows
<1>4. ASSUME NEW q \in RequestRows
      PROVE  /\ [q EXCEPT !.next = "serve"] \in RequestRows
             /\ [q EXCEPT !.out = TRUE] \in RequestRows
             /\ [q EXCEPT !.out = TRUE].next = q.next
             /\ [q EXCEPT !.out = TRUE].id = q.id
             /\ [q EXCEPT !.out = TRUE].expires = q.expires
             /\ [q EXCEPT !.out = TRUE].out
  BY DEF RequestRows
<1>. QED
  BY <1>1, <1>2, <1>3, <1>4

\* Requests and logout: sessions keep the login they came from, and what a
\* request has read of one changes only in the ways ReadHolds allows.
LEMMA RequestInv ==
    ASSUME SessionsInv,
           \/ \E r \in Requests : \/ Read(r) \/ Accept(r) \/ Reject(r) \/ Serve(r)
                                  \/ \E i \in Ids : RequestArrives(r, i)
           \/ \E i \in Ids : Logout(i)
    PROVE  SessionsInv'
<1>. USE DEF SessionsInv
<1>a. login' = login /\ callback' = callback /\ now' = now
  BY DEF Read, Accept, Reject, Serve, RequestArrives, Logout
<1>b. \A i \in Ids : session'[i].from = session[i].from /\ session'[i].expires = session[i].expires
  <2>1. ASSUME NEW j \in Ids, session' = [session EXCEPT ![j].status = "gone"]
        PROVE  \A i \in Ids : session'[i].from = session[i].from
                              /\ session'[i].expires = session[i].expires
    BY <2>1 DEF TypeOK, SessionRows
  <2>2. session' = session \/ \E j \in Ids : session' = [session EXCEPT ![j].status = "gone"]
    BY DEF Read, Accept, Reject, Serve, RequestArrives, Logout, TypeOK
  <2>. QED
    BY <2>1, <2>2
<1>c. OneSessionPerLogin' /\ ConsumedOnce' /\ StoredUnused'
  BY <1>a, <1>b DEF OneSessionPerLogin, ConsumedOnce, StoredUnused
<1>1. ASSUME NEW r \in Requests, NEW i \in Ids, RequestArrives(r, i) PROVE TypeOK' /\ ReadHolds'
  <2>1. TypeOK'
    <3>. DEFINE new == [NoRequest EXCEPT !.next = "read", !.id = i]
    <3>1. new \in RequestRows /\ new.id = i
      <4>1. new \in RequestRows
        BY RequestTypes
      <4>2. new.id = i
        BY DEF NoRequest
      <4>. QED
        BY <4>1, <4>2
    <3>2. request' = [request EXCEPT ![r] = new] /\ session' = session
      BY <1>1 DEF RequestArrives
    <3>. HIDE DEF new
    <3>. QED
      BY <1>a, <3>1, <3>2 DEF TypeOK
  <2>2. ReadHolds'
    BY <1>1 DEF RequestArrives, ReadHolds, Stored, TypeOK, NoRequest
  <2>. QED
    BY <2>1, <2>2
<1>2. ASSUME NEW r \in Requests, Read(r) PROVE TypeOK' /\ ReadHolds'
  <2>. DEFINE i == request[r].id
  <2>1. i \in Ids /\ session' = session
    BY <1>2 DEF Read, TypeOK
  <2>2. \/ /\ Stored(session, i)
           /\ request' = [request EXCEPT ![r] =
                             [request[r] EXCEPT !.next = "judge", !.expires = session[i].expires]]
        \/ request' = [request EXCEPT ![r] = NoRequest]
    BY <1>2 DEF Read
  <2>3. request[r] \in RequestRows /\ session[i].expires \in 0 .. MaxExpiry
    BY <2>1 DEF TypeOK, SessionRows
  <2>4. TypeOK'
    <3>. DEFINE new == [request[r] EXCEPT !.next = "judge", !.expires = session[i].expires]
    <3>1. new \in RequestRows /\ new.id = i /\ NoRequest \in RequestRows /\ NoRequest.next = "arrive"
      BY <2>3, RequestTypes DEF NoRequest, RequestRows
    <3>2. request' = [request EXCEPT ![r] = new] \/ request' = [request EXCEPT ![r] = NoRequest]
      BY <2>2
    <3>. HIDE DEF new
    <3>. QED
      BY <1>a, <2>1, <3>1, <3>2 DEF TypeOK
  <2>5. \A q \in Requests \ {r} : request'[q] = request[q]
    BY <2>2 DEF TypeOK
  <2>6. request'[r].next = "judge" =>
           /\ request'[r].id = i /\ request'[r].expires = session[i].expires
           /\ Stored(session, i)
    <3>1. CASE request' = [request EXCEPT ![r] = NoRequest]
      BY <3>1 DEF NoRequest, TypeOK
    <3>2. CASE /\ Stored(session, i)
               /\ request' = [request EXCEPT ![r] =
                     [request[r] EXCEPT !.next = "judge", !.expires = session[i].expires]]
      <4>. DEFINE e == session[i].expires
                  new == [request[r] EXCEPT !.next = "judge", !.expires = e]
      <4>1. request'[r] = new
        BY <3>2 DEF TypeOK
      <4>2. new.id = i /\ new.expires = e
        BY <2>3, RequestTypes
      <4>. HIDE DEF new
      <4>. QED
        BY <3>2, <4>1, <4>2
    <3>. QED
      BY <2>2, <3>1, <3>2
  <2>7. ReadHolds'
    BY <1>a, <2>1, <2>5, <2>6 DEF ReadHolds, Stored
  <2>. QED
    BY <2>4, <2>7
<1>3. ASSUME NEW r \in Requests, Accept(r) \/ Serve(r) PROVE TypeOK' /\ ReadHolds'
  <2>1. TypeOK'
    <3>. DEFINE new == [request[r] EXCEPT !.next = "serve"]
    <3>0. request[r] \in RequestRows
      BY DEF TypeOK
    <3>1. /\ new \in RequestRows /\ new.id = request[r].id
          /\ NoRequest \in RequestRows /\ NoRequest.next = "arrive"
      BY <3>0, RequestTypes DEF NoRequest, RequestRows
    <3>2. /\ request' = [request EXCEPT ![r] = new] \/ request' = [request EXCEPT ![r] = NoRequest]
          /\ session' = session /\ request[r].next # "arrive"
      BY <1>3 DEF Accept, Serve
    <3>. HIDE DEF new
    <3>. QED
      BY <1>a, <3>1, <3>2 DEF TypeOK
  <2>2. /\ session' = session /\ request'[r].next # "judge"
        /\ \A q \in Requests \ {r} : request'[q] = request[q]
    BY <1>3 DEF Accept, Serve, TypeOK, RequestRows, NoRequest
  <2>3. ReadHolds'
    BY <1>a, <2>2 DEF ReadHolds, Stored
  <2>. QED
    BY <2>1, <2>3
<1>4. ASSUME NEW r \in Requests, Reject(r) PROVE TypeOK' /\ ReadHolds'
  <2>. DEFINE i == request[r].id
  <2>1. TypeOK'
    <3>1. NoRequest \in RequestRows /\ NoRequest.next = "arrive"
      BY RequestTypes DEF NoRequest
    <3>2. request' = [request EXCEPT ![r] = NoRequest] /\ i \in Ids
      BY <1>4 DEF Reject, TypeOK
    <3>3. session' \in [Ids -> SessionRows]
      BY <1>4, <3>2 DEF Reject, TypeOK, SessionRows
    <3>. QED
      BY <1>a, <3>1, <3>2, <3>3 DEF TypeOK
  <2>2. /\ i \in Ids /\ now > session[i].expires /\ session'[i].status = "gone"
        /\ \A j \in Ids \ {i} : session'[j] = session[j]
        /\ request'[r].next # "judge"
        /\ \A q \in Requests \ {r} : request'[q] = request[q]
    BY <1>4 DEF Reject, ReadHolds, TypeOK, SessionRows, NoRequest
  <2>3. \A q \in Requests : request[q].next = "judge" => request[q].id \in Ids
    BY DEF TypeOK
  <2>4. ReadHolds'
    BY <1>a, <1>b, <2>2, <2>3 DEF ReadHolds, Stored
  <2>. QED
    BY <2>1, <2>4
<1>5. ASSUME NEW i \in Ids, Logout(i) PROVE TypeOK' /\ ReadHolds'
  <2>1. ASSUME NEW r \in Requests
        PROVE  /\ request'[r] \in RequestRows /\ request'[r].next = request[r].next
               /\ request'[r].id = request[r].id /\ request'[r].expires = request[r].expires
               /\ request[r].out => request'[r].out
               /\ request[r].id = i => request'[r].out
    <3>1. request[r] \in RequestRows
      BY DEF TypeOK
    <3>2. request'[r] = IF request[r].id = i THEN [request[r] EXCEPT !.out = TRUE] ELSE request[r]
      BY <1>5 DEF Logout
    <3>3. CASE request[r].id = i
      <4>1. request'[r] = [request[r] EXCEPT !.out = TRUE]
        BY <3>2, <3>3
      <4>. QED
        BY <3>1, <3>3, <4>1, RequestTypes
    <3>4. CASE request[r].id # i
      BY <3>1, <3>2, <3>4
    <3>. QED
      BY <3>3, <3>4
  <2>2. /\ session' \in [Ids -> SessionRows] /\ session'[i].status = "gone"
        /\ \A j \in Ids \ {i} : session'[j] = session[j]
    BY <1>5 DEF Logout, TypeOK, SessionRows
  <2>3. request' \in [Requests -> RequestRows]
    BY <1>5, <2>1 DEF Logout
  <2>4. TypeOK'
    BY <1>a, <2>1, <2>2, <2>3 DEF TypeOK
  <2>5. \A r \in Requests : request[r].next = "judge" => request[r].id \in Ids
    BY DEF TypeOK
  <2>6. ReadHolds'
    BY <1>a, <1>b, <2>1, <2>2, <2>5 DEF ReadHolds, Stored
  <2>. QED
    BY <2>4, <2>6
<1>. QED
  BY <1>c, <1>1, <1>2, <1>3, <1>4, <1>5

\* A restart keeps which login a session came from.
LEMMA RestartInv ==
    ASSUME SessionsInv, Restart
    PROVE  SessionsInv'
<1>. USE DEF SessionsInv, Restart, Lost, Stored
<1>1. TypeOK'
  <2>1. login' \in [Logins -> LoginRows] /\ session' \in [Ids -> SessionRows]
    BY DEF TypeOK, LoginRows, SessionRows
  <2>2. NoCallback \in CallbackRows /\ NoCallback.next = "arrive"
    BY DEF NoCallback, CallbackRows
  <2>3. NoRequest \in RequestRows /\ NoRequest.next = "arrive"
    BY RequestTypes DEF NoRequest
  <2>. QED
    BY <2>1, <2>2, <2>3 DEF TypeOK
<1>2. \A i \in Ids : session'[i].from = session[i].from
  BY DEF TypeOK, SessionRows
<1>3. \A l \in Logins : login'[l].status # "gone" => login[l].status # "gone"
  BY DEF TypeOK, LoginRows
<1>4. OneSessionPerLogin' /\ StoredUnused'
  BY <1>2, <1>3 DEF OneSessionPerLogin, StoredUnused
<1>5. ConsumedOnce' /\ ReadHolds'
  BY DEF ConsumedOnce, ReadHolds, NoCallback, NoRequest
<1>. QED
  BY <1>1, <1>4, <1>5

\* No step leaves the invariant.
LEMMA SessionsNext ==
    ASSUME SessionsInv, [Next]_vars
    PROVE  SessionsInv'
<1>1. CASE Tick
  BY <1>1 DEF Tick, SessionsInv, TypeOK, OneSessionPerLogin, ConsumedOnce, StoredUnused,
              ReadHolds, Stored, SessionRows
<1>2. CASE UNCHANGED vars
  BY <1>2 DEF vars, SessionsInv, TypeOK, OneSessionPerLogin, ConsumedOnce, StoredUnused,
              ReadHolds, Stored
<1>. QED
  BY <1>1, <1>2, CallbackInv, RequestInv, RestartInv DEF Next

-----------------------------------------------------------------------------

\* Callbacks sent twice, requests and logouts at once, and restarts keep the
\* invariant.
THEOREM SessionsTheorem == Spec => []SessionsInv
<1>1. SessionsInv /\ [Next]_vars => SessionsInv'
  BY SessionsNext
<1>. QED
  BY <1>1, SessionsInit, PTL DEF Spec

\* One login, one session: the replayed callback finds its state gone.
THEOREM OneSessionTheorem == Spec => []OneSessionPerLogin
<1>1. SessionsInv => OneSessionPerLogin
  BY DEF SessionsInv
<1>. QED
  BY <1>1, SessionsTheorem, PTL

\* Although Valid judges a session after it has released the lock, a request
\* is served only with a session that was good when the request arrived.
THEOREM ServedTheorem == Spec => ServedSignedIn
<1>. DEFINE Judged ==
         \A r \in Requests :
            request[r].next = "judge" /\ request'[r].next = "serve" =>
               LET i == request[r].id
               IN  now <= session[i].expires /\ (Stored(session, i) \/ request[r].out)
<1>1. ASSUME SessionsInv, [Next]_vars PROVE Judged
  <2>. SUFFICES ASSUME NEW r \in Requests, request[r].next = "judge",
                       request'[r].next = "serve"
                PROVE  /\ now <= session[request[r].id].expires
                       /\ Stored(session, request[r].id) \/ request[r].out
    OBVIOUS
  <2>1. PICK q \in Requests : Accept(q)
    <3>1. ~Restart
      BY <1>1 DEF Restart, NoRequest, SessionsInv, TypeOK
    <3>2. \A i \in Ids : ~Logout(i)
      BY <1>1 DEF Logout, SessionsInv, TypeOK, RequestRows
    <3>3. \A q \in Requests : ~Read(q) /\ ~Reject(q) /\ ~Serve(q)
      BY <1>1 DEF Read, Reject, Serve, NoRequest, SessionsInv, TypeOK, RequestRows
    <3>4. \A q \in Requests, i \in Ids : ~RequestArrives(q, i)
      BY <1>1 DEF RequestArrives, NoRequest, SessionsInv, TypeOK
    <3>. QED
      BY <1>1, <3>1, <3>2, <3>3, <3>4
         DEF Next, vars, Issue, CallbackArrives, Consume, Exchange, CallbackFails, Create, Tick
  <2>2. q = r
    BY <1>1, <2>1 DEF Accept, SessionsInv, TypeOK
  <2>3. now <= request[r].expires
    BY <2>1, <2>2 DEF Accept
  <2>4. /\ request[r].expires = session[request[r].id].expires
        /\ \/ Stored(session, request[r].id) \/ request[r].out
           \/ now > session[request[r].id].expires
    BY <1>1 DEF SessionsInv, ReadHolds
  <2>5. now \in Nat /\ request[r].expires \in Nat
    BY <1>1 DEF SessionsInv, TypeOK, RequestRows, MaxExpiry
  <2>. QED
    BY <2>3, <2>4, <2>5
<1>2. SessionsInv /\ [Next]_vars => [Judged]_vars
  BY <1>1
<1>. QED
  BY <1>2, SessionsTheorem, PTL DEF Spec, ServedSignedIn

\* No step stores a session again that was given up: callbacks store drawn
\* identifiers only once, and a late check of Valid can only delete.
THEOREM GoneTheorem == Spec => GoneForGood
<1>. DEFINE Stays == \A i \in Ids : session[i].status = "gone" => session'[i].status = "gone"
<1>1. ASSUME SessionsInv, [Next]_vars PROVE Stays
  <2>. SUFFICES ASSUME NEW i \in Ids, session[i].status = "gone"
                PROVE  session'[i].status = "gone"
    OBVIOUS
  <2>0. session \in [Ids -> SessionRows]
    BY <1>1 DEF SessionsInv, TypeOK
  <2>1. CASE session' = session
    BY <2>1
  <2>2. ASSUME NEW c \in Callbacks, NEW j \in Ids, Create(c, j)
        PROVE  session'[i].status = "gone"
    BY <2>0, <2>2 DEF Create
  <2>3. ASSUME NEW r \in Requests, Reject(r) PROVE session'[i].status = "gone"
    <3>. DEFINE id == request[r].id
    <3>1. session' = [session EXCEPT ![id].status = "gone"]
      BY <2>3 DEF Reject
    <3>2. i # id => session'[i] = session[i]
      BY <2>0, <3>1
    <3>3. i = id => session'[i].status = "gone"
      BY <2>0, <3>1 DEF SessionRows
    <3>. QED
      BY <3>2, <3>3
  <2>4. ASSUME NEW j \in Ids, Logout(j) PROVE session'[i].status = "gone"
    BY <2>0, <2>4 DEF Logout, SessionRows
  <2>5. CASE Restart
    BY <2>0, <2>5 DEF Restart, Lost, Stored, SessionRows
  <2>. QED
    BY <1>1, <2>1, <2>2, <2>3, <2>4, <2>5
       DEF Next, vars, Issue, CallbackArrives, Consume, Exchange, CallbackFails, RequestArrives,
           Read, Accept, Serve, Tick
<1>2. SessionsInv /\ [Next]_vars => [Stays]_vars
  BY <1>1
<1>. QED
  BY <1>2, SessionsTheorem, PTL DEF Spec, GoneForGood
=============================================================================
