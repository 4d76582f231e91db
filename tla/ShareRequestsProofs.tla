------------------------ MODULE ShareRequestsProofs ------------------------
(***************************************************************************)
(* Proofs about ShareRequests, for any number of requests and links.       *)
(***************************************************************************)
EXTENDS ShareRequests, SharesProofs

\* After its creation a link is never unused again, and never comes back.
LEMMA GoesAges ==
    ASSUME TypeOK, Goes, NEW s \in Shares
    PROVE  /\ share[s].status # "unused" => share'[s].status # "unused"
           /\ share'[s].status = "live" => Live(s)
<1>1. ASSUME NEW r \in Shares, NEW pw, NEW e, NEW l, Update(r, pw, e, l)
      PROVE  share'[s].status = share[s].status
  <2>1. Patched(r, pw, e, l).status = share[r].status
    BY DEF Patched
  <2>. QED
    BY <1>1, <2>1 DEF Update, TypeOK
<1>2. ASSUME NEW r \in Shares, Delete(r)
      PROVE  share'[s].status = IF s = r THEN "gone" ELSE share[s].status
  <2>. DEFINE row == [NoRow EXCEPT !.status = "gone", !.count = share[r].count]
  <2>1. row.status = "gone"
    BY DEF NoRow
  <2>2. share' = [share EXCEPT ![r] = row]
    BY <1>2 DEF Delete
  <2>. HIDE DEF row
  <2>. QED
    BY <2>1, <2>2 DEF TypeOK
<1>3. ASSUME NEW d \in Downloads, Counted(d)
      PROVE  share'[s].status = share[s].status
  BY <1>3, RowsTyped DEF Counted, TypeOK, Row
<1>. QED
  BY <1>1, <1>2, <1>3
     DEF Goes, Live, EntryChanges, Access, Authorize, OpenBlob, AskConsume, LockShare,
         Consume, ConsumeLost, Refuse, Tick

-----------------------------------------------------------------------------

\* The inductive invariant of the requests.
MadeInv == RequestInv /\ OneLinkPerRequest

LEMMA StartTyped == AtStart \in Requested /\ AtStart.next = "arrive" /\ AtStart.left = 3
                    /\ AtStart.made = {}
BY DEF AtStart, Requested, Expiries, Limits

LEMMA DoneTyped ==
    ASSUME NEW r \in Requested
    PROVE  Done(r) \in Requested /\ Done(r).next = "done" /\ Done(r).made = r.made
<1>1. r.made \in SUBSET Shares
  BY DEF Requested
<1>2. PICK a \in Requested : a = AtStart
  BY StartTyped
<1>3. Done(r) = [a EXCEPT !.next = "done", !.left = 0, !.made = r.made]
  BY <1>2 DEF Done
<1>. DEFINE b == [a EXCEPT !.next = "done", !.left = 0, !.made = r.made]
<1>4. 0 \in 0 .. 3
  OBVIOUS
<1>5. b \in Requested
  BY <1>1, <1>4 DEF Requested
<1>6. b.next = "done" /\ b.made = r.made
  BY DEF Requested
<1>. HIDE DEF b
<1>. QED
  BY <1>3, <1>5, <1>6 DEF b

\* After an error the request holds the links it had, and inserts again only
\* while it has a try left.
LEMMA TriedTyped ==
    ASSUME NEW r \in Requested, r.next = "insert", r.left # 0
    PROVE  /\ Tried(r) \in Requested /\ Tried(r).made = r.made
           /\ Tried(r).next \in {"insert", "done"}
           /\ Tried(r).next = "insert" => Tried(r).left # 0
<1>1. CASE r.left = 1
  BY <1>1, DoneTyped DEF Tried
<1>2. CASE r.left # 1
  BY <1>2 DEF Tried, Requested
<1>. QED
  BY <1>1, <1>2

\* A step that leaves the table alone and keeps what request c has made.
LEMMA SameMade ==
    ASSUME MadeInv, NEW c \in Creates, NEW r \in Requested, req' = [req EXCEPT ![c] = r],
           r.made = req[c].made, r.next \in {"arrive", "insert"} => r.left # 0, share' = share
    PROVE  MadeInv'
<1>1. /\ req' \in [Creates -> Requested]
      /\ \A d \in Creates : req'[d].made = req[d].made
      /\ \A d \in Creates : req'[d].next \in {"arrive", "insert"} => req'[d].left # 0
  BY DEF MadeInv, RequestInv
<1>. QED
  BY <1>1 DEF MadeInv, RequestInv, OneLinkPerRequest, Live

\* A step that inserts: what the request has made so far is not there any more.
LEMMA InsertedMade ==
    ASSUME MadeInv, TypeOK, NEW c \in Creates, NEW s \in Shares, NEW x \in EntryStates,
           Inserts(c, s, x), NEW r \in Requested, req' = [req EXCEPT ![c] = r],
           r.made = req[c].made \cup {s}, r.next \in {"arrive", "insert"} => r.left # 0
    PROVE  MadeInv'
<1>1. /\ share[s].status = "unused" /\ \A t \in Shares \ {s} : share'[t] = share[t]
      /\ share'[s].status = "live" /\ \A t \in req[c].made : ~Live(t)
  BY DEF Inserts, Create, TypeOK
<1>2. \A d \in Creates : req[d].made \subseteq Shares /\ s \notin req[d].made
  BY <1>1 DEF MadeInv, RequestInv, Requested
<1>3. /\ req' \in [Creates -> Requested]
      /\ \A d \in Creates : req'[d].next \in {"arrive", "insert"} => req'[d].left # 0
      /\ \A d \in Creates \ {c} : req'[d].made = req[d].made
      /\ req'[c].made = req[c].made \cup {s}
  BY DEF MadeInv, RequestInv
<1>4. \A d \in Creates : \A t \in req'[d].made : share'[t].status # "unused"
  BY <1>1, <1>2, <1>3 DEF MadeInv, RequestInv
<1>5. OneLinkPerRequest'
  <2>1. \A t \in Shares \ {s} : Live(t)' => Live(t)
    BY <1>1 DEF Live
  <2>2. \A t, u \in req'[c].made : Live(t)' /\ Live(u)' => t = u
    BY <1>1, <1>2, <1>3, <2>1
  <2>3. \A d \in Creates \ {c} : \A t, u \in req'[d].made : Live(t)' /\ Live(u)' => t = u
    BY <1>2, <1>3, <2>1 DEF MadeInv, OneLinkPerRequest
  <2>. QED
    BY <2>2, <2>3 DEF OneLinkPerRequest
<1>. QED
  BY <1>3, <1>4, <1>5 DEF MadeInv, RequestInv

LEMMA RequestInitInv == RequestInit => MadeInv
BY StartTyped DEF RequestInit, MadeInv, RequestInv, OneLinkPerRequest

LEMMA RequestNextInv ==
    ASSUME MadeInv, TypeOK, [RequestNext]_requestVars
    PROVE  MadeInv'
<1>a. ASSUME NEW c \in Creates
      PROVE  req[c] \in Requested /\ (req[c].next = "insert" => req[c].left # 0)
  BY DEF MadeInv, RequestInv
<1>1. ASSUME NEW c \in Creates, NEW pw \in Passwords \cup {NoPassword}, NEW e \in Expiries,
             NEW l \in Limits, Arrive(c, pw, e, l)
      PROVE  MadeInv'
  <2>. DEFINE r == [req[c] EXCEPT !.next = "insert", !.password = pw, !.expires = e, !.limit = l]
  <2>1. req' = [req EXCEPT ![c] = r] /\ share' = share /\ req[c].next = "arrive"
    BY <1>1 DEF Arrive, vars
  <2>2. r \in Requested /\ r.made = req[c].made /\ r.left = req[c].left
    BY <1>a DEF Requested
  <2>3. req[c].left # 0
    BY <2>1 DEF MadeInv, RequestInv
  <2>. HIDE DEF r
  <2>. QED
    BY <2>1, <2>2, <2>3, SameMade
<1>2. ASSUME NEW c \in Creates, NEW s \in Shares, NEW x \in EntryStates, Insert(c, s, x)
      PROVE  MadeInv'
  <2>. DEFINE r == [req[c] EXCEPT !.next = "read", !.made = @ \cup {s}]
  <2>1. req' = [req EXCEPT ![c] = r] /\ Inserts(c, s, x)
    BY <1>2 DEF Insert
  <2>2. r \in Requested /\ r.made = req[c].made \cup {s} /\ r.next = "read"
    BY <1>a DEF Requested
  <2>. HIDE DEF r
  <2>. QED
    BY <2>1, <2>2, InsertedMade
<1>3. ASSUME NEW c \in Creates, NEW s \in Shares, NEW x \in EntryStates, InsertLost(c, s, x)
      PROVE  MadeInv'
  <2>. DEFINE q == [req[c] EXCEPT !.made = @ \cup {s}]
  <2>1. req' = [req EXCEPT ![c] = Tried(q)] /\ Inserts(c, s, x) /\ req[c].next = "insert"
    BY <1>3 DEF InsertLost
  <2>2. /\ q \in Requested /\ q.made = req[c].made \cup {s}
        /\ q.next = req[c].next /\ q.left = req[c].left
    BY <1>a DEF Requested
  <2>. HIDE DEF q
  <2>3. /\ Tried(q) \in Requested /\ Tried(q).made = q.made
        /\ Tried(q).next \in {"arrive", "insert"} => Tried(q).left # 0
    BY <1>a, <2>1, <2>2, TriedTyped
  <2>. QED
    BY <2>1, <2>2, <2>3, InsertedMade
<1>4. ASSUME NEW c \in Creates, InsertFails(c) PROVE MadeInv'
  <2>1. req' = [req EXCEPT ![c] = Tried(req[c])] /\ share' = share /\ req[c].next = "insert"
    BY <1>4 DEF InsertFails, vars
  <2>2. /\ Tried(req[c]) \in Requested /\ Tried(req[c]).made = req[c].made
        /\ Tried(req[c]).next \in {"arrive", "insert"} => Tried(req[c]).left # 0
    BY <1>a, <2>1, TriedTyped
  <2>. QED
    BY <2>1, <2>2, SameMade
<1>5. ASSUME NEW c \in Creates, Read(c) PROVE MadeInv'
  <2>1. req' = [req EXCEPT ![c] = Done(req[c])] /\ share' = share
    BY <1>5 DEF Read, vars
  <2>. QED
    BY <1>a, <2>1, DoneTyped, SameMade
<1>6. CASE Goes /\ UNCHANGED req
  <2>1. \A c \in Creates : req[c].made \subseteq Shares
    BY <1>a DEF Requested
  <2>. QED
    BY <1>6, <2>1, GoesAges DEF MadeInv, RequestInv, OneLinkPerRequest, Live
<1>7. CASE UNCHANGED requestVars
  BY <1>7 DEF requestVars, vars, MadeInv, RequestInv, OneLinkPerRequest, Live
<1>. QED
  BY <1>1, <1>2, <1>3, <1>4, <1>5, <1>6, <1>7 DEF RequestNext

\* A step of a request is a step of Shares.
LEMMA RequestStep ==
    ASSUME RequestInv, [RequestNext]_requestVars
    PROVE  [Next]_vars
<1>1. ASSUME NEW c \in Creates, NEW s \in Shares, NEW x \in EntryStates, Inserts(c, s, x)
      PROVE  Next
  <2>1. req[c] \in Requested
    BY DEF RequestInv
  <2>2. /\ req[c].password \in Passwords \cup {NoPassword}
        /\ req[c].expires \in Expiries /\ req[c].limit \in Limits
    BY <2>1 DEF Requested
  <2>. QED
    BY <1>1, <2>2 DEF Inserts, Next
<1>. QED
  BY <1>1 DEF RequestNext, requestVars, Arrive, Insert, InsertLost, InsertFails, Read, Next

LEMMA RequestsInv == RequestSpec => [](MadeInv /\ SharesInv)
<1>1. RequestInit => MadeInv /\ SharesInv
  BY RequestInitInv, SharesInit DEF RequestInit
<1>2. ASSUME MadeInv, SharesInv, [RequestNext]_requestVars
      PROVE  MadeInv' /\ SharesInv'
  BY <1>2, RequestNextInv, RequestStep, SharesNext DEF MadeInv, SharesInv
<1>3. MadeInv /\ SharesInv /\ [RequestNext]_requestVars => (MadeInv /\ SharesInv)'
  BY <1>2
<1>. QED
  BY <1>1, <1>3, PTL DEF RequestSpec

\* A request that creates a link creates it as Shares does, at one of its
\* tries: what is proved of Shares holds with the retry loop.
THEOREM RequestsRefineShares == RequestSpec => Spec
<1>1. RequestInit => Init
  BY DEF RequestInit
<1>2. MadeInv /\ [RequestNext]_requestVars => [Next]_vars
  BY RequestStep DEF MadeInv
<1>. QED
  BY <1>1, <1>2, RequestsInv, PTL DEF RequestSpec, Spec

\* However many answers are lost, a request leaves at most one usable link.
THEOREM OneLinkTheorem == RequestSpec => []OneLinkPerRequest
<1>1. MadeInv => OneLinkPerRequest
  BY DEF MadeInv
<1>. QED
  BY <1>1, RequestsInv, PTL
=============================================================================
