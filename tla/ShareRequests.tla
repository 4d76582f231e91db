--------------------------- MODULE ShareRequests ---------------------------
(***************************************************************************)
(* How a link comes to be: Service.Create (internal/shares/service.go).    *)
(* The request is checked, then its row is inserted under a new token, up  *)
(* to three times, as long as the database answers with an error, and at   *)
(* last read back by another query.  The answer to a commit may be lost:   *)
(* the row is there and the loop goes on.  gorm has put the key of the     *)
(* first row it inserted into the struct, and inserts it again.            *)
(***************************************************************************)
EXTENDS Shares

CONSTANT Creates    \* requests that create a link

\* Each such request: what to do next, what it asks for, the tries left, and
\* the links its inserts have made, all under one key.
VARIABLE req

requestVars == <<vars, req>>

AtStart == [next |-> "arrive", password |-> NoPassword, expires |-> Never,
            limit |-> Unlimited, left |-> 3, made |-> {}]

RequestInit == Init /\ req = [c \in Creates |-> AtStart]

\* validateOptions: expires_at lies in the future
Arrive(c, pw, e, l) ==
    /\ req[c].next = "arrive"
    /\ e # Never => e > now
    /\ req' = [req EXCEPT ![c].next = "insert", ![c].password = pw, ![c].expires = e,
                          ![c].limit = l]
    /\ UNCHANGED vars

\* Mutant: every try takes a key of its own
InsertsNewKey(c, s, x) == Create(s, req[c].password, req[c].expires, req[c].limit, x)

\* The row goes in, unless one with its key is there
Inserts(c, s, x) ==
    /\ \A r \in req[c].made : ~Live(r)
    /\ Create(s, req[c].password, req[c].expires, req[c].limit, x)

Insert(c, s, x) ==
    /\ req[c].next = "insert"
    /\ Inserts(c, s, x)
    /\ req' = [req EXCEPT ![c].next = "read", ![c].made = @ \cup {s}]

Done(r) == [AtStart EXCEPT !.next = "done", !.left = 0, !.made = r.made]

\* The request as an error leaves it: with another try, or answered
Tried(r) == IF r.left = 1 THEN Done(r) ELSE [r EXCEPT !.left = @ - 1]

\* The commit succeeds, and the answer to it is lost.
InsertLost(c, s, x) ==
    /\ req[c].next = "insert"
    /\ Inserts(c, s, x)
    /\ req' = [req EXCEPT ![c] = Tried([req[c] EXCEPT !.made = @ \cup {s}])]

\* The entry is not active, the key or the token is taken, or a call fails.
InsertFails(c) ==
    /\ req[c].next = "insert"
    /\ req' = [req EXCEPT ![c] = Tried(@)]
    /\ UNCHANGED vars

\* GetShare: the answer shows the row by now, or that it is gone
Read(c) ==
    /\ req[c].next = "read"
    /\ req' = [req EXCEPT ![c] = Done(@)]
    /\ UNCHANGED vars

\* Bound: links are used once the request that made them is answered
Answered == \A c \in Creates, d \in Downloads : dl'[d].s \in req[c].made => req[c].next = "done"

RequestNext ==
    \/ \E c \in Creates :
          \/ \E pw \in Passwords \cup {NoPassword}, e \in Expiries, l \in Limits :
                Arrive(c, pw, e, l)
          \/ \E s \in Shares, x \in EntryStates : Insert(c, s, x) \/ InsertLost(c, s, x)
          \/ InsertFails(c) \/ Read(c)
    \/ Goes /\ Answered /\ UNCHANGED req

RequestSpec == RequestInit /\ [][RequestNext]_requestVars

-----------------------------------------------------------------------------
(* Correctness *)

Requested ==
    [next : {"arrive", "insert", "read", "done"}, password : Passwords \cup {NoPassword},
     expires : Expiries, limit : Limits, left : 0 .. 3, made : SUBSET Shares]

\* The links requests have made are there or were.
RequestInv ==
    /\ req \in [Creates -> Requested]
    /\ \A c \in Creates :
          /\ req[c].next \in {"arrive", "insert"} => req[c].left # 0
          /\ \A s \in req[c].made : share[s].status # "unused"

\* However often a lost answer makes the loop insert again, and whatever the
\* owner does with the link in between, at most one link of a request can be
\* used at a time: no second one stays behind that nobody knows of.
OneLinkPerRequest ==
    \A c \in Creates : \A r, s \in req[c].made : Live(r) /\ Live(s) => r = s
=============================================================================
