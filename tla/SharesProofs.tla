---------------------------- MODULE SharesProofs ----------------------------
(***************************************************************************)
(* Proofs about Shares, for any number of links and of downloads at once,  *)
(* every limit and every clock: the quota holds, content is handed out     *)
(* only through a link that still shares it, and Shares implements         *)
(* ShareQuota.                                                             *)
(***************************************************************************)
EXTENDS Shares, TLAPS

USE SharesAssumption

\* What a link may be: the record type spelt out once for the provers.
LEMMA RowsTyped ==
    ASSUME TypeOK, NEW s \in Shares
    PROVE  /\ share[s].status \in {"unused", "live", "gone"}
           /\ share[s].password \in Passwords \cup {NoPassword}
           /\ share[s].expires \in Expiries
           /\ share[s].limit \in Limits
           /\ share[s].count \in 0 .. MaxCount
           /\ share[s] = [status |-> share[s].status, password |-> share[s].password,
                          expires |-> share[s].expires, limit |-> share[s].limit,
                          count |-> share[s].count]
BY DEF TypeOK, Row

\* The empty table satisfies the invariant.
LEMMA SharesInit == Init => SharesInv
<1>. SUFFICES ASSUME Init PROVE SharesInv
  OBVIOUS
<1>. USE DEF Init, NoRow, AtRest
<1>1. NoRow \in Row
  BY DEF Row, Expiries, Limits
<1>2. TypeOK
  BY <1>1 DEF TypeOK, Requests, EntryStates
<1>3. WithinLimit /\ OpenedFirst /\ LockKeeps
  BY DEF WithinLimit, OpenedFirst, LockKeeps
<1>. QED
  BY <1>2, <1>3 DEF SharesInv

\* What Consume has checked of a link stays as it is while the link's row is
\* locked: other rows may change, the locked ones may not.
LEMMA LockKept ==
    ASSUME SharesInv, dl' = dl,
           \A d \in Downloads :
              dl[d].next = "count" => share'[dl[d].s] = share[dl[d].s]
    PROVE  LockKeeps'
BY DEF SharesInv, LockKeeps, Live, Expired, Exhausted

\* The owner: a new link has granted nothing, and a new limit is no lower than
\* what the link has granted.
LEMMA OwnerInv ==
    ASSUME SharesInv, NEW s \in Shares,
           \/ \E pw \in Passwords \cup {NoPassword}, e \in Expiries, l \in Limits,
                 x \in EntryStates : Create(s, pw, e, l, x)
           \/ \E pw \in Passwords \cup {NoPassword, Keep}, e \in Expiries \cup {Keep},
                 l \in Limits \cup {Keep} : Update(s, pw, e, l)
           \/ Delete(s)
    PROVE  SharesInv'
<1>. USE DEF SharesInv
<1>1. /\ dl' = dl /\ now' = now /\ served' = served
      /\ entry' \in [Shares -> EntryStates] /\ \A t \in Shares \ {s} : entry'[t] = entry[t]
  BY DEF Create, Update, Delete, TypeOK, EntryStates
<1>a. \A d \in Downloads : dl[d].next = "count" => dl[d].s # s
  BY DEF LockKeeps, Live, Create, Update, Delete, Locked
<1>b. \A t \in Shares \ {s} : share'[t] = share[t]
  BY DEF Create, Update, Delete, TypeOK
<1>c. LockKeeps'
  <2>1. \A d \in Downloads : dl[d].next = "count" => dl[d].s \in Shares
    BY DEF TypeOK
  <2>. QED
    BY <1>1, <1>a, <1>b, <2>1, LockKept
<1>2. ASSUME NEW pw \in Passwords \cup {NoPassword}, NEW e \in Expiries, NEW l \in Limits,
             NEW x \in EntryStates, Create(s, pw, e, l, x)
      PROVE  TypeOK' /\ WithinLimit'
  <2>1. [status |-> "live", password |-> pw, expires |-> e, limit |-> l, count |-> 0] \in Row
    BY DEF Row
  <2>2. TypeOK'
    BY <1>1, <1>2, <2>1 DEF TypeOK, Create
  <2>. QED
    BY <1>2, <2>2 DEF Create, WithinLimit, TypeOK, Limits
<1>3. ASSUME NEW pw \in Passwords \cup {NoPassword, Keep}, NEW e \in Expiries \cup {Keep},
             NEW l \in Limits \cup {Keep}, Update(s, pw, e, l)
      PROVE  TypeOK' /\ WithinLimit'
  <2>1. Patched(s, pw, e, l) \in Row
    BY <1>3, RowsTyped DEF Patched, Row
  <2>2. share' = [share EXCEPT ![s] = Patched(s, pw, e, l)]
    BY <1>3 DEF Update
  <2>3. share' \in [Shares -> Row]
    BY <2>1, <2>2 DEF TypeOK
  <2>4. /\ share'[s].count = share[s].count /\ share'[s].status = "live"
        /\ share'[s].limit = IF l = Keep THEN share[s].limit ELSE l
    BY <1>3, <2>2 DEF Patched, Update, Live, TypeOK
  <2>5. share'[s].limit # Unlimited => share'[s].count <= share'[s].limit
    BY <1>3, <2>4 DEF Update, WithinLimit
  <2>6. \A t \in Shares \ {s} : share'[t] = share[t]
    BY <2>2 DEF TypeOK
  <2>. QED
    BY <1>1, <2>3, <2>4, <2>5, <2>6 DEF TypeOK, WithinLimit
<1>4. ASSUME Delete(s) PROVE TypeOK' /\ WithinLimit'
  <2>. DEFINE row == [NoRow EXCEPT !.status = "gone", !.count = share[s].count]
  <2>1. row \in Row /\ row.status = "gone" /\ row.limit = Unlimited /\ row.count = share[s].count
    BY RowsTyped DEF NoRow, Row, Expiries, Limits
  <2>2. share' = [share EXCEPT ![s] = row]
    BY <1>4 DEF Delete
  <2>. HIDE DEF row
  <2>3. share' \in [Shares -> Row] /\ share'[s] = row /\ \A t \in Shares \ {s} : share'[t] = share[t]
    BY <2>1, <2>2 DEF TypeOK
  <2>4. \A t \in Shares : served'[t] = served[t]
    BY <1>1
  <2>. QED
    BY <1>1, <2>1, <2>3, <2>4 DEF TypeOK, WithinLimit
<1>5. share'[s].status # "unused"
  <2>1. PICK row : share' = [share EXCEPT ![s] = row] /\ row.status # "unused"
    <3>1. ASSUME NEW pw, NEW e, NEW l, NEW x, Create(s, pw, e, l, x)
          PROVE  \E row : share' = [share EXCEPT ![s] = row] /\ row.status # "unused"
      <4>. DEFINE row == [status |-> "live", password |-> pw, expires |-> e, limit |-> l, count |-> 0]
      <4>1. row.status # "unused"
        OBVIOUS
      <4>2. share' = [share EXCEPT ![s] = row]
        BY <3>1 DEF Create
      <4>. HIDE DEF row
      <4>. QED
        BY <4>1, <4>2
    <3>2. ASSUME NEW pw, NEW e, NEW l, Update(s, pw, e, l)
          PROVE  \E row : share' = [share EXCEPT ![s] = row] /\ row.status # "unused"
      <4>1. Patched(s, pw, e, l).status = "live"
        BY <3>2 DEF Update, Patched, Live
      <4>. QED
        BY <3>2, <4>1 DEF Update
    <3>3. ASSUME Delete(s)
          PROVE  \E row : share' = [share EXCEPT ![s] = row] /\ row.status # "unused"
      <4>. DEFINE row == [NoRow EXCEPT !.status = "gone", !.count = share[s].count]
      <4>1. row.status # "unused"
        BY DEF NoRow
      <4>2. share' = [share EXCEPT ![s] = row]
        BY <3>3 DEF Delete
      <4>. HIDE DEF row
      <4>. QED
        BY <4>1, <4>2
    <3>. QED
      BY <3>1, <3>2, <3>3
  <2>. QED
    BY <2>1 DEF TypeOK
<1>6. OpenedFirst'
  <2>1. ASSUME NEW d \in Downloads, dl[d].next # "access"
        PROVE  share'[dl[d].s].status # "unused" /\ dl[d].s \in Shares
    BY <1>b, <1>5, <2>1 DEF OpenedFirst, TypeOK
  <2>2. ASSUME NEW d \in Downloads, dl[d].next # "access", entry'[dl[d].s] = "holds"
        PROVE  Holds(dl[d].s)
    <3>1. CASE dl[d].s # s
      BY <1>1, <2>1, <2>2, <3>1 DEF Holds
    <3>2. CASE dl[d].s = s
      <4>1. share[s].status # "unused"
        BY <2>2, <3>2 DEF OpenedFirst
      <4>2. entry' = entry \/ entry' = [entry EXCEPT ![s] = "gone"]
        BY <4>1 DEF Create, Update, Delete
      <4>. QED
        BY <2>2, <3>2, <4>2 DEF Holds, TypeOK
    <3>. QED
      BY <3>1, <3>2
  <2>. QED
    BY <1>1, <2>1, <2>2 DEF OpenedFirst, Holds
<1>. QED
  BY <1>1, <1>c, <1>2, <1>3, <1>4, <1>6

\* Counting a download leaves the link within its limit.
LEMMA CountedInv ==
    ASSUME SharesInv, NEW d \in Downloads, Counted(d)
    PROVE  /\ dl[d].s \in Shares
           /\ share' \in [Shares -> Row]
           /\ share'[dl[d].s].count = share[dl[d].s].count + 1
           /\ share'[dl[d].s].limit # Unlimited =>
                share'[dl[d].s].count <= share'[dl[d].s].limit
           /\ share'[dl[d].s].status = "live"
           /\ share[dl[d].s].limit = Unlimited \/ share[dl[d].s].count + 1 <= share[dl[d].s].limit
           /\ \A s \in Shares \ {dl[d].s} : share'[s] = share[s]
<1>. DEFINE s == dl[d].s
<1>1. s \in Shares
  BY DEF Counted, SharesInv, TypeOK
<1>a. TypeOK /\ share[s].count < MaxCount /\ Live(s) /\ ~Exhausted(s)
  BY DEF SharesInv, LockKeeps, Counted
<1>b. share[s].count \in 0 .. MaxCount /\ share[s].limit \in Limits
  BY <1>1, <1>a, RowsTyped
<1>2. share[s].count \in Nat /\ share[s].count < MaxCount
  BY <1>a, <1>b
<1>3. share' \in [Shares -> Row]
  BY <1>1, <1>2, RowsTyped DEF Counted, SharesInv, TypeOK, Row
<1>4. /\ share'[s].count = share[s].count + 1 /\ share'[s].limit = share[s].limit
      /\ share'[s].status = "live"
  BY <1>1, <1>a DEF Counted, Live, SharesInv, TypeOK, Row
<1>5. share[s].limit # Unlimited => share[s].limit \in Nat /\ share[s].count < share[s].limit
  <2>1. share[s].limit # Unlimited => ~(share[s].count >= share[s].limit)
    BY <1>a DEF Exhausted
  <2>2. share[s].limit # Unlimited => share[s].limit \in Nat
    BY <1>b DEF Limits
  <2>. QED
    BY <1>2, <2>1, <2>2
<1>6. \A t \in Shares \ {s} : share'[t] = share[t]
  BY DEF Counted, SharesInv, TypeOK
<1>. QED
  BY <1>1, <1>2, <1>3, <1>4, <1>5, <1>6

\* A download that ends, counted or not, unlocks its row and no other.
LEMMA EndsInv ==
    ASSUME SharesInv, NEW d \in Downloads, dl' = [dl EXCEPT ![d] = AtRest],
           entry' = entry, now' = now,
           \/ share' = share
           \/ Counted(d)
    PROVE  OpenedFirst' /\ LockKeeps' /\ dl' \in [Downloads -> Requests]
           /\ \A c \in Downloads : dl'[c].next # "access" => dl'[c].s \in Shares
<1>. USE DEF SharesInv, AtRest
<1>1. AtRest \in Requests
  BY DEF Requests
<1>2. /\ dl' \in [Downloads -> Requests]
      /\ \A c \in Downloads : dl'[c].next # "access" => dl'[c].s \in Shares
  BY <1>1 DEF TypeOK
<1>3. OpenedFirst'
  <2>1. ASSUME NEW c \in Downloads, dl'[c].next # "access"
        PROVE  share'[dl'[c].s].status # "unused"
    <3>1. c # d /\ dl'[c] = dl[c] /\ share[dl[c].s].status # "unused" /\ dl[c].s \in Shares
      BY <2>1 DEF OpenedFirst, TypeOK
    <3>2. CASE share' = share
      BY <3>1, <3>2
    <3>3. CASE Counted(d)
      BY <3>1, <3>3, CountedInv
    <3>. QED
      BY <3>2, <3>3
  <2>2. \A c \in Downloads : dl'[c].next # "access" => dl'[c] = dl[c]
    BY DEF TypeOK
  <2>. QED
    BY <2>1, <2>2 DEF OpenedFirst, Holds
<1>4. \A c \in Downloads : dl'[c].next = "count" => c # d /\ dl'[c] = dl[c]
  BY DEF TypeOK
<1>5. \A c \in Downloads : dl'[c].next = "count" => share'[dl[c].s] = share[dl[c].s]
  <2>1. CASE share' = share
    BY <2>1
  <2>2. CASE Counted(d)
    <3>1. \A c \in Downloads : dl'[c].next = "count" => dl[c].s # dl[d].s
      BY <1>4, <2>2 DEF Counted, LockKeeps
    <3>2. \A c \in Downloads : dl'[c].next = "count" => dl[c].s \in Shares
      BY <1>4 DEF TypeOK
    <3>. QED
      BY <2>2, <3>1, <3>2, CountedInv
  <2>. QED
    BY <2>1, <2>2
<1>6. LockKeeps'
  BY <1>4, <1>5 DEF LockKeeps, Live, Expired, Exhausted
<1>. QED
  BY <1>2, <1>3, <1>6

\* The calls of a download: the checks change nothing, the last one locks the
\* row for what it has seen, and Consume counts one download of a link that
\* has allowance left.
LEMMA DownloadInv ==
    ASSUME SharesInv, NEW d \in Downloads,
           \/ \E s \in Shares, pw \in Passwords \cup {NoPassword} : Access(d, s, pw)
           \/ Authorize(d) \/ OpenBlob(d) \/ AskConsume(d) \/ LockShare(d)
           \/ Consume(d) \/ ConsumeLost(d) \/ Refuse(d)
    PROVE  SharesInv'
<1>. USE DEF SharesInv
<1>1. ASSUME NEW s \in Shares, NEW pw \in Passwords \cup {NoPassword}, Access(d, s, pw) PROVE SharesInv'
  <2>1. TypeOK'
    BY <1>1 DEF Access, TypeOK, Requests
  <2>2. /\ share' = share /\ entry' = entry /\ now' = now /\ served' = served
        /\ dl'[d].next = "authorize" /\ \A c \in Downloads \ {d} : dl'[c] = dl[c]
    BY <1>1 DEF Access, TypeOK, Requests
  <2>3. WithinLimit'
    BY <2>2 DEF WithinLimit
  <2>a. dl'[d].s = s /\ share[s].status = "live"
    BY <1>1 DEF Access, Live, TypeOK, Requests
  <2>4. OpenedFirst'
    BY <2>2, <2>a DEF OpenedFirst, Holds
  <2>5. LockKeeps'
    BY <2>2 DEF LockKeeps, Live, Expired, Exhausted
  <2>. QED
    BY <2>1, <2>3, <2>4, <2>5
<1>2. CASE Authorize(d)
  <2>1. TypeOK'
    BY <1>2 DEF Authorize, TypeOK, Requests
  <2>2. WithinLimit' /\ OpenedFirst'
    BY <1>2 DEF Authorize, WithinLimit, OpenedFirst, Holds, TypeOK
  <2>3. LockKeeps'
    BY <1>2 DEF Authorize, LockKeeps, Live, Expired, Exhausted, TypeOK
  <2>. QED
    BY <2>1, <2>2, <2>3
<1>3. CASE OpenBlob(d)
  <2>a. Holds(dl[d].s) \in BOOLEAN
    BY DEF Holds
  <2>0. PICK h \in BOOLEAN : h = Holds(dl[d].s)
    BY <2>a
  <2>1. dl' = [dl EXCEPT ![d] = [dl[d] EXCEPT !.next = "ask", !.opened = now, !.shared = h]]
    BY <1>3, <2>0 DEF OpenBlob
  <2>2. dl[d] \in Requests /\ now \in 0 .. MaxTime
    BY DEF TypeOK
  <2>3. /\ dl'[d] \in Requests /\ dl'[d].next = "ask" /\ dl'[d].opened = now
        /\ dl'[d].s = dl[d].s /\ (dl'[d].shared <=> h)
    BY <2>1, <2>2 DEF Requests, TypeOK
  <2>4. \A c \in Downloads \ {d} : dl'[c] = dl[c]
    BY <2>1 DEF TypeOK
  <2>5. /\ share' = share /\ entry' = entry /\ now' = now /\ served' = served
        /\ dl[d].next = "open"
    BY <1>3 DEF OpenBlob
  <2>6. TypeOK'
    <3>1. dl' \in [Downloads -> Requests]
      BY <2>1, <2>3, <2>4 DEF TypeOK
    <3>. QED
      BY <3>1, <2>3, <2>4, <2>5 DEF TypeOK
  <2>7. WithinLimit'
    BY <2>5 DEF WithinLimit
  <2>8. OpenedFirst'
    <3>1. dl'[d].shared <=> Holds(dl[d].s)
      BY <2>0, <2>3
    <3>. QED
      BY <3>1, <2>2, <2>3, <2>4, <2>5 DEF OpenedFirst, Holds
  <2>9. LockKeeps'
    BY <2>3, <2>4, <2>5 DEF LockKeeps, Live, Expired, Exhausted
  <2>. QED
    BY <2>6, <2>7, <2>8, <2>9
<1>4. CASE AskConsume(d)
  <2>1. TypeOK'
    BY <1>4 DEF AskConsume, TypeOK, Requests
  <2>2. WithinLimit' /\ OpenedFirst'
    BY <1>4 DEF AskConsume, WithinLimit, OpenedFirst, Holds, TypeOK, Requests
  <2>3. LockKeeps'
    BY <1>4 DEF AskConsume, LockKeeps, Live, Expired, Exhausted, TypeOK, Requests
  <2>. QED
    BY <2>1, <2>2, <2>3
<1>5. CASE LockShare(d)
  <2>1. TypeOK'
    BY <1>5 DEF LockShare, Consumable, TypeOK, Requests
  <2>2. WithinLimit' /\ OpenedFirst'
    BY <1>5 DEF LockShare, Consumable, WithinLimit, OpenedFirst, Holds, TypeOK, Requests
  <2>3. \A c \in Downloads \ {d} : dl'[c] = dl[c]
    BY <1>5 DEF LockShare, TypeOK
  <2>4. /\ dl'[d].next = "count" /\ dl'[d].s = dl[d].s /\ dl'[d].asked = dl[d].asked
        /\ dl'[d].shared = dl[d].shared
    BY <1>5 DEF LockShare, TypeOK, Requests
  <2>5. dl[d].shared /\ share' = share
    BY <1>5 DEF LockShare, Consumable, OpenedFirst
  <2>6. \A c \in Downloads : dl[c].next = "count" => dl[c].s # dl[d].s
    BY <1>5 DEF LockShare, Consumable, Locked
  <2>7. LockKeeps'
    BY <1>5, <2>3, <2>4, <2>5, <2>6
       DEF LockShare, Consumable, LockKeeps, Live, Expired, Exhausted
  <2>. QED
    BY <2>1, <2>2, <2>7
<1>6. CASE Consume(d)
  <2>. DEFINE s == dl[d].s
  <2>1. /\ s \in Shares /\ share' \in [Shares -> Row]
        /\ share'[s].count = share[s].count + 1
        /\ share'[s].limit # Unlimited => share'[s].count <= share'[s].limit
        /\ share'[s].status = "live"
        /\ \A t \in Shares \ {s} : share'[t] = share[t]
    BY <1>6, CountedInv DEF Consume
  <2>2. share[s].count \in Nat /\ share[s].count < MaxCount /\ served[s] <= share[s].count
    BY <1>6, <2>1, RowsTyped DEF Consume, Counted, LockKeeps, WithinLimit
  <2>3. served' \in [Shares -> 0 .. MaxCount] /\ served'[s] = served[s] + 1
    BY <1>6, <2>1, <2>2 DEF Consume, TypeOK
  <2>4. WithinLimit'
    BY <1>6, <2>1, <2>2, <2>3 DEF Consume, WithinLimit, TypeOK
  <2>5. dl' = [dl EXCEPT ![d] = AtRest] /\ entry' = entry /\ now' = now /\ Counted(d)
    BY <1>6 DEF Consume
  <2>. QED
    BY <2>1, <2>3, <2>4, <2>5, EndsInv DEF TypeOK
<1>7. CASE ConsumeLost(d)
  <2>. DEFINE s == dl[d].s
  <2>1. /\ s \in Shares /\ share' \in [Shares -> Row]
        /\ share'[s].count = share[s].count + 1
        /\ share'[s].limit # Unlimited => share'[s].count <= share'[s].limit
        /\ share'[s].status = "live"
        /\ \A t \in Shares \ {s} : share'[t] = share[t]
    BY <1>7, CountedInv DEF ConsumeLost
  <2>a. TypeOK
    OBVIOUS
  <2>b. share[s].count \in 0 .. MaxCount
    BY <2>1, <2>a, RowsTyped
  <2>2. share[s].count \in Nat /\ served' = served
    BY <1>7, <2>b DEF ConsumeLost
  <2>3. WithinLimit'
    BY <2>1, <2>2 DEF WithinLimit, TypeOK
  <2>4. dl' = [dl EXCEPT ![d] = AtRest] /\ entry' = entry /\ now' = now /\ Counted(d)
    BY <1>7 DEF ConsumeLost
  <2>. QED
    BY <2>1, <2>2, <2>3, <2>4, EndsInv DEF TypeOK
<1>8. CASE Refuse(d)
  <2>1. /\ dl' = [dl EXCEPT ![d] = AtRest] /\ entry' = entry /\ now' = now
        /\ share' = share /\ served' = served
    BY <1>8 DEF Refuse
  <2>2. WithinLimit'
    BY <2>1 DEF WithinLimit
  <2>. QED
    BY <2>1, <2>2, EndsInv DEF TypeOK
<1>. QED
  BY <1>1, <1>2, <1>3, <1>4, <1>5, <1>6, <1>7, <1>8

\* No step leaves the invariant.
LEMMA SharesNext ==
    ASSUME SharesInv, [Next]_vars
    PROVE  SharesInv'
<1>. USE DEF SharesInv
<1>1. ASSUME NEW s \in Shares, NEW e \in EntryStates, EntryChanges(s, e)
      PROVE  SharesInv'
  <2>1. /\ share' = share /\ now' = now /\ served' = served
        /\ entry' = [entry EXCEPT ![s] = e]
    BY <1>1 DEF EntryChanges
  <2>2. ASSUME NEW d \in Downloads
        PROVE  /\ dl'[d] \in Requests
               /\ dl'[d].next = dl[d].next /\ dl'[d].s = dl[d].s
               /\ dl'[d].opened = dl[d].opened /\ dl'[d].asked = dl[d].asked
               /\ dl[d].shared => dl'[d].shared
               /\ dl[d].s = s /\ e = "holds" => dl'[d].shared
    BY <1>1 DEF EntryChanges, TypeOK, Requests
  <2>3. dl' \in [Downloads -> Requests]
    BY <1>1, <2>2 DEF EntryChanges
  <2>4. TypeOK'
    BY <2>1, <2>2, <2>3 DEF TypeOK
  <2>5. WithinLimit'
    BY <2>1 DEF WithinLimit
  <2>6. \A d \in Downloads : dl[d].next # "access" => dl[d].s \in Shares
    BY DEF TypeOK
  <2>7. OpenedFirst'
    BY <2>1, <2>2, <2>6 DEF OpenedFirst, Holds, TypeOK
  <2>8. LockKeeps'
    BY <2>1, <2>2 DEF LockKeeps, Live, Expired, Exhausted
  <2>. QED
    BY <2>4, <2>5, <2>7, <2>8
<1>2. CASE Tick
  BY <1>2 DEF Tick, TypeOK, WithinLimit, OpenedFirst, Holds, LockKeeps, Live, Expired,
              Exhausted, Requests
<1>3. CASE UNCHANGED vars
  BY <1>3 DEF vars, TypeOK, WithinLimit, OpenedFirst, Holds, LockKeeps, Live, Expired, Exhausted
<1>. QED
  BY <1>1, <1>2, <1>3, OwnerInv, DownloadInv DEF Next, Goes

-----------------------------------------------------------------------------

\* Downloads at once and changes of the limit keep every link within its limit,
\* and never hand out more than was counted.
THEOREM SharesTheorem == Spec => []SharesInv
<1>1. SharesInv /\ [Next]_vars => SharesInv'
  BY SharesNext
<1>. QED
  BY <1>1, SharesInit, PTL DEF Spec

\* Between OpenBlob and the hand-out the link may be deleted or expire and the
\* entry may move away: then nothing is handed out.
THEOREM HandedOutTheorem == Spec => HandedOutWhileShared
<1>. DEFINE Checked ==
         \A d \in Downloads :
            dl[d].next = "count" /\ dl'[d] = AtRest /\ served' # served =>
               LET s == dl[d].s
               IN  Live(s) /\ ~Expired(s, dl[d].opened) /\ dl[d].shared
<1>1. ASSUME SharesInv, [Next]_vars PROVE Checked
  <2>. SUFFICES ASSUME NEW d \in Downloads, dl[d].next = "count"
                PROVE  Live(dl[d].s) /\ ~Expired(dl[d].s, dl[d].opened) /\ dl[d].shared
    OBVIOUS
  <2>3. Live(dl[d].s) /\ dl[d].shared /\ ~Expired(dl[d].s, dl[d].asked)
    BY <1>1 DEF SharesInv, LockKeeps
  <2>4. dl[d].s \in Shares /\ dl[d].opened <= dl[d].asked
    BY <1>1 DEF SharesInv, OpenedFirst, TypeOK
  <2>a. TypeOK
    BY <1>1 DEF SharesInv
  <2>b. share[dl[d].s].expires \in Expiries
    BY <2>4, <2>a, RowsTyped
  <2>5. share[dl[d].s].expires # Never => share[dl[d].s].expires \in Nat
    BY <2>b DEF Expiries
  <2>6. dl[d].opened \in Nat /\ dl[d].asked \in Nat
    BY <1>1 DEF SharesInv, TypeOK, Requests
  <2>. QED
    BY <2>3, <2>4, <2>5, <2>6 DEF Expired
<1>2. SharesInv /\ [Next]_vars => [Checked]_vars
  BY <1>1
<1>. QED
  BY <1>2, SharesTheorem, PTL DEF Spec, HandedOutWhileShared

-----------------------------------------------------------------------------

\* What Shares shows of its links to ShareQuota.
Shown == [s \in Shares |-> [status |-> share[s].status, limit |-> share[s].limit,
                            used |-> share[s].count]]

\* Counting one download is one grant of the quota.
LEMMA CountedGrants ==
    ASSUME SharesInv, NEW d \in Downloads, NEW s \in Shares, dl[d].s = s, Counted(d)
    PROVE  Quota!Grant(s)
<1>1. share[s].limit = Unlimited \/ share[s].count + 1 <= share[s].limit
  BY CountedInv
<1>2. Shown' = [Shown EXCEPT ![s].used = @ + 1]
  <2>1. share' = [share EXCEPT ![s].count = @ + 1] /\ share \in [Shares -> Row]
    BY DEF Counted, SharesInv, TypeOK
  <2>2. Shown'[s] = [status |-> share[s].status, limit |-> share[s].limit,
                     used |-> share[s].count + 1]
    BY <2>1 DEF Shown, Row
  <2>3. \A t \in Shares \ {s} : Shown'[t] = Shown[t]
    BY <2>1 DEF Shown
  <2>. QED
    BY <2>2, <2>3 DEF Shown
<1>. QED
  BY <1>1, <1>2 DEF Quota!Grant, Quota!Fits, Shown, Counted, SharesInv, LockKeeps, Live

\* Every step is a step of ShareQuota or changes nothing of what it sees.
LEMMA QuotaStep ==
    ASSUME SharesInv, [Next]_vars
    PROVE  [Quota!Next]_Shown
<1>1. ASSUME NEW s \in Shares, NEW pw \in Passwords \cup {NoPassword}, NEW e \in Expiries,
             NEW l \in Limits, NEW x \in EntryStates, Create(s, pw, e, l, x)
      PROVE  Quota!Next
  <2>1. Shown' = [Shown EXCEPT ![s] = [status |-> "live", limit |-> l, used |-> 0]]
    BY <1>1 DEF Create, Shown, SharesInv, TypeOK
  <2>2. Quota!Offer(s, l)
    BY <1>1, <2>1 DEF Quota!Offer, Create, Shown
  <2>. QED
    BY <2>2 DEF Quota!Next, Quota!Limits, Limits
<1>2. ASSUME NEW s \in Shares, NEW pw \in Passwords \cup {NoPassword, Keep},
             NEW e \in Expiries \cup {Keep}, NEW l \in Limits \cup {Keep}, Update(s, pw, e, l)
      PROVE  [Quota!Next]_Shown
  <2>1. CASE l = Keep
    <3>1. /\ share' = [share EXCEPT ![s] = Patched(s, pw, e, l)]
          /\ Patched(s, pw, e, l).status = share[s].status
          /\ Patched(s, pw, e, l).limit = share[s].limit
          /\ Patched(s, pw, e, l).count = share[s].count
      BY <1>2, <2>1 DEF Update, Patched
    <3>. QED
      BY <3>1 DEF Shown, SharesInv, TypeOK
  <2>2. CASE l \in Limits
    <3>1. l # Keep
      BY <2>2 DEF Limits
    <3>2. Shown' = [Shown EXCEPT ![s].limit = l]
      <4>1. /\ share' = [share EXCEPT ![s] = Patched(s, pw, e, l)]
            /\ Patched(s, pw, e, l).status = share[s].status
            /\ Patched(s, pw, e, l).limit = l
            /\ Patched(s, pw, e, l).count = share[s].count
        BY <1>2, <3>1 DEF Update, Patched
      <4>2. Shown'[s] = [status |-> share[s].status, limit |-> l, used |-> share[s].count]
        BY <4>1 DEF Shown, SharesInv, TypeOK
      <4>3. \A t \in Shares \ {s} : Shown'[t] = Shown[t]
        BY <4>1 DEF Shown, SharesInv, TypeOK
      <4>. QED
        BY <4>2, <4>3 DEF Shown
    <3>3. l = Unlimited \/ share[s].count <= l
      BY <1>2, <2>2, <3>1, RowsTyped DEF Update, Limits, SharesInv
    <3>4. Quota!SetLimit(s, l)
      BY <1>2, <3>2, <3>3 DEF Quota!SetLimit, Quota!Fits, Update, Live, Shown
    <3>. QED
      BY <2>2, <3>4 DEF Quota!Next, Quota!Limits, Limits
  <2>. QED
    BY <2>1, <2>2
<1>3. ASSUME NEW s \in Shares, Delete(s) PROVE Quota!Next
  <2>1. Shown' = [Shown EXCEPT ![s].status = "gone", ![s].limit = Unlimited]
    <3>. DEFINE row == [NoRow EXCEPT !.status = "gone", !.count = share[s].count]
    <3>1. row.status = "gone" /\ row.limit = Unlimited /\ row.count = share[s].count
      BY DEF NoRow
    <3>2. share' = [share EXCEPT ![s] = row]
      BY <1>3 DEF Delete
    <3>. HIDE DEF row
    <3>3. Shown'[s] = [status |-> "gone", limit |-> Unlimited, used |-> share[s].count]
      BY <3>1, <3>2 DEF Shown, SharesInv, TypeOK
    <3>4. \A t \in Shares \ {s} : Shown'[t] = Shown[t]
      BY <3>2 DEF Shown, SharesInv, TypeOK
    <3>. QED
      BY <3>3, <3>4 DEF Shown
  <2>2. Quota!Withdraw(s)
    BY <1>3, <2>1 DEF Quota!Withdraw, Delete, Live, Shown
  <2>. QED
    BY <2>2 DEF Quota!Next
<1>4. ASSUME NEW d \in Downloads, Consume(d) \/ ConsumeLost(d) PROVE Quota!Next
  <2>1. PICK s \in Shares : dl[d].s = s
    BY <1>4, CountedInv DEF Consume, ConsumeLost
  <2>2. Quota!Grant(s)
    BY <1>4, <2>1, CountedGrants DEF Consume, ConsumeLost
  <2>. QED
    BY <2>2 DEF Quota!Next
<1>5. ASSUME share' = share PROVE Shown' = Shown
  BY <1>5 DEF Shown
<1>6. CASE UNCHANGED vars
  BY <1>5, <1>6 DEF vars
<1>7. CASE Next
  BY <1>1, <1>2, <1>3, <1>4, <1>5, <1>7
     DEF Next, Goes, EntryChanges, Tick, Access, Authorize, OpenBlob, AskConsume, LockShare, Refuse
<1>. QED
  BY <1>6, <1>7

\* The four calls of a download amount to one atomic grant of the quota: Shares
\* implements ShareQuota.
THEOREM QuotaTheorem == Spec => GrantsInOneStep
<1>1. Init => Quota!Init
  BY DEF Init, NoRow, Quota!Init, Quota!NoQuota
<1>2. SharesInv /\ [Next]_vars => [Quota!Next]_Shown
  BY QuotaStep
<1>. QED
  BY <1>1, <1>2, SharesTheorem, PTL DEF Spec, GrantsInOneStep, Quota!Spec, Shown
=============================================================================
