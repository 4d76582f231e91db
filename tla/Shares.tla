------------------------------- MODULE Shares -------------------------------
(***************************************************************************)
(* Share links: internal/shares and the shares table (database/share.go).  *)
(*                                                                         *)
(* The owner creates, changes and deletes links; public requests download  *)
(* through them.  A download is four calls: Access checks the link and the *)
(* password, AuthorizeSharedBlobDownload checks the link again and that    *)
(* the shared entry holds the blob, OpenBlob opens the content, and        *)
(* ConsumeSharedBlobDownload locks the link's row, checks everything but   *)
(* the password once more and counts the download.  Between any two steps  *)
(* entries may move and time may pass, and while no download has the row   *)
(* locked the owner may change the link.                                   *)
(*                                                                         *)
(* A share link outlives the entry it shares: there is no foreign key.     *)
(***************************************************************************)
EXTENDS Naturals

CONSTANTS
    Shares,     \* share links
    Downloads,  \* download requests in flight at one time
    Passwords,  \* passwords
    NoPassword, \* hashed_password IS NULL
    Never,      \* expires_at IS NULL
    Unlimited,  \* max_downloads IS NULL
    Keep,       \* a field the PATCH body leaves out
    NoShare,    \* no link: the request at rest
    MaxLimit,   \* bound: download limits
    MaxCount,   \* bound: downloads of one link
    MaxTime     \* bound: the clock

ASSUME SharesAssumption ==
    /\ MaxLimit \in Nat /\ MaxCount \in Nat /\ MaxTime \in Nat
    /\ Unlimited \notin Nat /\ Never \notin Nat
    /\ NoPassword \notin Passwords /\ NoShare \notin Shares
    /\ Keep \notin Passwords \cup {NoPassword} \cup Nat \cup {Never, Unlimited}

VARIABLES
    share,      \* the shares table
    entry,      \* what the entry of a link is: "gone", "other" (active, without
                \* the blob asked for) or "holds" (active, with it)
    now,        \* the clock
    dl,         \* each download: the next step, the link, when it opened the
                \* content, the clock Consume was called with, and whether the
                \* entry has held the blob since the content was opened
    served      \* downloads handed out through each link

vars == <<share, entry, now, dl, served>>

Limits  == 1 .. MaxLimit \cup {Unlimited}
Expiries == 1 .. MaxTime \cup {Never}

EntryStates == {"gone", "other", "holds"}

Row == [status : {"unused", "live", "gone"}, password : Passwords \cup {NoPassword},
        expires : Expiries, limit : Limits, count : 0 .. MaxCount]

NoRow == [status |-> "unused", password |-> NoPassword, expires |-> Never,
          limit |-> Unlimited, count |-> 0]

AtRest == [next |-> "access", s |-> NoShare, opened |-> 0, asked |-> 0,
           shared |-> FALSE]

Init ==
    /\ share = [s \in Shares |-> NoRow]
    /\ entry = [s \in Shares |-> "gone"]
    /\ now = 0
    /\ dl = [d \in Downloads |-> AtRest]
    /\ served = [s \in Shares |-> 0]

Live(s) == share[s].status = "live"

Expired(s, t) == share[s].expires # Never /\ share[s].expires <= t

Exhausted(s) == share[s].limit # Unlimited /\ share[s].count >= share[s].limit

\* sharedBlobAllowed
Holds(s) == entry[s] = "holds"

\* SELECT ... FOR UPDATE: a download keeps the row of s locked
Locked(s) == \E d \in Downloads : dl[d].next = "count" /\ dl[d].s = s

-----------------------------------------------------------------------------
(* The owner.  That expires_at lies in the future is checked before the row  *)
(* is written or waited for: it may have passed by then.                     *)

\* A link to an active entry, which is in state x
Create(s, pw, e, l, x) ==
    /\ share[s].status = "unused"
    /\ x # "gone"
    /\ share' = [share EXCEPT ![s] = [status |-> "live", password |-> pw, expires |-> e,
                                      limit |-> l, count |-> 0]]
    /\ entry' = [entry EXCEPT ![s] = x]
    /\ UNCHANGED <<now, dl, served>>

\* The PATCH body sets some of the fields.
Patched(s, pw, e, l) ==
    [status   |-> share[s].status,
     password |-> IF pw = Keep THEN share[s].password ELSE pw,
     expires  |-> IF e = Keep THEN share[s].expires ELSE e,
     limit    |-> IF l = Keep THEN share[s].limit ELSE l,
     count    |-> share[s].count]

\* Mutant: the new limit is not compared with the downloads so far
UpdateUncounted(s, pw, e, l) ==
    /\ Live(s) /\ ~Locked(s)
    /\ share' = [share EXCEPT ![s] = Patched(s, pw, e, l)]
    /\ UNCHANGED <<entry, now, dl, served>>

Update(s, pw, e, l) ==
    /\ Live(s) /\ ~Locked(s)
    /\ l \notin {Keep, Unlimited} => l >= share[s].count
    /\ share' = [share EXCEPT ![s] = Patched(s, pw, e, l)]
    /\ UNCHANGED <<entry, now, dl, served>>

\* The row is gone; the downloads it counted stay here as history.
Delete(s) ==
    /\ Live(s) /\ ~Locked(s)
    /\ share' = [share EXCEPT ![s] = [NoRow EXCEPT !.status = "gone", !.count = share[s].count]]
    /\ entry' = [entry EXCEPT ![s] = "gone"]
    /\ UNCHANGED <<now, dl, served>>

-----------------------------------------------------------------------------
(* A download *)

\* ResolveSharedResource, then the password
Access(d, s, pw) ==
    /\ dl[d].next = "access"
    /\ Live(s) /\ ~Expired(s, now) /\ ~Exhausted(s)
    /\ entry[s] # "gone"
    /\ share[s].password \in {NoPassword, pw}
    /\ dl' = [dl EXCEPT ![d].next = "authorize", ![d].s = s]
    /\ UNCHANGED <<share, entry, now, served>>

Authorize(d) ==
    LET s == dl[d].s
    IN  /\ dl[d].next = "authorize"
        /\ Live(s) /\ ~Expired(s, now) /\ ~Exhausted(s)
        /\ Holds(s)
        /\ dl' = [dl EXCEPT ![d].next = "open"]
        /\ UNCHANGED <<share, entry, now, served>>

OpenBlob(d) ==
    /\ dl[d].next = "open"
    /\ dl' = [dl EXCEPT ![d].next = "ask", ![d].opened = now,
                             ![d].shared = Holds(dl[d].s)]
    /\ UNCHANGED <<share, entry, now, served>>

\* Consume reads the clock before it waits for the row lock
AskConsume(d) ==
    /\ dl[d].next = "ask"
    /\ dl' = [dl EXCEPT ![d].next = "consume", ![d].asked = now]
    /\ UNCHANGED <<share, entry, now, served>>

\* Mutant: Consume trusts what Authorize has seen
ConsumableAsAuthorized(d) ==
    LET s == dl[d].s
    IN  /\ dl[d].next = "consume"
        /\ share[s].count < MaxCount /\ ~Locked(s)

\* Mutant: Consume counts whatever the limit
ConsumableAnyway(d) ==
    LET s == dl[d].s
    IN  /\ dl[d].next = "consume"
        /\ share[s].count < MaxCount /\ ~Locked(s)
        /\ Live(s) /\ ~Expired(s, dl[d].asked) /\ Holds(s)

Consumable(d) ==
    LET s == dl[d].s
    IN  /\ dl[d].next = "consume"
        /\ share[s].count < MaxCount /\ ~Locked(s)
        /\ Live(s) /\ ~Expired(s, dl[d].asked) /\ ~Exhausted(s)
        /\ Holds(s)

\* The row is locked, the checks pass
LockShare(d) ==
    /\ Consumable(d)
    /\ dl' = [dl EXCEPT ![d].next = "count"]
    /\ UNCHANGED <<share, entry, now, served>>

Counted(d) ==
    /\ dl[d].next = "count"
    /\ share' = [share EXCEPT ![dl[d].s].count = @ + 1]

\* download_count + 1, and the commit
Consume(d) ==
    /\ Counted(d)
    /\ served' = [served EXCEPT ![dl[d].s] = @ + 1]
    /\ dl' = [dl EXCEPT ![d] = AtRest]
    /\ UNCHANGED <<entry, now>>

\* The commit succeeds, the answer to it is lost: counted, but not handed out
ConsumeLost(d) ==
    /\ Counted(d)
    /\ dl' = [dl EXCEPT ![d] = AtRest]
    /\ UNCHANGED <<entry, now, served>>

\* A check or a call fails, and an opened reader is closed
Refuse(d) ==
    /\ dl[d].next # "access"
    /\ dl' = [dl EXCEPT ![d] = AtRest]
    /\ UNCHANGED <<share, entry, now, served>>

-----------------------------------------------------------------------------
(* The world around: shared entries are moved, deleted and restored, time passes *)

EntryChanges(s, e) ==
    /\ Live(s)
    /\ entry' = [entry EXCEPT ![s] = e]
    /\ dl' = [d \in Downloads |-> IF dl[d].s = s /\ e = "holds"
                                  THEN [dl[d] EXCEPT !.shared = TRUE] ELSE dl[d]]
    /\ UNCHANGED <<share, now, served>>

Tick ==
    /\ now < MaxTime
    /\ now' = now + 1
    /\ UNCHANGED <<share, entry, dl, served>>

\* Everything but the creation of a link
Goes ==
    \/ \E s \in Shares, pw \in Passwords \cup {NoPassword, Keep},
          e \in Expiries \cup {Keep}, l \in Limits \cup {Keep} : Update(s, pw, e, l)
    \/ \E s \in Shares : Delete(s) \/ \E e \in EntryStates : EntryChanges(s, e)
    \/ \E d \in Downloads :
          \/ \E s \in Shares, pw \in Passwords \cup {NoPassword} : Access(d, s, pw)
          \/ Authorize(d) \/ OpenBlob(d) \/ AskConsume(d) \/ LockShare(d)
          \/ Consume(d) \/ ConsumeLost(d) \/ Refuse(d)
    \/ Tick

Next ==
    \/ \E s \in Shares, pw \in Passwords \cup {NoPassword}, e \in Expiries, l \in Limits,
          x \in EntryStates : Create(s, pw, e, l, x)
    \/ Goes

Spec == Init /\ [][Next]_vars

-----------------------------------------------------------------------------
(* Correctness *)

Requests ==
    [next : {"access", "authorize", "open", "ask", "consume", "count"},
     s : Shares \cup {NoShare}, opened : 0 .. MaxTime, asked : 0 .. MaxTime, shared : BOOLEAN]

TypeOK ==
    /\ share \in [Shares -> Row]
    /\ entry \in [Shares -> EntryStates]
    /\ now \in 0 .. MaxTime
    /\ dl \in [Downloads -> Requests]
    /\ \A d \in Downloads : dl[d].next # "access" => dl[d].s \in Shares
    /\ served \in [Shares -> 0 .. MaxCount]

\* However many downloads run at once and whenever the owner changes the
\* limit, a link hands out no more downloads than it has counted, and counts
\* no more than its limit; so the remaining downloads the public page shows,
\* an unsigned difference, never wrap around.
WithinLimit ==
    \A s \in Shares :
        /\ served[s] <= share[s].count
        /\ share[s].limit # Unlimited => share[s].count <= share[s].limit
        /\ share[s].status = "unused" => share[s].count = 0

\* A download goes through a link there is or was, has opened the content before
\* it asks for it to be counted, and knows whether the link has shared it since.
OpenedFirst ==
    \A d \in Downloads :
        /\ dl[d].next # "access" => share[dl[d].s].status # "unused"
        /\ dl[d].next \in {"ask", "consume", "count"} =>
             dl[d].opened <= now /\ (Holds(dl[d].s) => dl[d].shared)
        /\ dl[d].next \in {"consume", "count"} => dl[d].opened <= dl[d].asked

\* What the checks of Consume saw of a link holds until its row is unlocked,
\* and one download at a time has it locked.
LockKeeps ==
    \A d \in Downloads :
        dl[d].next = "count" =>
            LET s == dl[d].s
            IN  /\ Live(s) /\ ~Expired(s, dl[d].asked) /\ ~Exhausted(s)
                /\ share[s].count < MaxCount
                /\ dl[d].shared
                /\ \A c \in Downloads : dl[c].next = "count" /\ dl[c].s = s => c = d

SharesInv == TypeOK /\ WithinLimit /\ OpenedFirst /\ LockKeeps

\* Content is handed out only if the link still exists when the download is
\* counted, had not expired when the content was opened, and its entry has
\* been active and held that blob at some moment since, whatever changed after
\* Access and Authorize.
HandedOutWhileShared ==
    [][\A d \in Downloads :
          dl[d].next = "count" /\ dl'[d] = AtRest /\ served' # served =>
              LET s == dl[d].s
              IN  Live(s) /\ ~Expired(s, dl[d].opened) /\ dl[d].shared]_vars

\* The four calls of a download and the owner's changes amount to the single
\* steps of ShareQuota.
Quota == INSTANCE ShareQuota
    WITH quota <- [s \in Shares |-> [status |-> share[s].status, limit |-> share[s].limit,
                                     used |-> share[s].count]]

GrantsInOneStep == Quota!Spec
=============================================================================
