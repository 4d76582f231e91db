------------------------------ MODULE Listings ------------------------------
(***************************************************************************)
(* What a client is shown of the metadata tree: ListEntries                *)
(* (internal/database/entry.go) and ListSharedEntries (share.go), with the *)
(* handlers in front of them.                                              *)
(*                                                                         *)
(* A change is one transaction, a step of EntryTree.  A listing is         *)
(* several statements without one: through a link the link is resolved     *)
(* twice and the folder looked for below it; then the folder is checked,   *)
(* its entries are counted, and one page of them is read.  Changes by      *)
(* other requests come between any two of these.  A client that lists a    *)
(* folder reads pages until one is not full.                               *)
(***************************************************************************)
EXTENDS EntryTree, Integers

CONSTANTS
    Queries,    \* the filter on entry types and the page size of a request
    MaxInt,     \* the largest int; with 64 bits, 2^63 - 1
    MaxPage,    \* bound: pages and sizes looked at when a page is held against its total
    MaxRows     \* bound: rows that were ever inserted while a client lists

ASSUME ListingsAssumption ==
    /\ Queries \subseteq [kind : {"all", "file", "folder"}, size : Nat \ {0}]
    /\ MaxInt \in Nat
    /\ MaxPage \in Nat
    /\ MaxRows \in 0 .. MaxInt

\* The listing one client is reading.
VARIABLE view

listVars == <<table, view>>

-----------------------------------------------------------------------------
(* Pages *)

\* ORDER BY display in either direction, under any collation
Orders == {r \in [Names -> 1 .. Cardinality(Names)] :
             \A m, n \in Names : r[m] = r[n] => m = n}

\* The rows the UNION of ListEntries selects below p.
Matching(t, p, kind) ==
    {e \in Entries : /\ t[e].status = "active" /\ t[e].parent = p
                     /\ kind = "file" => e \in Files
                     /\ kind = "folder" => e \in Folders}

\* ... then entry_type and id; of one kind no two rows below p share a display
Precedes(t, a, b, order) ==
    LET x == order[t[a].display]
        y == order[t[b].display]
    IN  x < y \/ (x = y /\ a \in Files /\ b \in Folders)

Place(t, e, rows, order) == Cardinality({x \in rows : Precedes(t, x, e, order)})

\* Go's int arithmetic wraps around.
Wrapped(n) == ((n + MaxInt + 1) % (2 * (MaxInt + 1))) - (MaxInt + 1)

\* Mutant: pages counted from zero
OffsetFromZero(page, size) == Wrapped(page * size)

Offset(page, size) == Wrapped((page - 1) * size)

\* LIMIT size OFFSET ...; PostgreSQL refuses a negative one, which is Fail
OnPage(rows, order, page, size) ==
    LET from == Offset(page, size)
    IN  {e \in rows : /\ from <= Place(table, e, rows, order)
                      /\ Place(table, e, rows, order) < from + size}

-----------------------------------------------------------------------------
(* A listing *)

\* via is the shared folder, or Root for a signed-in client; moved, due and
\* same are history: whether p was moved out of what via shares after it was
\* looked for there, the entries still to be shown, and whether p's entries are
\* those counted.
NoView == [at |-> "rest", via |-> Root, p |-> Root, query |-> Keep, order |-> Keep,
           page |-> 1, total |-> 0, moved |-> FALSE, due |-> {}, same |-> FALSE]

Small(t) == Cardinality({e \in Entries : t[e].status # "unused"}) <= MaxRows

\* The folders a link to f shares.
SharedBelow(f) == IF f # Root /\ Active(f) THEN Subtree(f, ActiveFolders) ELSE {}

\* p, or a folder that p is in, is moved out of what via shares.
MovedOut(via, p) ==
    \E f \in SharedBelow(via) \ {via} :
        p \in Subtree(f, PresentFolders) /\ table'[f].parent \notin SharedBelow(via)

\* listEntriesHandler; the root needs no check
Open(p, query, order) ==
    /\ view = NoView /\ Small(table)
    /\ view' = [NoView EXCEPT !.at = IF p = Root THEN "count" ELSE "exists",
                              !.p = p, !.query = query, !.order = order]
    /\ UNCHANGED table

\* sharedEntriesHandler: Access has let a request through a link to f in
OpenShared(f, query, order) ==
    /\ view = NoView /\ Small(table)
    /\ f \in ActiveFolders
    /\ view' = [NoView EXCEPT !.at = "resolve", !.via = f, !.query = query, !.order = order]
    /\ UNCHANGED table

\* ListSharedEntries resolves the link again; parent_id may name a folder p
Resolve(p) ==
    /\ view.at = "resolve"
    /\ Active(view.via)
    /\ view' = [view EXCEPT !.p = p, !.at = IF p = view.via THEN "exists" ELSE "subtree"]
    /\ UNCHANGED table

\* Mutant: any active folder will do
FindAnywhere ==
    /\ view.at = "subtree"
    /\ view' = [view EXCEPT !.at = "exists", !.moved = FALSE]
    /\ UNCHANGED table

FindBelow ==
    /\ view.at = "subtree"
    /\ view.p \in SharedBelow(view.via)
    /\ view' = [view EXCEPT !.at = "exists", !.moved = FALSE]
    /\ UNCHANGED table

Exists ==
    /\ view.at = "exists"
    /\ Active(view.p)
    /\ view' = [view EXCEPT !.at = "count"]
    /\ UNCHANGED table

\* Mutant: the rows in the trash are counted
CountAll ==
    /\ view.at = "count"
    /\ LET rows == Matching(table, view.p, view.query.kind)
           trash == {e \in Entries : Deleted(e) /\ table[e].parent = view.p}
       IN  view' = [view EXCEPT !.at = "items", !.total = Cardinality(rows \cup trash), !.same = TRUE,
                                !.due = IF view.page = 1 THEN rows ELSE @]
    /\ UNCHANGED table

Count ==
    /\ view.at = "count"
    /\ LET rows == Matching(table, view.p, view.query.kind)
       IN  view' = [view EXCEPT !.at = "items", !.total = Cardinality(rows), !.same = TRUE,
                                !.due = IF view.page = 1 THEN rows ELSE @]
    /\ UNCHANGED table

Shown == OnPage(Matching(table, view.p, view.query.kind), view.order, view.page, view.query.size)

\* Not the last page of a client that reads on
Full == view.via = Root /\ Cardinality(Shown) >= view.query.size

Items ==
    /\ view.at = "items"
    /\ view' = IF Full
               THEN [view EXCEPT !.at = IF view.p = Root THEN "count" ELSE "exists",
                                 !.page = @ + 1, !.total = 0, !.same = FALSE, !.due = @ \ Shown]
               ELSE NoView
    /\ UNCHANGED table

\* A check or a statement fails, or the client goes away.
Fail ==
    /\ view.at # "rest"
    /\ view' = NoView
    /\ UNCHANGED table

\* Another request.  Once an entry has left the folder or got another name,
\* entries after it may come to lie on pages already read: none is due.
Other ==
    /\ Next
    /\ IF view.at = "rest" THEN UNCHANGED view
       ELSE LET before == Matching(table, view.p, view.query.kind)
                after  == Matching(table', view.p, view.query.kind)
                kept   == \A e \in before : e \in after /\ table'[e].display = table[e].display
            IN  /\ Small(table')
                /\ view' = [view EXCEPT !.same = @ /\ after = before,
                                         !.due = IF kept THEN @ ELSE {},
                                         !.moved = @ \/ MovedOut(view.via, view.p)]

ListInit == Init /\ view = NoView

ListNext ==
    \/ \E query \in Queries, order \in Orders :
          \/ \E p \in Parents : Open(p, query, order)
          \/ \E f \in Folders : OpenShared(f, query, order)
    \/ \E p \in Folders : Resolve(p)
    \/ FindBelow \/ Exists \/ Count \/ Items \/ Fail \/ Other

ListSpec == ListInit /\ [][ListNext]_listVars

-----------------------------------------------------------------------------
(* Correctness *)

\* As long as the folder's entries stay the same between the two statements of
\* a listing, the total it answers and the number of items agree, whichever
\* page was asked for, as long as its offset fits an int.
TotalFitsItems ==
    view.at = "items" /\ view.same =>
        \A page, size \in 1 .. MaxPage :
            LET skipped == (page - 1) * size
                rows    == Matching(table, view.p, view.query.kind)
                items   == Cardinality(OnPage(rows, view.order, page, size))
                left    == view.total - skipped
            IN  skipped <= MaxInt =>
                    items = IF left <= 0 THEN 0 ELSE IF left < size THEN left ELSE size

\* A client that reads on until a page is not full has been shown every entry
\* that was there when it began, if entries only came meanwhile: they move
\* others to later pages, so that one is shown twice rather than not at all.
NothingMissed ==
    view.at = "items" /\ view.via = Root /\ ~Full => view.due \subseteq Shown

\* The folder a link's listing is about to show is still shared by the link, if
\* it is there at all, although the link, the place of the folder and its entries
\* are looked at in separate transactions.  A deletion of the shared folder or
\* of one on the way takes everything below along, and no purge or restore leaves
\* part of it open: only a move can take a folder out of the share unseen.
ListedStillShared ==
    view.at = "items" /\ view.via # Root /\ ~view.moved /\ Active(view.p) =>
        view.p \in SharedBelow(view.via)
=============================================================================
