----------------------------- MODULE ShareQuota -----------------------------
(***************************************************************************)
(* What a share link promises about its downloads: each one is granted in  *)
(* one step, by a link that is still offered and has allowance left, and   *)
(* the owner cannot set a limit below what has been granted.               *)
(***************************************************************************)
EXTENDS Naturals

CONSTANTS
    Shares,     \* share links
    Unlimited,  \* no download limit
    MaxLimit    \* bound: download limits

Limits == 1 .. MaxLimit \cup {Unlimited}

VARIABLE quota

NoQuota == [status |-> "unused", limit |-> Unlimited, used |-> 0]

Init == quota = [s \in Shares |-> NoQuota]

\* used downloads fit in limit l
Fits(used, l) == l = Unlimited \/ used <= l

Offer(s, l) ==
    /\ quota[s].status = "unused"
    /\ quota' = [quota EXCEPT ![s] = [status |-> "live", limit |-> l, used |-> 0]]

Grant(s) ==
    /\ quota[s].status = "live"
    /\ Fits(quota[s].used + 1, quota[s].limit)
    /\ quota' = [quota EXCEPT ![s].used = @ + 1]

SetLimit(s, l) ==
    /\ quota[s].status = "live"
    /\ Fits(quota[s].used, l)
    /\ quota' = [quota EXCEPT ![s].limit = l]

Withdraw(s) ==
    /\ quota[s].status = "live"
    /\ quota' = [quota EXCEPT ![s].status = "gone", ![s].limit = Unlimited]

Next ==
    \E s \in Shares :
        Grant(s) \/ Withdraw(s) \/ \E l \in Limits : Offer(s, l) \/ SetLimit(s, l)

Spec == Init /\ [][Next]_quota
=============================================================================
