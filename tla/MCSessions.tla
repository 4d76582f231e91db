----------------------------- MODULE MCSessions -----------------------------
(* Sessions for TLC. *)
EXTENDS Sessions, TLC

CONSTANTS l1, l2, i1, i2, c1, c2, r1, r2

OneLogin == {l1}

TwoLogins == {l1, l2}

TwoIds == {i1, i2}

TwoCallbacks == {c1, c2}

OneRequest == {r1}

TwoRequests == {r1, r2}

Symmetry == Permutations(Logins) \cup Permutations(Ids) \cup Permutations(Callbacks)
            \cup Permutations(Requests)
=============================================================================
