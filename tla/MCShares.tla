------------------------------ MODULE MCShares ------------------------------
(* ShareRequests, and with it Shares, for TLC. *)
EXTENDS ShareRequests, TLC

CONSTANTS s1, s2, g1, g2, p1, c1

TwoShares == {s1, s2}

TwoDownloads == {g1, g2}

OnePassword == {p1}

OneCreate == {c1}

Symmetry == Permutations(Shares) \cup Permutations(Downloads)
=============================================================================
