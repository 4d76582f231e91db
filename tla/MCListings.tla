----------------------------- MODULE MCListings -----------------------------
(* Listings for TLC, with three folders and two files. *)
EXTENDS Listings, TLC

CONSTANTS d1, d2, d3, f1, f2, n1, n2

ThreeFolders == {d1, d2, d3}

TwoFiles == {f1, f2}

TwoNames == {n1, n2}

OneByOne == {[kind |-> "all", size |-> 1], [kind |-> "file", size |-> 1]}

Symmetry == Permutations(Folders) \cup Permutations(Files) \cup Permutations(Names)
=============================================================================
