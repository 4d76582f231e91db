---------------------------- MODULE MCEntryTree ----------------------------
(* EntryTree for TLC: identifiers and names of one kind are interchangeable. *)
EXTENDS EntryTree, TLC

CONSTANTS d1, d2, f1, f2, n1, n2

TwoFolders == {d1, d2}

TwoFiles == {f1, f2}

TwoNames == {n1, n2}

Symmetry == Permutations(Folders) \cup Permutations(Files) \cup Permutations(Names)
=============================================================================
