----------------------------- MODULE MCEntryTx -----------------------------
(* EntryTx for TLC. *)
EXTENDS EntryTx, TLC

CONSTANTS c1, c2, d1, d2, d3, f1, f2, n1, n2

OneClient == {c1}

TwoClients == {c1, c2}

TwoFolders == {d1, d2}

ThreeFolders == {d1, d2, d3}

OneFile == {f1}

TwoFiles == {f1, f2}

OneName == {n1}

TwoNames == {n1, n2}

AllOps == [c \in Clients |-> Ops]

Moves == [c \in Clients |-> {"create", "updateFolder"}]

CreatePurge == [c \in Clients |-> IF c = c1 THEN {"create"} ELSE {"create", "deleteFolder", "purge"}]

Symmetry == Permutations(Folders) \cup Permutations(Files) \cup Permutations(Names)
=============================================================================
