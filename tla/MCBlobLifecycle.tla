-------------------------- MODULE MCBlobLifecycle --------------------------
(* BlobLifecycle for TLC. *)
EXTENDS BlobLifecycle, TLC

CONSTANTS b1, b2, u1, u2, t1, t2, r1

OneDigest == {b1}

TwoDigests == {b1, b2}

OneUpload == {u1}

TwoUploads == {u1, u2}

OneTemp == {t1}

TwoTemps == {t1, t2}

OneReader == {r1}

NoReaders == {}

Symmetry == Permutations(Digests) \cup Permutations(Uploads) \cup Permutations(Temps)
=============================================================================
