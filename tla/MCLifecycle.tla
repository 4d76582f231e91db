---------------------------- MODULE MCLifecycle ----------------------------
(* Lifecycle for TLC. *)
EXTENDS Lifecycle, TLC

CONSTANTS u1, u2, u3

TwoUploads == {u1, u2}

ThreeUploads == {u1, u2, u3}
=============================================================================
