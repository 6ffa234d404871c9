--------------------------- MODULE MCLoginLockout ---------------------------
(* The instance of the log-in lockout for TLC. *)
EXTENDS LoginLockout, TLC

CONSTANTS f1, f2

Symmetry == Permutations({f1, f2})
=============================================================================
