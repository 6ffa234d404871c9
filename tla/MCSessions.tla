----------------------------- MODULE MCSessions -----------------------------
(* The instance of the browser's sessions for TLC. *)
EXTENDS Sessions, TLC

CONSTANTS t1, t2, c1, c2

\* Neither tabs nor calls are ever told apart.
Symmetry == Permutations({t1, t2}) \cup Permutations({c1, c2})

\* Bound of the instance: an account that exists, and calls of these kinds.
OfRevocation ==
    version # None /\ \A c \in Calls : call[c].kind \in {"none", "boot", "login", "logout", "reset"}
=============================================================================
