---------------------------- MODULE MCDashboard ----------------------------
(* The instance of the dashboard for TLC. *)
EXTENDS Dashboard, TLC

CONSTANTS r1, r2, h1, h2

InAnswer == (r1 :> 2) @@ (r2 :> 1)
InAlphabet == (r1 :> 1) @@ (r2 :> 2)
Writes == (r1 :> 2) @@ (r2 :> 1)

Symmetry == Permutations({h1, h2})
=============================================================================
