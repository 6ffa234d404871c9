--------------------------- MODULE MCPositionPage ---------------------------
(* Instances of the position page for TLC. *)
EXTENDS PositionProperties, TLC

CONSTANTS l1, t1, pos, h1, h2

AtFirst == (l1 :> 2) @@ (t1 :> 1)
Versions == (l1 :> 2) @@ (t1 :> 1)

Interchangeable == Permutations(Handlers)
=============================================================================
