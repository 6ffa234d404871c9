------------------------------ MODULE MCPrices ------------------------------
(* Instances of the price refresh for TLC. *)
EXTENDS PriceProperties, TLC

CONSTANTS a, b, c, u

\* All on the first day; one on the first day, the others on the second.
SameDay == [r \in Runs |-> 0]
TwoDays == [r \in Runs |-> IF r = a THEN 0 ELSE 1]
=============================================================================
