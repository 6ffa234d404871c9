---------------------------- MODULE MCPortfolio ----------------------------
(* Instances of the portfolio's write side for TLC. *)
EXTENDS PortfolioProperties, TLC

CONSTANTS r1, r2, r3, p1, p2, l1, l2, l3, t1, t2

\* Requests, positions, lots and tranches are interchangeable.
Interchangeable ==
    Permutations(Requests) \cup Permutations(PositionId)
        \cup Permutations(LotId) \cup Permutations(TrancheId)
=============================================================================
