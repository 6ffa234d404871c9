----------------------------- MODULE MCAddForms -----------------------------
(* Instances of the add dialogs for TLC. *)
EXTENDS AddForms, TLC

CONSTANTS h1, h2

\* A rate with a minimum, and a flat fee.
Percentage == [fee_type |-> "percentage", rate |-> 42, minimum_fee |-> 1200, flat_fee |-> 0]
Flat == [fee_type |-> "flat", rate |-> 0, minimum_fee |-> 0, flat_fee |-> 800]
BothBrokers == {Percentage, Flat}

OneLot == [broker |-> Percentage, total |-> 2]
Interchangeable == Permutations(Handlers)
=============================================================================
