----------------------- MODULE MCPurchaseCoordinator -----------------------
(* Small instances of PurchaseCoordinator for TLC. *)
EXTENDS PurchaseCoordinator, TLC

CONSTANTS w1, name

MCWorkers == {w1}

MCOwner == [w \in MCWorkers |-> name]

MCDeadlines == {1}

(* Nothing tells one order, intent or coordinator from another: every       *)
(* definition and property treats all of them alike.                         *)
MCSymmetry ==
    Permutations(Orders) \cup Permutations(Intents) \cup Permutations(Coordinators)
=============================================================================
