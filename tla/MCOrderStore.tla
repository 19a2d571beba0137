---------------------------- MODULE MCOrderStore ----------------------------
(* Small instances of OrderStore for TLC. *)
EXTENDS OrderStore

CONSTANTS w1, w2, name

MCWorkers == {w1, w2}

(* Both processes run with the default owner name "axum-worker". *)
MCOwner == [w \in MCWorkers |-> name]

MCOneWorker == {w1}

MCOneOwner == [w \in MCOneWorker |-> name]

MCDeadlines == {2}
=============================================================================
