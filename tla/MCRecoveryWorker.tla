-------------------------- MODULE MCRecoveryWorker --------------------------
(* Small instances of RecoveryWorker for TLC. *)
EXTENDS RecoveryWorker

CONSTANTS w1, w2, name

MCWorkers == {w1, w2}

MCOneWorker == {w1}

(* Both processes run with the default owner name "axum-worker". *)
MCOwner == [w \in MCWorkers |-> name]

MCOneOwner == [w \in MCOneWorker |-> name]
MCDeadlines == Life..MaxTime
=============================================================================
