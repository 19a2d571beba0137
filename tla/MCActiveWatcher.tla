-------------------------- MODULE MCActiveWatcher --------------------------
(* Model-checking instances of ActiveWatcher. *)
EXTENDS ActiveWatcher
MCOrders == {1, 2, 3}
=============================================================================
