-------------------------- MODULE MCCancelWorkflow --------------------------
(* Small instances of CancelWorkflow for TLC.  The lock is answered the way  *)
(* CancelTimeLockRule documents it: 400 with a message and no machine type.  *)
EXTENDS CancelWorkflow

CONSTANT TryLater

MCText == {NoText, Blank, TryLater}

MCRule(field) ==
    [status |-> 400, field |-> field, value |-> TryLater, retry_after |-> 1]

MCOptions ==
    [max_cancel_attempts |-> 3, max_outcome_unknown_reconciliation_checks |-> 3,
     time_lock_rule |-> MCRule("message")]

MCLockBody == [[key \in Keys |-> NoText] EXCEPT !["message"] = TryLater]
=============================================================================
