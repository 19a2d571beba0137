--------------------------- MODULE CancelWorkflow ---------------------------
(***************************************************************************)
(* cancel_with_reconciliation (src/poll.rs): cancel an order, send the     *)
(* cancellation again only when the provider refused it for now, and look  *)
(* at the order with read-only calls after every attempt.                  *)
(*                                                                         *)
(* The provider refuses a cancellation while its time lock holds; an SMS   *)
(* may arrive, the provider may end the order by itself, and a request     *)
(* whose fate is unknown may be performed later.  Each call of the         *)
(* workflow is an SDK call with the promise of ApiCall.tla; a cancellation *)
(* is never raced against the deadline or the caller's token, the waits    *)
(* between calls are.                                                      *)
(*                                                                         *)
(* Abstracted: the length of the waits (any) and the balance observation,  *)
(* which is recorded and decides nothing.                                  *)
(***************************************************************************)
EXTENDS CancelRule

CONSTANTS Options,   \* of CancelOptions
          LockBody   \* what the provider answers, with 400, while the lock holds

(* The workflow starts with accepted options only.  That a rule names a      *)
(* client error is left to the caller: one on a 5xx status is accepted, and  *)
(* would repeat a cancellation that may have been performed.                 *)
ASSUME OptionsAssumption ==
    /\ Options \in CancelOptions /\ OptionsAccepted(Options)
    /\ Options.time_lock_rule # NoRule =>
          RuleAccepted(Options.time_lock_rule) /\ Options.time_lock_rule.status < 500
    /\ LockBody \in Body

MaxCancelAttempts == Options.max_cancel_attempts

MaxUnknownChecks == Options.max_outcome_unknown_reconciliation_checks

(* Whether the rule recognises the lock. *)
RuleFires ==
    /\ Options.time_lock_rule # NoRule
    /\ Matches(Options.time_lock_rule, DecodeApiError(400, LockBody))

VARIABLES order,     \* the order at the provider
          locked,    \* its time lock
          wire,      \* a cancellation of unknown fate may still be performed
          effected,  \* whether a cancellation of this workflow was performed
          stopped,   \* options.cancellation is cancelled
          due,       \* the deadline has passed
          pc,        \* where the workflow is
          outcome,   \* what the last cancellation returned
          attempts,  \* result.cancel_attempts
          checks,    \* result.reconciliation_checks
          rounds,    \* rounds of the loop after OutcomeUnknown
          check,     \* result.check
          active,    \* result.active
          result     \* the disposition or the error returned

vars == <<order, locked, wire, effected, stopped, due, pc, outcome, attempts,
          checks, rounds, check, active, result>>

providerVars == <<order, locked, wire, effected>>

callerVars == <<stopped, due>>

Order == {"pending", "received", "ended"}

(* Ok; OutcomeUnknown; an Api error with a 5xx status; an Api error that     *)
(* matches the time lock rule; 429; any other error.                         *)
Outcome == {"Ok", "OutcomeUnknown", "ServerError", "TimeLock", "RateLimited", "Rejected"}

CheckObservation == {"Pending", "Received", "Terminated", "NotFound", "Unavailable"}

ActiveObservation == {"Present", "Absent", "Unavailable"}

Disposition == {"CancellationAccepted", "TerminalSms", "StillActive", "NotFound",
                "Inconclusive", "OutcomeUnknown"}

WorkflowError == {"Cancelled", "Deadline"}

Running == {"start", "attempt", "sent", "check", "active", "decide", "retry", "pause"}

Init ==
    /\ order = "pending"
    /\ locked \in BOOLEAN
    /\ wire = FALSE
    /\ effected = FALSE
    /\ stopped = FALSE
    /\ due = FALSE
    /\ pc = "start"
    /\ outcome = "none"
    /\ attempts = 0
    /\ checks = 0
    /\ rounds = 0
    /\ check = "Unavailable"
    /\ active = "Unavailable"
    /\ result = "none"

-----------------------------------------------------------------------------
(* The provider and the caller. *)

(* The SMS arrives, or the provider ends the order by itself. *)
Progress ==
    /\ order = "pending"
    /\ order' \in {"received", "ended"}
    /\ UNCHANGED <<locked, wire, effected, callerVars, pc, outcome, attempts,
                   checks, rounds, check, active, result>>

Unlock ==
    /\ locked
    /\ locked' = FALSE
    /\ UNCHANGED <<order, wire, effected, callerVars, pc, outcome, attempts,
                   checks, rounds, check, active, result>>

Cancellable == order = "pending" /\ ~locked

(* The provider performs a cancellation whose answer never came. *)
LateEffect ==
    /\ wire /\ Cancellable
    /\ order' = "ended"
    /\ wire' = FALSE
    /\ effected' = TRUE
    /\ UNCHANGED <<locked, callerVars, pc, outcome, attempts, checks, rounds,
                   check, active, result>>

Stop ==
    /\ ~stopped
    /\ stopped' = TRUE
    /\ UNCHANGED <<providerVars, due, pc, outcome, attempts, checks, rounds,
                   check, active, result>>

DeadlinePasses ==
    /\ ~due
    /\ due' = TRUE
    /\ UNCHANGED <<providerVars, stopped, pc, outcome, attempts, checks, rounds,
                   check, active, result>>

-----------------------------------------------------------------------------
(* The cancellation request. *)

(* cancellation_preflight, and the waits, which are selected against the     *)
(* token first and the deadline second.                                      *)
GiveUp ==
    /\ pc \in {"start", "attempt", "retry", "pause"}
    /\ stopped \/ due
    /\ pc' = "done"
    /\ result' = IF stopped THEN "Cancelled" ELSE "Deadline"
    /\ UNCHANGED <<providerVars, callerVars, outcome, attempts, checks, rounds,
                   check, active>>

(* The first preflight has passed; the balance is read before the loop. *)
Start ==
    /\ pc = "start" /\ ~stopped /\ ~due
    /\ pc' = "attempt"
    /\ UNCHANGED <<providerVars, callerVars, outcome, attempts, checks, rounds,
                   check, active, result>>

Send ==
    /\ pc = "attempt" /\ ~stopped /\ ~due
    /\ attempts' = attempts + 1
    /\ pc' = "sent"
    /\ UNCHANGED <<providerVars, callerVars, outcome, checks, rounds, check,
                   active, result>>

(* The promise of one call, sms/cancel being a mutation. *)
SdkCall(delivered, performed, verdict) == INSTANCE ApiCall WITH safety <- "Mutation"

VerdictOf(o) ==
    CASE o = "Ok" -> "done"
      [] o = "OutcomeUnknown" -> "unknown"
      [] o = "ServerError" -> "server_error"
      [] o \in {"TimeLock", "RateLimited", "Rejected"} -> "not_done"

(* The call returns; p is whether the provider performed the cancellation.   *)
Answered(o, p) ==
    /\ pc = "sent"
    /\ p => Cancellable
    /\ o = "TimeLock" => RuleFires
    /\ SdkCall(1, p, "none")!Truthful(VerdictOf(o), 1, p)
    /\ order' = IF p THEN "ended" ELSE order
    /\ effected' = (effected \/ p)
    /\ wire' = (o = "OutcomeUnknown" /\ ~p)
    /\ outcome' = o
    /\ pc' = "check"
    /\ UNCHANGED <<locked, callerVars, attempts, checks, rounds, check, active, result>>

-----------------------------------------------------------------------------
(* reconcile_once. *)

(* What sms/check may say.  A message alone makes a pending order look       *)
(* terminated; an ended order is reported as such or as unknown.             *)
Observations ==
    CASE order = "pending"  -> {"Unavailable", "Pending", "Terminated"}
      [] order = "received" -> {"Unavailable", "Received"}
      [] order = "ended"    -> {"Unavailable", "Terminated", "NotFound"}

Check ==
    /\ pc = "check"
    /\ checks' = checks + 1
    /\ check' \in Observations
    /\ pc' = "active"
    /\ UNCHANGED <<providerVars, callerVars, outcome, attempts, rounds, active, result>>

(* What sms/active may say: a pending order is listed, an ended one is not,  *)
(* one that was delivered may be.                                            *)
ActiveObservations ==
    CASE order = "pending"  -> {"Unavailable", "Present"}
      [] order = "received" -> {"Unavailable", "Present", "Absent"}
      [] order = "ended"    -> {"Unavailable", "Absent"}

Active ==
    /\ pc = "active"
    /\ active' \in ActiveObservations
    /\ pc' = "decide"
    /\ UNCHANGED <<providerVars, callerVars, outcome, attempts, checks, rounds,
                   check, result>>

-----------------------------------------------------------------------------
(* What follows from an attempt and the observations after it. *)

Finish(r) ==
    /\ pc' = "done"
    /\ result' = r
    /\ UNCHANGED <<providerVars, callerVars, outcome, attempts, checks, rounds,
                   check, active>>

Go(where) ==
    /\ pc' = where
    /\ UNCHANGED <<providerVars, callerVars, outcome, attempts, checks,
                   check, active, result>>

Accepted ==
    /\ pc = "decide" /\ outcome = "Ok"
    /\ Finish("CancellationAccepted")

Conclusive == check \in {"Received", "Terminated", "NotFound"}

(* Fault variant: off by one. *)
EagerNextRound ==
    /\ pc = "decide" /\ outcome = "OutcomeUnknown"
    /\ ~Conclusive /\ rounds < MaxUnknownChecks
    /\ rounds' = rounds + 1
    /\ Go(IF checks < MaxUnknownChecks THEN "pause" ELSE "check")

(* The bounded loop after OutcomeUnknown.  Whether it waits before the next  *)
(* round depends on all checks so far, those after earlier attempts included.*)
NextRound ==
    /\ pc = "decide" /\ outcome = "OutcomeUnknown"
    /\ ~Conclusive /\ rounds + 1 < MaxUnknownChecks
    /\ rounds' = rounds + 1
    /\ Go(IF checks < MaxUnknownChecks THEN "pause" ELSE "check")

EndRounds ==
    /\ pc = "decide" /\ outcome = "OutcomeUnknown"
    /\ Conclusive \/ rounds + 1 >= MaxUnknownChecks
    /\ Finish("OutcomeUnknown")

(* Fault variant: only the deadline ends the wait. *)
DeadlineEndPause ==
    /\ pc = "pause" /\ due
    /\ UNCHANGED rounds
    /\ Go("check")

(* wait_reconciliation. *)
EndPause ==
    /\ pc = "pause" /\ ~stopped /\ ~due
    /\ UNCHANGED rounds
    /\ Go("check")

(* Fault variant: an attempt of unknown fate counts as refused. *)
RefusedOrUnknown == outcome \in {"TimeLock", "RateLimited", "OutcomeUnknown"}

(* Fault variant: a 429 ends the workflow. *)
RefusedByTimeLock == outcome = "TimeLock"

(* The provider refused for now: only then may another attempt follow. *)
Refused == outcome \in {"TimeLock", "RateLimited"}

(* Fault variant: a message counts as the end of the order. *)
UncorroboratedSettled ==
    CASE check \in {"Received", "Terminated"} -> "TerminalSms"
      [] check = "NotFound" -> "NotFound"
      [] OTHER -> "none"

(* settled_disposition. *)
SettledDisposition ==
    CASE check = "Received" -> "TerminalSms"
      [] check = "Terminated" /\ active = "Absent" -> "TerminalSms"
      [] check = "NotFound" -> "NotFound"
      [] OTHER -> "none"

(* exhausted_disposition. *)
ExhaustedDisposition ==
    IF check = "Pending" \/ active = "Present" THEN "StillActive" ELSE "Inconclusive"

(* disposition_from_observations. *)
DispositionFromObservations ==
    CASE SettledDisposition # "none" -> SettledDisposition
      [] check \in {"Pending", "Terminated"} /\ active = "Present" -> "StillActive"
      [] OTHER -> "Inconclusive"

EndRefused ==
    /\ pc = "decide" /\ Refused
    /\ \/ SettledDisposition # "none" /\ Finish(SettledDisposition)
       \/ /\ SettledDisposition = "none" /\ attempts >= MaxCancelAttempts
          /\ Finish(ExhaustedDisposition)

(* Fault variant: the budget is not looked at. *)
UnboundedRetry ==
    /\ pc = "decide" /\ Refused
    /\ SettledDisposition = "none"
    /\ UNCHANGED rounds
    /\ Go("retry")

Retry ==
    /\ pc = "decide" /\ Refused
    /\ SettledDisposition = "none" /\ attempts < MaxCancelAttempts
    /\ UNCHANGED rounds
    /\ Go("retry")

(* wait_cancel_retry. *)
EndRetryWait ==
    /\ pc = "retry" /\ ~stopped /\ ~due
    /\ UNCHANGED rounds
    /\ Go("attempt")

Failed ==
    /\ pc = "decide" /\ ~Refused /\ outcome \notin {"Ok", "OutcomeUnknown"}
    /\ Finish(DispositionFromObservations)

-----------------------------------------------------------------------------
Attempt == GiveUp \/ Start \/ Send \/ \E o \in Outcome, p \in BOOLEAN : Answered(o, p)

Reconcile == Check \/ Active

Decide == Accepted \/ NextRound \/ EndRounds \/ EndRefused \/ Retry \/ Failed

Workflow == Attempt \/ Reconcile \/ Decide \/ EndPause \/ EndRetryWait

Environment == Progress \/ Unlock \/ LateEffect \/ Stop \/ DeadlinePasses

Next == Workflow \/ Environment

Spec == Init /\ [][Next]_vars

(* Every call returns (EveryCallReturns of Transport.tla) and every wait     *)
(* ends.  Nothing is assumed of the provider, the token or the deadline.     *)
FairSpec == Spec /\ WF_vars(Workflow)

-----------------------------------------------------------------------------
TypeOK ==
    /\ order \in Order /\ locked \in BOOLEAN
    /\ wire \in BOOLEAN /\ effected \in BOOLEAN
    /\ stopped \in BOOLEAN /\ due \in BOOLEAN
    /\ pc \in Running \cup {"done"}
    /\ outcome \in Outcome \cup {"none"}
    /\ attempts \in 0..MaxCancelAttempts
    /\ checks \in Nat
    /\ rounds \in 0..(MaxUnknownChecks - 1)
    /\ check \in CheckObservation
    /\ active \in ActiveObservation
    /\ result \in Disposition \cup WorkflowError \cup {"none"}
    /\ pc = "done" <=> result # "none"

(* What the caller is told is so, whatever happened between the calls the    *)
(* verdict was put together from: an accepted cancellation was performed, a  *)
(* settled order is not pending, and an order the workflow itself cancelled  *)
(* is never reported as still active (settled_disposition,                   *)
(* exhausted_disposition, disposition_from_observations).                    *)
DispositionTruthful ==
    /\ result = "CancellationAccepted" => effected
    /\ result \in {"TerminalSms", "NotFound"} => order # "pending"
    /\ result = "StillActive" => ~effected

(* CancelOptions: the workflow never abandons a live number.  After an       *)
(* attempt the provider refused for now, it ends by itself with the order    *)
(* pending only when the attempts are spent.                                 *)
NoLiveNumberAbandoned ==
    /\ pc = "done" /\ result \notin WorkflowError
    /\ outcome \in {"TimeLock", "RateLimited"} /\ order = "pending"
    => attempts = MaxCancelAttempts

(* One reconciliation after each attempt, and after an attempt of unknown    *)
(* fate at most max_outcome_unknown_reconciliation_checks: together less     *)
(* than the sum that docs/api-contract.md gives as the bound.                *)
ReconciliationsBounded == checks < attempts + MaxUnknownChecks

(* A cancellation is sent again only when no earlier one was, or may yet be, *)
(* performed, and never after the workflow has seen the SMS or the end of    *)
(* the order (the per-attempt reconciliation of CancelOptions).              *)
SendAgainIsSafe ==
    attempts' > attempts =>
        /\ ~effected /\ ~wire
        /\ check \notin {"Received", "NotFound"}
        /\ ~(check = "Terminated" /\ active = "Absent")

NoUnsafeCancel == [][SendAgainIsSafe]_vars

(* The workflow returns, even when neither the deadline nor the token ever   *)
(* ends it and the provider refuses for ever.                                *)
WorkflowEnds == <>(pc = "done")

(* docs/api-contract.md: once the cancellation is sent, the caller is to     *)
(* rely on the disposition of the result.  An attempt of unknown fate is     *)
(* reported as one.                                                          *)
UnknownIsReported ==
    pc = "done" /\ outcome = "OutcomeUnknown" => result = "OutcomeUnknown"
=============================================================================
