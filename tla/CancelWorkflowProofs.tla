------------------------ MODULE CancelWorkflowProofs ------------------------
(***************************************************************************)
(* Proofs about the cancel workflow, for any number of attempts and of     *)
(* reconciliation rounds, whatever the time lock rule.  IInv adds to the   *)
(* invariants the runs check what the workflow knows at each stage: how    *)
(* its counters relate, which attempts may have been performed, and that   *)
(* an observation stays true because an order never becomes pending again. *)
(* StepsLeft, at the end, is why the workflow returns.                     *)
(***************************************************************************)
EXTENDS CancelWorkflow, TLAPS

(* How the counters relate. *)
Counters ==
    /\ pc \in {"start", "attempt", "retry"} =>
          attempts < MaxCancelAttempts /\ checks = attempts /\ rounds = 0
    /\ pc = "sent" => checks = attempts - 1 /\ rounds = 0 /\ attempts >= 1
    /\ pc \in {"check", "pause"} => checks = attempts - 1 + rounds /\ attempts >= 1
    /\ pc \in {"active", "decide"} => checks = attempts + rounds /\ attempts >= 1
    /\ checks <= attempts + rounds
    /\ rounds > 0 => outcome = "OutcomeUnknown"

(* Which attempts may have been, or may still be, performed. *)
Effects ==
    /\ pc \in {"start", "attempt", "retry", "sent"} => ~effected /\ ~wire
    /\ pc \in {"start", "attempt", "retry"} => outcome \in {"none", "TimeLock", "RateLimited"}
    /\ pc \in {"check", "active", "decide", "pause"} => outcome \in Outcome
    /\ effected => order = "ended"
    /\ effected /\ pc # "sent" => outcome \in {"Ok", "OutcomeUnknown", "ServerError"}
    /\ wire /\ pc # "sent" => outcome = "OutcomeUnknown"
    /\ outcome = "Ok" /\ pc # "sent" => effected

(* What has been observed stays so. *)
Observed ==
    /\ check \in {"Received", "NotFound"} => order # "pending"
    /\ active = "Absent" => order # "pending"
    /\ pc = "decide" /\ effected /\ outcome = "ServerError" => active # "Present"

(* An order that is settled is not attempted again. *)
Unsettled ==
    pc \in {"start", "attempt", "retry"} => SettledDisposition = "none"

(* The results the stages lead to. *)
Results ==
    /\ DispositionTruthful
    /\ NoLiveNumberAbandoned
    /\ result = "StillActive" => outcome # "OutcomeUnknown" /\ ~wire

IInv ==
    /\ TypeOK
    /\ Counters
    /\ Effects
    /\ Observed
    /\ Unsettled
    /\ Results

-----------------------------------------------------------------------------
(* Both bounds of accepted options are positive (the checks at the head of   *)
(* cancel_with_reconciliation).                                              *)
LEMMA Budgets == MaxCancelAttempts \in Nat \ {0} /\ MaxUnknownChecks \in Nat \ {0}
BY OptionsAssumption
   DEF CancelOptions, OptionsAccepted, MaxCancelAttempts, MaxUnknownChecks

(* It holds before anything is done. *)
LEMMA IInvInit == Init => IInv
<1> SUFFICES ASSUME Init PROVE IInv
  OBVIOUS
<1> USE Budgets DEF Init
<1>1. TypeOK
  <2>1. attempts \in 0..MaxCancelAttempts /\ rounds \in 0..(MaxUnknownChecks - 1)
    OBVIOUS
  <2>2. pc \in Running /\ pc # "done" /\ order \in Order
    BY DEF Running, Order
  <2>3. check \in CheckObservation /\ active \in ActiveObservation
    BY DEF CheckObservation, ActiveObservation
  <2> QED
    BY <2>1, <2>2, <2>3 DEF TypeOK
<1>2. Counters /\ Effects /\ Observed
  BY DEF Counters, Effects, Observed
<1>3. Unsettled
  BY DEF Unsettled, SettledDisposition
<1>4. Results
  BY DEF Results, DispositionTruthful, NoLiveNumberAbandoned
<1> QED
  BY <1>1, <1>2, <1>3, <1>4 DEF IInv

(* The provider and the caller keep it: an order only leaves "pending". *)
LEMMA EnvironmentKeeps ==
  ASSUME IInv, Environment
  PROVE  IInv'
<1> USE DEF Environment, Progress, Unlock, LateEffect, Stop, DeadlinePasses, Cancellable,
            providerVars, callerVars
<1>1. TypeOK'
  BY DEF IInv, TypeOK, Order
<1>2. Counters'
  BY DEF IInv, Counters
<1>3. Effects'
  BY DEF IInv, TypeOK, Effects
<1>4. Observed'
  BY DEF IInv, TypeOK, Effects, Observed
<1>5. Unsettled'
  BY DEF IInv, Unsettled, SettledDisposition
<1>6. Results'
  BY DEF IInv, TypeOK, Effects, Results, DispositionTruthful, NoLiveNumberAbandoned
<1> QED
  BY <1>1, <1>2, <1>3, <1>4, <1>5, <1>6 DEF IInv

(* So do sending a cancellation and its answer. *)
LEMMA AttemptKeeps ==
  ASSUME IInv, Attempt
  PROVE  IInv'
<1> USE Budgets DEF providerVars, callerVars
<1>1. CASE GiveUp
  <2> USE <1>1 DEF GiveUp
  <2>1. TypeOK'
    BY DEF IInv, TypeOK, WorkflowError
  <2>2. Counters' /\ Effects' /\ Observed'
    BY DEF IInv, Counters, Effects, Observed
  <2>3. Unsettled' /\ Results'
    BY DEF Unsettled, Results, DispositionTruthful, NoLiveNumberAbandoned, WorkflowError
  <2> QED
    BY <2>1, <2>2, <2>3 DEF IInv
<1>2. CASE Start
  <2> USE <1>2 DEF Start
  <2>1. TypeOK'
    BY DEF IInv, TypeOK, Running
  <2>2. Counters' /\ Effects' /\ Observed'
    BY DEF IInv, Counters, Effects, Observed
  <2>3. Unsettled' /\ Results'
    BY DEF IInv, Unsettled, SettledDisposition, Results, DispositionTruthful,
           NoLiveNumberAbandoned
  <2> QED
    BY <2>1, <2>2, <2>3 DEF IInv
<1>3. CASE Send
  <2> USE <1>3 DEF Send
  <2>1. TypeOK'
    BY DEF IInv, TypeOK, Counters, Running
  <2>2. Counters' /\ Effects' /\ Observed'
    BY DEF IInv, TypeOK, Counters, Effects, Observed
  <2>3. Unsettled' /\ Results'
    BY DEF IInv, TypeOK, Unsettled, Results, DispositionTruthful, NoLiveNumberAbandoned
  <2> QED
    BY <2>1, <2>2, <2>3 DEF IInv
<1>4. ASSUME NEW o \in Outcome, NEW p \in BOOLEAN, Answered(o, p)
      PROVE  IInv'
  <2> USE <1>4 DEF Answered
  <2>1. /\ o = "Ok" => p
        /\ o \in {"TimeLock", "RateLimited", "Rejected"} => ~p
    BY DEF SdkCall!Truthful, VerdictOf
  <2> USE DEF Cancellable
  <2>2. TypeOK'
    BY DEF IInv, TypeOK, Running, Order
  <2>3. Counters'
    BY DEF IInv, TypeOK, Counters
  <2>4. Effects'
    BY <2>1 DEF IInv, Effects, Outcome
  <2>5. Observed' /\ Unsettled'
    BY DEF IInv, Observed, Unsettled
  <2>6. Results'
    BY DEF IInv, TypeOK, Results, DispositionTruthful, NoLiveNumberAbandoned
  <2> QED
    BY <2>2, <2>3, <2>4, <2>5, <2>6 DEF IInv
<1> QED
  BY <1>1, <1>2, <1>3, <1>4 DEF Attempt

(* And looking at the order. *)
LEMMA ReconcileKeeps ==
  ASSUME IInv, Reconcile
  PROVE  IInv'
<1> USE DEF providerVars, callerVars
<1>1. CASE Check
  <2> USE <1>1 DEF Check
  <2>1. /\ check' \in CheckObservation
        /\ check' \in {"Received", "NotFound"} => order # "pending"
    BY DEF Observations, CheckObservation, IInv, TypeOK, Order
  <2>2. TypeOK'
    BY <2>1 DEF IInv, TypeOK, Running
  <2>3. Counters' /\ Effects'
    BY DEF IInv, TypeOK, Counters, Effects
  <2>4. Observed' /\ Unsettled'
    BY <2>1 DEF IInv, Observed, Unsettled
  <2>5. Results'
    BY DEF IInv, TypeOK, Results, DispositionTruthful, NoLiveNumberAbandoned
  <2> QED
    BY <2>2, <2>3, <2>4, <2>5 DEF IInv
<1>2. CASE Active
  <2> USE <1>2 DEF Active
  <2>1. /\ active' \in ActiveObservation
        /\ active' = "Absent" => order # "pending"
        /\ order = "ended" => active' # "Present"
    BY DEF ActiveObservations, ActiveObservation, IInv, TypeOK, Order
  <2>2. TypeOK'
    BY <2>1 DEF IInv, TypeOK, Running
  <2>3. Counters' /\ Effects'
    BY DEF IInv, TypeOK, Counters, Effects
  <2>4. Observed' /\ Unsettled'
    BY <2>1 DEF IInv, Observed, Unsettled, Effects
  <2>5. Results'
    BY DEF IInv, TypeOK, Results, DispositionTruthful, NoLiveNumberAbandoned
  <2> QED
    BY <2>2, <2>3, <2>4, <2>5 DEF IInv
<1> QED
  BY <1>1, <1>2 DEF Reconcile

(* Going on leaves everything but the stage, and the round, as it is. *)
LEMMA GoKeeps ==
  ASSUME IInv, NEW where \in Running \ {"start", "sent", "active", "decide"}, Go(where),
         pc \in Running, rounds' \in 0..(MaxUnknownChecks - 1),
         Counters', Unsettled',
         where \in {"attempt", "retry"} =>
            ~effected /\ ~wire /\ outcome \in {"none", "TimeLock", "RateLimited"},
         where \in {"check", "pause"} => pc # "sent" /\ outcome \in Outcome
  PROVE  IInv'
<1> USE DEF Go, providerVars, callerVars
<1>1. TypeOK'
  BY DEF IInv, TypeOK, Running
<1>2. Effects'
  BY DEF IInv, Effects, Running
<1>3. Observed'
  BY DEF IInv, Observed, Running
<1>4. Results'
  BY DEF IInv, TypeOK, Results, DispositionTruthful, NoLiveNumberAbandoned, Running
<1> QED
  BY <1>1, <1>2, <1>3, <1>4 DEF IInv

(* Finishing keeps it when the result says the truth. *)
LEMMA FinishKeeps ==
  ASSUME IInv, NEW r \in Disposition, Finish(r), pc = "decide",
         r = "CancellationAccepted" => effected,
         r \in {"TerminalSms", "NotFound"} => order # "pending",
         r = "StillActive" => ~effected /\ ~wire /\ outcome # "OutcomeUnknown",
         Refused /\ order = "pending" => attempts = MaxCancelAttempts
  PROVE  IInv'
<1> USE DEF Finish, providerVars, callerVars
<1>1. r # "none" /\ r \notin WorkflowError
  BY DEF Disposition, WorkflowError
<1>2. TypeOK'
  BY <1>1 DEF IInv, TypeOK
<1>3. Counters' /\ Effects' /\ Observed' /\ Unsettled'
  BY DEF IInv, Counters, Effects, Observed, Unsettled
<1>4. Results'
  BY <1>1 DEF Results, DispositionTruthful, NoLiveNumberAbandoned, Refused
<1> QED
  BY <1>2, <1>3, <1>4 DEF IInv

(* What the observations settle is so. *)
LEMMA SettledIsSo ==
  ASSUME IInv
  PROVE  /\ SettledDisposition \in {"TerminalSms", "NotFound", "none"}
         /\ SettledDisposition # "none" => order # "pending"
  BY DEF SettledDisposition, IInv, Observed

(* Every decision keeps the invariant. *)
LEMMA DecideKeeps ==
  ASSUME IInv, Decide
  PROVE  IInv'
<1> USE Budgets DEF Disposition
<1>1. /\ pc = "decide" /\ attempts >= 1 /\ attempts \in Nat /\ rounds \in Nat
      /\ attempts <= MaxCancelAttempts /\ checks = attempts + rounds
      /\ outcome \in Outcome
  BY DEF Decide, Accepted, NextRound, EndRounds, EndRefused, Retry, Failed,
         IInv, TypeOK, Counters, Effects
<1>2. CASE Accepted
  <2>1. effected /\ ~Refused
    BY <1>2 DEF Accepted, IInv, Effects, Refused
  <2> QED
    BY <1>1, <1>2, <2>1, FinishKeeps DEF Accepted
<1>3. CASE NextRound
  <2> DEFINE where == IF checks < MaxUnknownChecks THEN "pause" ELSE "check"
  <2>1. where \in {"check", "pause"} /\ Go(where) /\ rounds' = rounds + 1
    BY <1>3 DEF NextRound
  <2>2. rounds' \in 0..(MaxUnknownChecks - 1)
    BY <1>1, <1>3 DEF NextRound
  <2>3. pc' \in {"check", "pause"} /\ UNCHANGED <<attempts, checks, outcome>>
    BY <2>1 DEF Go
  <2>4. Counters' /\ Unsettled'
    BY <1>1, <1>3, <2>1, <2>3 DEF NextRound, Counters, Unsettled
  <2> HIDE DEF where
  <2> QED
    BY <1>1, <2>1, <2>2, <2>4, GoKeeps DEF Running
<1>4. CASE EndRounds
  BY <1>1, <1>4, FinishKeeps DEF EndRounds, Refused
<1>5. ASSUME Refused
      PROVE  ~effected /\ ~wire /\ outcome \in {"TimeLock", "RateLimited"} /\ rounds = 0
  BY <1>1, <1>5 DEF Refused, IInv, Effects, Counters, TypeOK
<1>6. CASE EndRefused
  <2>1. CASE SettledDisposition # "none" /\ Finish(SettledDisposition)
    BY <1>1, <2>1, SettledIsSo, FinishKeeps
  <2>2. CASE attempts >= MaxCancelAttempts /\ Finish(ExhaustedDisposition)
    <3>1. ExhaustedDisposition \in {"StillActive", "Inconclusive"}
      BY DEF ExhaustedDisposition
    <3>2. attempts = MaxCancelAttempts
      BY <1>1, <2>2
    <3> QED
      BY <1>1, <1>5, <1>6, <2>2, <3>1, <3>2, FinishKeeps DEF EndRefused
  <2> QED
    BY <1>6, <2>1, <2>2 DEF EndRefused
<1>7. CASE Retry
  <2>1. pc' = "retry" /\ Go("retry") /\ UNCHANGED <<attempts, checks, rounds, outcome, check, active>>
    BY <1>7 DEF Retry, Go
  <2>2. ~effected /\ ~wire /\ outcome \in {"TimeLock", "RateLimited"} /\ rounds = 0
    BY <1>5, <1>7 DEF Retry
  <2>3. Counters'
    BY <1>1, <1>7, <2>1, <2>2 DEF Retry, Counters
  <2>4. Unsettled'
    BY <1>7, <2>1 DEF Retry, Unsettled, SettledDisposition
  <2> QED
    BY <1>1, <2>1, <2>2, <2>3, <2>4, GoKeeps DEF Running, IInv, TypeOK
<1>8. CASE Failed
  <2>1. /\ outcome \in {"ServerError", "Rejected"} /\ ~Refused /\ ~wire
        /\ effected => outcome = "ServerError"
    BY <1>1, <1>8 DEF Failed, Refused, Outcome, IInv, Effects
  <2>2. /\ DispositionFromObservations \in
              {"TerminalSms", "NotFound", "StillActive", "Inconclusive"}
        /\ DispositionFromObservations \in {"TerminalSms", "NotFound"} => order # "pending"
        /\ DispositionFromObservations = "StillActive" => active = "Present"
    <3>1. CASE SettledDisposition # "none"
      <4>1. ~(check \in {"Pending", "Terminated"} /\ active = "Present")
        BY <3>1 DEF SettledDisposition
      <4> QED
        BY <3>1, <4>1, SettledIsSo DEF DispositionFromObservations
    <3>2. CASE SettledDisposition = "none"
      BY <3>2 DEF DispositionFromObservations
    <3> QED
      BY <3>1, <3>2
  <2>3. active = "Present" => ~effected
    BY <1>1, <2>1 DEF IInv, Observed
  <2> QED
    BY <1>1, <1>8, <2>1, <2>2, <2>3, FinishKeeps DEF Failed
<1> QED
  BY <1>2, <1>3, <1>4, <1>6, <1>7, <1>8 DEF Decide

(* And the end of a wait. *)
LEMMA WaitsKeep ==
  ASSUME IInv, EndPause \/ EndRetryWait
  PROVE  IInv'
<1>1. CASE EndPause
  <2>1. pc = "pause" /\ pc' = "check" /\ Go("check") /\ UNCHANGED <<attempts, checks, rounds, outcome>>
    BY <1>1 DEF EndPause, Go
  <2>2. Counters' /\ Unsettled'
    BY <2>1 DEF IInv, Counters, Unsettled
  <2>3. outcome \in Outcome
    BY <2>1 DEF IInv, Effects
  <2> QED
    BY <2>1, <2>2, <2>3, GoKeeps DEF Running, IInv, TypeOK
<1>2. CASE EndRetryWait
  <2>1. /\ pc = "retry" /\ pc' = "attempt" /\ Go("attempt")
        /\ UNCHANGED <<attempts, checks, rounds, outcome, check, active>>
    BY <1>2 DEF EndRetryWait, Go
  <2>2. Counters' /\ Unsettled'
    BY <2>1 DEF IInv, Counters, Unsettled, SettledDisposition
  <2>3. ~effected /\ ~wire /\ outcome \in {"none", "TimeLock", "RateLimited"}
    BY <2>1 DEF IInv, Effects
  <2> QED
    BY <2>1, <2>2, <2>3, GoKeeps DEF Running, IInv, TypeOK
<1> QED
  BY <1>1, <1>2

(* Every step of the workflow and of its environment keeps IInv. *)
LEMMA IInvStep == IInv /\ [Next]_vars => IInv'
<1> SUFFICES ASSUME IInv, [Next]_vars PROVE IInv'
  OBVIOUS
<1>1. CASE UNCHANGED vars
  BY <1>1 DEF vars, IInv, TypeOK, Counters, Effects, Observed, Unsettled, SettledDisposition,
              Results, DispositionTruthful, NoLiveNumberAbandoned
<1> QED
  BY <1>1, EnvironmentKeeps, AttemptKeeps, ReconcileKeeps, DecideKeeps, WaitsKeep
     DEF Next, Workflow

-----------------------------------------------------------------------------
(* The workflow is in the states of IInv from its beginning to its end. *)
LEMMA Invariance == Spec => []IInv
BY IInvInit, IInvStep, PTL DEF Spec

(* Every state has its type: in particular no more cancellations are sent    *)
(* than max_cancel_attempts, and there is a result exactly at the end.       *)
THEOREM CancelTypeCorrect == Spec => []TypeOK
<1>1. IInv => TypeOK
  BY DEF IInv
<1> QED
  BY <1>1, Invariance, PTL

(* What cancel_with_reconciliation returns is so, whatever happened between  *)
(* the calls it was put together from.                                       *)
THEOREM TellsTheTruth == Spec => []DispositionTruthful
<1>1. IInv => DispositionTruthful
  BY DEF IInv, Results
<1> QED
  BY <1>1, Invariance, PTL

(* A refused cancellation is given up only when its attempts are spent.      *)
THEOREM NumbersNotAbandoned == Spec => []NoLiveNumberAbandoned
<1>1. IInv => NoLiveNumberAbandoned
  BY DEF IInv, Results
<1> QED
  BY <1>1, Invariance, PTL

(* The reads of reconcile_once are bounded by the two options together.      *)
THEOREM ReadsBounded == Spec => []ReconciliationsBounded
<1>1. IInv => ReconciliationsBounded
  BY Budgets DEF IInv, TypeOK, Counters, ReconciliationsBounded
<1> QED
  BY <1>1, Invariance, PTL

(* A cancellation is sent again only when no earlier one was, or may yet be, *)
(* performed and nothing observed settles the order.                         *)
THEOREM RetriesAreSafe == Spec => NoUnsafeCancel
<1>1. IInv /\ [Next]_vars => [SendAgainIsSafe]_vars
  <2> SUFFICES ASSUME IInv, Next, attempts' > attempts
               PROVE  SendAgainIsSafe
    BY DEF SendAgainIsSafe
  <2>1. attempts \in Nat
    BY DEF IInv, TypeOK
  <2>2. attempts' # attempts
    BY <2>1
  <2>3. Send
    BY <2>2 DEF Next, Workflow, Environment, Attempt, Reconcile, Decide, GiveUp, Start,
         Answered, Check, Active, Accepted, NextRound, EndRounds, EndRefused, Retry,
         Failed, EndPause, EndRetryWait, Go, Finish, Progress, Unlock, LateEffect, Stop,
         DeadlinePasses
  <2>4. ~effected /\ ~wire
    BY <2>3 DEF Send, IInv, Effects
  <2>5. SettledDisposition = "none"
    BY <2>3 DEF Send, IInv, Unsettled
  <2>6. check \notin {"Received", "NotFound"} /\ ~(check = "Terminated" /\ active = "Absent")
    BY <2>5 DEF SettledDisposition
  <2> QED
    BY <2>4, <2>6 DEF SendAgainIsSafe
<1> QED
  BY <1>1, Invariance, PTL DEF Spec, NoUnsafeCancel
-----------------------------------------------------------------------------
(* How far the workflow is from returning, and why it does.  A round of the  *)
(* loop after OutcomeUnknown is at most three steps and a wait, an attempt   *)
(* at most its answer, one reconciliation and a wait.                        *)
Stages(where) ==
    CASE where \in {"sent", "pause"} -> 6
      [] where = "check" -> 5
      [] where = "active" -> 4
      [] where = "decide" -> 3
      [] where \in {"start", "retry"} -> 2
      [] where = "attempt" -> 1
      [] where = "done" -> 0

StepsLeft ==
    6 * (MaxCancelAttempts - attempts) + 4 * (MaxUnknownChecks - 1 - rounds) + Stages(pc)

(* The steps the options allow before the first preflight. *)
MostSteps == 6 * MaxCancelAttempts + 4 * (MaxUnknownChecks - 1) + 2

StepsBounded == StepsLeft \in 0..MostSteps

(* A step of the workflow uses one up; the provider, the token and the       *)
(* deadline neither use any nor give any back.                               *)
StepsRunOut ==
    /\ Workflow => StepsLeft' < StepsLeft
    /\ Environment => StepsLeft' = StepsLeft

(* A stage is a few steps, at the start two and while one may wait six.      *)
LEMMA StagesAreFew == \A where \in Running \cup {"done"} : Stages(where) \in 0..6
BY DEF Stages, Running

(* The bound holds in every state of the invariant: what remains after an    *)
(* attempt has begun is covered by what that attempt paid.                   *)
LEMMA StepsAreBounded == IInv => StepsBounded
<1> SUFFICES ASSUME IInv PROVE StepsBounded
  OBVIOUS
<1>1. /\ MaxCancelAttempts \in Nat /\ MaxUnknownChecks \in Nat \ {0}
      /\ attempts \in 0..MaxCancelAttempts /\ rounds \in 0..(MaxUnknownChecks - 1)
      /\ pc \in Running \cup {"done"}
  BY Budgets DEF IInv, TypeOK
<1>2. Stages(pc) \in 0..6
  BY <1>1, StagesAreFew
<1>3. attempts = 0 => Stages(pc) <= 2
  <2> SUFFICES ASSUME attempts = 0 PROVE Stages(pc) <= 2
    OBVIOUS
  <2>1. pc \in {"start", "attempt", "retry", "done"}
    BY <1>1 DEF Running, IInv, Counters
  <2> QED
    BY <2>1 DEF Stages
<1> HIDE DEF Stages
<1> QED
  BY <1>1, <1>2, <1>3 DEF StepsBounded, StepsLeft, MostSteps

(* Every step of the workflow comes nearer to its end. *)
LEMMA StepsDecrease == IInv /\ [Next]_vars => [StepsRunOut]_vars
<1> SUFFICES ASSUME IInv, Next PROVE StepsRunOut
  OBVIOUS
<1> USE DEF providerVars, callerVars
<1>1. /\ MaxCancelAttempts \in Nat /\ MaxUnknownChecks \in Nat
      /\ attempts \in Nat /\ rounds \in Nat
  BY Budgets DEF IInv, TypeOK
<1>2. ASSUME Workflow PROVE StepsLeft' < StepsLeft
  <2>1. CASE GiveUp \/ Start
    <3>1. Stages(pc') < Stages(pc) /\ Stages(pc) \in Nat /\ Stages(pc') \in Nat
      BY <2>1 DEF GiveUp, Start, Stages
    <3> QED
      BY <1>1, <2>1, <3>1 DEF GiveUp, Start, StepsLeft
  <2>2. CASE Send
    <3>1. Stages(pc') = 6 /\ Stages(pc) = 1
      BY <2>2 DEF Send, Stages
    <3> QED
      BY <1>1, <2>2, <3>1 DEF Send, StepsLeft
  <2>3. CASE \E o \in Outcome, p \in BOOLEAN : Answered(o, p)
    <3>1. Stages(pc') = 5 /\ Stages(pc) = 6 /\ UNCHANGED <<attempts, rounds>>
      BY <2>3 DEF Answered, Stages
    <3> QED
      BY <1>1, <3>1 DEF StepsLeft
  <2>4. CASE Reconcile
    <3>1. /\ Stages(pc') = Stages(pc) - 1 /\ Stages(pc) \in Nat
          /\ UNCHANGED <<attempts, rounds>>
      BY <2>4 DEF Reconcile, Check, Active, Stages
    <3> QED
      BY <1>1, <3>1 DEF StepsLeft
  <2>5. CASE NextRound
    <3>1. pc = "decide" /\ pc' \in {"pause", "check"} /\ attempts' = attempts
      BY <2>5 DEF NextRound, Go
    <3>2. Stages(pc) = 3 /\ Stages(pc') \in {5, 6}
      BY <3>1 DEF Stages
    <3> QED
      BY <1>1, <2>5, <3>1, <3>2 DEF NextRound, StepsLeft
  <2>6. CASE Accepted \/ EndRounds \/ EndRefused \/ Failed
    <3>1. pc = "decide" /\ pc' = "done" /\ UNCHANGED <<attempts, rounds>>
      BY <2>6 DEF Accepted, EndRounds, EndRefused, Failed, Finish
    <3>2. Stages(pc) = 3 /\ Stages(pc') = 0
      BY <3>1 DEF Stages
    <3> QED
      BY <1>1, <3>1, <3>2 DEF StepsLeft
  <2>7. CASE Retry \/ EndPause \/ EndRetryWait
    <3>1. /\ <<pc, pc'>> \in {<<"decide", "retry">>, <<"pause", "check">>,
                                <<"retry", "attempt">>}
          /\ UNCHANGED <<attempts, rounds>>
      BY <2>7 DEF Retry, EndPause, EndRetryWait, Go
    <3>2. Stages(pc) = Stages(pc') + 1 /\ Stages(pc') \in Nat
      BY <3>1 DEF Stages
    <3> QED
      BY <1>1, <3>1, <3>2 DEF StepsLeft
  <2> QED
    BY <1>2, <2>1, <2>2, <2>3, <2>4, <2>5, <2>6, <2>7 DEF Workflow, Attempt, Decide
<1>3. ASSUME Environment PROVE StepsLeft' = StepsLeft
  <2>1. UNCHANGED <<pc, attempts, rounds>>
    BY <1>3 DEF Environment, Progress, Unlock, LateEffect, Stop, DeadlinePasses
  <2> QED
    BY <2>1 DEF StepsLeft
<1> QED
  BY <1>2, <1>3 DEF StepsRunOut

(* Why cancel_with_reconciliation returns (WorkflowEnds without its          *)
(* fairness): each of its steps uses up one of at most MostSteps, which the  *)
(* two options alone determine, whatever the provider answers and whether or *)
(* not the token or the deadline ever ends it.                               *)
THEOREM StepsBudgeted == Spec => []StepsBounded /\ [][StepsRunOut]_vars
BY Invariance, StepsAreBounded, StepsDecrease, PTL DEF Spec

-----------------------------------------------------------------------------
(* What is left of UnknownIsReported: only the token and the deadline hide   *)
(* what became of the last attempt.                                          *)
ToldUnlessStopped ==
    pc = "done" /\ result \notin WorkflowError =>
        /\ outcome = "Ok" => result = "CancellationAccepted"
        /\ outcome = "OutcomeUnknown" => result = "OutcomeUnknown"

(* The result is chosen by the outcome. *)
LEMMA ToldStep == ToldUnlessStopped /\ [Next]_vars => ToldUnlessStopped'
<1> SUFFICES ASSUME ToldUnlessStopped, [Next]_vars, pc' = "done", result' \notin WorkflowError
             PROVE  /\ outcome' = "Ok" => result' = "CancellationAccepted"
                    /\ outcome' = "OutcomeUnknown" => result' = "OutcomeUnknown"
  BY DEF ToldUnlessStopped
<1>1. CASE UNCHANGED <<pc, outcome, result>>
  BY <1>1 DEF ToldUnlessStopped
<1>2. CASE Environment \/ UNCHANGED vars
  BY <1>1, <1>2 DEF Environment, Progress, Unlock, LateEffect, Stop, DeadlinePasses, vars
<1>3. CASE Attempt
  BY <1>3 DEF Attempt, GiveUp, Start, Send, Answered, WorkflowError
<1>4. CASE Reconcile \/ EndPause \/ EndRetryWait
  BY <1>4 DEF Reconcile, Check, Active, EndPause, EndRetryWait, Go
<1>5. CASE Decide
  BY <1>5 DEF Decide, Accepted, NextRound, EndRounds, EndRefused, Retry, Failed, Refused,
              Finish, Go
<1> QED
  BY <1>2, <1>3, <1>4, <1>5 DEF Next, Workflow

(* A cancellation that was, or may yet be, performed is told of by the       *)
(* disposition, unless the provider reported a failure of its own; only a    *)
(* workflow ended by its token or its deadline returns without saying so     *)
(* (the finding about UnknownIsReported is that it can).                     *)
EffectsTold ==
    pc = "done" /\ (effected \/ wire) =>
        \/ result \in WorkflowError \cup {"CancellationAccepted", "OutcomeUnknown"}
        \/ outcome = "ServerError"

(* cancel_with_reconciliation tells of the effects it had. *)
THEOREM EffectsAreTold == Spec => []ToldUnlessStopped /\ []EffectsTold
<1>1. Init => ToldUnlessStopped
  BY DEF Init, ToldUnlessStopped
<1>2. IInv /\ ToldUnlessStopped => EffectsTold
  BY DEF IInv, Effects, ToldUnlessStopped, EffectsTold
<1> QED
  BY <1>1, <1>2, ToldStep, Invariance, PTL DEF Spec
=============================================================================
