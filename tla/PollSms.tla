------------------------------- MODULE PollSms -------------------------------
(***************************************************************************)
(* wait_for_sms and wait_for_code_with of src/poll.rs: sms/check is asked  *)
(* until the order received its SMS or ended, with the delays of           *)
(* Polling.tla between two checks, until the deadline or the caller's      *)
(* token.  Every select looks at the token first, then at the deadline,    *)
(* then at its own future, so an answer that arrives together with a stop  *)
(* is lost.                                                                *)
(*                                                                         *)
(* Time is a clock of small integers, on which the deadline lies.  Timers  *)
(* are exact: time waits while the workflow has a step to take.  A check   *)
(* may take any time.                                                      *)
(***************************************************************************)
EXTENDS Polling, SmsWire, FiniteSets

CONSTANTS Deadline,    \* deadline
          RetryAfters, \* Retry-After values of a 429
          Prose        \* whether a pending order's answer may carry a message

ASSUME DeadlineAssumption == Deadline \in Nat
ASSUME RetryAfterAssumption == RetryAfters \subseteq Nat
ASSUME ProseAssumption == Prose \in BOOLEAN

VARIABLES now,          \* Instant::now()
          cancelled,    \* the cancellation token
          order,        \* what the provider holds of the order
          pc,           \* where wait_for_sms is
          reply,        \* the answer to the check in flight
          interval,     \* interval
          wakeAt,       \* wake_at of sleep_poll_delay
          lastObserved, \* last_observed: the check that saw a pending order
          result,       \* what was returned
          checks,       \* checks sent so far (history)
          latest,       \* the last check answered with pending (history)
          notBefore     \* when the Retry-After of the last 429 ends (history)

vars == <<now, cancelled, order, pc, reply, interval, wakeAt, lastObserved,
          result, checks, latest, notBefore>>

NoReply == [kind |-> "none"]

Replies ==
    {NoReply, [kind |-> "failed"]}
    \cup [kind : {"document"}, document : CheckDocument]
    \cup [kind : {"limited"}, after : RetryAfters \cup {NULL}]

NoResult == [kind |-> "none", last |-> NULL, code |-> "none"]

Results ==
    [kind : {"none", "received", "terminated", "client", "deadline", "cancelled"},
     last : Nat \cup {NULL},
     code : {"none", "short", "full"}]

Init ==
    /\ now \in 0..Deadline
    /\ cancelled = FALSE
    /\ order = "pending"
    /\ pc = "preflight"
    /\ reply = NoReply
    /\ interval = BaseInterval
    /\ wakeAt = 0
    /\ lastObserved = NULL
    /\ result = NoResult
    /\ checks = 0
    /\ latest = NULL
    /\ notBefore = 0

-----------------------------------------------------------------------------
(* Fault variant: the deadline is looked at only when nothing else is left   *)
(* to wait for.                                                              *)
CancelledOnly == cancelled

(* The stop conditions, which outrank everything else. *)
Stopped == cancelled \/ now >= Deadline

Return(kind, last, code) ==
    /\ result' = [kind |-> kind, last |-> last, code |-> code]
    /\ pc' = "done"

(* Fault variant: a check in flight is awaited without the select. *)
PatientStop ==
    /\ pc \in {"preflight", "sleep"}
    /\ Stopped
    /\ Return(IF cancelled THEN "cancelled" ELSE "deadline", lastObserved, "none")
    /\ reply' = NoReply
    /\ UNCHANGED <<now, cancelled, order, interval, wakeAt, lastObserved, checks,
                   latest, notBefore>>

(* PollError::Cancelled or PollError::Deadline, from preflight and from      *)
(* both selects.                                                             *)
Stop ==
    /\ pc # "done"
    /\ Stopped
    /\ Return(IF cancelled THEN "cancelled" ELSE "deadline", lastObserved, "none")
    /\ reply' = NoReply
    /\ UNCHANGED <<now, cancelled, order, interval, wakeAt, lastObserved, checks,
                   latest, notBefore>>

(* sms.check goes out. *)
Check ==
    /\ pc = "preflight"
    /\ ~Stopped
    /\ pc' = "check"
    /\ checks' = checks + 1
    /\ UNCHANGED <<now, cancelled, order, reply, interval, wakeAt, lastObserved,
                   result, latest, notBefore>>

(* An answer that counts is at hand. *)
Answered == pc = "check" /\ ~Stopped

Settled ==
    /\ Answered
    /\ reply.kind = "document"
    /\ SmsCheck(reply.document) \in {"received", "terminated"}
    /\ Return(SmsCheck(reply.document), NULL,
              IF SmsCheck(reply.document) = "received"
              THEN TextShown(reply.document) ELSE "none")
    /\ reply' = NoReply
    /\ UNCHANGED <<now, cancelled, order, interval, wakeAt, lastObserved, checks,
                   latest, notBefore>>

(* Any error but a 429, a document that cannot be read included. *)
Fail ==
    /\ Answered
    /\ \/ reply.kind = "failed"
       \/ reply.kind = "document" /\ SmsCheck(reply.document) = "malformed"
    /\ Return("client", NULL, "none")
    /\ reply' = NoReply
    /\ UNCHANGED <<now, cancelled, order, interval, wakeAt, lastObserved, checks,
                   latest, notBefore>>

(* Fault variant: a Retry-After takes the place of the backoff. *)
ReplacedSleep(retryAfter) ==
    /\ interval' = AdvanceInterval(interval)
    /\ \E delay \in IF retryAfter = NULL THEN PollingDelay(interval, NULL)
                      ELSE {retryAfter} :
          wakeAt' = AtMost(now + delay, Deadline)
    /\ pc' = "sleep"

(* Fault variant: the sleep is not capped at the deadline. *)
UncappedSleep(retryAfter) ==
    /\ interval' = AdvanceInterval(interval)
    /\ \E delay \in PollingDelay(interval, retryAfter) : wakeAt' = now + delay
    /\ pc' = "sleep"

(* The delay is that of the interval before it advances; the sleep is capped *)
(* at the deadline.                                                          *)
Sleep(retryAfter) ==
    /\ interval' = AdvanceInterval(interval)
    /\ \E delay \in PollingDelay(interval, retryAfter) :
          wakeAt' = AtMost(now + delay, Deadline)
    /\ pc' = "sleep"

StillPending ==
    /\ Answered
    /\ reply.kind = "document"
    /\ SmsCheck(reply.document) = "pending"
    /\ lastObserved' = checks
    /\ latest' = checks
    /\ Sleep(NULL)
    /\ reply' = NoReply
    /\ UNCHANGED <<now, cancelled, order, result, checks, notBefore>>

(* Fault variant: a 429 counts as an observation of nothing. *)
ForgettingRateLimited ==
    /\ Answered
    /\ reply.kind = "limited"
    /\ Sleep(reply.after)
    /\ lastObserved' = NULL
    /\ notBefore' = IF reply.after = NULL THEN now ELSE now + reply.after
    /\ reply' = NoReply
    /\ UNCHANGED <<now, cancelled, order, result, checks, latest>>

(* Error::RateLimited, after whatever the transport retried. *)
RateLimited ==
    /\ Answered
    /\ reply.kind = "limited"
    /\ Sleep(reply.after)
    /\ notBefore' = IF reply.after = NULL THEN now ELSE now + reply.after
    /\ reply' = NoReply
    /\ UNCHANGED <<now, cancelled, order, lastObserved, result, checks, latest>>

Wake ==
    /\ pc = "sleep"
    /\ ~Stopped
    /\ now >= wakeAt
    /\ pc' = "preflight"
    /\ UNCHANGED <<now, cancelled, order, reply, interval, wakeAt, lastObserved,
                   result, checks, latest, notBefore>>

-----------------------------------------------------------------------------
(* The provider, the caller's token and time. *)

Answer ==
    /\ pc = "check"
    /\ reply = NoReply
    /\ reply' \in {[kind |-> "document", document |-> d] :
                      d \in CheckDocuments(order, Prose)}
                  \cup {r \in Replies : r.kind \in {"failed", "limited"}}
    /\ UNCHANGED <<now, cancelled, order, pc, interval, wakeAt, lastObserved,
                   result, checks, latest, notBefore>>

Decide ==
    /\ order = "pending"
    /\ order' \in {"received", "terminated"}
    /\ UNCHANGED <<now, cancelled, pc, reply, interval, wakeAt, lastObserved,
                   result, checks, latest, notBefore>>

Cancel ==
    /\ ~cancelled
    /\ pc # "done"
    /\ cancelled' = TRUE
    /\ UNCHANGED <<now, order, pc, reply, interval, wakeAt, lastObserved,
                   result, checks, latest, notBefore>>

(* The workflow waits: for the answer, or for its sleep. *)
Quiet ==
    /\ ~Stopped
    /\ \/ pc = "check" /\ reply = NoReply
       \/ pc = "sleep" /\ now < wakeAt

Tick ==
    /\ Quiet
    /\ now' = now + 1
    /\ UNCHANGED <<cancelled, order, pc, reply, interval, wakeAt, lastObserved,
                   result, checks, latest, notBefore>>

-----------------------------------------------------------------------------
Progress ==
    Stop \/ Check \/ Settled \/ Fail \/ StillPending \/ RateLimited \/ Wake

Next == Progress \/ Answer \/ Decide \/ Cancel \/ Tick

Spec == Init /\ [][Next]_vars

(* The executor polls the future and time passes; the provider need not      *)
(* answer.                                                                   *)
FairSpec == Spec /\ WF_vars(Progress) /\ WF_vars(Tick)

-----------------------------------------------------------------------------
TypeOK ==
    /\ now \in 0..Deadline
    /\ cancelled \in BOOLEAN
    /\ order \in {"pending", "received", "terminated"}
    /\ pc \in {"preflight", "check", "sleep", "done"}
    /\ reply \in Replies
    /\ interval \in BaseInterval..MaxInterval
    /\ wakeAt \in 0..Deadline
    /\ lastObserved \in Nat \cup {NULL}
    /\ result \in Results
    /\ checks \in Nat
    /\ latest \in Nat \cup {NULL}
    /\ notBefore \in Nat

(* The interval slept after the k-th check: it doubles up to the maximum.    *)
IntervalAfter[k \in Nat] ==
    IF k <= 1 THEN BaseInterval ELSE AtMost(2 * IntervalAfter[k - 1], MaxInterval)

LeastJitter(d) == CHOOSE x \in Jitter(d) : \A y \in Jitter(d) : x <= y

(* The earliest time of the k-th check. *)
Earliest[k \in Nat] ==
    IF k <= 1 THEN 0 ELSE Earliest[k - 1] + LeastJitter(IntervalAfter[k - 1])

(* The backoff is never undercut: jitter, 429s with a short Retry-After and  *)
(* the cap of the interval cannot make the checks come faster than the       *)
(* shortest delays of the doubling interval allow (polling_delay,            *)
(* advance_interval).                                                        *)
BackoffKept == pc = "check" => now >= Earliest[checks]

(* No check is sent before the Retry-After of the last 429 has passed; the   *)
(* deadline comes first when it is longer than what is left.                 *)
RetryAfterRespected == pc = "check" => now >= notBefore

(* The caller is told the last pending snapshot with a deadline or a         *)
(* cancellation, through any number of 429s after it (PollError).            *)
LatestObservationKept ==
    result.kind \in {"deadline", "cancelled"} => result.last = latest

(* What is returned is so: a received SMS and a code come from an order that *)
(* has one and, when the provider sends no hints with pending orders, an     *)
(* order reported as ended has ended.                                        *)
ResultIsReal ==
    /\ result.kind = "received" \/ result.code # "none" => order = "received"
    /\ result.kind = "received" => result.code # "none"
    /\ result.kind = "terminated" /\ ~Prose => order = "terminated"

(* Nothing is sent or observed once the token is cancelled or the deadline   *)
(* has passed, though an answer be at hand.                                  *)
StopIsFinal ==
    [][cancelled \/ now >= Deadline =>
          /\ checks' = checks
          /\ result' # result => result'.kind \in {"cancelled", "deadline"}]_vars

(* The workflow ends, though the provider never answer. *)
Ends == <>(pc = "done")
=============================================================================
