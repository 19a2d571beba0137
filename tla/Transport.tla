----------------------------- MODULE Transport -----------------------------
(***************************************************************************)
(* One SDK call through the transport pipeline (src/transport.rs): local   *)
(* validation, admission, sending, response headers, response body,        *)
(* decoding, and the retries of read-only endpoints, against a provider    *)
(* that may answer anything, late or never.  The caller may drop the call  *)
(* at any await (the pollers do so on cancellation and at a deadline).     *)
(*                                                                         *)
(* elapsed adds up how long the call has occupied its caller.  Every wait  *)
(* takes any time up to its timeout; Admission.tla has what happens inside *)
(* the wait for a QPS slot and a permit.                                   *)
(*                                                                         *)
(* Abstracted: URLs, encoding and authentication of a request (it is well  *)
(* formed or it is not), the text of errors, and the provider's documents  *)
(* (a body is one of the kinds the pipeline tells apart).                  *)
(***************************************************************************)
EXTENDS Integers

CONSTANTS MaxAttempts,     \* retry policy
          BaseDelay,
          MaxDelay,
          MaxRetryAfter,
          JitterPercent,   \* jitter_ratio * 100
          QpsWait,         \* qps_wait_timeout
          PermitWait,      \* concurrency_wait_timeout
          RequestTimeout,  \* request_timeout
          NULL             \* None

(* RetryPolicy::validate and ClientBuilder::build. *)
ASSUME PolicyAssumption ==
    /\ MaxAttempts \in Nat \ {0}
    /\ BaseDelay \in Nat /\ MaxDelay \in Nat /\ BaseDelay <= MaxDelay
    /\ MaxRetryAfter \in Nat
    /\ JitterPercent \in 0..100
ASSUME TimeoutAssumption ==
    /\ QpsWait \in Nat \ {0} /\ PermitWait \in Nat \ {0}
    /\ RequestTimeout \in Nat \ {0}

VARIABLES safety,     \* endpoint.safety
          pc,         \* where the call is
          attempt,    \* attempts started
          reply,      \* the response in hand, or NULL
          pause,      \* the delay before the next attempt
          result,     \* what the call returned, or NULL
          elapsed,    \* how long the caller has been occupied
          delivered,  \* requests the provider received
          performed   \* whether the provider performed the operation

vars == <<safety, pc, attempt, reply, pause, result, elapsed, delivered, performed>>

providerVars == <<delivered, performed>>

SafetyClass == {"ReadOnly", "Mutation", "PaidMutation"}

ReadOnly == safety = "ReadOnly"

(* 429; 500, 502, 503 or 504, which the retry list names; another 5xx; 2xx;  *)
(* anything else.                                                            *)
Status == {"rate_limited", "retryable_5xx", "other_5xx", "success", "client_error"}

FiveHundreds == {"retryable_5xx", "other_5xx"}

Body == {"value",      \* JSON that is no failure and decodes as the target type
         "failure",    \* JSON whose top-level success is false
         "misshapen",  \* JSON that is no failure and does not decode
         "not_json",
         "declared_too_large",  \* content-length above the limit
         "too_large",           \* more bytes than the limit
         "broken",              \* the connection fails while it is read
         "stalled"}             \* the end never comes

(* Retry-After in seconds or as a date, within the policy or above it, or     *)
(* absent or malformed.                                                      *)
RetryAfterHeader == 0..(2 * MaxRetryAfter + 1) \cup {NULL}

Reply == [status : Status, body : Body, retryAfter : RetryAfterHeader]

Definite == {"InvalidRequest", "QpsTimeout", "PermitTimeout", "ConnectError",
             "RateLimited", "Api"}

Ambiguous == {"RequestTimeout", "TransportError", "ResponseTooLarge",
              "BodyTimeout", "BodyError", "Decode"}

Result == {"Ok", "ServerError", "OutcomeUnknown"} \cup Definite \cup Ambiguous

ASSUME NullAssumption == NULL \notin Nat /\ NULL \notin Reply /\ NULL \notin Result

Calling == {"start", "admit", "send", "headers", "body", "decode", "pause"}

Init ==
    /\ safety \in SafetyClass
    /\ pc = "start"
    /\ attempt = 0
    /\ reply = NULL
    /\ pause = 0
    /\ result = NULL
    /\ elapsed = 0
    /\ delivered = 0
    /\ performed = FALSE

-----------------------------------------------------------------------------
(* Delays and errors. *)

Attempts == IF ReadOnly THEN MaxAttempts ELSE 1

(* Fault variant: off by one. *)
EagerCanRetry == attempt <= Attempts

CanRetry == attempt < Attempts

Least(a, b) == IF a < b THEN a ELSE b

(* Fault variant: the delay the provider asks for is taken as it is. *)
UnclampedRetryAfter(header) == header

ParseRetryAfter(header) ==
    IF header = NULL THEN NULL ELSE Least(header, MaxRetryAfter)

(* The exponential delay after attempt n, before jitter. *)
Exponential(n) == Least(BaseDelay * 2 ^ Least(n - 1, 31), MaxDelay)

(* The whole range of the jitter factor.  A duration is never negative. *)
BackoffDelay(n) ==
    {d \in 0..((Exponential(n) * (100 + JitterPercent)) \div 100) :
        (Exponential(n) * (100 - JitterPercent)) \div 100 <= d}

Delays(after) == IF after = NULL THEN BackoffDelay(attempt) ELSE {after}

Return(r) ==
    /\ pc' = "done"
    /\ result' = r
    /\ reply' = NULL
    /\ UNCHANGED pause

(* Fault variant: every retryable failure is retried, whatever the endpoint. *)
ReplayingFailRetryable(error, after) ==
    IF attempt < MaxAttempts
    THEN /\ pc' = "pause"
         /\ pause' \in Delays(after)
         /\ reply' = NULL
         /\ UNCHANGED result
    ELSE Return(error)

(* A failure of the attempt that execute retries while it may. *)
FailRetryable(error, after) ==
    IF ReadOnly /\ CanRetry
    THEN /\ pc' = "pause"
         /\ pause' \in Delays(after)
         /\ reply' = NULL
         /\ UNCHANGED result
    ELSE Return(error)

(* Fault variant: the error is reported as it is for every endpoint. *)
PlainAfterDelivery(error) == error

(* Fault variant: a read is taken for a mutation. *)
AlwaysUnknown(error) == "OutcomeUnknown"

(* after_delivery_error: what an error means once the request may have been  *)
(* received.                                                                 *)
AfterDelivery(error) == IF ReadOnly THEN error ELSE "OutcomeUnknown"

-----------------------------------------------------------------------------
(* The pipeline. *)

(* validate, the URL and build_request: nothing is sent. *)
Reject ==
    /\ pc = "start"
    /\ Return("InvalidRequest")
    /\ UNCHANGED <<safety, attempt, elapsed, providerVars>>

Begin ==
    /\ pc = "start"
    /\ pc' = "admit"
    /\ attempt' = 1
    /\ UNCHANGED <<safety, reply, pause, result, elapsed, providerVars>>

Admit(d) ==
    /\ pc = "admit"
    /\ pc' = "send"
    /\ elapsed' = elapsed + d
    /\ UNCHANGED <<safety, attempt, reply, pause, result, providerVars>>

(* No slot or no permit in time.  Not retried, even for a read. *)
Refuse(phase, d) ==
    /\ pc = "admit"
    /\ Return(phase)
    /\ elapsed' = elapsed + d
    /\ UNCHANGED <<safety, attempt, providerVars>>

(* is_connect(): no connection, so the request was not received. *)
ConnectFails(d) ==
    /\ pc = "send"
    /\ FailRetryable("ConnectError", NULL)
    /\ elapsed' = elapsed + d
    /\ UNCHANGED <<safety, attempt, providerVars>>

(* The provider receives the request, and may perform the operation. *)
Received(p) ==
    /\ delivered' = delivered + 1
    /\ performed' = (performed \/ p)

(* A timeout or a broken connection: the request may have been received. *)
SendFails(error, received, p, d) ==
    /\ pc = "send"
    /\ IF received THEN Received(p) ELSE UNCHANGED providerVars
    /\ FailRetryable(AfterDelivery(error), NULL)
    /\ elapsed' = elapsed + d
    /\ UNCHANGED <<safety, attempt>>

(* The provider does not lie: it performs what it reports as done, and does  *)
(* not perform what it refuses.  A server error, or a success whose document *)
(* makes no sense, may stand for either.                                     *)
Honest(r, p) ==
    /\ r.status = "success" /\ r.body = "value" => p
    /\ r.status = "success" /\ r.body = "failure" => ~p
    /\ r.status \in {"rate_limited", "client_error"} => ~p

(* The status line and the headers of a response arrive. *)
Respond(r, p, d) ==
    /\ pc = "send"
    /\ Honest(r, p)
    /\ Received(p)
    /\ reply' = r
    /\ pc' = "headers"
    /\ elapsed' = elapsed + d
    /\ UNCHANGED <<safety, attempt, pause, result>>

(* 429 comes first: its body is never read. *)
RateLimit ==
    /\ pc = "headers"
    /\ reply.status = "rate_limited"
    /\ FailRetryable("RateLimited", ParseRetryAfter(reply.retryAfter))
    /\ UNCHANGED <<safety, attempt, elapsed, providerVars>>

(* Content-Length. *)
CheckLength ==
    /\ pc = "headers"
    /\ reply.status # "rate_limited"
    /\ IF reply.body = "declared_too_large"
       THEN Return(AfterDelivery("ResponseTooLarge"))
       ELSE pc' = "body" /\ UNCHANGED <<reply, pause, result>>
    /\ UNCHANGED <<safety, attempt, elapsed, providerVars>>

(* The body is read under a timeout of its own. *)
ReadBody(d) ==
    /\ pc = "body"
    /\ CASE reply.body = "stalled"   -> Return(AfterDelivery("BodyTimeout"))
         [] reply.body = "too_large" -> Return(AfterDelivery("ResponseTooLarge"))
         [] reply.body = "broken"    -> Return(AfterDelivery("BodyError"))
         [] OTHER -> pc' = "decode" /\ UNCHANGED <<reply, pause, result>>
    /\ elapsed' = elapsed + d
    /\ UNCHANGED <<safety, attempt, providerVars>>

(* 500, 502, 503 and 504 are retried without a look at the body, but only    *)
(* while there is an attempt left; otherwise, and for any other 5xx, the     *)
(* body decides.                                                             *)
RetryServerError ==
    /\ pc = "decode"
    /\ reply.status = "retryable_5xx" /\ ReadOnly /\ CanRetry
    /\ FailRetryable("ServerError", NULL)
    /\ UNCHANGED <<safety, attempt, elapsed, providerVars>>

Decode ==
    /\ pc = "decode"
    /\ ~(reply.status = "retryable_5xx" /\ ReadOnly /\ CanRetry)
    /\ \/ /\ reply.body = "not_json"
          /\ Return(AfterDelivery("Decode"))
       \/ /\ reply.body # "not_json" /\ reply.status \in FiveHundreds
          /\ Return("ServerError")
       \/ /\ reply.body # "not_json" /\ reply.status = "client_error"
          /\ Return("Api")
       \/ /\ reply.body = "failure" /\ reply.status = "success"
          /\ Return("Api")
       \/ /\ reply.body = "misshapen" /\ reply.status = "success"
          /\ Return(AfterDelivery("Decode"))
       \/ /\ reply.body = "value" /\ reply.status = "success"
          /\ Return("Ok")
    /\ UNCHANGED <<safety, attempt, elapsed, providerVars>>

(* Fault variant: the attempts are not counted. *)
UncountedResume ==
    /\ pc = "pause"
    /\ pc' = "admit"
    /\ elapsed' = elapsed
    /\ pause' = 0
    /\ UNCHANGED <<safety, attempt, reply, result, providerVars>>

(* The pause is over; the next attempt goes through admission again. *)
Resume ==
    /\ pc = "pause"
    /\ pc' = "admit"
    /\ attempt' = attempt + 1
    /\ elapsed' = elapsed + pause
    /\ pause' = 0
    /\ UNCHANGED <<safety, reply, result, providerVars>>

(* The caller drops the future at one of its awaits; a request on the wire   *)
(* may still be received.                                                    *)
Abandon(received, p) ==
    /\ pc \in {"admit", "send", "body", "pause"}
    /\ received => pc = "send"
    /\ IF received THEN Received(p) ELSE UNCHANGED providerVars
    /\ pc' = "dropped"
    /\ reply' = NULL
    /\ pause' = 0
    /\ UNCHANGED <<safety, attempt, result, elapsed>>

-----------------------------------------------------------------------------
SendStep(d) ==
    \/ ConnectFails(d)
    \/ \E error \in {"RequestTimeout", "TransportError"}, received, p \in BOOLEAN :
          SendFails(error, received, p, d)
    \/ \E r \in Reply, p \in BOOLEAN : Respond(r, p, d)

Step ==
    \/ Reject
    \/ Begin
    \/ \E d \in 0..(QpsWait + PermitWait) :
          \/ Admit(d)
          \/ \E phase \in {"QpsTimeout", "PermitTimeout"} : Refuse(phase, d)
    \/ \E d \in 0..RequestTimeout : SendStep(d) \/ ReadBody(d)
    \/ RateLimit
    \/ CheckLength
    \/ RetryServerError
    \/ Decode
    \/ Resume

Next ==
    \/ Step
    \/ \E received, p \in BOOLEAN : Abandon(received, p)

Spec == Init /\ [][Next]_vars

(* Every wait of the pipeline is under a timeout, so the call goes on. *)
FairSpec == Spec /\ WF_vars(Step)

-----------------------------------------------------------------------------
TypeOK ==
    /\ safety \in SafetyClass
    /\ pc \in Calling \cup {"done", "dropped"}
    /\ attempt \in 0..Attempts
    /\ reply \in Reply \cup {NULL}
    /\ pc \in {"headers", "body", "decode"} <=> reply # NULL
    /\ pause \in Nat
    /\ result \in Result \cup {NULL}
    /\ pc = "done" <=> result # NULL
    /\ elapsed \in Nat
    /\ delivered \in 0..attempt
    /\ performed \in BOOLEAN

(* A mutation is never sent again: whatever the provider and the network do, *)
(* it is received at most once (execute, AttemptFailure).                    *)
AtMostOneDelivery == ~ReadOnly => delivered <= 1

(* A mutation the provider performed never comes back as an error that says  *)
(* it was not (send_error, after_delivery_error): the caller learns of it as *)
(* Ok or OutcomeUnknown, or as the provider's own word with a 5xx status.    *)
(* Ok is never returned for a mutation that was not performed.               *)
HonestOutcome ==
    ~ReadOnly /\ pc = "done" =>
        /\ performed => result \in {"Ok", "OutcomeUnknown", "ServerError"}
        /\ result = "Ok" => performed

(* The caller is not occupied longer than its timeouts allow: per attempt an *)
(* admission, a send and the reading of a body, and between two attempts a   *)
(* backoff with its jitter or the provider's Retry-After.                    *)
LongestPause ==
    LET backoff == (MaxDelay * (100 + JitterPercent)) \div 100
    IN  IF backoff < MaxRetryAfter THEN MaxRetryAfter ELSE backoff

LongestAttempt == QpsWait + PermitWait + 2 * RequestTimeout

BoundedOccupation ==
    elapsed <= MaxAttempts * LongestAttempt + (MaxAttempts - 1) * LongestPause

(* max_in_flight_duration. *)
MaxInFlightDuration ==
    MaxAttempts * (QpsWait + PermitWait + RequestTimeout)
        + (MaxAttempts - 1) * (IF MaxDelay < MaxRetryAfter THEN MaxRetryAfter ELSE MaxDelay)

(* src/client.rs: max_in_flight_duration is an upper bound on how long a     *)
(* single SDK call can occupy the caller before it returns.                  *)
WithinMaxInFlight == elapsed <= MaxInFlightDuration

(* Every call returns or is dropped by its caller, whatever the provider does. *)
EveryCallReturns == <>(pc \in {"done", "dropped"})

(* The pipeline implements the promise of one call. *)
VerdictOf(r) ==
    CASE r = "Ok" -> "done"
      [] r = "OutcomeUnknown" -> "unknown"
      [] r = "ServerError" -> "server_error"
      [] r \in Definite \cup Ambiguous -> "not_done"

Verdict ==
    CASE pc \in Calling -> "none"
      [] pc = "dropped" -> "abandoned"
      [] pc = "done" -> VerdictOf(result)

Call == INSTANCE ApiCall WITH verdict <- Verdict

ImplementsApiCall == Call!Spec
=============================================================================
