--------------------------- MODULE ClientBuilder ---------------------------
(***************************************************************************)
(* ClientBuilder::build of src/client.rs: the settings a builder has       *)
(* collected, which of them make a client, and what the client takes from  *)
(* them.  A rejected builder yields Error::InvalidRequest; which field it  *)
(* names is left out.                                                      *)
(*                                                                         *)
(* Durations are counted in one unit, Second to the second (nanoseconds in *)
(* the code).  A URL is one of the kinds that build tells apart.           *)
(***************************************************************************)
EXTENDS Integers

CONSTANTS Second,  \* 1_000_000_000
          NULL     \* None

ASSUME SecondAssumption == Second \in Nat \ {0}
ASSUME NullAssumption == NULL \notin Int

RetryPolicy ==
    [maxAttempts : Nat, baseDelay : Nat, maxDelay : Nat, maxRetryAfter : Nat,
     jitterPercent : Int]

Url == {"https", "http_loopback_ip", "http_elsewhere", "other_scheme",
        "relative", "no_host", "credentials", "query_or_fragment"}

(* The fields of a ClientBuilder that build looks at. *)
Builder ==
    [apiKeyBlank    : BOOLEAN,
     baseUrl        : Url,
     allowHttpMocks : BOOLEAN,
     requestTimeout : Nat,
     permitWait     : Nat,              \* concurrency_wait_timeout
     maxBytes       : Nat,
     maxConcurrency : Nat,
     maxPerSecond   : Nat \cup {NULL},
     qpsWait        : Nat \cup {NULL},
     retry          : RetryPolicy]

Default ==
    [apiKeyBlank    |-> FALSE,
     baseUrl        |-> "https",
     allowHttpMocks |-> FALSE,
     requestTimeout |-> 30 * Second,
     permitWait     |-> 5 * Second,
     maxBytes       |-> 1024 * 1024,
     maxConcurrency |-> 32,
     maxPerSecond   |-> NULL,
     qpsWait        |-> NULL,
     retry          |-> [maxAttempts |-> 3, baseDelay |-> Second \div 10,
                         maxDelay |-> 2 * Second, maxRetryAfter |-> 30 * Second,
                         jitterPercent |-> 20]]

(* RetryPolicy::validate. *)
RetryAccepted(p) ==
    /\ p.maxAttempts > 0
    /\ p.jitterPercent \in 0..100
    /\ p.maxDelay >= p.baseDelay

(* qps_wait_timeout falls back to concurrency_wait_timeout. *)
QpsWaitOf(b) == IF b.qpsWait = NULL THEN b.permitWait ELSE b.qpsWait

LimitsAccepted(b) ==
    /\ ~b.apiKeyBlank
    /\ b.requestTimeout > 0
    /\ b.permitWait > 0
    /\ b.maxBytes > 0
    /\ b.maxConcurrency > 0
    /\ b.maxPerSecond # NULL => b.maxPerSecond \in 1..Second
    /\ QpsWaitOf(b) > 0

UrlAccepted(b) ==
    \/ b.baseUrl = "https"
    \/ b.baseUrl = "http_loopback_ip" /\ b.allowHttpMocks

Accepted(b) == LimitsAccepted(b) /\ RetryAccepted(b.retry) /\ UrlAccepted(b)

(* Fault variant: the quotient is cut off. *)
TruncatedIntervalOf(b) ==
    IF b.maxPerSecond = NULL THEN NULL ELSE Second \div b.maxPerSecond

(* from_secs_f64(1 / value): rounded to the nearest unit. *)
IntervalOf(b) ==
    IF b.maxPerSecond = NULL THEN NULL
    ELSE (2 * Second + b.maxPerSecond) \div (2 * b.maxPerSecond)

(* What admission and the retries take from the client. *)
Build(b) ==
    [maxConcurrency |-> b.maxConcurrency,
     permitWait     |-> b.permitWait,
     qpsWait        |-> QpsWaitOf(b),
     interval       |-> IntervalOf(b),
     requestTimeout |-> b.requestTimeout,
     retry          |-> b.retry]
=============================================================================
