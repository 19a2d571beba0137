------------------------------ MODULE Polling ------------------------------
(***************************************************************************)
(* The delay policy shared by the polling workflows (PollOptions and the   *)
(* helpers at the end of src/poll.rs): the interval doubles up to its      *)
(* maximum, jitter moves a delay by a bounded share, and the Retry-After   *)
(* of a 429 is a floor.  The jitter is random, so a delay is a set of      *)
(* possible values.  Durations are integers; a product that overflows      *)
(* Duration becomes the maximum in the code, which the cap yields as well. *)
(***************************************************************************)
EXTENDS Integers

CONSTANTS BaseInterval,  \* base_interval
          MaxInterval,   \* max_interval
          JitterPercent, \* jitter_ratio, in percent
          NULL           \* None

(* What with_intervals and with_jitter_ratio accept. *)
ValidOptions ==
    /\ BaseInterval \in Nat \ {0} /\ MaxInterval \in Nat
    /\ MaxInterval >= BaseInterval
    /\ JitterPercent \in 0..100

ASSUME OptionsAssumption == ValidOptions
ASSUME NullAssumption == NULL \notin Int

AtLeast(a, b) == IF a >= b THEN a ELSE b

AtMost(a, b) == IF a <= b THEN a ELSE b

(* Fault variant: nothing caps the doubling. *)
UncappedAdvanceInterval(current) == 2 * current

AdvanceInterval(current) == AtMost(2 * current, MaxInterval)

(* duration * factor for any factor within the ratio, rounded to nearest. *)
Jitter(d) ==
    {x \in 0..(2 * d) : /\ 100 * x + 50 > (100 - JitterPercent) * d
                        /\ 100 * x - 50 <= (100 + JitterPercent) * d}

(* Fault variant: the jitter is applied on top of the floor and may undercut *)
(* it.                                                                       *)
JitteredFloorDelay(normal, retryAfter) ==
    LET floor == IF retryAfter = NULL THEN 0 ELSE retryAfter
    IN  Jitter(AtLeast(normal, floor))

PollingDelay(normal, retryAfter) ==
    LET floor == IF retryAfter = NULL THEN 0 ELSE retryAfter
    IN  {IF retryAfter = NULL THEN AtMost(x, MaxInterval) ELSE AtLeast(x, floor) :
            x \in Jitter(AtLeast(normal, floor))}
=============================================================================
