----------------------------- MODULE Admission -----------------------------
(***************************************************************************)
(* Admission of concurrent attempts to the provider (acquire_admission in  *)
(* src/transport.rs): the start slots of the optional QPS limiter and the  *)
(* in-flight permits of the semaphore, shared by every clone of a client.  *)
(* Each attempt of Transport.tla, retries included, passes through here.   *)
(*                                                                         *)
(* An attempt waits for its start slot without a permit, then for a permit *)
(* in line, then looks at the schedule again under the lock: another may   *)
(* have taken the slot meanwhile, and then it gives the permit back and    *)
(* starts over, against the deadline it started with.                      *)
(*                                                                         *)
(* A timer fires when it is due: time does not pass over a step that can   *)
(* be taken.  The mutex of the schedule is never held across an await, but *)
(* an attempt may find it taken for a moment, and then a deadline that has *)
(* passed ends the attempt.  The semaphore is never closed, so the         *)
(* Transport error does not occur.                                         *)
(***************************************************************************)
EXTENDS ClientBuilder, FiniteSets, SequencesExt

CONSTANTS Calls,     \* concurrent SDK calls on clones of one client
          Builders,  \* the settings a client may be built from
          MaxTries,  \* bound on the attempts of a call
          MaxTime    \* bound on the clock

ASSUME BuildersAssumption == Builders \subseteq Builder
ASSUME CallsAssumption == IsFiniteSet(Calls)
ASSUME BoundsAssumption == MaxTries \in Nat /\ MaxTime \in Nat

VARIABLES builder,    \* the settings the client was built from
          now,        \* the monotonic clock
          nextStart,  \* qps_state.next_start
          permits,    \* permits available in the semaphore
          line,       \* the semaphore's queue
          pc,         \* pc[c]: where the attempt of c is
          seen,       \* seen[c]: the next_start that c read
          deadline,   \* deadline[c]: qps_deadline
          began,      \* began[c]: when the attempt asked for admission
          joined,     \* joined[c]: when it joined the line
          tries,      \* tries[c]: attempts so far
          started     \* starts committed so far

vars == <<builder, now, nextStart, permits, line, pc, seen, deadline, began,
          joined, tries, started>>

Client == Build(builder)

Limited == Client.interval # NULL

Waiting == {"slot", "sleep", "line", "recheck"}

Holding == {"recheck", "flying"}

Init ==
    /\ builder \in Builders
    /\ Accepted(builder)
    /\ now = 0
    /\ nextStart = NULL
    /\ permits = Client.maxConcurrency
    /\ line = <<>>
    /\ pc = [c \in Calls |-> "out"]
    /\ seen = [c \in Calls |-> NULL]
    /\ deadline = [c \in Calls |-> 0]
    /\ began = [c \in Calls |-> 0]
    /\ joined = [c \in Calls |-> 0]
    /\ tries = [c \in Calls |-> 0]
    /\ started = 0

-----------------------------------------------------------------------------
(* One attempt asks for admission; the waits must fit into the bounded clock.*)
Ask(c) ==
    /\ pc[c] = "out"
    /\ tries[c] < MaxTries /\ now + Client.qpsWait + Client.permitWait <= MaxTime
    /\ tries' = [tries EXCEPT ![c] = @ + 1]
    /\ began' = [began EXCEPT ![c] = now]
    /\ IF Limited
       THEN /\ pc' = [pc EXCEPT ![c] = "slot"]
            /\ deadline' = [deadline EXCEPT ![c] = now + Client.qpsWait]
            /\ UNCHANGED <<line, joined>>
       ELSE /\ pc' = [pc EXCEPT ![c] = "line"]
            /\ line' = Append(line, c)
            /\ joined' = [joined EXCEPT ![c] = now]
            /\ UNCHANGED deadline
    /\ UNCHANGED <<builder, now, nextStart, permits, seen, started>>

(* Fault variant: the deadline is set inside the loop. *)
RestartingReadSlot(c) ==
    /\ pc[c] = "slot"
    /\ pc' = [pc EXCEPT ![c] = "sleep"]
    /\ seen' = [seen EXCEPT ![c] = nextStart]
    /\ deadline' = [deadline EXCEPT ![c] = now + Client.qpsWait]
    /\ UNCHANGED <<builder, now, nextStart, permits, line, began, joined,
                   tries, started>>

ReadSlot(c) ==
    /\ pc[c] = "slot"
    /\ pc' = [pc EXCEPT ![c] = "sleep"]
    /\ seen' = [seen EXCEPT ![c] = nextStart]
    /\ UNCHANGED <<builder, now, nextStart, permits, line, deadline, began,
                   joined, tries, started>>

SlotReached(c) == seen[c] # NULL => seen[c] <= now

(* The slot that was read has come: wait in line for a permit. *)
Join(c) ==
    /\ pc[c] = "sleep"
    /\ SlotReached(c)
    /\ pc' = [pc EXCEPT ![c] = "line"]
    /\ line' = Append(line, c)
    /\ joined' = [joined EXCEPT ![c] = now]
    /\ UNCHANGED <<builder, now, nextStart, permits, seen, deadline, began,
                   tries, started>>

SleepTimeout(c) ==
    /\ pc[c] = "sleep"
    /\ ~SlotReached(c) /\ now >= deadline[c]
    /\ pc' = [pc EXCEPT ![c] = "out"]
    /\ UNCHANGED <<builder, now, nextStart, permits, line, seen, deadline,
                   began, joined, tries, started>>

(* Fault variant: the line is served whether or not a permit is left. *)
GreedyServed(c) == line # <<>> /\ Head(line) = c

(* The semaphore serves its waiters in order. *)
Served(c) == permits > 0 /\ line # <<>> /\ Head(line) = c

TakePermit(c) ==
    /\ pc[c] = "line"
    /\ Served(c)
    /\ permits' = permits - 1
    /\ line' = Tail(line)
    /\ pc' = [pc EXCEPT ![c] = IF Limited THEN "recheck" ELSE "flying"]
    /\ UNCHANGED <<builder, now, nextStart, seen, deadline, began, joined,
                   tries, started>>

(* Fault variant: the timeout is noticed only when a permit comes free. *)
PatientPermitTimeout(c) ==
    /\ pc[c] = "line"
    /\ permits > 0 /\ ~Served(c) /\ now >= joined[c] + Client.permitWait
    /\ line' = RemoveFirst(line, c)
    /\ pc' = [pc EXCEPT ![c] = "out"]
    /\ UNCHANGED <<builder, now, nextStart, permits, seen, deadline, began,
                   joined, tries, started>>

(* A waiter that is served and timed out at the same instant is served. *)
PermitTimeout(c) ==
    /\ pc[c] = "line"
    /\ ~Served(c) /\ now >= joined[c] + Client.permitWait
    /\ line' = RemoveFirst(line, c)
    /\ pc' = [pc EXCEPT ![c] = "out"]
    /\ UNCHANGED <<builder, now, nextStart, permits, seen, deadline, began,
                   joined, tries, started>>

SlotFree == nextStart # NULL => nextStart <= now

Commit(c) ==
    /\ pc[c] = "recheck"
    /\ SlotFree
    /\ nextStart' = now + Client.interval
    /\ started' = started + 1
    /\ pc' = [pc EXCEPT ![c] = "flying"]
    /\ UNCHANGED <<builder, now, permits, line, seen, deadline, began, joined,
                   tries>>

(* Fault variant: the permit is kept while waiting for another slot. *)
KeepingGiveBack(c) ==
    /\ pc[c] = "recheck"
    /\ ~SlotFree
    /\ pc' = [pc EXCEPT ![c] = IF now >= deadline[c] THEN "out" ELSE "slot"]
    /\ UNCHANGED <<builder, now, nextStart, permits, line, seen, deadline,
                   began, joined, tries, started>>

(* The slot went to another attempt: start over, or give up. *)
GiveBack(c) ==
    /\ pc[c] = "recheck"
    /\ ~SlotFree
    /\ permits' = permits + 1
    /\ pc' = [pc EXCEPT ![c] = IF now >= deadline[c] THEN "out" ELSE "slot"]
    /\ UNCHANGED <<builder, now, nextStart, line, seen, deadline, began,
                   joined, tries, started>>

(* Another attempt has the lock of the schedule at this instant. *)
Contended(c) == \E d \in Calls \ {c} : pc[d] \in {"slot", "recheck"}

(* The timeouts around taking the lock: a permit held meanwhile is dropped. *)
LockTimeout(c) ==
    /\ pc[c] \in {"slot", "recheck"}
    /\ Contended(c) /\ now >= deadline[c]
    /\ permits' = IF pc[c] \in Holding THEN permits + 1 ELSE permits
    /\ pc' = [pc EXCEPT ![c] = "out"]
    /\ UNCHANGED <<builder, now, nextStart, line, seen, deadline, began, joined,
                   tries, started>>

(* The attempt is over, or the caller dropped it at an await (for the lock,  *)
(* the slot or a permit) or in flight: the permit is given back, the place   *)
(* in line is left, and its variables are gone with it.                      *)
Leave(c) ==
    /\ pc[c] # "out"
    /\ permits' = IF pc[c] \in Holding THEN permits + 1 ELSE permits
    /\ line' = RemoveFirst(line, c)
    /\ pc' = [pc EXCEPT ![c] = "out"]
    /\ seen' = [seen EXCEPT ![c] = NULL]
    /\ deadline' = [deadline EXCEPT ![c] = 0]
    /\ began' = [began EXCEPT ![c] = 0]
    /\ joined' = [joined EXCEPT ![c] = 0]
    /\ UNCHANGED <<builder, now, nextStart, tries, started>>

-----------------------------------------------------------------------------
(* The steps of an attempt that need nothing but the executor. *)
Proceed(c) ==
    \/ ReadSlot(c)
    \/ Join(c)
    \/ SleepTimeout(c)
    \/ TakePermit(c)
    \/ PermitTimeout(c)
    \/ Commit(c)
    \/ GiveBack(c)
    \/ LockTimeout(c)

(* No attempt has a step to take at this instant. *)
Quiet ==
    \A c \in Calls :
        /\ pc[c] \notin {"slot", "recheck"}
        /\ pc[c] = "sleep" => ~SlotReached(c) /\ now < deadline[c]
        /\ pc[c] = "line" => ~Served(c) /\ now < joined[c] + Client.permitWait

Tick ==
    /\ Quiet
    /\ now < MaxTime
    /\ now' = now + 1
    /\ UNCHANGED <<builder, nextStart, permits, line, pc, seen, deadline,
                   began, joined, tries, started>>

Next ==
    \/ \E c \in Calls : Ask(c) \/ Proceed(c) \/ Leave(c)
    \/ Tick

Spec == Init /\ [][Next]_vars

(* The executor runs what is ready and the clock runs.  Whether an attempt   *)
(* in flight ever ends is left open.                                         *)
FairSpec ==
    /\ Spec
    /\ \A c \in Calls : WF_vars(Proceed(c))
    /\ WF_vars(Tick)

-----------------------------------------------------------------------------
TypeOK ==
    /\ builder \in Builders /\ Accepted(builder)
    /\ now \in Nat
    /\ nextStart \in Nat \cup {NULL}
    /\ permits \in Nat
    /\ line \in Seq(Calls)
    /\ pc \in [Calls -> {"out", "flying"} \cup Waiting]
    /\ seen \in [Calls -> Nat \cup {NULL}]
    /\ deadline \in [Calls -> Nat]
    /\ began \in [Calls -> Nat]
    /\ joined \in [Calls -> Nat]
    /\ tries \in [Calls -> Nat]
    /\ started \in Nat

(* No permit is lost or made up, on whatever path an attempt leaves: the     *)
(* permits available and the attempts that hold one are max_concurrency.     *)
PermitsConserved ==
    permits + Cardinality({c \in Calls : pc[c] \in Holding}) = Client.maxConcurrency

(* The client starts no more than max_requests_per_second requests in each   *)
(* second since it was built, but for the rounding of the interval to half a *)
(* unit, however attempts overtake each other between reading the schedule   *)
(* and getting a permit.                                                     *)
StartRate ==
    LET rate == builder.maxPerSecond
    IN  Limited => (started - 1) * (2 * Second - rate) <= 2 * rate * now

(* An attempt is admitted or refused within qps_wait_timeout plus            *)
(* concurrency_wait_timeout, however often it starts over: the bound that    *)
(* max_in_flight_duration takes for an admission.                            *)
BoundedWait ==
    \A c \in Calls :
        pc[c] \in Waiting => now <= began[c] + Client.qpsWait + Client.permitWait

(* Every attempt that asks is admitted, refused or dropped, even when the    *)
(* attempts in flight never end.                                             *)
EveryWaitEnds ==
    \A c \in Calls : pc[c] \in Waiting ~> pc[c] \in {"flying", "out"}
=============================================================================
