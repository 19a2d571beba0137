--------------------------- MODULE ActiveWatcher ---------------------------
(***************************************************************************)
(* ActiveOrdersWatcher of src/poll.rs: a caller asks next() for the next   *)
(* new or changed active order, and the watcher polls sms.active() with    *)
(* the delays of Polling.tla, compares the answer with the fingerprints it *)
(* keeps, and queues the differences.  The caller may drop the future of   *)
(* next() at an await and call again; the deadline may pass and the token  *)
(* may be cancelled at any point; the provider's orders change between the *)
(* moment it answers and the moment the answer is read.                    *)
(*                                                                         *)
(* Abstracted: what is seen of an order (status, code and full code) is    *)
(* one value; next_poll_at is the time left until it, so no clock runs up; *)
(* the deadline is an event, and the cap of next_poll_at at the deadline   *)
(* is left to PollSms.tla.                                                 *)
(***************************************************************************)
EXTENDS Polling, Sequences, FiniteSets

CONSTANTS Orders,       \* OrderId values: integers, in the key order of the map
          Values,       \* fingerprints
          MaxTracked,   \* max_tracked_orders
          RetryAfters,  \* Retry-After values of a 429
          MaxRows,      \* bound on the rows of an answer
          MaxChanges,   \* bound on the changes of the provider's orders
          MaxTroubles   \* bound on 429s, failed polls and dropped futures

ASSUME OrdersAssumption == Orders \subseteq Int /\ IsFiniteSet(Orders)
ASSUME ValuesAssumption == NULL \notin Values
ASSUME LimitAssumption == MaxTracked \in Nat \ {0}
ASSUME RetryAfterAssumption == RetryAfters \subseteq Nat
ASSUME WatcherBoundsAssumption ==
    MaxRows \in Nat /\ MaxChanges \in Nat /\ MaxTroubles \in Nat

VARIABLES active,        \* active[o]: what the provider lists of o, or NULL
          changes,       \* changes of active so far
          stopped,       \* the deadline passed or the token was cancelled
          pc,            \* where next() is; "idle" outside it
          reply,         \* the answer to the request in flight
          fingerprints,  \* fingerprints[o], NULL when o is not tracked
          pending,       \* the queue of events
          wait,          \* time left until next_poll_at (None: 0)
          interval,      \* interval
          lastObserved,  \* last_observed
          told,          \* told[o]: what was last returned of o since it was
                         \* last seen missing (a history variable)
          floor,         \* time left of the last Retry-After (history)
          troubles       \* troubles so far

watcherVars == <<fingerprints, pending, wait, interval, lastObserved>>

vars == <<active, changes, stopped, pc, reply, watcherVars, told, floor, troubles>>

Views == [Orders -> Values \cup {NULL}]

Nothing == [o \in Orders |-> NULL]

Event == [order : Orders, value : Values]

NoReply == [kind |-> "none"]

(* Rows in any order; an order may be there again, with another value.       *)
Listings ==
    UNION {[1..n -> Event] : n \in 0..MaxRows}

Replies ==
    {NoReply, [kind |-> "failed"]}
    \cup [kind : {"rows"}, rows : Listings]
    \cup [kind : {"limited"}, after : RetryAfters \cup {NULL}]

(* Collecting rows into a map by order_code: the last row of an order wins. *)
Collected(rows, u) ==
    \A o \in Orders :
        LET At == {i \in DOMAIN rows : rows[i].order = o}
        IN  IF At = {} THEN u[o] = NULL
            ELSE \E i \in At : u[o] = rows[i].value /\ \A j \in At : j <= i

Tracked(v) == {o \in Orders : v[o] # NULL}

Init ==
    /\ active \in Views
    /\ changes = 0
    /\ stopped = FALSE
    /\ pc = "idle"
    /\ reply = NoReply
    /\ fingerprints = Nothing
    /\ pending = <<>>
    /\ wait = 0
    /\ interval = BaseInterval
    /\ lastObserved = NULL
    /\ told = Nothing
    /\ floor = 0
    /\ troubles = 0

Trouble ==
    /\ troubles < MaxTroubles
    /\ troubles' = troubles + 1

-----------------------------------------------------------------------------
(* Fault variant: the events behind the one that is returned are lost.       *)
OneEventDeliver(q, t) ==
    /\ told' = [t EXCEPT ![Head(q).order] = Head(q).value]
    /\ pending' = <<>>
    /\ pc' = "idle"

(* pop_front of the queue q, returned to the caller; t is what it was told. *)
Deliver(q, t) ==
    /\ told' = [t EXCEPT ![Head(q).order] = Head(q).value]
    /\ pending' = Tail(q)
    /\ pc' = "idle"

(* Fault variant: the queue is served before the stop conditions are looked  *)
(* at.                                                                       *)
HastyCall ==
    /\ pc = "idle"
    /\ \/ pending # <<>> /\ Deliver(pending, told)
       \/ ~stopped /\ pending = <<>> /\ pc' = "wait" /\ UNCHANGED <<pending, told>>
    /\ UNCHANGED <<active, changes, stopped, reply, fingerprints, wait, interval,
                   lastObserved, floor, troubles>>

(* next(): a stop returns at once and changes nothing. *)
Call ==
    /\ pc = "idle"
    /\ ~stopped
    /\ \/ pending # <<>> /\ Deliver(pending, told)
       \/ pending = <<>> /\ pc' = "wait" /\ UNCHANGED <<pending, told>>
    /\ UNCHANGED <<active, changes, stopped, reply, fingerprints, wait, interval,
                   lastObserved, floor, troubles>>

(* wait_until_next_poll; sms.active() goes out. *)
Wake ==
    /\ pc = "wait"
    /\ ~stopped
    /\ wait = 0
    /\ pc' = "poll"
    /\ UNCHANGED <<active, changes, stopped, reply, watcherVars, told, floor, troubles>>

(* The stop branches of both selects; an answer that has arrived is lost. *)
Stop ==
    /\ pc \in {"wait", "poll"}
    /\ stopped
    /\ pc' = "idle"
    /\ reply' = NoReply
    /\ UNCHANGED <<active, changes, stopped, watcherVars, told, floor, troubles>>

(* Fault variant: the delay belongs to the future and is dropped with it.    *)
ForgetfulDrop ==
    /\ pc \in {"wait", "poll"}
    /\ Trouble
    /\ pc' = "idle"
    /\ wait' = 0
    /\ reply' = NoReply
    /\ UNCHANGED <<active, changes, stopped, fingerprints, pending, interval,
                   lastObserved, told, floor>>

(* The caller drops the future of next(). *)
Drop ==
    /\ pc \in {"wait", "poll"}
    /\ Trouble
    /\ pc' = "idle"
    /\ reply' = NoReply
    /\ UNCHANGED <<active, changes, stopped, watcherVars, told, floor>>

ScheduleNext(retryAfter) ==
    /\ interval' = AdvanceInterval(interval)
    /\ wait' \in PollingDelay(interval, retryAfter)

(* The orders of C in the order of their keys. *)
KeyOrder(C) ==
    {q \in [1..Cardinality(C) -> C] :
        /\ \A i, j \in DOMAIN q : i < j => q[i] < q[j]
        /\ \A o \in C : \E i \in DOMAIN q : q[i] = o}

(* Fault variant: only new orders count, not changed ones. *)
NewChanged(u) == {o \in Tracked(u) : fingerprints[o] = NULL}

Changed(u) == {o \in Tracked(u) : fingerprints[o] # u[o]}

(* An event for each difference, in the order of the keys, behind the queue. *)
Queues(u) ==
    {pending \o [i \in DOMAIN k |-> [order |-> k[i], value |-> u[k[i]]]] :
        k \in KeyOrder(Changed(u))}

(* What was told of orders that are still listed. *)
Kept(u) == [o \in Orders |-> IF u[o] = NULL THEN NULL ELSE told[o]]

(* Fault variant: the limit is noticed after the tracked orders changed. *)
LateLimitRecordSnapshot(u, q) ==
    /\ fingerprints' = u
    /\ q \in Queues(u)
    /\ UNCHANGED lastObserved

(* Fault variant: an order that vanished keeps its fingerprint. *)
KeepingRecordSnapshot(u, q) ==
    /\ Cardinality(Tracked(u)) <= MaxTracked
    /\ fingerprints' = [o \in Orders |-> IF u[o] = NULL THEN fingerprints[o] ELSE u[o]]
    /\ q \in Queues(u)
    /\ UNCHANGED lastObserved

(* record_snapshot, which leaves q queued: the limit comes first; then       *)
(* orders that are gone are forgotten and each difference is queued.         *)
RecordSnapshot(u, q) ==
    /\ Cardinality(Tracked(u)) <= MaxTracked
    /\ fingerprints' = u
    /\ q \in Queues(u)
    /\ \/ Tracked(u) = {} /\ UNCHANGED lastObserved
       \/ \E o \in Tracked(u) :
             /\ \A p \in Tracked(u) : p <= o
             /\ lastObserved' = [order |-> o, value |-> u[o]]

Observe ==
    /\ pc = "poll"
    /\ ~stopped
    /\ reply.kind = "rows"
    /\ \E u \in Views :
          /\ Collected(reply.rows, u)
          /\ \E q \in Queues(u) :
                /\ RecordSnapshot(u, q)
                /\ \/ q # <<>> /\ Deliver(q, Kept(u))
                   \/ q = <<>> /\ pending' = q /\ told' = Kept(u) /\ pc' = "wait"
    /\ ScheduleNext(NULL)
    /\ reply' = NoReply
    /\ UNCHANGED <<active, changes, stopped, floor, troubles>>

(* TrackingLimitExceeded: nothing is recorded and nothing is scheduled, so   *)
(* the next call polls at once.                                              *)
ExceedLimit ==
    /\ pc = "poll"
    /\ ~stopped
    /\ reply.kind = "rows"
    /\ \E u \in Views : /\ Collected(reply.rows, u)
                        /\ Cardinality(Tracked(u)) > MaxTracked
    /\ pc' = "idle"
    /\ reply' = NoReply
    /\ UNCHANGED <<active, changes, stopped, watcherVars, told, floor, troubles>>

(* Error::RateLimited: next() goes on. *)
RateLimited ==
    /\ pc = "poll"
    /\ ~stopped
    /\ reply.kind = "limited"
    /\ ScheduleNext(reply.after)
    /\ floor' = IF reply.after = NULL THEN 0 ELSE reply.after
    /\ pc' = "wait"
    /\ reply' = NoReply
    /\ UNCHANGED <<active, changes, stopped, fingerprints, pending, lastObserved,
                   told, troubles>>

(* Any other error ends next(); nothing is scheduled. *)
Fail ==
    /\ pc = "poll"
    /\ ~stopped
    /\ reply.kind = "failed"
    /\ pc' = "idle"
    /\ reply' = NoReply
    /\ UNCHANGED <<active, changes, stopped, watcherVars, told, floor, troubles>>

-----------------------------------------------------------------------------
(* The provider, the caller's stop conditions and time. *)

AnswerRows ==
    /\ pc = "poll"
    /\ reply = NoReply
    /\ reply' \in [kind : {"rows"}, rows : Listings]
    /\ Collected(reply'.rows, active)
    /\ UNCHANGED <<active, changes, stopped, pc, watcherVars, told, floor, troubles>>

AnswerError ==
    /\ pc = "poll"
    /\ reply = NoReply
    /\ Trouble
    /\ reply' \in Replies \ [kind : {"rows"}, rows : Listings]
    /\ reply' # NoReply
    /\ UNCHANGED <<active, changes, stopped, pc, watcherVars, told, floor>>

(* An order is listed, changes, or disappears. *)
Change ==
    /\ changes < MaxChanges
    /\ changes' = changes + 1
    /\ \E o \in Orders, v \in Values \cup {NULL} :
          active' = [active EXCEPT ![o] = v]
    /\ UNCHANGED <<stopped, pc, reply, watcherVars, told, floor, troubles>>

StopCondition ==
    /\ ~stopped
    /\ stopped' = TRUE
    /\ UNCHANGED <<active, changes, pc, reply, watcherVars, told, floor, troubles>>

Tick ==
    /\ wait > 0
    /\ wait' = wait - 1
    /\ floor' = IF floor > 0 THEN floor - 1 ELSE 0
    /\ UNCHANGED <<active, changes, stopped, pc, reply, fingerprints, pending,
                   interval, lastObserved, told, troubles>>

-----------------------------------------------------------------------------
Progress == Call \/ Wake \/ Stop \/ Observe \/ ExceedLimit \/ RateLimited \/ Fail

Next ==
    \/ Progress \/ Drop
    \/ AnswerRows \/ AnswerError \/ Change
    \/ StopCondition \/ Tick

Spec == Init /\ [][Next]_vars

(* The caller calls again, the executor polls the future, timers fire, and   *)
(* the provider answers; errors and dropped futures end (MaxTroubles).       *)
FairSpec ==
    /\ Spec
    /\ WF_vars(Progress)
    /\ WF_vars(AnswerRows \/ AnswerError)
    /\ WF_vars(Tick)

-----------------------------------------------------------------------------
TypeOK ==
    /\ active \in Views
    /\ changes \in 0..MaxChanges
    /\ stopped \in BOOLEAN
    /\ pc \in {"idle", "wait", "poll"}
    /\ reply \in Replies
    /\ fingerprints \in Views
    /\ pending \in Seq(Event)
    /\ wait \in Nat
    /\ interval \in BaseInterval..MaxInterval
    /\ lastObserved \in Event \cup {NULL}
    /\ told \in Views
    /\ floor \in Nat
    /\ troubles \in 0..MaxTroubles

(* Every queued event is news of a tracked order in its last observed form,  *)
(* events are queued in key order, and whatever is neither queued nor        *)
(* changed has been told: no call that was dropped, stopped or failed loses, *)
(* repeats or outdates an event (next, record_snapshot).                     *)
QueueIsTheDifference ==
    /\ \A i \in DOMAIN pending :
          LET e == pending[i]
          IN  /\ fingerprints[e.order] = e.value
              /\ told[e.order] # e.value
              /\ \A j \in DOMAIN pending : i < j => e.order < pending[j].order
    /\ \A o \in Orders :
          told[o] = fingerprints[o] \/ \E i \in DOMAIN pending : pending[i].order = o

(* The map never holds more than max_tracked_orders, and the queue has no    *)
(* event beyond them: the limit is checked before anything changes.          *)
LimitHolds ==
    /\ Cardinality(Tracked(fingerprints)) <= MaxTracked
    /\ \A i \in DOMAIN pending : pending[i].order \in Tracked(fingerprints)

(* No request is sent before the Retry-After of the last 429 has passed,     *)
(* through dropped futures, new calls and jitter (schedule_next).            *)
RetryAfterRespected == pc = "poll" => floor = 0

(* Once stopped, no event is returned, no answer is recorded and no request  *)
(* goes out, whatever was queued or in flight (next, wait_until_next_poll).  *)
StopOutranksEvents ==
    [][stopped => /\ pending' = pending /\ told' = told
                  /\ fingerprints' = fingerprints
                  /\ pc' = "poll" => pc = "poll"]_vars

(* Seen from the caller the watcher is a change feed: requests, delays,      *)
(* limits, errors, drops and stops do not show in what it is told.           *)
Feed == INSTANCE ChangeFeed WITH seen <- fingerprints

ImplementsFeed == Feed!Spec

(* When the provider's orders stop changing and stay within the limit, a     *)
(* caller that keeps asking is told exactly them, unless it is stopped.      *)
EventuallyTold ==
    <>[](\/ stopped
         \/ Cardinality(Tracked(active)) > MaxTracked
         \/ told = active)
=============================================================================
