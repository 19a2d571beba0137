------------------------- MODULE ActiveWatcherProofs -------------------------
(***************************************************************************)
(* Proofs about the watcher of active orders, for any orders, fingerprints *)
(* and limit, and every interval, jitter ratio and Retry-After.  WatchInv  *)
(* adds to the invariants that next() is only ever waiting or polling with *)
(* an empty queue, so that a snapshot is always compared with what was     *)
(* told; from it follows that the watcher implements ChangeFeed.  The last *)
(* section shows that a listing leads to one view and one queue.           *)
(***************************************************************************)
EXTENDS ActiveWatcher, SequenceTheorems, FiniteSetTheorems, WellFoundedInduction, TLAPS

(* q holds the difference between what was told, t, and the view u. *)
QueueOf(q, u, t) ==
    /\ \A i \in DOMAIN q :
          /\ u[q[i].order] = q[i].value
          /\ t[q[i].order] # q[i].value
          /\ \A j \in DOMAIN q : i < j => q[i].order < q[j].order
    /\ \A o \in Orders : t[o] = u[o] \/ \E i \in DOMAIN q : q[i].order = o

(* The queue is served before anything is asked. *)
AsksWhenEmpty == pc # "idle" => pending = <<>>

(* The time left covers what is left of the Retry-After. *)
WaitCoversFloor == wait >= floor

WatchInv ==
    /\ TypeOK
    /\ QueueIsTheDifference
    /\ LimitHolds
    /\ AsksWhenEmpty
    /\ WaitCoversFloor
    /\ RetryAfterRespected

-----------------------------------------------------------------------------
(* The delay policy. *)

(* The interval stays between the base and the maximum. *)
LEMMA IntervalStays ==
    ASSUME NEW d \in BaseInterval..MaxInterval
    PROVE  AdvanceInterval(d) \in BaseInterval..MaxInterval
BY OptionsAssumption DEF ValidOptions, AdvanceInterval, AtMost

(* A delay is a duration, and never less than the Retry-After. *)
LEMMA DelayIsFloored ==
    ASSUME NEW d \in BaseInterval..MaxInterval, NEW r \in RetryAfters \cup {NULL},
           NEW x \in PollingDelay(d, r)
    PROVE  x \in Nat /\ (r # NULL => x >= r)
<1> DEFINE floorOf == IF r = NULL THEN 0 ELSE r
<1>1. d \in Nat /\ floorOf \in Nat /\ MaxInterval \in Nat
  BY OptionsAssumption, RetryAfterAssumption DEF ValidOptions
<1>2. PICK y \in Jitter(AtLeast(d, floorOf)) :
         x = IF r = NULL THEN AtMost(y, MaxInterval) ELSE AtLeast(y, floorOf)
  BY DEF PollingDelay
<1>3. y \in Nat
  BY <1>1, <1>2 DEF Jitter, AtLeast
<1> QED BY <1>1, <1>2, <1>3 DEF AtMost, AtLeast

-----------------------------------------------------------------------------
(* Queues. *)

(* The first event of a queue is the least difference, and the rest is the   *)
(* queue of what is left once it is told.                                    *)
LEMMA QueueHead ==
    ASSUME NEW q \in Seq(Event), q # <<>>, NEW u \in Views, NEW t \in Views,
           QueueOf(q, u, t)
    PROVE  /\ Head(q) \in Event /\ Tail(q) \in Seq(Event)
           /\ u[Head(q).order] # t[Head(q).order]
           /\ u[Head(q).order] = Head(q).value
           /\ \A p \in Orders : u[p] # t[p] => Head(q).order <= p
           /\ [t EXCEPT ![Head(q).order] = Head(q).value] \in Views
           /\ QueueOf(Tail(q), u, [t EXCEPT ![Head(q).order] = Head(q).value])
           /\ \A i \in DOMAIN Tail(q) : \E j \in DOMAIN q : Tail(q)[i] = q[j]
<1> DEFINE e == Head(q)
           r == Tail(q)
           told1 == [t EXCEPT ![e.order] = e.value]
<1>1. /\ Len(q) \in Nat \ {0} /\ DOMAIN q = 1..Len(q)
      /\ e = q[1] /\ e \in Event /\ \A i \in 1..Len(q) : q[i] \in Event
      /\ r \in Seq(Event) /\ DOMAIN r = 1..(Len(q) - 1)
      /\ \A i \in 1..(Len(q) - 1) : r[i] = q[i + 1]
  OBVIOUS
<1>2. e.order \in Orders /\ e.value \in Values /\ e.order \in Int
  BY <1>1, OrdersAssumption DEF Event
<1>3. u[e.order] = e.value /\ t[e.order] # e.value
  BY <1>1 DEF QueueOf
<1>4. ASSUME NEW i \in 2..Len(q)
      PROVE  /\ q[i].order \in Orders /\ q[i].order \in Int /\ e.order < q[i].order
             /\ u[q[i].order] = q[i].value /\ t[q[i].order] # q[i].value
  <2>1. i \in 1..Len(q) /\ 1 \in 1..Len(q) /\ 1 < i /\ q[i] \in Event
    BY <1>1
  <2>2. q[i].order \in Orders /\ q[i].order \in Int
    BY <2>1, OrdersAssumption DEF Event
  <2>3. e.order < q[i].order
    BY <1>1, <2>1 DEF QueueOf
  <2>4. u[q[i].order] = q[i].value /\ t[q[i].order] # q[i].value
    BY <1>1, <2>1 DEF QueueOf
  <2> QED BY <2>2, <2>3, <2>4
<1>5. ASSUME NEW p \in Orders, u[p] # t[p] PROVE e.order <= p
  <2>1. PICK i \in 1..Len(q) : q[i].order = p
    BY <1>1, <1>5 DEF QueueOf
  <2> QED BY <1>1, <1>2, <1>4, <2>1
<1>6. told1 \in Views /\ \A o \in Orders :
         told1[o] = IF o = e.order THEN e.value ELSE t[o]
  BY <1>2 DEF Views
<1>7. QueueOf(r, u, told1)
  <2>1. ASSUME NEW i \in 1..(Len(q) - 1)
        PROVE  /\ u[r[i].order] = r[i].value
               /\ told1[r[i].order] # r[i].value
               /\ \A j \in 1..(Len(q) - 1) : i < j => r[i].order < r[j].order
    <3>1. r[i] = q[i + 1] /\ i + 1 \in 2..Len(q)
      BY <1>1
    <3>2. told1[r[i].order] = t[r[i].order]
      BY <1>2, <1>4, <1>6, <3>1
    <3>3. ASSUME NEW j \in 1..(Len(q) - 1), i < j PROVE r[i].order < r[j].order
      <4>1. r[j] = q[j + 1] /\ j + 1 \in 1..Len(q) /\ i + 1 < j + 1
        BY <1>1, <3>3
      <4> QED BY <1>1, <3>1, <4>1 DEF QueueOf
    <3> QED BY <1>4, <3>1, <3>2, <3>3
  <2>2. ASSUME NEW o \in Orders, told1[o] # u[o]
        PROVE  \E i \in 1..(Len(q) - 1) : r[i].order = o
    <3>1. o # e.order /\ t[o] # u[o]
      BY <1>3, <1>6, <2>2
    <3>2. PICK i \in 1..Len(q) : q[i].order = o
      BY <1>1, <3>1 DEF QueueOf
    <3>3. i # 1
      BY <1>1, <3>1, <3>2
    <3>4. i - 1 \in 1..(Len(q) - 1) /\ r[i - 1] = q[(i - 1) + 1] /\ (i - 1) + 1 = i
      BY <1>1, <3>3
    <3> QED BY <3>2, <3>4
  <2> HIDE DEF told1, r
  <2> QED BY <1>1, <2>1, <2>2 DEF QueueOf
<1>8. ASSUME NEW i \in DOMAIN r PROVE \E j \in DOMAIN q : r[i] = q[j]
  <2>1. r[i] = q[i + 1] /\ i + 1 \in DOMAIN q
    BY <1>1
  <2> QED BY <2>1
<1> QED BY <1>1, <1>3, <1>5, <1>6, <1>7, <1>8

(* A snapshot compared with what was told queues exactly the differences.    *)
LEMMA NewQueue ==
    ASSUME TypeOK, pending = <<>>, told = fingerprints, NEW u \in Views,
           NEW q \in Queues(u)
    PROVE  /\ q \in Seq(Event)
           /\ QueueOf(q, u, Kept(u))
           /\ \A i \in DOMAIN q : q[i].order \in Tracked(u)
<1> DEFINE C == Changed(u)
           n == Cardinality(C)
<1>1. n \in Nat /\ C \subseteq Tracked(u) /\ Tracked(u) \subseteq Orders
  <2>1. C \subseteq Orders
    BY DEF Changed, Tracked
  <2> QED BY <2>1, OrdersAssumption, FS_Subset, FS_CardinalityType DEF Changed, Tracked
<1>2. PICK k \in KeyOrder(C) :
         q = pending \o [i \in DOMAIN k |-> [order |-> k[i], value |-> u[k[i]]]]
  BY DEF Queues
<1>3. /\ k \in [1..n -> C]
      /\ \A i, j \in 1..n : i < j => k[i] < k[j]
      /\ \A o \in C : \E i \in 1..n : k[i] = o
  BY <1>2 DEF KeyOrder
<1> DEFINE s == [i \in 1..n |-> [order |-> k[i], value |-> u[k[i]]]]
<1>4. \A i \in 1..n : /\ k[i] \in C /\ k[i] \in Orders /\ k[i] \in Tracked(u)
                      /\ u[k[i]] \in Values /\ s[i] \in Event
  BY <1>1, <1>3 DEF Views, Tracked, Event
<1>5. s \in Seq(Event)
  BY <1>1, <1>4
<1>6. q = s
  <2>1. q = <<>> \o s
    BY <1>2, <1>3
  <2> HIDE DEF s
  <2> QED BY <1>5, <2>1, ConcatEmptySeq
<1>7. \A o \in Orders : Kept(u)[o] = IF u[o] = NULL THEN NULL ELSE fingerprints[o]
  BY DEF Kept
<1>8. QueueOf(s, u, Kept(u))
  <2>1. ASSUME NEW i \in 1..n
        PROVE  /\ u[s[i].order] = s[i].value
               /\ Kept(u)[s[i].order] # s[i].value
               /\ \A j \in 1..n : i < j => s[i].order < s[j].order
    BY <1>3, <1>4, <1>7 DEF Changed, Tracked
  <2>2. ASSUME NEW o \in Orders, Kept(u)[o] # u[o]
        PROVE  \E i \in 1..n : s[i].order = o
    <3>1. o \in C
      BY <1>7, <2>2 DEF Changed, Tracked
    <3> QED BY <1>3, <3>1
  <2>3. DOMAIN s = 1..n
    OBVIOUS
  <2> HIDE DEF s
  <2> QED BY <2>1, <2>2, <2>3 DEF QueueOf
<1> QED BY <1>4, <1>5, <1>6, <1>8

-----------------------------------------------------------------------------
(* The fresh watcher satisfies WatchInv. *)
LEMMA WatchInit == Init => WatchInv
<1> SUFFICES ASSUME Init PROVE WatchInv
  OBVIOUS
<1>1. TypeOK
  <2>1. NoReply \in Replies /\ Nothing \in Views /\ <<>> \in Seq(Event)
    BY DEF NoReply, Replies, Nothing, Views
  <2>2. BaseInterval \in BaseInterval..MaxInterval
    BY OptionsAssumption DEF ValidOptions
  <2>3. changes \in 0..MaxChanges /\ troubles \in 0..MaxTroubles
    BY WatcherBoundsAssumption DEF Init
  <2> QED BY <2>1, <2>2, <2>3 DEF Init, TypeOK
<1>2. QueueIsTheDifference
  BY DEF Init, QueueIsTheDifference
<1>3. LimitHolds
  <2>1. Tracked(fingerprints) = {}
    BY DEF Init, Tracked, Nothing
  <2> QED BY <2>1, FS_EmptySet, LimitAssumption DEF Init, LimitHolds
<1>4. AsksWhenEmpty /\ WaitCoversFloor /\ RetryAfterRespected
  BY DEF Init, AsksWhenEmpty, WaitCoversFloor, RetryAfterRespected
<1> QED BY <1>1, <1>2, <1>3, <1>4 DEF WatchInv

(* An event is returned from a queue of the difference. *)
LEMMA DeliverStep ==
    ASSUME NEW q \in Seq(Event), q # <<>>, NEW u \in Views, NEW t \in Views,
           QueueOf(q, u, t), \A i \in DOMAIN q : q[i].order \in Tracked(u),
           Deliver(q, t)
    PROVE  /\ pending' \in Seq(Event) /\ told' \in Views /\ pc' = "idle"
           /\ QueueOf(pending', u, told')
           /\ \A i \in DOMAIN pending' : pending'[i].order \in Tracked(u)
           /\ \E o \in Orders :
                 /\ u[o] # t[o]
                 /\ \A p \in Orders : u[p] # t[p] => o <= p
                 /\ told' = [t EXCEPT ![o] = u[o]]
<1> DEFINE e == Head(q)
<1>1. /\ e \in Event /\ Tail(q) \in Seq(Event)
      /\ u[e.order] # t[e.order] /\ u[e.order] = e.value
      /\ \A p \in Orders : u[p] # t[p] => e.order <= p
      /\ [t EXCEPT ![e.order] = e.value] \in Views
      /\ QueueOf(Tail(q), u, [t EXCEPT ![e.order] = e.value])
      /\ \A i \in DOMAIN Tail(q) : \E j \in DOMAIN q : Tail(q)[i] = q[j]
  BY QueueHead
<1>2. pending' = Tail(q) /\ told' = [t EXCEPT ![e.order] = e.value] /\ pc' = "idle"
  BY DEF Deliver
<1>3. e.order \in Orders
  BY <1>1 DEF Event
<1> HIDE DEF e
<1> QED BY <1>1, <1>2, <1>3

(* The queue of the state is a queue of the difference. *)
LEMMA QueueNow ==
    /\ QueueIsTheDifference <=> QueueOf(pending, fingerprints, told)
    /\ QueueIsTheDifference' <=> QueueOf(pending', fingerprints', told')
BY DEF QueueIsTheDifference, QueueOf

(* next() served from the queue. *)
LEMMA CallStep ==
    ASSUME WatchInv, Call
    PROVE  WatchInv' /\ [Feed!Next]_(Feed!feedVars)
<1>1. /\ TypeOK /\ LimitHolds /\ QueueOf(pending, fingerprints, told)
      /\ UNCHANGED <<active, changes, stopped, reply, fingerprints, wait, interval,
                     lastObserved, floor, troubles>>
  BY QueueNow DEF WatchInv, Call
<1>2. CASE pending = <<>> /\ pc' = "wait" /\ UNCHANGED <<pending, told>>
  <2>1. WatchInv'
    BY <1>1, <1>2 DEF WatchInv, TypeOK, QueueIsTheDifference, LimitHolds, Tracked,
                      AsksWhenEmpty, WaitCoversFloor, RetryAfterRespected
  <2> QED BY <1>1, <1>2, <2>1 DEF Feed!feedVars
<1>3. CASE pending # <<>> /\ Deliver(pending, told)
  <2>1. pending \in Seq(Event) /\ fingerprints \in Views /\ told \in Views
    BY <1>1 DEF TypeOK
  <2>2. /\ pending' \in Seq(Event) /\ told' \in Views /\ pc' = "idle"
        /\ QueueOf(pending', fingerprints, told')
        /\ \A i \in DOMAIN pending' : pending'[i].order \in Tracked(fingerprints)
        /\ \E o \in Orders :
              /\ fingerprints[o] # told[o]
              /\ \A p \in Orders : fingerprints[p] # told[p] => o <= p
              /\ told' = [told EXCEPT ![o] = fingerprints[o]]
    BY <1>1, <1>3, <2>1, DeliverStep DEF LimitHolds
  <2>3. TypeOK'
    BY <1>1, <2>2 DEF TypeOK
  <2>4. QueueIsTheDifference' /\ LimitHolds'
    BY <1>1, <2>2, QueueNow DEF LimitHolds, Tracked
  <2>5. AsksWhenEmpty' /\ WaitCoversFloor' /\ RetryAfterRespected'
    BY <1>1, <2>2 DEF WatchInv, AsksWhenEmpty, WaitCoversFloor, RetryAfterRespected
  <2>6. Feed!Next
    BY <1>1, <2>2 DEF Feed!Next, Feed!Tell, Feed!TellLeast
  <2> QED BY <2>3, <2>4, <2>5, <2>6 DEF WatchInv
<1> QED BY <1>2, <1>3 DEF Call

(* A delay that was scheduled is typed and covers the Retry-After. *)
LEMMA ScheduleTyped ==
    ASSUME TypeOK, NEW r \in RetryAfters \cup {NULL}, ScheduleNext(r)
    PROVE  interval' \in BaseInterval..MaxInterval /\ wait' \in Nat
           /\ (r # NULL => wait' >= r)
BY IntervalStays, DelayIsFloored DEF ScheduleNext, TypeOK

(* A snapshot is recorded and its first event returned. *)
LEMMA ObserveStep ==
    ASSUME WatchInv, Observe
    PROVE  WatchInv' /\ Feed!Next
<1>1. /\ TypeOK /\ pending = <<>> /\ QueueOf(pending, fingerprints, told)
      /\ pc = "poll" /\ floor = 0
  BY QueueNow DEF WatchInv, Observe, AsksWhenEmpty, RetryAfterRespected
<1>2. told = fingerprints
  <2>1. told \in Views /\ fingerprints \in Views
    BY <1>1 DEF TypeOK
  <2>2. \A o \in Orders : told[o] = fingerprints[o]
    BY <1>1 DEF QueueOf
  <2> QED BY <2>1, <2>2 DEF Views
<1>3. /\ UNCHANGED <<active, changes, stopped, floor, troubles>>
      /\ reply' = NoReply /\ ScheduleNext(NULL)
  BY DEF Observe
<1>4. PICK u \in Views : \E q \in Queues(u) :
         /\ RecordSnapshot(u, q)
         /\ \/ q # <<>> /\ Deliver(q, Kept(u))
            \/ q = <<>> /\ pending' = q /\ told' = Kept(u) /\ pc' = "wait"
  BY DEF Observe
<1>5. PICK q \in Queues(u) :
         /\ RecordSnapshot(u, q)
         /\ \/ q # <<>> /\ Deliver(q, Kept(u))
            \/ q = <<>> /\ pending' = q /\ told' = Kept(u) /\ pc' = "wait"
  BY <1>4
<1>6. /\ q \in Seq(Event)
      /\ QueueOf(q, u, Kept(u))
      /\ \A i \in DOMAIN q : q[i].order \in Tracked(u)
  BY <1>1, <1>2, NewQueue
<1>7. Kept(u) \in Views
  BY <1>1 DEF Kept, Views, TypeOK
<1>8. /\ pending' \in Seq(Event) /\ told' \in Views
      /\ pc' \in {"idle", "wait"} /\ (pc' = "wait" => pending' = <<>>)
      /\ QueueOf(pending', u, told')
      /\ \A i \in DOMAIN pending' : pending'[i].order \in Tracked(u)
      /\ \/ \E o \in Orders :
               /\ u[o] # Kept(u)[o]
               /\ \A p \in Orders : u[p] # Kept(u)[p] => o <= p
               /\ told' = [Kept(u) EXCEPT ![o] = u[o]]
         \/ Kept(u) = u /\ told' = u
  <2>1. CASE q # <<>> /\ Deliver(q, Kept(u))
    BY <1>6, <1>7, <2>1, DeliverStep
  <2>2. CASE q = <<>> /\ pending' = q /\ told' = Kept(u) /\ pc' = "wait"
    <3>1. \A o \in Orders : Kept(u)[o] = u[o]
      BY <1>6, <2>2 DEF QueueOf
    <3>2. Kept(u) = u
      BY <1>7, <3>1 DEF Views
    <3> QED BY <1>6, <1>7, <2>2, <3>2
  <2> QED BY <1>5, <2>1, <2>2
<1>9. /\ fingerprints' = u /\ Cardinality(Tracked(u)) <= MaxTracked
      /\ lastObserved' \in Event \cup {NULL}
  <2>1. \A o \in Tracked(u) : [order |-> o, value |-> u[o]] \in Event
    BY DEF Tracked, Event, Views
  <2> QED BY <1>1, <1>5, <2>1 DEF RecordSnapshot, TypeOK
<1>10. interval' \in BaseInterval..MaxInterval /\ wait' \in Nat
  BY <1>1, <1>3, ScheduleTyped
<1>11. TypeOK'
  <2>1. NoReply \in Replies
    BY DEF NoReply, Replies
  <2> QED BY <1>1, <1>3, <1>8, <1>9, <1>10, <2>1 DEF TypeOK
<1>12. QueueIsTheDifference' /\ LimitHolds'
  <2>1. Tracked(fingerprints') = Tracked(u)
    BY <1>9
  <2> QED BY <1>8, <1>9, <2>1, QueueNow DEF LimitHolds, Tracked
<1>13. AsksWhenEmpty' /\ WaitCoversFloor' /\ RetryAfterRespected'
  BY <1>1, <1>3, <1>8, <1>10 DEF AsksWhenEmpty, WaitCoversFloor, RetryAfterRespected
<1>14. Feed!Next
  <2>1. Feed!Kept(u) = Kept(u) /\ Feed!Views = Views
    BY DEF Feed!Kept, Kept, Feed!Views, Views
  <2>2. Feed!Observe(u)
    BY <1>2, <1>8, <1>9, <2>1 DEF Feed!Observe, Feed!TellLeast
  <2> QED BY <2>1, <2>2 DEF Feed!Next
<1> QED BY <1>11, <1>12, <1>13, <1>14 DEF WatchInv

(* Steps that neither queue, tell nor record. *)
LEMMA QuietStep ==
    ASSUME WatchInv, [Next]_vars, ~Call, ~Observe
    PROVE  WatchInv' /\ UNCHANGED <<fingerprints, told>>
<1>1. TypeOK /\ pending' = pending /\ UNCHANGED <<fingerprints, told, lastObserved>>
  BY DEF WatchInv, Next, Progress, Wake, Stop, Drop, ExceedLimit, RateLimited, Fail,
         AnswerRows, AnswerError, Change, StopCondition, Tick, watcherVars, vars
<1>2. NoReply \in Replies
  BY DEF NoReply, Replies
<1>3. SUFFICES /\ TypeOK' /\ AsksWhenEmpty'
               /\ WaitCoversFloor' /\ RetryAfterRespected'
  BY <1>1 DEF WatchInv, QueueIsTheDifference, LimitHolds, Tracked
<1>4. CASE Wake
  BY <1>1, <1>4 DEF Wake, WatchInv, TypeOK, AsksWhenEmpty, WaitCoversFloor,
                    RetryAfterRespected, watcherVars
<1>5. CASE Stop \/ ExceedLimit \/ Fail
  BY <1>1, <1>2, <1>5 DEF Stop, ExceedLimit, Fail, WatchInv, TypeOK, AsksWhenEmpty,
                    WaitCoversFloor, RetryAfterRespected, watcherVars
<1>6. CASE Drop
  BY <1>1, <1>2, <1>6, WatcherBoundsAssumption
     DEF Drop, Trouble, WatchInv, TypeOK, AsksWhenEmpty, WaitCoversFloor,
         RetryAfterRespected, watcherVars
<1>7. CASE RateLimited
  <2>1. reply.after \in RetryAfters \cup {NULL}
    BY <1>1, <1>7 DEF RateLimited, TypeOK, Replies, NoReply
  <2>2. /\ ScheduleNext(reply.after) /\ pc' = "wait" /\ reply' = NoReply
        /\ pc = "poll"
        /\ floor' = IF reply.after = NULL THEN 0 ELSE reply.after
        /\ UNCHANGED <<active, changes, stopped, troubles>>
    BY <1>7 DEF RateLimited
  <2>3. /\ interval' \in BaseInterval..MaxInterval /\ wait' \in Nat
        /\ (reply.after # NULL => wait' >= reply.after)
    BY <1>1, <2>1, <2>2, ScheduleTyped
  <2>4. floor' \in Nat /\ wait' >= floor'
    BY <2>1, <2>2, <2>3, RetryAfterAssumption
  <2>5. TypeOK'
    BY <1>1, <1>2, <2>2, <2>3, <2>4 DEF TypeOK
  <2>6. AsksWhenEmpty' /\ WaitCoversFloor' /\ RetryAfterRespected'
    BY <1>1, <2>2, <2>4 DEF WatchInv, AsksWhenEmpty, WaitCoversFloor,
                            RetryAfterRespected
  <2> QED BY <2>5, <2>6
<1>8. CASE AnswerRows
  <2>1. reply' \in Replies
    BY <1>8 DEF AnswerRows, Replies
  <2> QED
    BY <1>1, <1>8, <2>1 DEF AnswerRows, WatchInv, TypeOK, AsksWhenEmpty,
                            WaitCoversFloor, RetryAfterRespected, watcherVars
<1>9. CASE AnswerError
  <2>1. reply' \in Replies
    BY <1>9 DEF AnswerError
  <2> QED
    BY <1>1, <1>9, <2>1, WatcherBoundsAssumption
       DEF AnswerError, Trouble, WatchInv, TypeOK, AsksWhenEmpty, WaitCoversFloor,
           RetryAfterRespected, watcherVars
<1>10. CASE Change
  <2>1. active' \in Views /\ changes' \in 0..MaxChanges
    BY <1>1, <1>10, WatcherBoundsAssumption DEF Change, TypeOK, Views
  <2> QED
    BY <1>1, <1>10, <2>1 DEF Change, WatchInv, TypeOK, AsksWhenEmpty,
                             WaitCoversFloor, RetryAfterRespected, watcherVars
<1>11. CASE StopCondition
  BY <1>1, <1>11 DEF StopCondition, WatchInv, TypeOK, AsksWhenEmpty,
                     WaitCoversFloor, RetryAfterRespected, watcherVars
<1>12. CASE Tick
  BY <1>1, <1>12 DEF Tick, WatchInv, TypeOK, AsksWhenEmpty, WaitCoversFloor,
                     RetryAfterRespected
<1>13. CASE UNCHANGED vars
  BY <1>1, <1>13 DEF vars, watcherVars, WatchInv, TypeOK, AsksWhenEmpty,
                     WaitCoversFloor, RetryAfterRespected
<1> QED
  BY <1>4, <1>5, <1>6, <1>7, <1>8, <1>9, <1>10, <1>11, <1>12, <1>13
     DEF Next, Progress

(* Every step keeps WatchInv and is a step or a stutter of the feed. *)
LEMMA WatchStep == WatchInv /\ [Next]_vars => WatchInv' /\ [Feed!Next]_(Feed!feedVars)
BY CallStep, ObserveStep, QuietStep DEF Feed!feedVars

(* WatchInv holds in every reachable state. *)
LEMMA Invariance == Spec => []WatchInv
BY WatchInit, WatchStep, PTL DEF Spec

-----------------------------------------------------------------------------
(* Every reachable state is well typed. *)
THEOREM TypeCorrect == Spec => []TypeOK
<1>1. WatchInv => TypeOK
  BY DEF WatchInv
<1> QED BY Invariance, <1>1, PTL

(* No call that was dropped, stopped or failed loses, repeats or outdates an *)
(* event.                                                                    *)
THEOREM NothingLost == Spec => []QueueIsTheDifference
<1>1. WatchInv => QueueIsTheDifference
  BY DEF WatchInv
<1> QED BY Invariance, <1>1, PTL

(* The tracked orders and the queue stay within the limit. *)
THEOREM LimitKept == Spec => []LimitHolds
<1>1. WatchInv => LimitHolds
  BY DEF WatchInv
<1> QED BY Invariance, <1>1, PTL

(* No request goes out before the last Retry-After has passed. *)
THEOREM RetryAfterFirst == Spec => []RetryAfterRespected
<1>1. WatchInv => RetryAfterRespected
  BY DEF WatchInv
<1> QED BY Invariance, <1>1, PTL

(* Once stopped the watcher tells, records and asks nothing. *)
THEOREM StopsAtOnce == Spec => StopOutranksEvents
<1>1. ASSUME [Next]_vars, stopped
      PROVE  /\ pending' = pending /\ told' = told
             /\ fingerprints' = fingerprints
             /\ pc' = "poll" => pc = "poll"
  <2>1. CASE Progress
    BY <1>1, <2>1 DEF Progress, Call, Wake, Stop, Observe, ExceedLimit, RateLimited,
                      Fail, watcherVars
  <2>2. CASE Drop \/ AnswerRows \/ AnswerError \/ Change \/ StopCondition \/ Tick
    BY <2>2 DEF Drop, AnswerRows, AnswerError, Change, StopCondition, Tick, watcherVars
  <2>3. CASE UNCHANGED vars
    BY <2>3 DEF vars, watcherVars
  <2> QED BY <1>1, <2>1, <2>2, <2>3 DEF Next
<1> QED BY <1>1, PTL DEF Spec, StopOutranksEvents

(* The watcher implements the change feed. *)
THEOREM WatcherImplementsFeed == Spec => ImplementsFeed
<1>1. Init => Feed!Init
  BY DEF Init, Feed!Init, Nothing, Feed!Nothing
<1> QED BY <1>1, WatchStep, Invariance, PTL DEF Spec, ImplementsFeed, Feed!Spec

-----------------------------------------------------------------------------
(* What a listing determines.  Rows are collected into a map by order code   *)
(* and the differences queued in the order of its keys: the outcome must not *)
(* depend on anything but the listing and what was known before.             *)

(* Every nonempty set of numbers has a least one. *)
LEMMA LeastNumber ==
    ASSUME NEW S \in SUBSET Nat, S # {}
    PROVE  \E m \in S : \A n \in S : m <= n
<1> DEFINE R == {p \in Nat \X Nat : p[1] < p[2]}
<1>1. IsWellFoundedOn(R, Nat)
  BY NatLessThanWellFounded, Zenon DEF OpToRel
<1>2. PICK m \in S : \A n \in S : <<n, m>> \notin R
  <2> HIDE DEF R
  <2> QED BY <1>1, WFMin, Zenon
<1>3. \A n \in S : ~(n < m)
  BY <1>2
<1> QED BY <1>3

(* A set of numbers that holds 0 and every successor is Nat. *)
LEMMA Induction ==
    ASSUME NEW P \in SUBSET Nat, 0 \in P, \A n \in P : n + 1 \in P
    PROVE  P = Nat
<1> SUFFICES ASSUME Nat \ P # {} PROVE FALSE
  OBVIOUS
<1>1. PICK m \in Nat \ P : \A n \in Nat \ P : m <= n
  <2>1. Nat \ P \in SUBSET Nat
    OBVIOUS
  <2> QED BY <2>1, LeastNumber, Zenon
<1>2. m # 0 /\ m - 1 \in Nat /\ m - 1 \in P
  BY <1>1
<1>3. (m - 1) + 1 = m
  BY <1>2
<1> QED BY <1>1, <1>2, <1>3

(* Of some places in a sequence one is the last. *)
LEMMA LastPlace ==
    ASSUME NEW n \in Nat, NEW A \in SUBSET (1..n), A # {}
    PROVE  \E i \in A : \A j \in A : j <= i
<1> DEFINE S == {n - i : i \in A}
<1>1. S \in SUBSET Nat /\ S # {}
  <2>1. \A i \in A : n - i \in Nat
    OBVIOUS
  <2>2. PICK i \in A : TRUE
    OBVIOUS
  <2>3. n - i \in S
    OBVIOUS
  <2> QED BY <2>1, <2>3
<1>2. PICK m \in S : \A x \in S : m <= x
  <2> HIDE DEF S
  <2> QED BY <1>1, LeastNumber
<1>3. PICK i \in A : m = n - i
  BY <1>2
<1>4. \A j \in A : n - i <= n - j
  BY <1>2, <1>3
<1> QED BY <1>3, <1>4

(* Collecting the rows of a listing leads to one view, whichever rows repeat *)
(* an order.                                                                 *)
LEMMA CollectedOnce ==
    ASSUME NEW rows \in Listings
    PROVE  \E u \in Views :
              /\ Collected(rows, u)
              /\ \A w \in Views : Collected(rows, w) => w = u
<1> DEFINE At(o) == {i \in DOMAIN rows : rows[i].order = o}
           last(o) == CHOOSE i \in At(o) : \A j \in At(o) : j <= i
           u == [o \in Orders |-> IF At(o) = {} THEN NULL ELSE rows[last(o)].value]
<1>1. PICK n \in Nat : rows \in [1..n -> Event]
  BY WatcherBoundsAssumption DEF Listings
<1>2. ASSUME NEW o, At(o) # {}
      PROVE  /\ last(o) \in At(o) /\ \A j \in At(o) : j <= last(o)
             /\ last(o) \in 1..n
  <2>1. At(o) \in SUBSET (1..n)
    BY <1>1
  <2>2. \E i \in At(o) : \A j \in At(o) : j <= i
    <3> HIDE DEF At
    <3> QED BY <1>2, <2>1, LastPlace
  <2>3. last(o) \in At(o) /\ \A j \in At(o) : j <= last(o)
    <3> HIDE DEF At
    <3> QED BY <2>2
  <2> QED BY <2>1, <2>3
<1>3. u \in Views
  <2>1. ASSUME NEW o \in Orders, At(o) # {} PROVE rows[last(o)].value \in Values
    <3>1. rows[last(o)] \in Event
      BY <1>1, <1>2, <2>1
    <3> QED BY <3>1 DEF Event
  <2> HIDE DEF At, last
  <2> QED BY <2>1 DEF Views
<1>4. Collected(rows, u)
  <2>1. ASSUME NEW o \in Orders
        PROVE  IF At(o) = {} THEN u[o] = NULL
               ELSE \E i \in At(o) : u[o] = rows[i].value /\ \A j \in At(o) : j <= i
    <3>1. u[o] = IF At(o) = {} THEN NULL ELSE rows[last(o)].value
      OBVIOUS
    <3> HIDE DEF u, last, At
    <3> QED BY <1>2, <3>1
  <2> HIDE DEF u, last
  <2> QED BY <2>1 DEF Collected
<1>5. ASSUME NEW w \in Views, Collected(rows, w) PROVE w = u
  <2>1. ASSUME NEW o \in Orders PROVE w[o] = u[o]
    <3>1. u[o] = IF At(o) = {} THEN NULL ELSE rows[last(o)].value
      OBVIOUS
    <3>2. IF At(o) = {} THEN w[o] = NULL
          ELSE \E i \in At(o) : w[o] = rows[i].value /\ \A j \in At(o) : j <= i
      BY <1>5 DEF Collected
    <3>3. At(o) \subseteq Int
      BY <1>1
    <3> HIDE DEF u, last, At
    <3>4. CASE At(o) = {}
      BY <3>1, <3>2, <3>4
    <3>5. CASE At(o) # {}
      <4>1. PICK i \in At(o) : w[o] = rows[i].value /\ \A j \in At(o) : j <= i
        BY <3>2, <3>5
      <4>2. i = last(o)
        BY <1>2, <3>3, <3>5, <4>1
      <4> QED BY <3>1, <3>5, <4>1, <4>2
    <3> QED BY <3>4, <3>5
  <2> HIDE DEF u
  <2> QED BY <1>3, <2>1 DEF Views
<1> QED BY <1>3, <1>4, <1>5

(* Some integers, not none and not without end, have a greatest. *)
LEMMA GreatestKey ==
    ASSUME NEW C \in SUBSET Int, IsFiniteSet(C), C # {}
    PROVE  \E m \in C : \A x \in C : x <= m
<1> DEFINE Has(D) == \E m \in D : \A x \in D : x <= m
           Sized(n) == {D \in SUBSET Int : IsFiniteSet(D) /\ Cardinality(D) = n + 1}
           P == {n \in Nat : \A D \in Sized(n) : Has(D)}
<1>1. 0 \in P
  <2>1. ASSUME NEW D \in Sized(0) PROVE Has(D)
    <3>0. IsFiniteSet(D) /\ Cardinality(D) = 1
      OBVIOUS
    <3>1. PICK d : D = {d}
      <4> HIDE DEF Sized
      <4> QED BY <3>0, FS_Singleton
    <3> QED BY <3>1
  <2> HIDE DEF Has, Sized
  <2> QED BY <2>1
<1>2. ASSUME NEW n \in P PROVE n + 1 \in P
  <2>1. ASSUME NEW D \in Sized(n + 1) PROVE Has(D)
    <3>1. D \in SUBSET Int /\ IsFiniteSet(D) /\ Cardinality(D) = n + 2 /\ n \in Nat
      OBVIOUS
    <3>2. D # {}
      BY <3>1, FS_EmptySet
    <3>3. PICK d \in D : TRUE
      BY <3>2
    <3>4. IsFiniteSet(D \ {d}) /\ Cardinality(D \ {d}) = n + 1
      <4> HIDE DEF Sized, Has, P
      <4>1. IsFiniteSet(D \ {d}) /\ Cardinality(D \ {d}) = (n + 2) - 1
        BY <3>1, FS_RemoveElement
      <4> QED BY <3>1, <4>1
    <3>5. D \ {d} \in Sized(n)
      BY <3>1, <3>4
    <3>6. Has(D \ {d})
      <4> HIDE DEF Has, Sized
      <4> QED BY <1>2, <3>5
    <3>7. PICK m \in D \ {d} : \A x \in D \ {d} : x <= m
      BY <3>6
    <3>8. CASE d <= m
      BY <3>1, <3>7, <3>8
    <3>9. CASE ~(d <= m)
      <4>1. \A x \in D : x <= d
        BY <3>1, <3>7, <3>9
      <4> QED BY <4>1
    <3> QED BY <3>8, <3>9
  <2>2. n + 1 \in Nat
    OBVIOUS
  <2> HIDE DEF Has, Sized
  <2> QED BY <2>1, <2>2
<1>3. P = Nat
  <2> HIDE DEF P
  <2>1. P \in SUBSET Nat
    BY DEF P
  <2> QED BY <1>1, <1>2, <2>1, Induction
<1>4. PICK k \in Nat : Cardinality(C) = k + 1
  <2>1. Cardinality(C) \in Nat /\ Cardinality(C) # 0
    BY FS_CardinalityType, FS_EmptySet
  <2>2. Cardinality(C) - 1 \in Nat /\ Cardinality(C) = (Cardinality(C) - 1) + 1
    BY <2>1
  <2> QED BY <2>2
<1>5. k \in P /\ C \in Sized(k)
  <2>1. C \in Sized(k)
    BY <1>4
  <2> HIDE DEF P, Sized
  <2> QED BY <1>3, <2>1
<1>6. Has(C)
  <2> HIDE DEF Has, Sized
  <2> QED BY <1>5
<1> QED BY <1>6

(* Every set of orders can be put in the order of its keys. *)
LEMMA KeyOrderExists ==
    ASSUME NEW C \in SUBSET Int, IsFiniteSet(C)
    PROVE  KeyOrder(C) # {}
<1> DEFINE Sized(n) == {D \in SUBSET Int : IsFiniteSet(D) /\ Cardinality(D) = n}
           P == {n \in Nat : \A D \in Sized(n) : KeyOrder(D) # {}}
<1>1. 0 \in P
  <2>1. ASSUME NEW D \in Sized(0) PROVE KeyOrder(D) # {}
    <3>1. D = {} /\ Cardinality(D) = 0
      BY FS_EmptySet
    <3>2. <<>> \in [1..Cardinality(D) -> D] /\ DOMAIN <<>> = {}
      BY <3>1
    <3>3. <<>> \in KeyOrder(D)
      BY <3>1, <3>2 DEF KeyOrder
    <3> QED BY <3>3
  <2> HIDE DEF Sized
  <2> QED BY <2>1
<1>2. ASSUME NEW n \in P PROVE n + 1 \in P
  <2>1. ASSUME NEW D \in Sized(n + 1) PROVE KeyOrder(D) # {}
    <3>1. D \in SUBSET Int /\ IsFiniteSet(D) /\ Cardinality(D) = n + 1 /\ n \in Nat
      OBVIOUS
    <3>2. D # {}
      BY <3>1, FS_EmptySet
    <3>3. PICK m \in D : \A x \in D : x <= m
      BY <3>1, <3>2, GreatestKey
    <3> DEFINE E == D \ {m}
    <3>4. IsFiniteSet(E) /\ Cardinality(E) = n
      <4> HIDE DEF Sized, P
      <4>1. IsFiniteSet(E) /\ Cardinality(E) = (n + 1) - 1
        BY <3>1, FS_RemoveElement
      <4> QED BY <3>1, <4>1
    <3>5. E \in Sized(n)
      BY <3>1, <3>4
    <3>6. PICK q : q \in KeyOrder(E)
      <4> HIDE DEF E, Sized
      <4> QED BY <1>2, <3>5
    <3>7. /\ q \in [1..n -> E]
          /\ \A i, j \in 1..n : i < j => q[i] < q[j]
          /\ \A o \in E : \E i \in 1..n : q[i] = o
      <4> HIDE DEF E
      <4> QED BY <3>4, <3>6 DEF KeyOrder
    <3> DEFINE r == [i \in 1..(n + 1) |-> IF i = n + 1 THEN m ELSE q[i]]
    <3>8. \A i \in 1..n : i \in 1..(n + 1) /\ r[i] = q[i] /\ q[i] \in D /\ q[i] < m
      <4>1. \A i \in 1..n : i \in 1..(n + 1) /\ i # n + 1
        BY <3>1
      <4>2. \A x \in E : x \in D /\ x < m
        BY <3>1, <3>3
      <4> QED BY <3>7, <4>1, <4>2
    <3>9. n + 1 \in 1..(n + 1) /\ r[n + 1] = m
      BY <3>1
    <3>10. \A i \in 1..(n + 1) : i \in 1..n \/ i = n + 1
      BY <3>1
    <3>11. r \in [1..(n + 1) -> D]
      BY <3>8, <3>10
    <3> HIDE DEF r
    <3>12. ASSUME NEW i \in 1..(n + 1), NEW j \in 1..(n + 1), i < j PROVE r[i] < r[j]
      <4>1. i \in 1..n
        BY <3>1, <3>12
      <4>2. CASE j \in 1..n
        BY <3>7, <3>8, <3>12, <4>1, <4>2
      <4>3. CASE j = n + 1
        BY <3>8, <3>9, <4>1, <4>3
      <4> QED BY <3>10, <4>2, <4>3
    <3>13. ASSUME NEW o \in D PROVE \E i \in 1..(n + 1) : r[i] = o
      <4>1. CASE o = m
        BY <3>9, <4>1
      <4>2. CASE o # m
        BY <3>7, <3>8, <4>2
      <4> QED BY <4>1, <4>2
    <3>14. r \in KeyOrder(D)
      BY <3>1, <3>11, <3>12, <3>13 DEF KeyOrder
    <3> QED BY <3>14
  <2>2. n + 1 \in Nat
    OBVIOUS
  <2> HIDE DEF Sized
  <2> QED BY <2>1, <2>2
<1>3. P = Nat
  <2> HIDE DEF P
  <2>1. P \in SUBSET Nat
    BY DEF P
  <2> QED BY <1>1, <1>2, <2>1, Induction
<1>4. Cardinality(C) \in P /\ C \in Sized(Cardinality(C))
  <2> HIDE DEF P
  <2> QED BY <1>3, FS_CardinalityType
<1> HIDE DEF Sized
<1> QED BY <1>4

(* And in one way only. *)
LEMMA KeyOrderUnique ==
    ASSUME NEW C \in SUBSET Int, IsFiniteSet(C),
           NEW q \in KeyOrder(C), NEW r \in KeyOrder(C)
    PROVE  q = r
<1> DEFINE n == Cardinality(C)
           Differ == {i \in 1..n : q[i] # r[i]}
           Sorted(f) == /\ f \in [1..n -> C]
                        /\ \A i, j \in 1..n : i < j => f[i] < f[j]
                        /\ \A o \in C : \E i \in 1..n : f[i] = o
<1>1. n \in Nat /\ Sorted(q) /\ Sorted(r)
  BY FS_CardinalityType DEF KeyOrder
<1>2. ASSUME NEW f, NEW g, Sorted(f), Sorted(g), NEW i \in 1..n,
             \A j \in 1..n : j < i => f[j] = g[j]
      PROVE  ~(f[i] < g[i])
  <2> SUFFICES ASSUME f[i] < g[i] PROVE FALSE
    OBVIOUS
  <2>1. PICK j \in 1..n : g[j] = f[i]
    BY <1>2
  <2>2. \A k \in 1..n : f[k] \in Int /\ g[k] \in Int
    BY <1>2
  <2>3. CASE j < i
    <3>1. f[j] = g[j] /\ f[j] < f[i]
      BY <1>2, <2>3
    <3> QED BY <2>1, <2>2, <3>1
  <2>4. CASE j = i
    BY <2>1, <2>2, <2>4
  <2>5. CASE i < j
    <3>1. g[i] < g[j]
      BY <1>2, <2>5
    <3> QED BY <2>1, <2>2, <3>1
  <2> QED BY <1>1, <2>3, <2>4, <2>5
<1>3. Differ = {}
  <2> SUFFICES ASSUME Differ # {} PROVE FALSE
    OBVIOUS
  <2>1. Differ \in SUBSET Nat
    BY <1>1
  <2>2. PICK i \in Differ : \A j \in Differ : i <= j
    <3> HIDE DEF Differ
    <3> QED BY <2>1, LeastNumber
  <2>3. i \in 1..n /\ q[i] # r[i]
    BY <2>2
  <2>4. \A j \in 1..n : j < i => q[j] = r[j]
    BY <1>1, <2>2
  <2>5. q[i] \in Int /\ r[i] \in Int
    BY <1>1, <2>3
  <2>6. ~(q[i] < r[i]) /\ ~(r[i] < q[i])
    <3> HIDE DEF Sorted, Differ
    <3> QED BY <1>1, <1>2, <2>3, <2>4
  <2> QED BY <2>3, <2>5, <2>6
<1> QED BY <1>1, <1>3

(* A view queues its differences in one way. *)
LEMMA OneQueue ==
    ASSUME NEW u \in Views
    PROVE  \E q : Queues(u) = {q}
<1> DEFINE news(k) == pending \o [i \in DOMAIN k |-> [order |-> k[i], value |-> u[k[i]]]]
<1>1. Changed(u) \in SUBSET Int /\ IsFiniteSet(Changed(u))
  <2>1. Changed(u) \subseteq Orders
    BY DEF Changed, Tracked
  <2> QED BY <2>1, OrdersAssumption, FS_Subset
<1>2. PICK k \in KeyOrder(Changed(u)) : TRUE
  BY <1>1, KeyOrderExists
<1>3. KeyOrder(Changed(u)) = {k}
  BY <1>1, <1>2, KeyOrderUnique
<1>4. Queues(u) = {news(x) : x \in KeyOrder(Changed(u))}
  BY DEF Queues
<1> HIDE DEF news
<1>5. Queues(u) = {news(k)}
  BY <1>3, <1>4
<1> QED BY <1>5

(* A listing that arrived leads to one view and one queue. *)
ListingDetermines ==
    reply.kind = "rows" =>
        \E u \in Views :
            /\ Collected(reply.rows, u)
            /\ \A w \in Views : Collected(reply.rows, w) => w = u
            /\ \E q : Queues(u) = {q}

(* Whatever the provider lists, in whatever order and however often it       *)
(* repeats an order, what record_snapshot makes of it is determined by the   *)
(* listing and by what was known before: a next() that got an answer is      *)
(* never without a step to take, and either observes or meets the limit.     *)
THEOREM SnapshotDetermined == Spec => []ListingDetermines
<1>1. TypeOK => ListingDetermines
  <2> SUFFICES ASSUME TypeOK, reply.kind = "rows" PROVE ListingDetermines
    BY DEF ListingDetermines
  <2>1. reply \in [kind : {"rows"}, rows : Listings]
    BY DEF TypeOK, Replies, NoReply
  <2>2. reply.rows \in Listings
    BY <2>1
  <2> QED BY <2>2, CollectedOnce, OneQueue DEF ListingDetermines
<1> QED BY <1>1, TypeCorrect, PTL
=============================================================================
