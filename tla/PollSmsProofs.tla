---------------------------- MODULE PollSmsProofs ----------------------------
(***************************************************************************)
(* Proofs about waiting for an SMS, for every interval, jitter ratio,      *)
(* deadline and Retry-After.  WaitInv adds to the invariants what carries  *)
(* them across an await: the sleep that is on ends no earlier than the     *)
(* Retry-After allows, what is remembered is the last pending snapshot,    *)
(* and an answer in flight is still true of the order when it is read.     *)
(*                                                                         *)
(* BackoffInv says where the interval and the clock stand in the backoff.  *)
(* IntervalAfter and Earliest are recursive in the checks, so the section  *)
(* on induction shows first that such sequences exist.                     *)
(***************************************************************************)
EXTENDS PollSms, WellFoundedInduction, TLAPS

(* The sleep lasts until the Retry-After or the deadline. *)
SleepRespects ==
    /\ pc \in {"preflight", "check"} => now >= notBefore
    /\ pc = "sleep" => wakeAt >= notBefore \/ wakeAt = Deadline

(* What an answer says of the order was so when it was given, and stays so.  *)
ReplyIsReal ==
    reply.kind = "document" =>
        /\ SmsCheck(reply.document) = "received" => order = "received"
        /\ SmsCheck(reply.document) = "terminated" /\ ~Prose => order = "terminated"

(* Nothing is returned before the workflow is done. *)
NothingReturned == pc # "done" => result = NoResult

WaitInv ==
    /\ TypeOK
    /\ SleepRespects
    /\ lastObserved = latest
    /\ LatestObservationKept
    /\ ReplyIsReal
    /\ NothingReturned
    /\ ResultIsReal

-----------------------------------------------------------------------------
(* The delay policy. *)

(* The interval stays between the base and the maximum. *)
LEMMA IntervalStays ==
    ASSUME NEW d \in BaseInterval..MaxInterval
    PROVE  AdvanceInterval(d) \in BaseInterval..MaxInterval
BY OptionsAssumption DEF ValidOptions, AdvanceInterval, AtMost

(* A delay is a duration, and never less than the Retry-After. *)
LEMMA DelayIsFloored ==
    ASSUME NEW d \in BaseInterval..MaxInterval, NEW r \in RetryAfters \cup {NULL},
           NEW x \in PollingDelay(d, r)
    PROVE  x \in Nat /\ (r # NULL => x >= r)
<1> DEFINE floor == IF r = NULL THEN 0 ELSE r
<1>1. d \in Nat /\ floor \in Nat /\ MaxInterval \in Nat
  BY OptionsAssumption, RetryAfterAssumption DEF ValidOptions
<1>2. PICK y \in Jitter(AtLeast(d, floor)) :
         x = IF r = NULL THEN AtMost(y, MaxInterval) ELSE AtLeast(y, floor)
  BY DEF PollingDelay
<1>3. y \in Nat
  BY <1>1, <1>2 DEF Jitter, AtLeast
<1> QED BY <1>1, <1>2, <1>3 DEF AtMost, AtLeast

(* A sleep is typed and lasts until the Retry-After or the deadline. *)
LEMMA SleepLasts ==
    ASSUME TypeOK, NEW r \in RetryAfters \cup {NULL}, Sleep(r)
    PROVE  /\ interval' \in BaseInterval..MaxInterval
           /\ wakeAt' \in 0..Deadline
           /\ pc' = "sleep"
           /\ wakeAt' >= now \/ wakeAt' = Deadline
           /\ r # NULL => wakeAt' >= now + r \/ wakeAt' = Deadline
<1>1. interval \in BaseInterval..MaxInterval /\ now \in 0..Deadline /\ Deadline \in Nat
  BY DeadlineAssumption DEF TypeOK
<1>2. PICK x \in PollingDelay(interval, r) : wakeAt' = AtMost(now + x, Deadline)
  BY DEF Sleep
<1>3. x \in Nat /\ (r # NULL => x >= r /\ r \in Nat)
  BY <1>1, <1>2, DelayIsFloored, RetryAfterAssumption
<1> QED BY <1>1, <1>2, <1>3, IntervalStays DEF Sleep, AtMost

(* The verdict on a document is one of four. *)
LEMMA Verdicts ==
    ASSUME NEW d \in CheckDocument
    PROVE  /\ SmsCheck(d) \in {"malformed", "received", "terminated", "pending"}
           /\ TextShown(d) \in {"none", "short", "full"}
           /\ SmsCheck(d) = "received" => HasText(d) /\ TextShown(d) # "none"
           /\ SmsCheck(d) = "terminated" => Readable(d) /\ ~HasText(d) /\ d.message
BY DEF SmsCheck, TextShown, HasText

(* What the provider answers is true when it answers. *)
LEMMA AnswersAreReal ==
    ASSUME NEW s \in {"pending", "received", "terminated"},
           NEW d \in CheckDocuments(s, Prose)
    PROVE  /\ d \in CheckDocument
           /\ SmsCheck(d) = "received" => s = "received"
           /\ SmsCheck(d) = "terminated" /\ ~Prose => s = "terminated"
BY Verdicts DEF CheckDocuments

-----------------------------------------------------------------------------
(* A call of wait_for_sms starts in WaitInv. *)
LEMMA WaitInit == Init => WaitInv
<1> SUFFICES ASSUME Init PROVE WaitInv
  OBVIOUS
<1>1. TypeOK
  <2>1. NoReply \in Replies /\ NoResult \in Results
    BY DEF NoReply, Replies, NoResult, Results
  <2>2. BaseInterval \in BaseInterval..MaxInterval
    BY OptionsAssumption DEF ValidOptions
  <2>3. now \in 0..Deadline /\ 0 \in 0..Deadline
    BY DeadlineAssumption DEF Init
  <2> QED BY <2>1, <2>2, <2>3 DEF Init, TypeOK
<1>2. SleepRespects /\ lastObserved = latest
  BY DEF Init, SleepRespects
<1>3. LatestObservationKept /\ ReplyIsReal /\ NothingReturned /\ ResultIsReal
  BY DEF Init, LatestObservationKept, ReplyIsReal, NothingReturned, ResultIsReal,
         NoReply, NoResult
<1> QED BY <1>1, <1>2, <1>3 DEF WaitInv

(* What is returned is a result. *)
LEMMA ReturnTyped ==
    ASSUME NEW k \in {"received", "terminated", "client", "deadline", "cancelled"},
           NEW l \in Nat \cup {NULL}, NEW c \in {"none", "short", "full"},
           Return(k, l, c)
    PROVE  /\ result' \in Results /\ pc' = "done"
           /\ result'.kind = k /\ result'.last = l /\ result'.code = c
BY DEF Return, Results

(* An answer in flight is a document, a failure or a 429. *)
LEMMA ReplyKinds ==
    ASSUME TypeOK
    PROVE  /\ reply.kind = "document" => reply.document \in CheckDocument
           /\ reply.kind = "limited" => reply.after \in RetryAfters \cup {NULL}
           /\ NoReply \in Replies /\ NoReply.kind = "none"
BY DEF TypeOK, Replies, NoReply

(* Every way out of the workflow. *)
LEMMA EndStep ==
    ASSUME WaitInv, Stop \/ Settled \/ Fail
    PROVE  WaitInv'
<1>1. TypeOK /\ lastObserved \in Nat \cup {NULL} /\ lastObserved = latest
  BY DEF WaitInv, TypeOK
<1>2. /\ reply' = NoReply
      /\ UNCHANGED <<now, cancelled, order, interval, wakeAt, lastObserved, checks,
                     latest, notBefore>>
  BY DEF Stop, Settled, Fail
<1>3. /\ result' \in Results /\ pc' = "done"
      /\ result'.kind \in {"deadline", "cancelled"} => result'.last = latest
      /\ result'.kind = "received" \/ result'.code # "none" => order = "received"
      /\ result'.kind = "received" => result'.code # "none"
      /\ result'.kind = "terminated" /\ ~Prose => order = "terminated"
  <2>1. CASE Stop
    BY <1>1, <2>1, ReturnTyped DEF Stop
  <2>2. CASE Fail
    BY <2>2, NullAssumption, ReturnTyped DEF Fail
  <2>3. CASE Settled
    <3> DEFINE d == reply.document
               k == SmsCheck(d)
               c == IF k = "received" THEN TextShown(d) ELSE "none"
    <3>1. /\ reply.kind = "document" /\ d \in CheckDocument
          /\ k \in {"received", "terminated"} /\ Return(k, NULL, c)
      BY <1>1, <2>3, ReplyKinds DEF Settled
    <3>2. c \in {"none", "short", "full"} /\ (c # "none" <=> k = "received")
      BY <3>1, Verdicts
    <3>3. /\ k = "received" => order = "received"
          /\ k = "terminated" /\ ~Prose => order = "terminated"
      BY <3>1 DEF WaitInv, ReplyIsReal
    <3>4. /\ result' \in Results /\ pc' = "done"
          /\ result'.kind = k /\ result'.last = NULL /\ result'.code = c
      <4> HIDE DEF k, c
      <4> QED BY <3>1, <3>2, ReturnTyped
    <3> QED BY <3>1, <3>2, <3>3, <3>4
  <2> QED BY <2>1, <2>2, <2>3
<1>4. TypeOK'
  BY <1>1, <1>2, <1>3, ReplyKinds DEF TypeOK
<1>5. SleepRespects' /\ ReplyIsReal' /\ NothingReturned'
  BY <1>2, <1>3 DEF SleepRespects, ReplyIsReal, NothingReturned, NoReply
<1>6. (lastObserved = latest)' /\ LatestObservationKept' /\ ResultIsReal'
  BY <1>1, <1>2, <1>3 DEF LatestObservationKept, ResultIsReal
<1> QED BY <1>4, <1>5, <1>6 DEF WaitInv

(* The answers after which the workflow goes to sleep. *)
LEMMA SleepStep ==
    ASSUME WaitInv, StillPending \/ RateLimited
    PROVE  WaitInv'
<1>1. /\ TypeOK /\ lastObserved = latest /\ result = NoResult
      /\ pc = "check" /\ now >= notBefore /\ now \in Nat /\ notBefore \in Nat
      /\ checks \in Nat
  BY DEF WaitInv, TypeOK, StillPending, RateLimited, Answered, SleepRespects,
         NothingReturned
<1>2. /\ reply' = NoReply
      /\ UNCHANGED <<now, cancelled, order, result, checks>>
      /\ lastObserved' = latest' /\ lastObserved' \in Nat \cup {NULL}
  BY <1>1 DEF StillPending, RateLimited, TypeOK
<1>3. /\ interval' \in BaseInterval..MaxInterval
      /\ wakeAt' \in 0..Deadline
      /\ pc' = "sleep"
      /\ notBefore' \in Nat
      /\ wakeAt' >= notBefore' \/ wakeAt' = Deadline
  <2>1. CASE StillPending
    <3>1. Sleep(NULL) /\ notBefore' = notBefore
      BY <2>1 DEF StillPending
    <3>2. /\ interval' \in BaseInterval..MaxInterval /\ wakeAt' \in 0..Deadline
          /\ pc' = "sleep" /\ (wakeAt' >= now \/ wakeAt' = Deadline)
      BY <1>1, <3>1, SleepLasts
    <3> QED BY <1>1, <3>1, <3>2
  <2>2. CASE RateLimited
    <3> DEFINE r == reply.after
    <3>1. /\ r \in RetryAfters \cup {NULL} /\ Sleep(r)
          /\ notBefore' = IF r = NULL THEN now ELSE now + r
      BY <1>1, <2>2, ReplyKinds DEF RateLimited
    <3>2. /\ interval' \in BaseInterval..MaxInterval /\ wakeAt' \in 0..Deadline
          /\ pc' = "sleep" /\ (wakeAt' >= now \/ wakeAt' = Deadline)
          /\ r # NULL => wakeAt' >= now + r \/ wakeAt' = Deadline
      <4> HIDE DEF r
      <4> QED BY <1>1, <3>1, SleepLasts
    <3>3. r # NULL => r \in Nat
      BY <3>1, RetryAfterAssumption
    <3>4. CASE r = NULL
      BY <1>1, <3>1, <3>2, <3>4
    <3>5. CASE r # NULL
      <4>1. notBefore' = now + r /\ now + r \in Nat
        BY <1>1, <3>1, <3>3, <3>5
      <4> QED BY <3>2, <3>5, <4>1
    <3> QED BY <3>4, <3>5
  <2> QED BY <2>1, <2>2
<1>4. TypeOK'
  BY <1>1, <1>2, <1>3, ReplyKinds DEF TypeOK
<1>5. SleepRespects' /\ ReplyIsReal' /\ NothingReturned'
  BY <1>1, <1>2, <1>3 DEF SleepRespects, ReplyIsReal, NothingReturned, NoReply
<1>6. LatestObservationKept' /\ ResultIsReal'
  BY <1>1, <1>2 DEF LatestObservationKept, ResultIsReal, NoResult
<1> QED BY <1>2, <1>4, <1>5, <1>6 DEF WaitInv

(* The order settles at the provider once, so an answer stays true. *)
LEMMA OutsideStep ==
    ASSUME WaitInv, Answer \/ Decide \/ Cancel \/ Tick
    PROVE  WaitInv'
<1>1. TypeOK
  BY DEF WaitInv
<1>2. UNCHANGED <<pc, interval, wakeAt, lastObserved, result, checks, latest,
                  notBefore>>
  BY DEF Answer, Decide, Cancel, Tick
<1>3. CASE Answer
  <2>1. /\ UNCHANGED <<now, cancelled, order>>
        /\ \/ reply' \in {r \in Replies : r.kind \in {"failed", "limited"}}
           \/ \E d \in CheckDocuments(order, Prose) :
                 reply' = [kind |-> "document", document |-> d]
    BY <1>3 DEF Answer
  <2>2. reply' \in Replies /\ ReplyIsReal'
    <3>1. order \in {"pending", "received", "terminated"}
      BY <1>1 DEF TypeOK
    <3>2. CASE reply' \in {r \in Replies : r.kind \in {"failed", "limited"}}
      BY <3>2 DEF ReplyIsReal
    <3>3. ASSUME NEW d \in CheckDocuments(order, Prose),
                 reply' = [kind |-> "document", document |-> d]
          PROVE  reply' \in Replies /\ ReplyIsReal'
      <4>1. /\ d \in CheckDocument
            /\ SmsCheck(d) = "received" => order = "received"
            /\ SmsCheck(d) = "terminated" /\ ~Prose => order = "terminated"
        BY <3>1, AnswersAreReal
      <4> QED BY <2>1, <3>3, <4>1 DEF Replies, ReplyIsReal
    <3> QED BY <2>1, <3>2, <3>3
  <2> QED
    BY <1>2, <2>1, <2>2 DEF WaitInv, TypeOK, SleepRespects, LatestObservationKept,
                            NothingReturned, ResultIsReal
<1>4. CASE Decide
  <2>1. /\ UNCHANGED <<now, cancelled, reply>> /\ order = "pending"
        /\ order' \in {"received", "terminated"}
    BY <1>4 DEF Decide
  <2>2. ReplyIsReal' /\ ResultIsReal'
    BY <1>2, <2>1 DEF WaitInv, ReplyIsReal, ResultIsReal
  <2> QED
    BY <1>2, <2>1, <2>2 DEF WaitInv, TypeOK, SleepRespects, LatestObservationKept,
                            NothingReturned
<1>5. CASE Cancel
  BY <1>2, <1>5 DEF Cancel, WaitInv, TypeOK, SleepRespects, LatestObservationKept,
                    ReplyIsReal, NothingReturned, ResultIsReal
<1>6. CASE Tick
  <2>1. /\ UNCHANGED <<cancelled, order, reply>> /\ now' = now + 1 /\ ~(now >= Deadline)
    BY <1>6 DEF Tick, Quiet, Stopped
  <2>2. now \in Nat /\ now' \in 0..Deadline /\ now' >= now /\ notBefore \in Nat
    BY <1>1, <2>1, DeadlineAssumption DEF TypeOK
  <2>3. SleepRespects'
    BY <1>2, <2>2 DEF WaitInv, SleepRespects
  <2> QED
    BY <1>2, <2>1, <2>2, <2>3 DEF WaitInv, TypeOK, LatestObservationKept,
                            ReplyIsReal, NothingReturned, ResultIsReal
<1> QED BY <1>3, <1>4, <1>5, <1>6

(* Every step keeps WaitInv. *)
LEMMA WaitStep == WaitInv /\ [Next]_vars => WaitInv'
<1> SUFFICES ASSUME WaitInv, [Next]_vars PROVE WaitInv'
  OBVIOUS
<1>1. CASE Check
  <2>1. /\ UNCHANGED <<now, cancelled, order, reply, interval, wakeAt, lastObserved,
                       result, latest, notBefore>>
        /\ pc = "preflight" /\ pc' = "check" /\ checks' = checks + 1
    BY <1>1 DEF Check
  <2> QED
    BY <2>1 DEF WaitInv, TypeOK, SleepRespects, LatestObservationKept, ReplyIsReal,
                NothingReturned, ResultIsReal
<1>2. CASE Wake
  <2>1. /\ UNCHANGED <<now, cancelled, order, reply, interval, wakeAt, lastObserved,
                       result, checks, latest, notBefore>>
        /\ pc = "sleep" /\ pc' = "preflight" /\ ~(now >= Deadline) /\ now >= wakeAt
    BY <1>2 DEF Wake, Stopped
  <2>2. now \in Nat /\ Deadline \in Nat /\ wakeAt \in Nat /\ notBefore \in Nat
    BY DeadlineAssumption DEF WaitInv, TypeOK
  <2>3. SleepRespects'
    BY <2>1, <2>2 DEF WaitInv, SleepRespects
  <2> QED
    BY <2>1, <2>3 DEF WaitInv, TypeOK, LatestObservationKept, ReplyIsReal,
                      NothingReturned, ResultIsReal
<1>3. CASE UNCHANGED vars
  BY <1>3 DEF vars, WaitInv, TypeOK, SleepRespects, LatestObservationKept, ReplyIsReal,
              NothingReturned, ResultIsReal
<1> QED
  BY <1>1, <1>2, <1>3, EndStep, SleepStep, OutsideStep DEF Next, Progress

(* WaitInv holds in every reachable state. *)
LEMMA Invariance == Spec => []WaitInv
BY WaitInit, WaitStep, PTL DEF Spec

-----------------------------------------------------------------------------
(* Induction and recursion over the natural numbers.  A set takes the place  *)
(* of the predicate, and a function value that of the recursive step.        *)

(* Every nonempty set of numbers has a least one. *)
LEMMA LeastNumber ==
    ASSUME NEW S \in SUBSET Nat, S # {}
    PROVE  \E m \in S : \A n \in S : m <= n
<1> DEFINE R == {p \in Nat \X Nat : p[1] < p[2]}
<1>1. IsWellFoundedOn(R, Nat)
  BY NatLessThanWellFounded, Zenon DEF OpToRel
<1>2. PICK m \in S : \A n \in S : <<n, m>> \notin R
  <2> HIDE DEF R
  <2> QED BY <1>1, WFMin, Zenon
<1>3. \A n \in S : ~(n < m)
  BY <1>2
<1> QED BY <1>3

(* A set of numbers that holds 0 and every successor is Nat. *)
LEMMA Induction ==
    ASSUME NEW P \in SUBSET Nat, 0 \in P, \A n \in P : n + 1 \in P
    PROVE  P = Nat
<1> SUFFICES ASSUME Nat \ P # {} PROVE FALSE
  OBVIOUS
<1>1. PICK m \in Nat \ P : \A n \in Nat \ P : m <= n
  <2>1. Nat \ P \in SUBSET Nat
    OBVIOUS
  <2> QED BY <2>1, LeastNumber, Zenon
<1>2. m # 0 /\ m - 1 \in Nat /\ m - 1 \in P
  BY <1>1
<1>3. (m - 1) + 1 = m
  BY <1>2
<1> QED BY <1>1, <1>2, <1>3

(* f solves the recursion up to n. *)
Solves(f, n, a, h) ==
    /\ f \in [0..n -> Nat]
    /\ f[0] = a
    /\ \A k \in 0..(n - 1) : f[k + 1] = h[<<k, f[k]>>]

(* f is the sequence from a in which h gives the successor of each place. *)
Recurs(f, a, h) ==
    f \in [Nat -> Nat] /\ f[0] = a /\ \A n \in Nat : f[n + 1] = h[<<n, f[n]>>]

(* A solution up to m extends by one place. *)
LEMMA SolutionExtends ==
    ASSUME NEW a \in Nat, NEW h \in [Nat \X Nat -> Nat],
           NEW m \in Nat, NEW f, Solves(f, m, a, h)
    PROVE  \E g : Solves(g, m + 1, a, h)
<1>1. f[m] \in Nat /\ h[<<m, f[m]>>] \in Nat /\ m # m + 1
  BY DEF Solves
<1> DEFINE g == [k \in 0..(m + 1) |-> IF k = m + 1 THEN h[<<m, f[m]>>] ELSE f[k]]
<1>2. \A k \in 0..m : g[k] = f[k] /\ g[k] \in Nat
  BY DEF Solves
<1>3. g[m + 1] = h[<<m, f[m]>>]
  OBVIOUS
<1>4. g \in [0..(m + 1) -> Nat]
  <2>1. \A k \in 0..(m + 1) : g[k] \in Nat
    <3>1. \A k \in 0..(m + 1) : k = m + 1 \/ k \in 0..m
      OBVIOUS
    <3> QED BY <1>1, <1>2, <1>3, <3>1
  <2> QED BY <2>1
<1> HIDE DEF g
<1>5. ASSUME NEW k \in 0..((m + 1) - 1) PROVE g[k + 1] = h[<<k, g[k]>>]
  <2>1. k \in 0..m /\ g[k] = f[k]
    BY <1>2
  <2>2. CASE k = m
    BY <1>3, <2>1, <2>2
  <2>3. CASE k # m
    <3>1. k \in 0..(m - 1) /\ k + 1 \in 0..m
      BY <2>1, <2>3
    <3> QED BY <1>2, <2>1, <3>1 DEF Solves
  <2> QED BY <2>2, <2>3
<1>6. g[0] = a
  BY <1>2 DEF Solves
<1> QED BY <1>4, <1>5, <1>6 DEF Solves

(* There is a solution up to every n. *)
LEMMA SolutionExists ==
    ASSUME NEW a \in Nat, NEW h \in [Nat \X Nat -> Nat], NEW n \in Nat
    PROVE  \E f : Solves(f, n, a, h)
<1> DEFINE P == {m \in Nat : \E f : Solves(f, m, a, h)}
<1>1. 0 \in P
  <2>1. Solves([k \in 0..0 |-> a], 0, a, h)
    BY DEF Solves
  <2> QED BY <2>1
<1>2. \A m \in P : m + 1 \in P
  BY SolutionExtends
<1>3. P = Nat
  <2>1. P \in SUBSET Nat
    OBVIOUS
  <2> HIDE DEF P
  <2> QED BY <1>1, <1>2, <2>1, Induction
<1> QED BY <1>3

(* Two solutions agree as far as both go. *)
LEMMA SolutionsAgree ==
    ASSUME NEW a, NEW h,
           NEW m \in Nat, NEW n \in Nat, NEW f, NEW g,
           Solves(f, m, a, h), Solves(g, n, a, h)
    PROVE  \A k \in Nat : k <= m /\ k <= n => f[k] = g[k]
<1> DEFINE P == {k \in Nat : k <= m /\ k <= n => f[k] = g[k]}
<1>1. 0 \in P
  BY DEF Solves
<1>2. ASSUME NEW k \in Nat, k \in P PROVE k + 1 \in P
  <2>1. ASSUME k + 1 <= m, k + 1 <= n PROVE f[k + 1] = g[k + 1]
    <3>1. k \in 0..(m - 1) /\ k \in 0..(n - 1) /\ f[k] = g[k]
      BY <1>2, <2>1
    <3> QED BY <3>1 DEF Solves
  <2> QED BY <2>1
<1>3. P = Nat
  <2>1. P \in SUBSET Nat
    OBVIOUS
  <2> HIDE DEF P
  <2> QED BY <1>1, <1>2, <2>1, Induction
<1> QED BY <1>3

(* The sequence exists. *)
LEMMA Recursion ==
    ASSUME NEW a \in Nat, NEW h \in [Nat \X Nat -> Nat]
    PROVE  \E f : Recurs(f, a, h)
<1> DEFINE F(n) == CHOOSE f : Solves(f, n, a, h)
           G == [n \in Nat |-> F(n)[n]]
<1>1. \A n \in Nat : Solves(F(n), n, a, h)
  BY SolutionExists
<1> HIDE DEF F
<1>2. \A n \in Nat : F(n + 1)[n] = F(n)[n]
  <2> TAKE n \in Nat
  <2>1. Solves(F(n), n, a, h) /\ Solves(F(n + 1), n + 1, a, h)
    BY <1>1
  <2>2. n + 1 \in Nat /\ n <= n /\ n <= n + 1
    OBVIOUS
  <2>3. \A k \in Nat : k <= n /\ k <= n + 1 => F(n)[k] = F(n + 1)[k]
    <3> DEFINE u == F(n)
               v == F(n + 1)
    <3>1. Solves(u, n, a, h) /\ Solves(v, n + 1, a, h)
      BY <2>1
    <3> HIDE DEF u, v
    <3>2. \A k \in Nat : k <= n /\ k <= n + 1 => u[k] = v[k]
      BY <2>2, <3>1, SolutionsAgree
    <3> QED BY <3>2 DEF u, v
  <2> QED BY <2>2, <2>3
<1>3. \A n \in Nat : F(n)[n] \in Nat
  BY <1>1 DEF Solves
<1>4. F(0)[0] = a
  BY <1>1 DEF Solves
<1>5. \A n \in Nat : F(n + 1)[n + 1] = h[<<n, F(n)[n]>>]
  <2> TAKE n \in Nat
  <2>1. Solves(F(n + 1), n + 1, a, h)
    BY <1>1
  <2>2. F(n + 1)[n + 1] = h[<<n, F(n + 1)[n]>>]
    BY <2>1 DEF Solves
  <2> QED BY <1>2, <2>2
<1>6. G \in [Nat -> Nat] /\ G[0] = a /\ \A n \in Nat : G[n + 1] = h[<<n, G[n]>>]
  BY <1>3, <1>4, <1>5
<1> QED BY <1>6 DEF Recurs

-----------------------------------------------------------------------------
(* The backoff. *)

(* The interval after a check, from that after the check before. *)
LEMMA IntervalUnfolds ==
    \A k \in Nat : IntervalAfter[k] = IF k <= 1 THEN BaseInterval
                                      ELSE AtMost(2 * IntervalAfter[k - 1], MaxInterval)
<1> DEFINE h == [p \in Nat \X Nat |-> IF p[1] = 0 THEN BaseInterval ELSE AtMost(2 * p[2], MaxInterval)]
           body(f, k) == IF k <= 1 THEN BaseInterval ELSE AtMost(2 * f[k - 1], MaxInterval)
<1>1. h \in [Nat \X Nat -> Nat] /\ BaseInterval \in Nat
  BY OptionsAssumption DEF ValidOptions, AtMost
<1>2. PICK f : Recurs(f, BaseInterval, h)
  <2> HIDE DEF h, body
  <2> QED BY <1>1, Recursion
<1>3. ASSUME NEW k \in Nat PROVE f[k] = body(f, k)
  <2>1. CASE k = 0
    <3>1. f[0] = body(f, 0)
      <4> HIDE DEF h
      <4> QED BY <1>2 DEF Recurs
    <3> QED BY <2>1, <3>1
  <2>2. CASE k # 0
    <3>1. k - 1 \in Nat /\ (k - 1) + 1 = k
      BY <2>2
    <3>2. f[k - 1] \in Nat /\ f[k] = h[<<k - 1, f[k - 1]>>]
      <4> HIDE DEF h
      <4> QED BY <1>2, <3>1 DEF Recurs
    <3> QED BY <2>2, <3>1, <3>2
  <2> QED BY <2>1, <2>2
<1>4. f = [k \in Nat |-> body(f, k)]
  BY <1>2, <1>3 DEF Recurs
<1>5. IntervalAfter = [k \in Nat |-> body(IntervalAfter, k)]
  BY <1>4, Zenon DEF IntervalAfter
<1> QED BY <1>5

(* The doubling interval stays between the base and the maximum. *)
LEMMA IntervalTyped == \A k \in Nat : IntervalAfter[k] \in BaseInterval..MaxInterval
<1> DEFINE P == {k \in Nat : IntervalAfter[k] \in BaseInterval..MaxInterval}
<1>1. 0 \in P
  BY OptionsAssumption, IntervalUnfolds DEF ValidOptions
<1>2. ASSUME NEW k \in P PROVE k + 1 \in P
  <2>1. k + 1 \in Nat /\ (k + 1) - 1 = k /\ IntervalAfter[k] \in BaseInterval..MaxInterval
    OBVIOUS
  <2>2. IntervalAfter[k + 1] = IF k + 1 <= 1 THEN BaseInterval ELSE AtMost(2 * IntervalAfter[k], MaxInterval)
    BY <2>1, IntervalUnfolds
  <2> QED BY <2>1, <2>2, OptionsAssumption DEF ValidOptions, AtMost
<1>3. P = Nat
  <2>1. P \in SUBSET Nat
    OBVIOUS
  <2> HIDE DEF P
  <2> QED BY <1>1, <1>2, <2>1, Induction
<1> QED BY <1>3

(* Leaving a delay as it is lies within every jitter ratio. *)
LEMMA JitterAround == ASSUME NEW d \in Nat PROVE d \in Jitter(d) /\ Jitter(d) \in SUBSET Nat
<1>1. JitterPercent * d >= 0 /\ (100 - JitterPercent) * d = 100 * d - JitterPercent * d /\ (100 + JitterPercent) * d = 100 * d + JitterPercent * d
      /\ JitterPercent * d \in Int
  BY OptionsAssumption DEF ValidOptions
<1> DEFINE low == (100 - JitterPercent) * d
           high == (100 + JitterPercent) * d
<1>2. low \in Int /\ high \in Int /\ low <= 100 * d /\ high >= 100 * d
  BY <1>1
<1> HIDE DEF low, high
<1>3. 100 * d + 50 > low /\ 100 * d - 50 <= high /\ d \in 0..(2 * d)
  BY <1>2
<1> QED BY <1>3 DEF Jitter, low, high

(* The least jittered delay exists, and never exceeds the delay. *)
LEMMA JitterLeast == ASSUME NEW d \in Nat
  PROVE LeastJitter(d) \in Nat /\ LeastJitter(d) <= d /\ \A x \in Jitter(d) : LeastJitter(d) <= x
<1>1. d \in Jitter(d) /\ Jitter(d) \in SUBSET Nat
  BY JitterAround
<1>2. \E m \in Jitter(d) : \A n \in Jitter(d) : m <= n
  BY <1>1, LeastNumber, Zenon
<1>3. LeastJitter(d) \in Jitter(d) /\ \A n \in Jitter(d) : LeastJitter(d) <= n
  BY <1>2, Zenon DEF LeastJitter
<1> QED BY <1>1, <1>3

(* The earliest time of a check, from that of the check before. *)
LEMMA EarliestUnfolds ==
    \A k \in Nat : Earliest[k] = IF k <= 1 THEN 0
                                 ELSE Earliest[k - 1] + LeastJitter(IntervalAfter[k - 1])
<1> DEFINE h == [p \in Nat \X Nat |-> IF p[1] = 0 THEN 0
                                       ELSE p[2] + LeastJitter(IntervalAfter[p[1]])]
           body(f, k) == IF k <= 1 THEN 0 ELSE f[k - 1] + LeastJitter(IntervalAfter[k - 1])
<1>1. h \in [Nat \X Nat -> Nat]
  <2>1. \A p \in Nat \X Nat : LeastJitter(IntervalAfter[p[1]]) \in Nat
    BY OptionsAssumption, IntervalTyped, JitterLeast DEF ValidOptions
  <2> QED BY <2>1
<1>2. PICK f : Recurs(f, 0, h)
  <2> HIDE DEF h, body
  <2> QED BY <1>1, Recursion
<1>3. ASSUME NEW k \in Nat PROVE f[k] = body(f, k)
  <2>1. CASE k = 0
    <3>1. f[0] = body(f, 0)
      <4> HIDE DEF h
      <4> QED BY <1>2 DEF Recurs
    <3> QED BY <2>1, <3>1
  <2>2. CASE k # 0
    <3>1. k - 1 \in Nat /\ (k - 1) + 1 = k
      BY <2>2
    <3>2. f[k - 1] \in Nat /\ f[k] = h[<<k - 1, f[k - 1]>>]
      <4> HIDE DEF h
      <4> QED BY <1>2, <3>1 DEF Recurs
    <3> QED BY <2>2, <3>1, <3>2
  <2> QED BY <2>1, <2>2
<1>4. f = [k \in Nat |-> body(f, k)]
  BY <1>2, <1>3 DEF Recurs
<1>5. Earliest = [k \in Nat |-> body(Earliest, k)]
  BY <1>4, Zenon DEF Earliest
<1> QED BY <1>5

(* The least delay grows with the interval. *)
LEMMA LeastJitterGrows ==
    ASSUME NEW d \in Nat, NEW e \in Nat, d <= e
    PROVE  LeastJitter(d) <= LeastJitter(e)
<1> DEFINE x == LeastJitter(e)
           share == 100 - JitterPercent
<1>1. share \in Nat /\ x \in Nat /\ LeastJitter(d) \in Nat /\ LeastJitter(d) <= d
  BY OptionsAssumption, JitterLeast DEF ValidOptions
<1>2. x \in Jitter(e)
  <2>1. \E m \in Jitter(e) : \A n \in Jitter(e) : m <= n
    BY JitterAround, LeastNumber, Zenon
  <2> QED BY <2>1, Zenon DEF LeastJitter
<1>3. share * d <= share * e /\ share * d \in Int /\ share * e \in Int
  <2>1. share * (e - d) >= 0 /\ share * (e - d) = share * e - share * d
    BY <1>1
  <2>2. share * d \in Int /\ share * e \in Int
    BY <1>1
  <2> QED BY <2>1, <2>2
<1>4. 100 * x + 50 > share * d
  BY <1>1, <1>2, <1>3 DEF Jitter
<1>5. CASE x <= d
  <2>1. JitterPercent * d >= 0 /\ (100 + JitterPercent) * d = 100 * d + JitterPercent * d
        /\ JitterPercent * d \in Int
    BY OptionsAssumption DEF ValidOptions
  <2>2. x \in 0..(2 * d) /\ 100 * x - 50 <= (100 + JitterPercent) * d
    BY <1>1, <1>5, <2>1
  <2>3. x \in Jitter(d)
    BY <1>4, <2>2 DEF Jitter
  <2> QED BY <2>3, JitterLeast
<1>6. CASE x > d
  BY <1>1, <1>6
<1> QED BY <1>1, <1>5, <1>6

(* No check comes earlier than the least delays of the base interval allow.  *)
LEMMA EarliestGrows ==
    \A k \in Nat : Earliest[k] \in Nat /\ Earliest[k + 1] >= k * LeastJitter(BaseInterval)
<1> DEFINE L == LeastJitter(BaseInterval)
           P == {k \in Nat : /\ Earliest[k] \in Nat /\ Earliest[k + 1] \in Nat
                             /\ Earliest[k + 1] >= k * L}
<1>1. BaseInterval \in Nat /\ L \in Nat
  BY OptionsAssumption, JitterLeast DEF ValidOptions
<1>2. 0 \in P
  <2>1. Earliest[0] = 0 /\ Earliest[1] = 0 /\ 0 * L = 0
    BY <1>1, EarliestUnfolds
  <2> QED BY <2>1
<1>3. ASSUME NEW k \in P PROVE k + 1 \in P
  <2> DEFINE d == IntervalAfter[k + 1]
  <2>1. k \in Nat /\ Earliest[k + 1] \in Nat /\ Earliest[k + 1] >= k * L
    OBVIOUS
  <2>2. d \in BaseInterval..MaxInterval /\ d \in Nat
    BY <1>1, <2>1, OptionsAssumption, IntervalTyped DEF ValidOptions
  <2>3. LeastJitter(d) \in Nat /\ LeastJitter(d) >= L
    BY <1>1, <2>2, JitterLeast, LeastJitterGrows
  <2>4. Earliest[(k + 1) + 1] = Earliest[k + 1] + LeastJitter(d)
    <3>1. (k + 1) + 1 \in Nat /\ ((k + 1) + 1) - 1 = k + 1 /\ ~((k + 1) + 1 <= 1)
      BY <2>1
    <3> QED BY <3>1, EarliestUnfolds
  <2>5. (k + 1) * L = k * L + L /\ k * L \in Nat
    BY <1>1, <2>1
  <2> HIDE DEF L, d
  <2> QED BY <1>1, <2>1, <2>3, <2>4, <2>5
<1>4. P = Nat
  <2>1. P \in SUBSET Nat
    OBVIOUS
  <2> HIDE DEF P
  <2> QED BY <1>2, <1>3, <2>1, Induction
<1> QED BY <1>4

(* Jitter, a short Retry-After and the cap of the delay leave at least the   *)
(* least jitter of the interval.                                             *)
LEMMA DelayKeepsBackoff ==
    ASSUME NEW d \in BaseInterval..MaxInterval, NEW r \in RetryAfters \cup {NULL},
           NEW x \in PollingDelay(d, r)
    PROVE  x \in Nat /\ x >= LeastJitter(d)
<1> DEFINE floor == IF r = NULL THEN 0 ELSE r
           e == AtLeast(d, floor)
<1>1. d \in Nat /\ floor \in Nat /\ MaxInterval \in Nat /\ d <= MaxInterval
  BY OptionsAssumption, RetryAfterAssumption DEF ValidOptions
<1>2. PICK y \in Jitter(e) :
         x = IF r = NULL THEN AtMost(y, MaxInterval) ELSE AtLeast(y, floor)
  BY DEF PollingDelay
<1>3. e \in Nat /\ e >= floor /\ (e = d \/ (e = floor /\ floor > d))
  <2> HIDE DEF floor
  <2> QED BY <1>1 DEF AtLeast
<1>4. y \in Nat /\ LeastJitter(d) \in Nat /\ LeastJitter(d) <= d
  BY <1>1, <1>2, <1>3, JitterAround, JitterLeast
<1>5. CASE e = d
  <2>1. LeastJitter(d) <= y
    BY <1>1, <1>2, <1>5, JitterLeast
  <2> HIDE DEF e, floor
  <2> QED BY <1>1, <1>2, <1>4, <2>1 DEF AtMost, AtLeast
<1>6. CASE e = floor /\ floor > d
  <2>1. r # NULL
    BY <1>1, <1>6
  <2> HIDE DEF e, floor
  <2> QED BY <1>1, <1>2, <1>4, <1>6, <2>1 DEF AtLeast
<1> QED BY <1>3, <1>5, <1>6

(* Where the interval and the clock stand in the backoff: the sleep after a  *)
(* check ends no earlier than the next check is due.                         *)
BackoffInv ==
    /\ now >= Earliest[checks]
    /\ pc = "check" => checks >= 1 /\ interval = IntervalAfter[checks]
    /\ pc \in {"preflight", "sleep"} => interval = IntervalAfter[checks + 1]
    /\ pc = "preflight" => now >= Earliest[checks + 1]
    /\ pc = "sleep" => wakeAt >= Earliest[checks + 1] \/ wakeAt = Deadline

(* The first check is due at once. *)
LEMMA BackoffInit == Init => BackoffInv
<1>1. Earliest[0] = 0 /\ Earliest[0 + 1] = 0 /\ IntervalAfter[0 + 1] = BaseInterval
  BY EarliestUnfolds, IntervalUnfolds
<1> QED BY <1>1, DeadlineAssumption DEF Init, BackoffInv

(* The sleep after a check ends when the next is due, and the interval is    *)
(* then that of the next.                                                    *)
LEMMA SleepKeepsBackoff ==
    ASSUME TypeOK, BackoffInv, pc = "check",
           NEW r \in RetryAfters \cup {NULL}, Sleep(r)
    PROVE  /\ interval' = IntervalAfter[checks + 1]
           /\ wakeAt' >= Earliest[checks + 1] \/ wakeAt' = Deadline
<1>1. /\ checks \in Nat /\ now \in Nat /\ Deadline \in Nat
      /\ interval \in BaseInterval..MaxInterval /\ interval = IntervalAfter[checks]
      /\ checks + 1 \in Nat /\ (checks + 1) - 1 = checks /\ ~(checks + 1 <= 1)
  BY DeadlineAssumption DEF TypeOK, BackoffInv
<1>2. /\ IntervalAfter[checks + 1] = AtMost(2 * interval, MaxInterval)
      /\ Earliest[checks + 1] = Earliest[checks] + LeastJitter(interval)
  BY <1>1, IntervalUnfolds, EarliestUnfolds
<1>3. PICK x \in PollingDelay(interval, r) : wakeAt' = AtMost(now + x, Deadline)
  BY DEF Sleep
<1>4. x \in Nat /\ x >= LeastJitter(interval) /\ LeastJitter(interval) \in Nat
  <2>1. interval \in Nat
    BY <1>1, OptionsAssumption DEF ValidOptions
  <2> QED BY <1>1, <1>3, <2>1, DelayKeepsBackoff, JitterLeast
<1>5. Earliest[checks] \in Nat /\ Earliest[checks] <= now
  BY <1>1, EarliestGrows DEF BackoffInv
<1>6. now + x >= Earliest[checks + 1]
  BY <1>1, <1>2, <1>4, <1>5
<1> QED BY <1>1, <1>2, <1>3, <1>4, <1>6 DEF Sleep, AdvanceInterval, AtMost

(* Every step keeps BackoffInv. *)
LEMMA BackoffStep == WaitInv /\ BackoffInv /\ [Next]_vars => BackoffInv'
<1> SUFFICES ASSUME WaitInv, BackoffInv, [Next]_vars PROVE BackoffInv'
  OBVIOUS
<1>1. TypeOK /\ checks \in Nat /\ now \in Nat /\ Deadline \in Nat /\ wakeAt \in Nat
  BY DeadlineAssumption DEF WaitInv, TypeOK
<1>2. CASE Check
  BY <1>1, <1>2 DEF Check, BackoffInv
<1>3. CASE StillPending
  <2>1. Sleep(NULL) /\ pc = "check" /\ pc' = "sleep" /\ UNCHANGED <<now, checks>>
    BY <1>3 DEF StillPending, Answered, Sleep
  <2>2. /\ interval' = IntervalAfter[checks + 1]
        /\ wakeAt' >= Earliest[checks + 1] \/ wakeAt' = Deadline
    BY <1>1, <2>1, SleepKeepsBackoff
  <2> QED BY <2>1, <2>2 DEF BackoffInv
<1>4. CASE RateLimited
  <2> DEFINE r == reply.after
  <2>1. Sleep(r) /\ pc = "check" /\ pc' = "sleep" /\ UNCHANGED <<now, checks>>
    BY <1>4 DEF RateLimited, Answered, Sleep
  <2>2. r \in RetryAfters \cup {NULL}
    BY <1>1, <1>4, ReplyKinds DEF RateLimited
  <2>3. /\ interval' = IntervalAfter[checks + 1]
        /\ wakeAt' >= Earliest[checks + 1] \/ wakeAt' = Deadline
    <3> HIDE DEF r
    <3> QED BY <1>1, <2>1, <2>2, SleepKeepsBackoff
  <2> QED BY <2>1, <2>3 DEF BackoffInv
<1>5. CASE Wake
  <2>1. /\ pc = "sleep" /\ pc' = "preflight" /\ UNCHANGED <<now, interval, checks>>
        /\ now >= wakeAt /\ now < Deadline
    BY <1>1, <1>5 DEF Wake, Stopped
  <2>2. Earliest[checks + 1] \in Nat
    BY <1>1, EarliestGrows
  <2> QED BY <1>1, <2>1, <2>2 DEF BackoffInv
<1>6. CASE Stop \/ Settled \/ Fail
  BY <1>6 DEF Stop, Settled, Fail, Return, BackoffInv
<1>7. CASE Tick
  <2>1. UNCHANGED <<pc, interval, wakeAt, checks>> /\ now' = now + 1
    BY <1>7 DEF Tick
  <2>2. Earliest[checks] \in Nat /\ Earliest[checks + 1] \in Nat
    BY <1>1, EarliestGrows
  <2> QED BY <1>1, <2>1, <2>2 DEF BackoffInv
<1>8. CASE Answer \/ Decide \/ Cancel \/ UNCHANGED vars
  BY <1>8 DEF Answer, Decide, Cancel, vars, BackoffInv
<1> QED
  BY <1>2, <1>3, <1>4, <1>5, <1>6, <1>7, <1>8 DEF Next, Progress

(* BackoffInv holds in every reachable state. *)
LEMMA BackoffInvariance == Spec => []BackoffInv
BY Invariance, BackoffInit, BackoffStep, PTL DEF Spec

-----------------------------------------------------------------------------
(* Every reachable state is well typed; in particular no sleep outlasts the  *)
(* deadline and the interval never leaves its range.                         *)
THEOREM TypeCorrect == Spec => []TypeOK
<1>1. WaitInv => TypeOK
  BY DEF WaitInv
<1> QED BY Invariance, <1>1, PTL

(* No check is sent before the Retry-After of the last 429 has passed.       *)
THEOREM RetryAfterFirst == Spec => []RetryAfterRespected
<1>1. WaitInv => RetryAfterRespected
  BY DEF WaitInv, SleepRespects, RetryAfterRespected
<1> QED BY Invariance, <1>1, PTL

(* A deadline or a cancellation is reported with the last pending snapshot.  *)
THEOREM LastSnapshotReported == Spec => []LatestObservationKept
<1>1. WaitInv => LatestObservationKept
  BY DEF WaitInv
<1> QED BY Invariance, <1>1, PTL

(* A reported SMS, code or end of the order is real. *)
THEOREM ResultsAreReal == Spec => []ResultIsReal
<1>1. WaitInv => ResultIsReal
  BY DEF WaitInv
<1> QED BY Invariance, <1>1, PTL

(* No check comes before the doubling interval, shortened by all the jitter  *)
(* it may have, allows it.                                                   *)
THEOREM BackoffIsKept == Spec => []BackoffKept
<1>1. BackoffInv => BackoffKept
  BY DEF BackoffInv, BackoffKept
<1> QED BY BackoffInvariance, <1>1, PTL

(* How many checks a call can send: the least delays of the base interval    *)
(* between them must fit before the deadline, whatever the provider answers. *)
ChecksRationed ==
    checks = 0 \/ (checks - 1) * LeastJitter(BaseInterval) <= Deadline

(* A deadline bounds the number of checks. *)
THEOREM DeadlineRationsChecks == Spec => []ChecksRationed
<1>1. TypeOK /\ BackoffInv => ChecksRationed
  <2> SUFFICES ASSUME TypeOK, BackoffInv, checks # 0 PROVE ChecksRationed
    BY DEF ChecksRationed
  <2> DEFINE k == checks - 1
  <2>1. k \in Nat /\ k + 1 = checks /\ now \in Nat /\ now <= Deadline
    BY DeadlineAssumption DEF TypeOK
  <2>2. LeastJitter(BaseInterval) \in Nat
    BY OptionsAssumption, JitterLeast DEF ValidOptions
  <2>3. Earliest[k + 1] >= k * LeastJitter(BaseInterval) /\ Earliest[checks] \in Nat
    BY <2>1, EarliestGrows
  <2>4. k * LeastJitter(BaseInterval) \in Nat
    BY <2>1, <2>2
  <2> HIDE DEF k
  <2>5. k * LeastJitter(BaseInterval) <= Deadline
    BY <2>1, <2>3, <2>4, DeadlineAssumption DEF BackoffInv
  <2> QED BY <2>5 DEF ChecksRationed, k
<1> QED BY TypeCorrect, BackoffInvariance, <1>1, PTL

(* Nothing is sent or observed once the caller cancelled or the deadline has *)
(* passed.                                                                   *)
THEOREM StopsAtOnce == Spec => StopIsFinal
<1>1. ASSUME [Next]_vars, cancelled \/ now >= Deadline
      PROVE  /\ checks' = checks
             /\ result' # result => result'.kind \in {"cancelled", "deadline"}
  <2>1. Stopped
    BY <1>1 DEF Stopped
  <2>2. CASE Stop
    BY <2>2 DEF Stop, Return
  <2>3. CASE Check \/ Settled \/ Fail \/ StillPending \/ RateLimited \/ Wake
    BY <2>1, <2>3 DEF Check, Settled, Fail, StillPending, RateLimited, Wake, Answered
  <2>4. CASE Answer \/ Decide \/ Cancel \/ Tick
    BY <2>4 DEF Answer, Decide, Cancel, Tick
  <2>5. CASE UNCHANGED vars
    BY <2>5 DEF vars
  <2> QED BY <1>1, <2>2, <2>3, <2>4, <2>5 DEF Next, Progress
<1> QED BY <1>1, PTL DEF Spec, StopIsFinal
=============================================================================
